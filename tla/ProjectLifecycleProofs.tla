------------------------ MODULE ProjectLifecycleProofs ------------------------
(***************************************************************************)
(* What is proved of ProjectLifecycle.                                     *)
(***************************************************************************)
EXTENDS ProjectLifecycle, FiniteSetTheorems, WellFoundedInduction, TLAPS

-----------------------------------------------------------------------------
(* What a request or a synchronisation holds between its steps.            *)

AskFields == {"kind", "h", "p", "code", "reason", "pc", "reg", "rev", "rec", "seen", "todo", "phase",
           "plan", "work", "try"}
AskShape(o) == DOMAIN o = AskFields /\ o = [x \in AskFields |-> o[x]]

Onboards == {"onboard", "admin"}
RetirePcs == {"beginLocal", "batch", "batchWrite", "import", "importWrite", "publish", "mark",
              "unregister", "unregisterWrite"}
PublishedPcs == RetirePcs \ {"beginLocal"}
RegisterPcs == {"hub", "revision", "register", "identifiers", "registry", "rollback"}
BatchPcs == {"bootstrap", "bootstrapBatch"}
RestorePcs == {"family", "put", "evidence"}
AnswerPcs == {"verify", "ensure", "bind", "ok", "partial"}
ChangePcs == {"hubCode", "bootstrap", "bootstrapBatch", "rollbackCode", "restoreConf"}

WhoFits(i, o) ==
  /\ i \in Host => o.kind = "sync" /\ o.h = i
  /\ i \in Slot => /\ o.kind # "sync"
                   /\ o.kind = "none" => o.pc = "idle"
                   /\ o.kind # "none" => o.h \in Host /\ o.p \in Project /\ o.code \in Code
                        /\ o.reason \in STRING

KindFits(o) ==
  /\ o.pc \in {"clone", "discover", "reconcile", "restore", "verify", "ensure", "bind", "partial"}
              \cup RegisterPcs \cup RestorePcs => o.kind \in Onboards
  /\ o.pc \in BatchPcs => o.kind \in Onboards \cup {"update"}
  /\ o.pc \in {"preflight", "conf", "hubCode", "rollbackCode", "restoreConf", "mixed"} => o.kind = "update"
  /\ o.pc \in {"config", "commitConfig"} => o.kind = "config"
  /\ o.pc = "edit" => o.kind \in {"edit", "create"}
  /\ o.pc \in {"retire", "retireHub"} => o.kind = "retire"
  /\ o.pc \in RetirePcs => o.kind \in {"retire", "sync"}
  /\ o.pc \in {"snapshot", "next", "canonical", "migrate", "ready", "degraded"} => o.kind = "sync"

\* A digest is held from the read of the registry to the write.
RegFits(o) ==
  /\ o.reg = None \/ o.pc \in RegisterPcs \cup {"unregisterWrite"}
  /\ o.pc \in RegisterPcs => o.reg \in RegStore /\ o.reg.entry[o.p] = None
  /\ o.pc = "unregisterWrite" => o.reg \in RegStore /\ o.reg.entry[o.p] # None

RetireFits(o) ==
  /\ o.pc = "retireHub" => o.seen.shared \in OrNone(Markers) /\ o.seen.local \in OrNone(LocalMarkers)
  /\ o.pc \in RetirePcs => o.p \in Project /\ o.rec \in Markers
  /\ o.pc \in RetirePcs /\ o.kind = "retire" =>
       o.phase = "retire" /\ (o.pc = "beginLocal" => o.work \in {None, "import", "batch"})
  /\ o.pc \in RetirePcs /\ o.kind = "sync" =>
       /\ o.pc = "beginLocal" => \/ o.phase = "hub" /\ o.work \in {None, "import"}
                                 \/ o.phase = "local" /\ o.work = "batch"
                                 \/ o.phase = "publish" /\ o.work = None
       /\ o.pc \in {"batch", "batchWrite", "import", "importWrite"} => o.phase \in {"hub", "local"}
       /\ o.pc \in {"publish", "mark"} => o.phase = "publish"
       /\ o.pc \in {"unregister", "unregisterWrite"} => o.phase \in {"hub", "publish"}

\* What a loop of the synchronisation still has to do was listed by its store.
LoopFits(o) ==
  /\ o.pc = "snapshot" => o.phase = "hub"
  /\ o.kind = "sync" /\ o.pc \in RetirePcs \cup {"next", "canonical"} =>
       /\ o.phase \in {"hub", "local", "publish"} /\ o.todo \subseteq Project
       /\ o.phase # "local" => o.seen \in [Project -> OrNone(Markers)] /\ \A p \in o.todo : o.seen[p] # None
       /\ o.phase = "local" => \A p \in o.todo : local[o.h].marker[p] # None

EditFits(o) ==
  /\ o.pc = "commitConfig" => o.seen \in Ents /\ o.seen.rev < MaxCfg
  /\ o.pc \in BatchPcs => o.seen.cfg \in Ents
  /\ o.pc \in BatchPcs /\ o.kind # "update" => o.seen.old = o.code
  /\ o.pc \in ChangePcs \cup {"conf"} /\ o.kind = "update" =>
       o.seen.cfg \in Ents /\ o.seen.old \in Code /\ o.seen.old # o.code
  /\ o.pc \in ChangePcs /\ o.kind = "update" => o.rec \in Codes

Snapshots == [ent : [Num -> Versions], evid : SUBSET Evidence, next : Nat]
SnapFits(o) ==
  /\ o.pc \in RestorePcs => o.seen \in Snapshots
  /\ o.pc \in AnswerPcs /\ o.kind \in Onboards => o.seen \in OrNone(Snapshots)
  /\ o.pc \in {"family", "put"} => o.todo \subseteq Num
  /\ o.pc = "put" => \E n \in Num : o.plan = {n}
  /\ o.pc = "evidence" => o.todo \subseteq o.seen.evid

OpFits(i, o) ==
  /\ AskShape(o) /\ WhoFits(i, o) /\ KindFits(o) /\ RegFits(o)
  /\ RetireFits(o) /\ LoopFits(o) /\ EditFits(o) /\ SnapFits(o)

Stores ==
  /\ hub \in HubStore /\ reg \in [Host -> RegStore] /\ conf \in [Host -> ConfStore]
  /\ shared \in [Host -> SharedStore] /\ local \in [Host -> LocalStore]
  /\ worker \subseteq Host /\ mix \in Mixes

Ops == op = [i \in Proc |-> op[i]] /\ \A i \in Proc : OpFits(i, op[i])

-----------------------------------------------------------------------------
(* What relates the stores to each other and to the requests.              *)

\* A retirement takes the project and its identifiers with it.
RetiredIsGone == \A p \in Project : hub.marker[p] # None => ~hub.project[p] /\ hub.code[p] = None

\* What follows the Local marker of a retirement.
MarkedFirst == \A i \in Proc : op[i].pc \in PublishedPcs => local[op[i].h].marker[op[i].p] # None

NumbersKnown ==
  /\ \A p \in Project, n \in Num : hub.ent[p][n] # NoEnt => hub.ent[p][n].rev > 0
  /\ \A h \in Host, p \in Project :
       /\ \A e \in shared[h].evid[p] : ~Ahead(shared[h], p, e)
       /\ Unrestored(h, p) \/ \A n \in Num : shared[h].ent[p][n] # NoEnt => n < shared[h].seq[p]

RestoredTo(o, n) == o.seen.ent[n] # NoEnt => /\ o.seen.ent[n].rev > 0
                                          /\ shared[o.h].ent[o.p][n].rev >= o.seen.ent[n].rev
ProgressOf(o) ==
  /\ o.pc \in RestorePcs => \A n \in Num : o.seen.ent[n] # NoEnt => o.seen.ent[n].rev > 0
  /\ o.pc \in {"family", "put"} =>
       \A n \in Num : n \notin o.todo /\ (o.pc = "put" => n \notin o.plan) => RestoredTo(o, n)
  /\ o.pc = "evidence" =>
       /\ \A n \in Num : RestoredTo(o, n)
       /\ \A e \in o.seen.evid : e \notin o.todo => e \in shared[o.h].evid[o.p]
  /\ o.pc \in AnswerPcs /\ o.kind \in Onboards /\ o.seen # None =>
       /\ o.seen.evid \subseteq shared[o.h].evid[o.p]
       /\ \A n \in Num : o.seen.ent[n] # NoEnt => shared[o.h].ent[o.p][n].rev >= o.seen.ent[n].rev
                                                 /\ n < shared[o.h].seq[o.p]
Progress == \A i \in Slot : ProgressOf(op[i])

-----------------------------------------------------------------------------
(* What relates the code of a configured project to its updates.           *)

Updates(i, h, p) == op[i].kind = "update" /\ op[i].h = h /\ op[i].p = p
Changing(i, h, p) == Updates(i, h, p) /\ op[i].pc \in ChangePcs
Adopting(i, h, p) == op[i].kind \in Onboards /\ op[i].h = h /\ op[i].p = p
                     /\ op[i].pc \in BatchPcs \cup {"reconcile"}

\* The onboarding of a configured project finds it in the registry or stops;
\* an update finds that it is not in the registry, or stops.
Apart ==
  \A i \in Slot : op[i].p \in mix.static =>
    LET h == op[i].h  p == op[i].p IN
    /\ op[i].kind \in Onboards => op[i].pc \notin RegisterPcs
    /\ Adopting(i, h, p) =>
         /\ reg[h].entry[p] # None \/ IsProjectRetired(h, p)
         /\ \A j \in Slot : Updates(j, h, p) => op[j].pc \notin ChangePcs \cup {"conf"}
         /\ op[i].pc \in BatchPcs /\ Alone(h, p) /\ hub.project[p] => hub.code[p] = op[i].code
    /\ op[i].kind = "update" /\ op[i].pc \in ChangePcs \cup {"conf"} =>
         reg[h].entry[p] = None /\ op[i].seen.old = conf[h].mem[p]

Spoiled(h, p) ==
  \E i \in Slot :
    /\ Updates(i, h, p)
    /\ \/ op[i].pc \in {"mixed", "crashed"}
       \/ op[i].pc = "restoreConf" /\ op[i].work \in {"mixed", "pushed"}
       \/ op[i].pc = "failed" /\ op[i].work \in {"pushed", "kept"}

\* One update at a time is past the configuration file.
AlternateAt(h, p) ==
  \A i \in Slot : Changing(i, h, p) =>
    /\ conf[h].file[p] = op[i].code /\ op[i].rec[p] = op[i].seen.old
    /\ \A j \in Slot : Changing(j, h, p) => i = j
Alternate == \A h \in Host, p \in mix.static : Alone(h, p) => AlternateAt(h, p)

Agree(h, p) ==
  /\ (\A i \in Slot : ~Changing(i, h, p)) =>
       conf[h].file[p] = hub.code[p] /\ shared[h].code[p] \in {None, hub.code[p]}
  /\ \A i \in Slot : Changing(i, h, p) =>
       /\ shared[h].code[p] \in {None, op[i].seen.old}
       /\ hub.code[p] = IF op[i].pc \in {"hubCode", "restoreConf"} THEN op[i].seen.old ELSE op[i].code
       /\ op[i].pc = "bootstrapBatch" => \A r \in op[i].plan : r.code # op[i].code

KeptAt(h, p) == hub.project[p] /\ conf[h].file[p] # None => Spoiled(h, p) \/ Agree(h, p)
Kept == \A h \in Host, p \in mix.static : Alone(h, p) => KeptAt(h, p)

ProjectIInv ==
  /\ Stores /\ Ops
  /\ RetiredIsGone /\ MarkedFirst
  /\ NumbersKnown /\ Progress
  /\ Apart /\ Alternate /\ Kept

-----------------------------------------------------------------------------
(* The steps of one request.                                               *)

LEMMA NoneApart ==
  /\ None # "import" /\ None # "batch" /\ None \notin Code /\ None \notin Asks /\ None \notin LocalMarkers
BY ProjectLifecycleAssumption

LEMMA SlotOrHost == \A i \in Proc : (i \in Slot) = (i \notin Host)
BY ProjectLifecycleAssumption DEF Proc

LEMMA OpsFit == ASSUME Ops, NEW i \in Proc PROVE OpFits(i, op[i])
BY DEF Ops

\* A step replaces the record of one request.
LEMMA GoGives ==
  ASSUME Ops, NEW i \in Proc, NEW o, Go(i, o)
  PROVE  op'[i] = o /\ op' = [op EXCEPT ![i] = op'[i]] /\ \A j \in Proc : j # i => op'[j] = op[j]
BY DEF Ops, Go

\* A request that is over, or at a step that relies on nothing it has read.
PlainPcs == {"idle", "clone", "discover", "reconcile", "restore", "preflight", "config", "edit", "retire",
             "failed", "crashed", "mixed", "snapshot", "migrate", "ready", "degraded"}

LEMMA PlainFits ==
  ASSUME NEW i, NEW o, AskShape(o), WhoFits(i, o), KindFits(o), o.reg = None, o.pc \in PlainPcs,
         o.pc = "snapshot" => o.phase = "hub"
  PROVE  OpFits(i, o)
<1>1. RegFits(o)
  BY DEF RegFits, RegisterPcs, PlainPcs
<1>2. RetireFits(o)
  BY DEF RetireFits, RetirePcs, PlainPcs
<1>3. LoopFits(o)
  BY DEF LoopFits, RetirePcs, PlainPcs
<1>4. EditFits(o)
  BY DEF EditFits, BatchPcs, ChangePcs, PlainPcs
<1>5. SnapFits(o)
  BY DEF SnapFits, RestorePcs, AnswerPcs, PlainPcs
<1> QED BY <1>1, <1>2, <1>3, <1>4, <1>5 DEF OpFits

\* A request keeps what it was asked.
Same(o, x) == x.kind = o.kind /\ x.h = o.h /\ x.p = o.p /\ x.code = o.code /\ x.reason = o.reason

LEMMA SameWho ==
  ASSUME NEW i \in Slot, NEW o, NEW x, WhoFits(i, o), o.pc # "idle", Same(o, x)
  PROVE  WhoFits(i, x)
BY SlotOrHost DEF WhoFits, Same, Proc

LEMMA StopFits ==
  ASSUME NEW i \in Proc, NEW o, NEW err, OpFits(i, o), o.pc # "idle", i \in Slot \/ o.reg = None
  PROVE  /\ OpFits(i, Stop(o, err))
         /\ i \in Slot => /\ Same(o, Stop(o, err)) /\ Stop(o, err).pc = "failed"
                          /\ Stop(o, err).work = o.work
         /\ i \notin Slot => Stop(o, err).pc \in {"snapshot", "degraded"}
<1> DEFINE x == Stop(o, err)
<1>0. AskShape(o) /\ WhoFits(i, o)
  BY DEF OpFits
<1>1. CASE i \in Slot
  <2>1. x = [o EXCEPT !.pc = "failed", !.reg = None, !.rec = None, !.seen = None, !.todo = {}, !.plan = {}]
    BY <1>0, <1>1 DEF Stop, WhoFits
  <2>2. AskShape(x) /\ Same(o, x) /\ x.work = o.work /\ x.pc = "failed" /\ x.reg = None
    BY <1>0, <2>1, ZenonT(30) DEF AskShape, AskFields, Same
  <2> HIDE DEF x
  <2>3. WhoFits(i, x) /\ KindFits(x)
    BY <1>0, <1>1, <2>2, SameWho DEF KindFits, RegisterPcs, RestorePcs, BatchPcs, RetirePcs
  <2> QED BY <1>1, <2>2, <2>3, PlainFits DEF PlainPcs, x
<1>2. CASE i \notin Slot
  <2>1. o.kind = "sync"
    BY <1>0, <1>2, SlotOrHost DEF WhoFits
  <2>2. x = Retry(o) \/ x = [Retry(o) EXCEPT !.pc = "degraded"]
    BY <2>1 DEF Stop
  <2>3. /\ AskShape(x) /\ x.kind = "sync" /\ x.h = o.h /\ x.pc \in {"snapshot", "degraded"} /\ x.reg = None
        /\ x.phase = "hub"
    BY <1>0, <1>2, <2>1, <2>2, ZenonT(30) DEF AskShape, AskFields, Retry
  <2> HIDE DEF x
  <2>4. WhoFits(i, x) /\ KindFits(x)
    BY <1>0, <1>2, <2>1, <2>3, SlotOrHost DEF WhoFits, KindFits, RegisterPcs, RestorePcs, BatchPcs,
       RetirePcs
  <2> QED BY <1>2, <2>1, <2>3, <2>4, PlainFits DEF PlainPcs, x
<1> QED BY <1>1, <1>2

\* A request that proceeds to a step that relies on nothing it has read.
LEMMA PlainStep ==
  ASSUME NEW i \in Slot, NEW o, NEW x, OpFits(i, o), o.pc # "idle",
         AskShape(x), Same(o, x), KindFits(x), x.reg = None, x.pc \in PlainPcs
  PROVE  OpFits(i, x)
<1>1. WhoFits(i, x)
  BY SameWho DEF OpFits
<1>2. x.pc # "snapshot"
  BY <1>1 DEF WhoFits, KindFits
<1> QED BY <1>1, <1>2, PlainFits

LEMMA Least == ASSUME NEW S \in SUBSET Nat, S # {} PROVE \E i \in S : \A j \in S : i <= j
<1> DEFINE R == {ss \in Nat \X Nat : ss[1] < ss[2]}
<1>1. IsWellFoundedOn(R, Nat)
  BY NatLessThanWellFounded DEF OpToRel
<1>2. \A i, j \in Nat : <<j, i>> \notin R => i <= j
  OBVIOUS
<1> HIDE DEF R
<1>3. PICK i \in S : \A j \in S : <<j, i>> \notin R
  BY <1>1, WFMin, Zenon
<1>4. \A j \in S : i <= j
  BY <1>2, <1>3
<1> QED BY <1>4

LEMMA AskedFacts ==
  ASSUME Ops, NEW i \in Proc, op[i].kind \notin {"sync", "none"}
  PROVE  /\ OpFits(i, op[i]) /\ i \in Slot
         /\ op[i].h \in Host /\ op[i].p \in Project /\ op[i].code \in Code /\ op[i].reason \in STRING
BY OpsFit, SlotOrHost DEF OpFits, WhoFits

LEMMA SyncFacts ==
  ASSUME Ops, NEW i \in Proc, op[i].kind = "sync"
  PROVE  OpFits(i, op[i]) /\ i \in Host /\ i \notin Slot /\ op[i].h = i
BY OpsFit, SlotOrHost DEF OpFits, WhoFits

LEMMA OnboardFacts ==
  ASSUME Ops, NEW i \in Proc, op[i].kind \in Onboards
  PROVE  /\ OpFits(i, op[i]) /\ i \in Slot
         /\ op[i].h \in Host /\ op[i].p \in Project /\ op[i].code \in Code
BY AskedFacts DEF Onboards

\* What a step of an onboarding or an admin onboarding leaves.
Onward(i) == OpFits(i, op'[i]) /\ Same(op[i], op'[i])

LEMMA StopOnward ==
  ASSUME Ops, NEW i \in Slot, op[i].pc # "idle", \E e : op'[i] = Stop(op[i], e)
  PROVE  Onward(i) /\ op'[i].pc = "failed" /\ op'[i].work = op[i].work
BY OpsFit, StopFits DEF Onward, Proc

\* The same for a step that only goes on to a plain step.
LEMMA PlainOnward ==
  ASSUME Ops, NEW i \in Slot, op[i].pc # "idle", op[i].reg = None,
         AskShape(op'[i]), Same(op[i], op'[i]), op'[i].reg = None,
         op'[i].pc \in PlainPcs, KindFits(op'[i])
  PROVE  Onward(i)
BY OpsFit, PlainStep DEF Onward, Proc

LEMMA AdminRepositoryFits ==
  ASSUME Ops, NEW i \in Proc, AdminRepository(i)
  PROVE  Onward(i) /\ op[i].pc = "clone" /\ op'[i].pc \in {"failed", "discover"} /\ op[i].kind \in Onboards
<1> DEFINE o == op[i]  x == op'[i]
<1>1. OpFits(i, o) /\ o.pc = "clone" /\ o.kind \in Onboards /\ i \in Slot /\ o.reg = None
  BY OpsFit, OnboardFacts DEF AdminRepository, OpAt, OpFits, KindFits, RegFits, RegisterPcs
<1>2. (\E e : x = Stop(o, e)) \/ x = [o EXCEPT !.pc = "discover"]
  BY GoGives DEF AdminRepository
<1>3. CASE x = [o EXCEPT !.pc = "discover"]
  <2>1. AskShape(x) /\ Same(o, x) /\ x.pc = "discover" /\ x.reg = None
    BY <1>1, <1>3 DEF AskShape, AskFields, OpFits, Same
  <2>2. KindFits(x)
    BY <1>1, <2>1 DEF Same, Onboards, KindFits, RegisterPcs, RestorePcs, BatchPcs, RetirePcs
  <2> QED BY <1>1, <2>1, <2>2, PlainOnward DEF PlainPcs
<1> QED BY <1>1, <1>2, <1>3, StopOnward

LEMMA DiscoverFits ==
  ASSUME Stores, Ops, NEW i \in Proc, Discover(i)
  PROVE  /\ Onward(i) /\ op[i].pc = "discover" /\ op[i].kind \in Onboards
         /\ op'[i].pc \in {"failed", "reconcile", "hub"}
         /\ op'[i].pc = "reconcile" => reg[op[i].h].entry[op[i].p] # None
         /\ op'[i].pc = "hub" => op[i].p \notin mix.static
<1> DEFINE o == op[i]  x == op'[i]
<1>1. OpFits(i, o) /\ o.pc = "discover" /\ o.kind \in Onboards /\ i \in Slot /\ o.reg = None
  BY OpsFit, OnboardFacts, Zenon DEF Discover, OpAt, OpFits, KindFits, RegFits, RegisterPcs
<1>2. reg[o.h] \in RegStore
  BY <1>1, OnboardFacts DEF Stores
<1>3. \/ \E e : x = Stop(o, e)
      \/ x = [o EXCEPT !.pc = "reconcile", !.phase = "registered"] /\ reg[o.h].entry[o.p] # None
      \/ x = [o EXCEPT !.pc = "hub", !.reg = reg[o.h]] /\ reg[o.h].entry[o.p] = None /\ o.p \notin mix.static
  BY GoGives DEF Discover, Digest
<1>4. CASE x = [o EXCEPT !.pc = "reconcile", !.phase = "registered"] /\ reg[o.h].entry[o.p] # None
  <2>1. AskShape(x) /\ Same(o, x) /\ x.pc = "reconcile" /\ x.reg = None
    BY <1>1, <1>4, ZenonT(30) DEF AskShape, AskFields, OpFits, Same
  <2>2. KindFits(x)
    BY <1>1, <2>1 DEF Same, Onboards, KindFits, RegisterPcs, RestorePcs, BatchPcs, RetirePcs
  <2> QED BY <1>1, <1>4, <2>1, <2>2, PlainOnward DEF PlainPcs
<1>5. CASE x = [o EXCEPT !.pc = "hub", !.reg = reg[o.h]] /\ reg[o.h].entry[o.p] = None
             /\ o.p \notin mix.static
  <2>1. AskShape(x) /\ Same(o, x) /\ x.pc = "hub" /\ x.reg = reg[o.h]
    BY <1>1, <1>5, ZenonT(30) DEF AskShape, AskFields, OpFits, Same
  <2>2. OpFits(i, x)
    BY <1>1, <1>2, <1>5, <2>1, SameWho, ZenonT(30) DEF OpFits, KindFits, RegFits, RetireFits, LoopFits,
       EditFits, SnapFits, RetirePcs, RegisterPcs, BatchPcs, RestorePcs, AnswerPcs, ChangePcs,
       Onboards, Same
  <2> QED BY <1>1, <1>5, <2>1, <2>2 DEF Onward
<1> QED BY <1>1, <1>3, <1>4, <1>5, StopOnward

LEMMA ReadHubFits ==
  ASSUME Ops, NEW i \in Proc, ReadHubOnboardProject(i)
  PROVE  /\ Onward(i) /\ op[i].pc = "hub" /\ op[i].kind \in Onboards
         /\ op'[i].pc \in {"failed", "revision", "registry"}
<1> DEFINE o == op[i]  x == op'[i]
<1>1. OpFits(i, o) /\ o.pc = "hub" /\ o.kind \in Onboards /\ i \in Slot
  BY OpsFit, OnboardFacts DEF ReadHubOnboardProject, OpAt, OpFits, KindFits, RegisterPcs
<1>2. (\E e : x = Stop(o, e)) \/ x = [o EXCEPT !.pc = "revision", !.phase = "new"]
      \/ x = [o EXCEPT !.pc = "registry", !.phase = "adopt"]
  BY GoGives DEF ReadHubOnboardProject
<1>3. CASE x = [o EXCEPT !.pc = "revision", !.phase = "new"]
             \/ x = [o EXCEPT !.pc = "registry", !.phase = "adopt"]
  <2>1. AskShape(x) /\ Same(o, x) /\ x.pc \in {"revision", "registry"} /\ x.reg = o.reg
    BY <1>1, <1>3, ZenonT(30) DEF AskShape, AskFields, OpFits, Same
  <2>2. OpFits(i, x)
    BY <1>1, <2>1, SameWho DEF OpFits, KindFits, RegFits, RetireFits, LoopFits, EditFits, SnapFits,
       RetirePcs, RegisterPcs, BatchPcs, RestorePcs, AnswerPcs, ChangePcs, Onboards, Same
  <2> QED BY <1>1, <2>1, <2>2 DEF Onward
<1> QED BY <1>1, <1>2, <1>3, StopOnward

LEMMA HubRevisionFits ==
  ASSUME Ops, NEW i \in Proc, HubRevision(i)
  PROVE  Onward(i) /\ op[i].pc = "revision" /\ op[i].kind \in Onboards /\ op'[i].pc \in {"failed", "register"}
<1> DEFINE o == op[i]  x == op'[i]
<1>1. OpFits(i, o) /\ o.pc = "revision" /\ o.kind \in Onboards /\ i \in Slot
  BY OpsFit, OnboardFacts DEF HubRevision, OpAt, OpFits, KindFits, RegisterPcs
<1>2. (\E e : x = Stop(o, e)) \/ x = [o EXCEPT !.pc = "register", !.rev = hub.rev]
  BY GoGives DEF HubRevision
<1>3. CASE x = [o EXCEPT !.pc = "register", !.rev = hub.rev]
  <2>1. AskShape(x) /\ Same(o, x) /\ x.pc = "register" /\ x.reg = o.reg
    BY <1>1, <1>3, ZenonT(30) DEF AskShape, AskFields, OpFits, Same
  <2>2. OpFits(i, x)
    BY <1>1, <2>1, SameWho DEF OpFits, KindFits, RegFits, RetireFits, LoopFits, EditFits, SnapFits,
       RetirePcs, RegisterPcs, BatchPcs, RestorePcs, AnswerPcs, ChangePcs, Onboards, Same
  <2> QED BY <1>1, <2>1, <2>2 DEF Onward
<1> QED BY <1>1, <1>2, <1>3, StopOnward

LEMMA ProjectRegisterFits ==
  ASSUME Ops, NEW i \in Proc, ProjectRegister(i)
  PROVE  Onward(i) /\ op[i].pc = "register" /\ op[i].kind \in Onboards
           /\ op'[i].pc \in {"failed", "identifiers"}
<1> DEFINE o == op[i]  x == op'[i]
<1>1. OpFits(i, o) /\ o.pc = "register" /\ o.kind \in Onboards /\ i \in Slot
  BY OpsFit, OnboardFacts DEF ProjectRegister, Registers, OpAt, OpFits, KindFits, RegisterPcs
<1>2. (\E e : x = Stop(o, e)) \/ x = [o EXCEPT !.pc = "identifiers", !.rev = hub.rev + 1]
  BY GoGives DEF ProjectRegister
<1>3. CASE x = [o EXCEPT !.pc = "identifiers", !.rev = hub.rev + 1]
  <2>1. AskShape(x) /\ Same(o, x) /\ x.pc = "identifiers" /\ x.reg = o.reg
    BY <1>1, <1>3, ZenonT(30) DEF AskShape, AskFields, OpFits, Same
  <2>2. OpFits(i, x)
    BY <1>1, <2>1, SameWho DEF OpFits, KindFits, RegFits, RetireFits, LoopFits, EditFits, SnapFits,
       RetirePcs, RegisterPcs, BatchPcs, RestorePcs, AnswerPcs, ChangePcs, Onboards, Same
  <2> QED BY <1>1, <2>1, <2>2 DEF Onward
<1> QED BY <1>1, <1>2, <1>3, StopOnward

LEMMA AdoptFits ==
  ASSUME Ops, NEW i \in Proc, ProjectIdentifiersAdopt(i)
  PROVE  Onward(i) /\ op[i].pc = "identifiers" /\ op[i].kind \in Onboards
           /\ op'[i].pc \in {"registry", "rollback"}
<1> DEFINE o == op[i]  x == op'[i]
<1>1. OpFits(i, o) /\ o.pc = "identifiers" /\ o.kind \in Onboards /\ i \in Slot
  BY OpsFit, OnboardFacts DEF ProjectIdentifiersAdopt, Adopts, OpAt, OpFits, KindFits, RegisterPcs
<1>2. x = [o EXCEPT !.pc = "registry", !.rev = hub.rev + 1] \/ x = [o EXCEPT !.pc = "rollback"]
  BY GoGives DEF ProjectIdentifiersAdopt, Proceed
<1>3. AskShape(x) /\ Same(o, x) /\ x.pc \in {"registry", "rollback"} /\ x.reg = o.reg
  BY <1>1, <1>2, ZenonT(30) DEF AskShape, AskFields, OpFits, Same
<1>4. OpFits(i, x)
  BY <1>1, <1>3, SameWho DEF OpFits, KindFits, RegFits, RetireFits, LoopFits, EditFits, SnapFits,
     RetirePcs, RegisterPcs, BatchPcs, RestorePcs, AnswerPcs, ChangePcs, Onboards, Same
<1> QED BY <1>1, <1>3, <1>4 DEF Onward

LEMMA RollbackOnboardHubFits ==
  ASSUME Ops, NEW i \in Proc, RollbackOnboardHub(i)
  PROVE  Onward(i) /\ op[i].pc = "rollback" /\ op[i].kind \in Onboards /\ op'[i].pc = "failed"
<1>1. OpFits(i, op[i]) /\ op[i].pc = "rollback" /\ op[i].kind \in Onboards /\ i \in Slot
  BY OpsFit, OnboardFacts, Zenon DEF RollbackOnboardHub, Unregisters, OpAt, OpFits, KindFits, RegisterPcs
<1>2. op'[i] = Stop(op[i], "rolled back")
  BY GoGives, Zenon DEF RollbackOnboardHub
<1> QED BY <1>1, <1>2, StopOnward, Zenon

LEMMA RegistryFits ==
  ASSUME Ops, NEW i \in Proc, PublishRegistry(i) \/ AdoptHub(i)
  PROVE  /\ Onward(i) /\ op[i].pc = "registry" /\ op[i].kind \in Onboards
         /\ op'[i].pc \in {"failed", "rollback", "reconcile"}
<1> DEFINE o == op[i]  x == op'[i]
<1>1. OpFits(i, o) /\ o.pc = "registry" /\ o.kind \in Onboards /\ i \in Slot
  BY OpsFit, OnboardFacts DEF PublishRegistry, AdoptHub, OpAt, OpFits, KindFits, RegisterPcs
<1>2. \/ \E e : x = Stop(o, e)
      \/ x = [o EXCEPT !.pc = "reconcile", !.reg = None]
      \/ x = [o EXCEPT !.pc = "rollback"]
  BY GoGives DEF PublishRegistry, AdoptHub, Proceed
<1>3. CASE x = [o EXCEPT !.pc = "reconcile", !.reg = None]
  <2>1. AskShape(x) /\ Same(o, x) /\ x.pc = "reconcile" /\ x.reg = None
    BY <1>1, <1>3, ZenonT(30) DEF AskShape, AskFields, OpFits, Same
  <2>2. KindFits(x)
    BY <1>1, <2>1 DEF Same, Onboards, KindFits, RegisterPcs, RestorePcs, BatchPcs, RetirePcs
  <2> QED BY <1>1, <2>1, <2>2, PlainStep DEF PlainPcs, Onward
<1>4. CASE x = [o EXCEPT !.pc = "rollback"]
  <2>1. AskShape(x) /\ Same(o, x) /\ x.pc = "rollback" /\ x.reg = o.reg
    BY <1>1, <1>4 DEF AskShape, AskFields, OpFits, Same
  <2>2. OpFits(i, x)
    BY <1>1, <2>1, SameWho DEF OpFits, KindFits, RegFits, RetireFits, LoopFits, EditFits, SnapFits,
       RetirePcs, RegisterPcs, BatchPcs, RestorePcs, AnswerPcs, ChangePcs, Onboards, Same
  <2> QED BY <1>1, <2>1, <2>2 DEF Onward
<1> QED BY <1>1, <1>2, <1>3, <1>4, StopOnward

LEMMA ReconcileReadsFits ==
  ASSUME Stores, Ops, NEW i \in Proc, ReconcileReads(i)
  PROVE  /\ Onward(i) /\ op[i].pc = "reconcile" /\ op[i].kind \in Onboards
         /\ op'[i].pc \in {"failed", "bootstrap"}
         /\ op'[i].pc = "bootstrap" => ~RetiredAnywhere(op[i].h, op[i].p) /\ hub.code[op[i].p] = op[i].code
<1> DEFINE o == op[i]  x == op'[i]
<1>1. /\ OpFits(i, o) /\ o.pc = "reconcile" /\ o.kind \in Onboards /\ i \in Slot /\ o.reg = None
      /\ o.p \in Project /\ o.code \in Code
  BY OpsFit, OnboardFacts DEF ReconcileReads, OpAt, OpFits, KindFits, RegFits, RegisterPcs
<1>2. hub.cfg[o.p] \in Ents /\ o.code # None
  BY <1>1, NoneApart DEF Stores, HubStore
<1>3. \/ \E e : x = Stop(o, e)
      \/ /\ x = [o EXCEPT !.pc = "bootstrap", !.seen = [cfg |-> hub.cfg[o.p], old |-> o.code]]
         /\ ProjectIdentifiersRead(o.h, o.p) = o.code
  BY GoGives DEF ReconcileReads, Reconcilable
<1>4. CASE /\ x = [o EXCEPT !.pc = "bootstrap", !.seen = [cfg |-> hub.cfg[o.p], old |-> o.code]]
           /\ ProjectIdentifiersRead(o.h, o.p) = o.code
  <2> DEFINE r == [cfg |-> hub.cfg[o.p], old |-> o.code]
  <2>0. r.cfg = hub.cfg[o.p] /\ r.old = o.code /\ x = [o EXCEPT !.pc = "bootstrap", !.seen = r]
    BY <1>4
  <2> HIDE DEF r
  <2>1. AskShape(x) /\ Same(o, x) /\ x.pc = "bootstrap" /\ x.reg = None /\ x.seen = r
    BY <1>1, <2>0 DEF AskShape, AskFields, OpFits, Same
  <2>2. OpFits(i, x)
    BY <1>1, <1>2, <2>0, <2>1, SameWho, ZenonT(30) DEF OpFits, KindFits, RegFits, RetireFits, LoopFits,
       EditFits, SnapFits, RetirePcs, RegisterPcs, BatchPcs, RestorePcs, AnswerPcs, ChangePcs,
       Onboards, Same
  <2>3. ~RetiredAnywhere(o.h, o.p) /\ hub.code[o.p] = o.code
    BY <1>2, <1>4 DEF ProjectIdentifiersRead
  <2> QED BY <1>1, <2>1, <2>2, <2>3 DEF Onward
<1> QED BY <1>1, <1>3, <1>4, StopOnward

\* The kinds that bootstrap the Shared rows of a project.
LEMMA BatchFacts ==
  ASSUME Ops, NEW i \in Proc, op[i].pc \in BatchPcs
  PROVE  /\ OpFits(i, op[i]) /\ i \in Slot /\ op[i].kind \in Onboards \cup {"update"} /\ op[i].pc # "idle"
         /\ op[i].h \in Host /\ op[i].p \in Project /\ op[i].code \in Code /\ op[i].reg = None
         /\ op[i].seen.cfg \in Ents
<1>1. OpFits(i, op[i]) /\ op[i].kind \in Onboards \cup {"update"}
  BY OpsFit DEF OpFits, KindFits
<1> QED BY <1>1, AskedFacts DEF OpFits, EditFits, RegFits, BatchPcs, RegisterPcs, Onboards

LEMMA BootstrapFailedFits ==
  ASSUME Ops, NEW i \in Proc, op[i].pc \in BatchPcs, BootstrapFailed(i)
  PROVE  /\ Onward(i)
         /\ IF op[i].kind = "update" THEN op'[i] = [op[i] EXCEPT !.pc = "rollbackCode"]
              /\ op'[i].pc = "rollbackCode"
                                     ELSE op'[i].pc = "failed"
<1> DEFINE o == op[i]  x == op'[i]
<1>1. OpFits(i, o) /\ i \in Slot /\ o.pc # "idle" /\ o.pc \in BatchPcs /\ o.reg = None
  BY BatchFacts
<1>2. CASE o.kind = "update"
  <2>1. x = [o EXCEPT !.pc = "rollbackCode"]
    BY <1>2, GoGives DEF BootstrapFailed
  <2>2. /\ AskShape(x) /\ Same(o, x) /\ x.pc = "rollbackCode" /\ x.reg = None /\ x.seen = o.seen
             /\ x.rec = o.rec
    BY <1>1, <2>1 DEF AskShape, AskFields, OpFits, Same
  <2>3. OpFits(i, x)
    BY <1>1, <1>2, <2>2, SameWho DEF OpFits, KindFits, RegFits, RetireFits, LoopFits, EditFits,
       SnapFits, RetirePcs, RegisterPcs, BatchPcs, RestorePcs, AnswerPcs, ChangePcs, Onboards, Same
  <2> QED BY <1>1, <1>2, <2>1, <2>2, <2>3 DEF Onward
<1>3. CASE o.kind # "update"
  BY <1>1, <1>3, GoGives, StopOnward DEF BootstrapFailed
<1> QED BY <1>2, <1>3

LEMMA BootstrapChecksFits ==
  ASSUME Ops, NEW i \in Proc, BootstrapChecks(i)
  PROVE  /\ Onward(i) /\ op[i].pc = "bootstrap"
         /\ \/ /\ op'[i].pc = "bootstrapBatch" /\ op'[i].seen = op[i].seen /\ op'[i].rec = op[i].rec
               /\ op'[i].plan = {BootstrapRow(op[i].h, op[i].p)}
            \/ BootstrapFailed(i)
<1> DEFINE o == op[i]  x == op'[i]
<1>1. OpFits(i, o) /\ i \in Slot /\ o.pc = "bootstrap" /\ o.reg = None /\ o.pc \in BatchPcs
      /\ o.kind \in Onboards \cup {"update"}
  BY BatchFacts DEF BootstrapChecks, OpAt, BatchPcs
<1>2. CASE BootstrapFailed(i)
  BY <1>1, <1>2, BootstrapFailedFits
<1>3. CASE ~BootstrapFailed(i)
  <2> DEFINE row == {BootstrapRow(o.h, o.p)}
  <2>1. x = [o EXCEPT !.pc = "bootstrapBatch", !.plan = row]
    BY <1>3, GoGives DEF BootstrapChecks
  <2> HIDE DEF row
  <2>2. /\ AskShape(x) /\ Same(o, x) /\ x.pc = "bootstrapBatch" /\ x.reg = None /\ x.seen = o.seen
             /\ x.rec = o.rec /\ x.plan = row
    BY <1>1, <2>1, ZenonT(30) DEF AskShape, AskFields, OpFits, Same
  <2>3. OpFits(i, x)
    BY <1>1, <2>2, SameWho DEF OpFits, KindFits, RegFits, RetireFits, LoopFits, EditFits, SnapFits,
       RetirePcs, RegisterPcs, BatchPcs, RestorePcs, AnswerPcs, ChangePcs, Onboards, Same
  <2> QED BY <1>1, <2>2, <2>3 DEF Onward, row
<1> QED BY <1>2, <1>3

LEMMA BootstrapBatchFits ==
  ASSUME Ops, NEW i \in Proc, BootstrapBatch(i)
  PROVE  /\ Onward(i) /\ op[i].pc = "bootstrapBatch"
         /\ \/ BootstrapFailed(i) /\ UNCHANGED shared
            \/ op'[i].pc = IF op[i].kind = "update" THEN "ok" ELSE "restore"
<1> DEFINE o == op[i]  x == op'[i]
<1>1. OpFits(i, o) /\ i \in Slot /\ o.pc = "bootstrapBatch" /\ o.reg = None /\ o.pc \in BatchPcs
      /\ o.kind \in Onboards \cup {"update"}
  BY BatchFacts DEF BootstrapBatch, OpAt, BatchPcs
<1>2. CASE BootstrapFailed(i) /\ UNCHANGED shared
  BY <1>1, <1>2, BootstrapFailedFits
<1>3. CASE ~(BootstrapFailed(i) /\ UNCHANGED shared)
  <2>1. x = [o EXCEPT !.pc = IF o.kind = "update" THEN "ok" ELSE "restore"]
    BY <1>3, GoGives DEF BootstrapBatch, Proceed
  <2>2. /\ AskShape(x) /\ Same(o, x) /\ x.reg = None /\ x.pc = IF o.kind = "update" THEN "ok" ELSE "restore"
    BY <1>1, <2>1 DEF AskShape, AskFields, OpFits, Same
  <2>3. OpFits(i, x)
    BY <1>1, <2>2, SameWho DEF OpFits, KindFits, RegFits, RetireFits, LoopFits, EditFits, SnapFits,
       RetirePcs, RegisterPcs, BatchPcs, RestorePcs, AnswerPcs, ChangePcs, Onboards, Same
  <2> QED BY <1>1, <2>2, <2>3 DEF Onward
<1> QED BY <1>2, <1>3

LEMMA RestoreSnapshotFits ==
  ASSUME Stores, Ops, NEW i \in Proc, RestoreSnapshot(i)
  PROVE  /\ Onward(i) /\ op[i].pc = "restore" /\ op[i].kind \in Onboards
         /\ \/ op'[i].pc = "verify" /\ op'[i].seen = None
            \/ /\ op'[i].pc = "family"
               /\ op'[i].seen = [ent |-> hub.ent[op[i].p], evid |-> hub.evid[op[i].p],
                    next |-> hub.next[op[i].p]]
               /\ op'[i].todo = {n \in Num : hub.ent[op[i].p][n] # NoEnt}
<1> DEFINE o == op[i]  x == op'[i]
           snap == [ent |-> hub.ent[o.p], evid |-> hub.evid[o.p], next |-> hub.next[o.p]]
           todo == {n \in Num : hub.ent[o.p][n] # NoEnt}
<1>1. /\ OpFits(i, o) /\ o.pc = "restore" /\ o.kind \in Onboards /\ i \in Slot /\ o.reg = None
      /\ o.p \in Project
  BY OpsFit, OnboardFacts DEF RestoreSnapshot, OpAt, OpFits, KindFits, RegFits, RegisterPcs
<1>2. snap \in Snapshots
  BY <1>1 DEF Stores, HubStore, Snapshots
<1>3. \/ x = [o EXCEPT !.pc = "verify", !.seen = None]
      \/ x = [o EXCEPT !.pc = "family", !.seen = snap, !.todo = todo]
  BY GoGives DEF RestoreSnapshot
<1> HIDE DEF snap, todo
<1>4. CASE x = [o EXCEPT !.pc = "verify", !.seen = None]
  <2>1. AskShape(x) /\ Same(o, x) /\ x.pc = "verify" /\ x.reg = None /\ x.seen = None
    BY <1>1, <1>4, ZenonT(30) DEF AskShape, AskFields, OpFits, Same
  <2>2. OpFits(i, x)
    BY <1>1, <2>1, SameWho DEF OrNone, OpFits, KindFits, RegFits, RetireFits, LoopFits, EditFits,
       SnapFits, RetirePcs, RegisterPcs, BatchPcs, RestorePcs, AnswerPcs, ChangePcs, Onboards, Same
  <2> QED BY <1>1, <2>1, <2>2 DEF Onward
<1>5. CASE x = [o EXCEPT !.pc = "family", !.seen = snap, !.todo = todo]
  <2>1. AskShape(x) /\ Same(o, x) /\ x.pc = "family" /\ x.reg = None /\ x.seen = snap /\ x.todo = todo
    BY <1>1, <1>5, ZenonT(30) DEF AskShape, AskFields, OpFits, Same
  <2>2. OpFits(i, x)
    BY <1>1, <1>2, <2>1, SameWho DEF todo, OpFits, KindFits, RegFits, RetireFits, LoopFits,
       EditFits, SnapFits, RetirePcs, RegisterPcs, BatchPcs, RestorePcs, AnswerPcs, ChangePcs,
       Onboards, Same
  <2> QED BY <1>1, <2>1, <2>2 DEF Onward, snap, todo
<1> QED BY <1>3, <1>4, <1>5, SMTT(30)

\* The least of a set of entity numbers.
LEMMA LeastNumber ==
  ASSUME NEW S \in SUBSET Num, S # {}
  PROVE  Min(S) \in S /\ \A n \in S : Min(S) <= n
<1>1. Num \subseteq Nat
  BY ProjectLifecycleAssumption
<1>2. \E n \in S : \A m \in S : n <= m
  BY <1>1, Least
<1> DEFINE P(x) == \A y \in S : x <= y
<1>3. (CHOOSE x \in S : P(x)) \in S /\ P(CHOOSE x \in S : P(x))
  BY <1>2, Zenon
<1>4. Min(S) = CHOOSE x \in S : P(x)
  BY DEF Min
<1> QED BY <1>3, <1>4

LEMMA RestoreEntityFits ==
  ASSUME Ops, NEW i \in Proc, RestoreEntity(i)
  PROVE  /\ Onward(i) /\ op[i].pc = "family" /\ op[i].kind \in Onboards
         /\ Min(op[i].todo) \in op[i].todo /\ op[i].todo \subseteq Num
         /\ \/ op'[i].pc = "failed"
            \/ /\ op'[i].pc = "family" /\ op'[i].seen = op[i].seen
               /\ op'[i].todo = op[i].todo \ {Min(op[i].todo)}
               /\ LET n == Min(op[i].todo)  theirs == op[i].seen.ent[n]  ours == shared[op[i].h].ent[op[i].p][n]
                  IN theirs.rev < ours.rev \/ theirs = ours
            \/ /\ op'[i].pc = "put" /\ op'[i].seen = op[i].seen
               /\ op'[i].todo = op[i].todo \ {Min(op[i].todo)} /\ op'[i].plan = {Min(op[i].todo)}
<1> DEFINE o == op[i]  x == op'[i]  n == Min(o.todo)
           theirs == o.seen.ent[n]  ours == shared[o.h].ent[o.p][n]
<1>1. /\ OpFits(i, o) /\ o.pc = "family" /\ o.kind \in Onboards /\ i \in Slot /\ o.reg = None
      /\ o.todo \subseteq Num /\ o.seen \in Snapshots /\ o.todo # {}
  BY OpsFit, OnboardFacts, Zenon
     DEF RestoreEntity, OpAt, OpFits, KindFits, RegFits, SnapFits, RegisterPcs, RestorePcs
<1>2. n \in o.todo
  BY <1>1, LeastNumber
<1>3. \/ \E e : x = Stop(o, e)
      \/ x = [o EXCEPT !.todo = o.todo \ {n}] /\ (theirs.rev < ours.rev \/ theirs = ours)
      \/ x = [o EXCEPT !.pc = "put", !.todo = o.todo \ {n}, !.plan = {n}]
  <2>1. x = IF theirs.rev < ours.rev \/ theirs = ours THEN [o EXCEPT !.todo = @ \ {n}]
            ELSE IF theirs.rev = ours.rev THEN Stop(o, "entity")
            ELSE [o EXCEPT !.pc = "put", !.todo = @ \ {n}, !.plan = {n}]
    BY GoGives, ZenonT(30) DEF RestoreEntity
  <2>2. [o EXCEPT !.todo = @ \ {n}] = [o EXCEPT !.todo = o.todo \ {n}]
    OBVIOUS
  <2>3. [o EXCEPT !.pc = "put", !.todo = @ \ {n}, !.plan = {n}]
          = [o EXCEPT !.pc = "put", !.todo = o.todo \ {n}, !.plan = {n}]
    BY <1>1 DEF AskShape, AskFields, OpFits, Same
  <2> QED BY <2>1, <2>2, <2>3, Zenon
<1> HIDE DEF n
<1>4. CASE x = [o EXCEPT !.todo = o.todo \ {n}] /\ (theirs.rev < ours.rev \/ theirs = ours)
  <2>1. AskShape(x) /\ Same(o, x) /\ x.pc = "family" /\ x.reg = None /\ x.seen = o.seen
          /\ x.todo = o.todo \ {n}
    BY <1>1, <1>4 DEF AskShape, AskFields, OpFits, Same
  <2>2. OpFits(i, x)
    BY <1>1, <2>1, SameWho DEF OpFits, KindFits, RegFits, RetireFits, LoopFits, EditFits, SnapFits,
       RetirePcs, RegisterPcs, BatchPcs, RestorePcs, AnswerPcs, ChangePcs, Onboards, Same
  <2>3. Onward(i)
    BY <2>1, <2>2 DEF Onward
  <2> QED BY <1>1, <1>2, <1>4, <2>1, <2>3, Zenon DEF n
<1>5. CASE x = [o EXCEPT !.pc = "put", !.todo = o.todo \ {n}, !.plan = {n}]
  <2>1. /\ AskShape(x) /\ Same(o, x) /\ x.pc = "put" /\ x.reg = None /\ x.seen = o.seen
        /\ x.todo = o.todo \ {n} /\ x.plan = {n}
    BY <1>1, <1>5, ZenonT(30) DEF AskShape, AskFields, OpFits, Same
  <2>2. OpFits(i, x)
    BY <1>1, <1>2, <2>1, SameWho DEF OpFits, KindFits, RegFits, RetireFits, LoopFits, EditFits,
       SnapFits, RetirePcs, RegisterPcs, BatchPcs, RestorePcs, AnswerPcs, ChangePcs, Onboards, Same
  <2> QED BY <1>1, <1>2, <2>1, <2>2 DEF Onward, n
<1> QED BY <1>1, <1>2, <1>3, <1>4, <1>5, StopOnward, Zenon DEF n

LEMMA RestorePutFits ==
  ASSUME Ops, NEW i \in Proc, RestorePut(i)
  PROVE  /\ Onward(i) /\ op[i].pc = "put" /\ op[i].kind \in Onboards /\ op'[i].pc = "family"
         /\ op'[i].seen = op[i].seen /\ op'[i].todo = op[i].todo
         /\ \E n \in Num : /\ op[i].plan = {n}
                           /\ PutSharedProjection(op[i].h, op[i].p, n, op[i].seen.ent[n])
<1> DEFINE o == op[i]  x == op'[i]
<1>1. /\ OpFits(i, o) /\ o.pc = "put" /\ o.kind \in Onboards /\ i \in Slot /\ o.reg = None
      /\ o.todo \subseteq Num /\ o.seen \in Snapshots /\ \E n \in Num : o.plan = {n}
  BY OpsFit, OnboardFacts
     DEF RestorePut, OpAt, OpFits, KindFits, RegFits, SnapFits, RegisterPcs, RestorePcs
<1>2. PICK n \in Num : o.plan = {n}
  BY <1>1
<1>3. (CHOOSE y \in o.plan : TRUE) = n
  BY <1>2
<1>4. PutSharedProjection(o.h, o.p, n, o.seen.ent[n]) /\ x = [o EXCEPT !.pc = "family", !.plan = {}]
  BY <1>3, GoGives DEF RestorePut
<1>5. AskShape(x) /\ Same(o, x) /\ x.pc = "family" /\ x.reg = None /\ x.seen = o.seen /\ x.todo = o.todo
  BY <1>1, <1>4, ZenonT(30) DEF AskShape, AskFields, OpFits, Same
<1>6. OpFits(i, x)
  BY <1>1, <1>5, SameWho DEF OpFits, KindFits, RegFits, RetireFits, LoopFits, EditFits, SnapFits,
     RetirePcs, RegisterPcs, BatchPcs, RestorePcs, AnswerPcs, ChangePcs, Onboards, Same
<1> QED BY <1>1, <1>2, <1>4, <1>5, <1>6 DEF Onward

LEMMA RestoreEvidenceFits ==
  ASSUME Ops, NEW i \in Proc, RestoreEvidence(i)
  PROVE  /\ Onward(i) /\ op[i].pc = "family" /\ op[i].kind \in Onboards /\ op'[i].pc = "evidence"
         /\ op[i].todo = {} /\ op'[i].seen = op[i].seen /\ op'[i].todo = op[i].seen.evid
<1> DEFINE o == op[i]  x == op'[i]
<1>1. /\ OpFits(i, o) /\ o.pc = "family" /\ o.kind \in Onboards /\ i \in Slot /\ o.reg = None
      /\ o.seen \in Snapshots /\ o.todo = {}
  BY OpsFit, OnboardFacts
     DEF RestoreEvidence, OpAt, OpFits, KindFits, RegFits, SnapFits, RegisterPcs, RestorePcs
<1>2. x = [o EXCEPT !.pc = "evidence", !.todo = o.seen.evid]
  BY GoGives DEF RestoreEvidence
<1>3. AskShape(x) /\ Same(o, x) /\ x.pc = "evidence" /\ x.reg = None /\ x.seen = o.seen
        /\ x.todo = o.seen.evid
  BY <1>1, <1>2, ZenonT(30) DEF AskShape, AskFields, OpFits, Same
<1>4. OpFits(i, x)
  BY <1>1, <1>3, SameWho DEF OpFits, KindFits, RegFits, RetireFits, LoopFits, EditFits, SnapFits,
     RetirePcs, RegisterPcs, BatchPcs, RestorePcs, AnswerPcs, ChangePcs, Onboards, Same
<1> QED BY <1>1, <1>3, <1>4 DEF Onward

LEMMA EnsureEvidenceFits ==
  ASSUME Ops, NEW i \in Proc, EnsureEvidence(i)
  PROVE  /\ Onward(i) /\ op[i].pc = "evidence" /\ op[i].kind \in Onboards
         /\ \/ op'[i].pc = "failed" /\ UNCHANGED shared
            \/ \E e \in op[i].seen.evid :
                 /\ ~ExceedsCurrent(op[i].h, op[i].p, e)
                 /\ shared' = [shared EXCEPT ![op[i].h].evid[op[i].p] = @ \cup {e}]
                 /\ op'[i].pc = "evidence" /\ op'[i].seen = op[i].seen /\ op'[i].todo = op[i].todo \ {e}
<1> DEFINE o == op[i]  x == op'[i]  e == CHOOSE y \in o.todo : TRUE
<1>1. /\ OpFits(i, o) /\ o.pc = "evidence" /\ o.kind \in Onboards /\ i \in Slot /\ o.reg = None
      /\ o.seen \in Snapshots /\ o.todo \subseteq o.seen.evid /\ o.todo # {}
  BY OpsFit, OnboardFacts
     DEF EnsureEvidence, OpAt, OpFits, KindFits, RegFits, SnapFits, RegisterPcs, RestorePcs
<1>2. e \in o.todo
  BY <1>1
<1>3. \/ (\E y : x = Stop(o, y)) /\ UNCHANGED shared
      \/ /\ x = [o EXCEPT !.todo = o.todo \ {e}]
         /\ ~ExceedsCurrent(o.h, o.p, e)
         /\ shared' = [shared EXCEPT ![o.h].evid[o.p] = @ \cup {e}]
  BY <1>1, GoGives, SMTT(30) DEF EnsureEvidence, AskShape, AskFields, OpFits, Same
<1> HIDE DEF e
<1>4. CASE /\ x = [o EXCEPT !.todo = o.todo \ {e}]
           /\ ~ExceedsCurrent(o.h, o.p, e)
           /\ shared' = [shared EXCEPT ![o.h].evid[o.p] = @ \cup {e}]
  <2>1. AskShape(x) /\ Same(o, x) /\ x.pc = "evidence" /\ x.reg = None /\ x.seen = o.seen
          /\ x.todo = o.todo \ {e}
    BY <1>1, <1>4 DEF AskShape, AskFields, OpFits, Same
  <2>2. OpFits(i, x)
    BY <1>1, <2>1, SameWho DEF OpFits, KindFits, RegFits, RetireFits, LoopFits, EditFits, SnapFits,
       RetirePcs, RegisterPcs, BatchPcs, RestorePcs, AnswerPcs, ChangePcs, Onboards, Same
  <2> QED BY <1>1, <1>2, <1>4, <2>1, <2>2 DEF Onward
<1> QED BY <1>1, <1>3, <1>4, StopOnward

LEMMA RestoreSequencesFits ==
  ASSUME Ops, NEW i \in Proc, RestoreSequences(i)
  PROVE  /\ Onward(i) /\ op[i].pc = "evidence" /\ op[i].kind \in Onboards /\ op'[i].pc = "verify"
         /\ op[i].todo = {} /\ op'[i].seen = op[i].seen /\ op[i].seen \in Snapshots
<1> DEFINE o == op[i]  x == op'[i]
<1>1. /\ OpFits(i, o) /\ o.pc = "evidence" /\ o.kind \in Onboards /\ i \in Slot /\ o.reg = None
      /\ o.seen \in Snapshots /\ o.todo = {}
  BY OpsFit, OnboardFacts
     DEF RestoreSequences, OpAt, OpFits, KindFits, RegFits, SnapFits, RegisterPcs, RestorePcs
<1>2. x = [o EXCEPT !.pc = "verify"]
  BY GoGives DEF RestoreSequences, Proceed
<1>3. AskShape(x) /\ Same(o, x) /\ x.pc = "verify" /\ x.reg = None /\ x.seen = o.seen
  BY <1>1, <1>2 DEF AskShape, AskFields, OpFits, Same
<1>4. OpFits(i, x)
  BY <1>1, <1>3, SameWho DEF OrNone, OpFits, KindFits, RegFits, RetireFits, LoopFits, EditFits,
     SnapFits, RetirePcs, RegisterPcs, BatchPcs, RestorePcs, AnswerPcs, ChangePcs, Onboards, Same
<1> QED BY <1>1, <1>3, <1>4 DEF Onward

\* The checks and the Worker at the end of an onboarding.
LEMMA AnswerFits ==
  ASSUME Ops, NEW i \in Proc, Verify(i) \/ EnsureDetached(i) \/ EnsureAdminWorker(i)
  PROVE  /\ Onward(i) /\ op[i].pc \in {"verify", "ensure", "bind"} /\ op[i].kind \in Onboards
         /\ op'[i].pc = "failed" \/ (op'[i].pc \in AnswerPcs /\ op'[i].seen = op[i].seen)
<1> DEFINE o == op[i]  x == op'[i]
<1>1. /\ OpFits(i, o) /\ o.pc \in {"verify", "ensure", "bind"} /\ o.kind \in Onboards /\ i \in Slot
      /\ o.reg = None /\ o.seen \in OrNone(Snapshots)
  BY OpsFit, OnboardFacts, Zenon
     DEF Verify, EnsureDetached, EnsureAdminWorker, OpAt, OpFits, KindFits, RegFits, SnapFits, RegisterPcs,
           AnswerPcs
<1>2. \/ \E e : x = Stop(o, e)
      \/ \E pc \in {"ensure", "ok", "partial"} : x = [o EXCEPT !.pc = pc]
      \/ \E w : x = [o EXCEPT !.pc = "bind", !.work = w]
  <2>1. CASE Verify(i)
    <3>1. (\E e : x = Stop(o, e)) \/ x = [o EXCEPT !.pc = IF o.kind = "admin" THEN "ensure" ELSE "ok"]
      BY <2>1, GoGives DEF Verify
    <3> QED BY <3>1, Zenon
  <2>2. CASE EnsureDetached(i)
    <3>1. \/ x = [o EXCEPT !.pc = "partial"]
          \/ x = [o EXCEPT !.pc = "bind", !.work = IF relay[o.h][o.p] = "none" THEN "started" ELSE None]
      BY <2>2, GoGives DEF EnsureDetached
    <3> QED BY <3>1, Zenon
  <2>3. CASE EnsureAdminWorker(i)
    <3>1. x = [o EXCEPT !.pc = "ok"] \/ x = [o EXCEPT !.pc = "partial"]
      BY <2>3, GoGives DEF EnsureAdminWorker, Proceed
    <3> QED BY <3>1, Zenon
  <2> QED BY <2>1, <2>2, <2>3, Zenon
<1>3. CASE ~\E e : x = Stop(o, e)
  <2>1. AskShape(x) /\ Same(o, x) /\ x.pc \in {"ensure", "ok", "partial", "bind"} /\ x.reg = None
          /\ x.seen = o.seen
    <3>1. CASE \E pc \in {"ensure", "ok", "partial"} : x = [o EXCEPT !.pc = pc]
      BY <1>1, <3>1 DEF AskShape, AskFields, OpFits, Same
    <3>2. CASE \E w : x = [o EXCEPT !.pc = "bind", !.work = w]
      BY <1>1, <3>2 DEF AskShape, AskFields, OpFits, Same
    <3> QED BY <1>2, <1>3, <3>1, <3>2, Zenon
  <2>2. OpFits(i, x)
    BY <1>1, <2>1, SameWho DEF OpFits, KindFits, RegFits, RetireFits, LoopFits, EditFits, SnapFits,
       RetirePcs, RegisterPcs, BatchPcs, RestorePcs, AnswerPcs, ChangePcs, Onboards, Same
  <2> QED BY <1>1, <2>1, <2>2 DEF Onward, AnswerPcs
<1>4. CASE \E e : x = Stop(o, e)
  BY <1>1, <1>4, StopOnward
<1> QED BY <1>1, <1>3, <1>4

\* Updates of a project code.
LEMMA UpdateFacts ==
  ASSUME Ops, NEW i \in Proc, op[i].pc \in {"preflight", "conf", "hubCode", "rollbackCode", "restoreConf"}
  PROVE  /\ OpFits(i, op[i]) /\ i \in Slot /\ op[i].kind = "update" /\ op[i].pc # "idle"
         /\ op[i].h \in Host /\ op[i].p \in Project /\ op[i].code \in Code /\ op[i].reg = None
<1>1. OpFits(i, op[i]) /\ op[i].kind = "update"
  BY OpsFit DEF OpFits, KindFits
<1> QED BY <1>1, AskedFacts DEF OpFits, RegFits, RegisterPcs

LEMMA PreflightFits ==
  ASSUME Stores, Ops, NEW i \in Proc, Preflight(i)
  PROVE  /\ Onward(i) /\ op[i].pc = "preflight" /\ op[i].kind = "update" /\ op'[i].pc \in {"failed", "conf"}
         /\ op'[i].pc = "conf" => /\ op'[i].seen.old = EffectiveCode(op[i].h, op[i].p)
                                  /\ EffectiveCode(op[i].h, op[i].p) # None
<1> DEFINE o == op[i]  x == op'[i]  old == EffectiveCode(o.h, o.p)  r == [cfg |-> hub.cfg[o.p], old |-> old]
<1>1. /\ OpFits(i, o) /\ i \in Slot /\ o.kind = "update" /\ o.pc = "preflight" /\ o.reg = None
      /\ o.h \in Host /\ o.p \in Project /\ o.code \in Code
  BY UpdateFacts DEF Preflight, OpAt
<1>2. hub.cfg[o.p] \in Ents /\ old \in OrNone(Code)
  BY <1>1, SMTT(30) DEF Stores, HubStore, RegStore, ConfStore, Codes, OrNone, EffectiveCode
<1>3. r.cfg = hub.cfg[o.p] /\ r.old = old
  OBVIOUS
<1>4. \/ \E e : x = Stop(o, e)
      \/ x = [o EXCEPT !.pc = "conf", !.rev = hub.rev, !.seen = r] /\ old \notin {None, o.code}
  BY GoGives DEF Preflight
<1> HIDE DEF r, old
<1>5. CASE x = [o EXCEPT !.pc = "conf", !.rev = hub.rev, !.seen = r] /\ old \notin {None, o.code}
  <2>1. AskShape(x) /\ Same(o, x) /\ x.pc = "conf" /\ x.reg = None /\ x.seen = r
    BY <1>1, <1>5 DEF AskShape, AskFields, OpFits, Same
  <2>2. OpFits(i, x)
    BY <1>1, <1>2, <1>3, <1>5, <2>1, SameWho, ZenonT(30) DEF OrNone, OpFits, KindFits, RegFits, RetireFits,
       LoopFits, EditFits, SnapFits, RetirePcs, RegisterPcs, BatchPcs, RestorePcs, AnswerPcs,
       ChangePcs, Onboards, Same
  <2> QED BY <1>1, <1>3, <1>5, <2>1, <2>2 DEF Onward, old
<1> QED BY <1>1, <1>4, <1>5, StopOnward, SMTT(30)

LEMMA UpdateProjectCodeFits ==
  ASSUME Stores, Ops, NEW i \in Proc, UpdateProjectCode(i)
  PROVE  /\ Onward(i) /\ op[i].pc = "conf" /\ op[i].kind = "update"
         /\ \/ op'[i].pc = "failed" /\ UNCHANGED conf
            \/ /\ op'[i].pc = "hubCode" /\ op'[i].rec = conf[op[i].h].file /\ op'[i].seen = op[i].seen
               /\ conf[op[i].h].file[op[i].p] = op[i].seen.old
               /\ conf' = [conf EXCEPT ![op[i].h].file[op[i].p] = op[i].code]
<1> DEFINE o == op[i]  x == op'[i]  f == conf[o.h].file
<1>1. /\ OpFits(i, o) /\ i \in Slot /\ o.kind = "update" /\ o.pc = "conf" /\ o.reg = None /\ o.h \in Host
  BY UpdateFacts DEF UpdateProjectCode, OpAt
<1>2. f \in Codes
  BY <1>1 DEF Stores, ConfStore
<1>3. \/ (\E e : x = Stop(o, e)) /\ UNCHANGED conf
      \/ /\ x = [o EXCEPT !.pc = "hubCode", !.rec = f] /\ f[o.p] = o.seen.old
         /\ conf' = [conf EXCEPT ![o.h].file[o.p] = o.code]
  BY GoGives DEF UpdateProjectCode
<1> HIDE DEF f
<1>4. CASE /\ x = [o EXCEPT !.pc = "hubCode", !.rec = f] /\ f[o.p] = o.seen.old
           /\ conf' = [conf EXCEPT ![o.h].file[o.p] = o.code]
  <2>1. AskShape(x) /\ Same(o, x) /\ x.pc = "hubCode" /\ x.reg = None /\ x.seen = o.seen /\ x.rec = f
    BY <1>1, <1>4 DEF AskShape, AskFields, OpFits, Same
  <2>2. OpFits(i, x)
    BY <1>1, <1>2, <2>1, SameWho DEF OpFits, KindFits, RegFits, RetireFits, LoopFits, EditFits,
       SnapFits, RetirePcs, RegisterPcs, BatchPcs, RestorePcs, AnswerPcs, ChangePcs, Onboards, Same
  <2> QED BY <1>1, <1>4, <2>1, <2>2 DEF Onward, f
<1> QED BY <1>1, <1>3, <1>4, StopOnward

LEMMA HubCodeFits ==
  ASSUME Ops, NEW i \in Proc, HubCode(i)
  PROVE  /\ Onward(i) /\ op[i].pc = "hubCode" /\ op[i].kind = "update"
         /\ op'[i].seen = op[i].seen /\ op'[i].rec = op[i].rec /\ op'[i].work = op[i].work
         /\ \/ op'[i].pc = "bootstrap" /\ ChangesCode(i)
            \/ op'[i].pc = "restoreConf" /\ UNCHANGED hub
<1> DEFINE o == op[i]  x == op'[i]
<1>1. /\ OpFits(i, o) /\ i \in Slot /\ o.kind = "update" /\ o.pc = "hubCode" /\ o.reg = None
  BY UpdateFacts DEF HubCode, ChangesCode, OpAt
<1>2. \/ x = [o EXCEPT !.pc = "bootstrap", !.rev = hub.rev + 1] /\ ChangesCode(i)
      \/ x = [o EXCEPT !.pc = "restoreConf"] /\ UNCHANGED hub
  BY GoGives DEF HubCode, Proceed
<1>3. /\ AskShape(x) /\ Same(o, x) /\ x.pc \in {"bootstrap", "restoreConf"} /\ x.reg = None /\ x.seen = o.seen
      /\ x.rec = o.rec /\ x.work = o.work
  BY <1>1, <1>2, ZenonT(30) DEF AskShape, AskFields, OpFits, Same
<1>4. OpFits(i, x)
  BY <1>1, <1>3, SameWho DEF OpFits, KindFits, RegFits, RetireFits, LoopFits, EditFits, SnapFits,
     RetirePcs, RegisterPcs, BatchPcs, RestorePcs, AnswerPcs, ChangePcs, Onboards, Same
<1>5. x = [o EXCEPT !.pc = "restoreConf"] => x.pc = "restoreConf"
  BY <1>1 DEF AskShape, AskFields, OpFits, Same
<1>6. x = [o EXCEPT !.pc = "bootstrap", !.rev = hub.rev + 1] => x.pc = "bootstrap"
  BY <1>1 DEF AskShape, AskFields, OpFits, Same
<1> QED BY <1>1, <1>2, <1>3, <1>4, <1>5, <1>6 DEF Onward

LEMMA RollbackProjectCodeFits ==
  ASSUME Ops, NEW i \in Proc, RollbackProjectCode(i)
  PROVE  /\ Onward(i) /\ op[i].pc = "rollbackCode" /\ op[i].kind = "update" /\ op'[i].pc = "restoreConf"
         /\ op'[i].seen = op[i].seen /\ op'[i].rec = op[i].rec
         /\ RevertsCode(i) \/ (op'[i].work = "mixed" /\ UNCHANGED hub)
<1> DEFINE o == op[i]  x == op'[i]
<1>1. /\ OpFits(i, o) /\ i \in Slot /\ o.kind = "update" /\ o.pc = "rollbackCode" /\ o.reg = None
  BY UpdateFacts DEF RollbackProjectCode, RevertsCode, OpAt
<1>2. \/ x = [o EXCEPT !.pc = "restoreConf", !.work = "undone"] /\ RevertsCode(i)
      \/ x = [o EXCEPT !.pc = "restoreConf", !.work = "mixed"] /\ UNCHANGED hub
  BY GoGives DEF RollbackProjectCode
<1>3. AskShape(x) /\ Same(o, x) /\ x.pc = "restoreConf" /\ x.reg = None /\ x.seen = o.seen /\ x.rec = o.rec
  BY <1>1, <1>2, ZenonT(30) DEF AskShape, AskFields, OpFits, Same
<1>4. OpFits(i, x)
  BY <1>1, <1>3, SameWho DEF OpFits, KindFits, RegFits, RetireFits, LoopFits, EditFits, SnapFits,
     RetirePcs, RegisterPcs, BatchPcs, RestorePcs, AnswerPcs, ChangePcs, Onboards, Same
<1>5. x = [o EXCEPT !.pc = "restoreConf", !.work = "mixed"] => x.work = "mixed"
  BY <1>1 DEF AskShape, AskFields, OpFits, Same
<1> QED BY <1>1, <1>2, <1>3, <1>4, <1>5 DEF Onward

LEMMA RestoreConfFits ==
  ASSUME Ops, NEW i \in Proc, RestoreConf(i)
  PROVE  /\ Onward(i) /\ op[i].pc = "restoreConf" /\ op[i].kind = "update"
         /\ op'[i].pc = IF op[i].work = "mixed" THEN "mixed" ELSE "failed"
         /\ op'[i].work = op[i].work
<1> DEFINE o == op[i]  x == op'[i]  s == Stop(o, "update")
           pc == IF o.work = "mixed" THEN "mixed" ELSE "failed"
<1>1. /\ OpFits(i, o) /\ i \in Slot /\ o.kind = "update" /\ o.pc = "restoreConf" /\ o.reg = None
  BY UpdateFacts DEF RestoreConf, OpAt
<1>2. OpFits(i, s) /\ Same(o, s) /\ s.pc = "failed" /\ s.work = o.work
  BY <1>1, StopFits
<1>3. x = [s EXCEPT !.pc = pc]
  BY GoGives DEF RestoreConf
<1> HIDE DEF s
<1>4. AskShape(x) /\ Same(o, x) /\ x.pc = pc /\ x.reg = None /\ x.work = o.work
  BY <1>1, <1>2, <1>3 DEF RegFits, RegisterPcs, AskShape, AskFields, OpFits, Same
<1>5. KindFits(x)
  BY <1>1, <1>4 DEF Same, KindFits, RegisterPcs, RestorePcs, BatchPcs, RetirePcs
<1> QED BY <1>1, <1>4, <1>5, PlainOnward DEF PlainPcs

\* A configuration file that cannot be restored leaves an answer that says so,
\* or one that hides it.
LEMMA RestoreFailsFits ==
  ASSUME Ops, NEW i \in Proc, RestoreFails(i)
  PROVE  /\ Onward(i) /\ op[i].pc = "restoreConf" /\ op[i].kind = "update"
         /\ op'[i].pc = "mixed" \/ (op'[i].pc = "failed" /\ op'[i].work = "kept")
<1> DEFINE o == op[i]  x == op'[i]  s == Stop(o, "update")
<1>1. /\ OpFits(i, o) /\ i \in Slot /\ o.kind = "update" /\ o.pc = "restoreConf" /\ o.reg = None
  BY UpdateFacts DEF RestoreFails, OpAt
<1>2. OpFits(i, s) /\ Same(o, s) /\ s.pc = "failed"
  BY <1>1, StopFits
<1>3. x = [s EXCEPT !.pc = "mixed"] \/ x = [s EXCEPT !.work = "kept"]
  BY GoGives DEF RestoreFails
<1> HIDE DEF s
<1>4. /\ AskShape(x) /\ Same(o, x) /\ x.reg = None
      /\ x.pc = "mixed" \/ (x.pc = "failed" /\ x.work = "kept")
  BY <1>1, <1>2, <1>3, ZenonT(30) DEF RegFits, RegisterPcs, AskShape, AskFields, OpFits, Same
<1>5. KindFits(x)
  BY <1>1, <1>4 DEF Same, KindFits, RegisterPcs, RestorePcs, BatchPcs, RetirePcs
<1> QED BY <1>1, <1>4, <1>5, PlainOnward DEF PlainPcs

\* Edits of the configuration and of entities.
LEMMA ConfigurationReadsFits ==
  ASSUME Stores, Ops, NEW i \in Proc, ConfigurationReads(i)
  PROVE  Onward(i) /\ op[i].kind = "config"
<1> DEFINE o == op[i]  x == op'[i]  c == ProjectConfigurationRead(o.h, o.p)
<1>1. OpFits(i, o) /\ o.pc = "config" /\ o.kind = "config" /\ o.reg = None
  BY OpsFit DEF ConfigurationReads, OpAt, OpFits, KindFits, RegFits, RegisterPcs
<1>2. i \in Slot /\ o.h \in Host /\ o.p \in Project
  BY <1>1, AskedFacts
<1>3. c # NoEnt => c \in Ents
  BY <1>2 DEF Stores, SharedStore, ProjectConfigurationRead
<1>4. \/ \E e : x = Stop(o, e)
      \/ x = [o EXCEPT !.pc = "commitConfig", !.seen = c] /\ c # NoEnt /\ c.rev < MaxCfg
  BY GoGives DEF ConfigurationReads
<1> HIDE DEF c
<1>5. CASE x = [o EXCEPT !.pc = "commitConfig", !.seen = c] /\ c # NoEnt /\ c.rev < MaxCfg
  <2>1. AskShape(x) /\ Same(o, x) /\ x.pc = "commitConfig" /\ x.reg = None /\ x.seen = c
    BY <1>1, <1>5, ZenonT(30) DEF AskShape, AskFields, OpFits, Same
  <2>2. OpFits(i, x)
    BY <1>1, <1>2, <1>3, <1>5, <2>1, SameWho DEF OpFits, KindFits, RegFits, RetireFits, LoopFits,
       EditFits, SnapFits, RetirePcs, RegisterPcs, BatchPcs, RestorePcs, AnswerPcs, ChangePcs,
       Onboards, Same
  <2> QED BY <1>1, <2>1, <2>2 DEF Onward
<1> QED BY <1>1, <1>2, <1>4, <1>5, StopOnward

LEMMA EditingFits ==
  ASSUME Ops, NEW i \in Proc, MutateProjectConfiguration(i) \/ EditEntity(i)
  PROVE  /\ Onward(i) /\ op[i].kind \in {"config", "edit", "create"} /\ i \in Slot
         /\ MutateProjectConfiguration(i) => op[i].pc = "commitConfig"
         /\ EditEntity(i) => op[i].kind # "config"
<1> DEFINE o == op[i]  x == op'[i]
<1>1. /\ OpFits(i, o) /\ o.kind \in {"config", "edit", "create"} /\ o.reg = None
           /\ o.pc \in {"commitConfig", "edit"}
      /\ MutateProjectConfiguration(i) => o.pc = "commitConfig"
      /\ EditEntity(i) => o.kind # "config"
  BY OpsFit, Zenon DEF MutateProjectConfiguration, EditEntity, OpAt, OpFits, KindFits, RegFits, RegisterPcs
<1>2. i \in Slot
  BY <1>1, AskedFacts
<1>3. (\E e : x = Stop(o, e)) \/ x = [o EXCEPT !.pc = "ok"]
  <2>1. CASE MutateProjectConfiguration(i)
    <3>1. Go(i, [o EXCEPT !.pc = "ok"]) \/ Go(i, Stop(o, "conflict"))
      BY <2>1, Zenon DEF MutateProjectConfiguration, Proceed
    <3> QED BY <3>1, GoGives
  <2>2. CASE EditEntity(i)
    <3>1. Go(i, [o EXCEPT !.pc = "ok"]) \/ Go(i, Stop(o, "edit"))
      BY <2>2, Zenon DEF EditEntity, Proceed
    <3> QED BY <3>1, GoGives
  <2> QED BY <2>1, <2>2
<1>4. CASE x = [o EXCEPT !.pc = "ok"]
  <2>1. AskShape(x) /\ Same(o, x) /\ x.pc = "ok" /\ x.reg = None
    BY <1>1, <1>4 DEF AskShape, AskFields, OpFits, Same
  <2>2. OpFits(i, x)
    BY <1>1, <1>2, <2>1, SameWho DEF OpFits, KindFits, RegFits, RetireFits, LoopFits, EditFits,
       SnapFits, RetirePcs, RegisterPcs, BatchPcs, RestorePcs, AnswerPcs, ChangePcs, Onboards, Same
  <2> QED BY <1>1, <1>2, <2>1, <2>2 DEF Onward
<1> QED BY <1>1, <1>2, <1>3, <1>4, StopOnward

-----------------------------------------------------------------------------
(* The steps of a retirement, by a request and by the synchronisation.     *)

Retires(i) ==
  /\ OpFits(i, op'[i]) /\ op[i].kind \in {"retire", "sync"}
  /\ i \in Slot => Same(op[i], op'[i])
  /\ op'[i].pc \in PublishedPcs =>
       op[i].pc \in RetirePcs /\ op'[i].h = op[i].h /\ op'[i].p = op[i].p

LEMMA RetireFacts ==
  ASSUME Ops, NEW i \in Proc, op[i].pc \in RetirePcs
  PROVE  /\ OpFits(i, op[i]) /\ op[i].kind \in {"retire", "sync"} /\ op[i].pc # "idle"
         /\ op[i].h \in Host /\ op[i].p \in Project /\ op[i].rec \in Markers
         /\ op[i].kind = "retire" <=> i \in Slot
         /\ op[i].kind = "retire" <=> op[i].phase = "retire"
         /\ op[i].phase \in {"retire", "hub", "local", "publish"}
         /\ op[i].pc # "unregisterWrite" => op[i].reg = None
<1>1. OpFits(i, op[i]) /\ op[i].kind \in {"retire", "sync"} /\ op[i].p \in Project /\ op[i].rec \in Markers
  BY OpsFit DEF OpFits, KindFits, RetireFits
<1>2. op[i].pc # "idle" /\ op[i].pc # "unregisterWrite" => op[i].reg = None
  BY <1>1 DEF RetirePcs, OpFits, RegFits, RegisterPcs
<1>3. CASE op[i].kind = "retire"
  BY <1>1, <1>2, <1>3, AskedFacts DEF OpFits, RetireFits, RetirePcs
<1>4. CASE op[i].kind = "sync"
  BY <1>1, <1>2, <1>4, SyncFacts DEF OpFits, LoopFits, RetirePcs
<1> QED BY <1>1, <1>3, <1>4

LEMMA StopRetires ==
  ASSUME Ops, NEW i \in Proc, op[i].kind \in {"retire", "sync"}, op[i].pc # "idle",
         op[i].reg = None \/ i \in Slot, \E e : op'[i] = Stop(op[i], e)
  PROVE  Retires(i)
<1>1. PICK e : op'[i] = Stop(op[i], e)
  OBVIOUS
<1>2. OpFits(i, op[i])
  BY OpsFit
<1> QED BY <1>1, <1>2, StopFits DEF Retires, RetirePcs, PublishedPcs

\* Where a retirement may go in each of its phases.
Goes(phase, pc) ==
  \/ pc \in {"batch", "batchWrite", "import", "importWrite"} /\ phase \in {"retire", "hub", "local"}
  \/ pc \in {"publish", "mark"} /\ phase \in {"retire", "publish"}
  \/ pc = "unregister" /\ phase \in {"retire", "hub", "publish"}
  \/ pc = "next" /\ phase \in {"hub", "local", "publish"}
  \/ pc = "ok" /\ phase = "retire"

LEMMA RetireMoves ==
  ASSUME NEW i \in Proc, Ops, op[i].pc \in RetirePcs,
         AskShape(op'[i]), Same(op[i], op'[i]), op'[i].phase = op[i].phase, op'[i].todo = op[i].todo,
         op'[i].seen = op[i].seen, op'[i].rec \in Markers, op'[i].reg = None,
         Goes(op[i].phase, op'[i].pc)
  PROVE  Retires(i)
<1> DEFINE o == op[i]  x == op'[i]
<1>1. /\ OpFits(i, o) /\ o.kind \in {"retire", "sync"} /\ o.h \in Host /\ o.p \in Project /\ o.pc # "idle"
      /\ o.kind = "retire" <=> i \in Slot
      /\ o.kind = "retire" <=> o.phase = "retire"
  BY RetireFacts
<1>2. x.pc \in {"batch", "batchWrite", "import", "importWrite", "publish", "mark", "unregister", "next", "ok"}
  BY DEF Goes
<1>3. WhoFits(i, x)
  BY <1>1, <1>2, SlotOrHost DEF OpFits, WhoFits, Same
<1>4. KindFits(x)
  BY <1>1, <1>2 DEF Goes, Same, KindFits, RegisterPcs, RestorePcs, BatchPcs, RetirePcs
<1>5. RegFits(x)
  BY <1>2 DEF RegFits, RegisterPcs
<1>6. RetireFits(x)
  BY <1>1, <1>2 DEF RetireFits, RetirePcs, Goes, Same
<1>7. LoopFits(x)
  BY <1>1, <1>2 DEF OpFits, LoopFits, RetirePcs, Same
<1>8. EditFits(x)
  BY <1>2 DEF EditFits, BatchPcs, ChangePcs
<1>9. SnapFits(x)
  BY <1>1, <1>2 DEF SnapFits, RestorePcs, AnswerPcs, Same, Onboards
<1> QED BY <1>1, <1>3, <1>4, <1>5, <1>6, <1>7, <1>8, <1>9 DEF Retires, OpFits, Same

LEMMA FollowGoes ==
  ASSUME NEW i \in Proc, NEW o, NEW step, OpFits(i, o), o.pc \in RetirePcs,
         o.phase = "retire" <=> o.kind = "retire", o.kind \in {"retire", "sync"},
         \/ step = "beginLocal" /\ o.pc = "beginLocal"
         \/ step = "shared" /\ o.pc \in {"batch", "batchWrite", "import", "importWrite"}
         \/ step = "publish" /\ o.pc = "publish"
         \/ step = "mark" /\ o.pc = "mark"
         \/ step = "unregister" /\ o.pc \in {"unregister", "unregisterWrite"}
  PROVE  Goes(o.phase, Follow(o, step))
<1>1. RetireFits(o)
  BY DEF OpFits
<1>2. None # "batch" /\ None # "import"
  BY NoneApart
<1>3. CASE o.kind = "retire"
  BY <1>1, <1>2, <1>3 DEF RetireFits, RetirePcs, Goes, Follow
<1>4. CASE o.kind = "sync"
  BY <1>1, <1>2, <1>4 DEF RetireFits, RetirePcs, Goes, Follow
<1> QED BY <1>3, <1>4

LEMMA Following ==
  ASSUME Ops, NEW i \in Proc, op[i].pc \in RetirePcs, NEW step, NEW rec \in Markers,
         \/ op'[i] = [op[i] EXCEPT !.pc = Follow(op[i], step)] /\ op[i].pc # "unregisterWrite"
         \/ op'[i] = [op[i] EXCEPT !.pc = Follow(op[i], step), !.rec = rec] /\ op[i].pc # "unregisterWrite"
         \/ op'[i] = [op[i] EXCEPT !.pc = Follow(op[i], step), !.reg = None],
         \/ step = "beginLocal" /\ op[i].pc = "beginLocal"
         \/ step = "shared" /\ op[i].pc \in {"batch", "batchWrite", "import", "importWrite"}
         \/ step = "publish" /\ op[i].pc = "publish"
         \/ step = "mark" /\ op[i].pc = "mark"
         \/ step = "unregister" /\ op[i].pc \in {"unregister", "unregisterWrite"}
  PROVE  Retires(i)
<1> DEFINE o == op[i]  x == op'[i]  pc == Follow(o, step)
<1>1. /\ OpFits(i, o) /\ o.kind \in {"retire", "sync"} /\ o.rec \in Markers
      /\ o.kind = "retire" <=> o.phase = "retire"
      /\ o.pc # "unregisterWrite" => o.reg = None
  BY RetireFacts
<1>2. Goes(o.phase, pc)
  BY <1>1, FollowGoes
<1> HIDE DEF pc
<1>3. /\ AskShape(x) /\ Same(o, x) /\ x.phase = o.phase /\ x.todo = o.todo /\ x.seen = o.seen /\ x.pc = pc
      /\ x.rec \in Markers /\ x.reg = None
  BY <1>1, Zenon DEF AskShape, AskFields, OpFits, Same, pc
<1> QED BY <1>2, <1>3, RetireMoves

LEMMA RevsAre == /\ MaxCfg + Cardinality(Slot) \in Nat /\ Cardinality(Slot) \in Nat
                 /\ 0 \in Revs /\ \A i \in Slot : 1 \in Revs
<1>1. Cardinality(Slot) \in Nat
  BY ProjectLifecycleAssumption, FS_CardinalityType
<1>2. \A i \in Slot : Cardinality(Slot) > 0
  <2>1. Slot # {} => Cardinality(Slot) # 0
    BY ProjectLifecycleAssumption, FS_EmptySet
  <2> QED BY <1>1, <2>1
<1> QED BY <1>1, <1>2, ProjectLifecycleAssumption DEF Revs

\* The largest of a bounded set of numbers.
LEMMA LargestBelow ==
  ASSUME NEW N \in Nat, NEW S \in SUBSET Nat, S # {}, \A r \in S : r <= N
  PROVE  Max(S) \in S /\ \A r \in S : r <= Max(S)
<1> DEFINE D == {N - r : r \in S}
<1>1. \A r \in S : r \in Nat /\ r <= N /\ N - r \in Nat
  OBVIOUS
<1>2. D \in SUBSET Nat /\ D # {}
  BY <1>1
<1>3. PICK d \in D : \A e \in D : d <= e
  BY <1>2, Least
<1>4. PICK r \in S : d = N - r
  BY <1>3
<1>5. \A y \in S : r >= y
  <2> SUFFICES ASSUME NEW y \in S PROVE r >= y
    OBVIOUS
  <2>1. N - y \in D
    OBVIOUS
  <2>2. N - r <= N - y
    BY <1>3, <1>4, <2>1
  <2> QED BY <1>1, <2>2
<1> DEFINE P(x) == \A y \in S : x >= y
<1>6. (CHOOSE x \in S : P(x)) \in S /\ P(CHOOSE x \in S : P(x))
  BY <1>5, Zenon
<1>7. Max(S) = CHOOSE x \in S : P(x)
  BY DEF Max
<1>8. Max(S) \in S /\ \A y \in S : Max(S) >= y
  BY <1>6, <1>7
<1> HIDE DEF P
<1> QED BY <1>8

\* The largest of a set of configuration revisions is one of them.
LEMMA LargestRev ==
  ASSUME NEW S \in SUBSET Revs, S # {}
  PROVE  Max(S) \in S
<1> DEFINE N == MaxCfg + Cardinality(Slot)
<1>1. N \in Nat /\ Revs = 0..N
  BY RevsAre DEF Revs
<1> HIDE DEF N
<1>2. S \in SUBSET Nat /\ \A r \in S : r <= N
  BY <1>1
<1> QED BY <1>1, <1>2, LargestBelow

LEMMA NewRecordTyped ==
  ASSUME NEW at \in Slot, NEW reason \in STRING, NEW legacy \in BOOLEAN
  PROVE  NewRecord(at, reason, legacy) \in Markers
BY RevsAre DEF NewRecord, Markers

\* What the markers of the stores are.
LEMMA MarkersAre ==
  ASSUME Stores
  PROVE  /\ \A p \in Project : hub.marker[p] \in OrNone(Markers)
         /\ hub.marker \in [Project -> OrNone(Markers)]
         /\ \A h \in Host : shared[h].marker \in [Project -> OrNone(Markers)]
         /\ \A h \in Host, p \in Project :
              /\ shared[h].marker[p] \in OrNone(Markers) /\ local[h].marker[p] \in OrNone(LocalMarkers)
              /\ local[h].legacy[p] \in BOOLEAN
              /\ shared[h].cfg[p] \in Ents /\ shared[h].hist[p] \in Revs /\ shared[h].pend[p] \in SUBSET Ents
<1>1. /\ hub.marker \in [Project -> OrNone(Markers)]
      /\ \A h \in Host : shared[h] \in SharedStore /\ local[h] \in LocalStore
  BY DEF Stores, HubStore
<1>2. \A h \in Host : shared[h].marker \in [Project -> OrNone(Markers)]
  BY <1>1 DEF SharedStore
<1>3. \A h \in Host, p \in Project :
        shared[h].cfg[p] \in Ents /\ shared[h].hist[p] \in Revs /\ shared[h].pend[p] \in SUBSET Ents
  BY <1>1 DEF SharedStore
<1>4. \A h \in Host, p \in Project : local[h].marker[p] \in OrNone(LocalMarkers)
        /\ local[h].legacy[p] \in BOOLEAN
  BY <1>1 DEF LocalStore, Flags
<1> QED BY <1>1, <1>2, <1>3, <1>4

LEMMA RetireReadsFits ==
  ASSUME Stores, Ops, NEW i \in Proc, RetireReads(i)
  PROVE  Retires(i)
<1> DEFINE o == op[i]  x == op'[i]
           r == [shared |-> ReadSharedProjectRetirement(o.h, o.p),
               local |-> ReadLocalProjectRetirement(o.h, o.p)]
<1>1. OpFits(i, o) /\ o.pc = "retire" /\ o.kind = "retire" /\ o.reg = None
  BY OpsFit DEF RetireReads, OpAt, OpFits, KindFits, RegFits, RegisterPcs
<1>2. i \in Slot /\ o.h \in Host /\ o.p \in Project
  BY <1>1, AskedFacts
<1>3. r.shared \in OrNone(Markers) /\ r.local \in OrNone(LocalMarkers)
  BY <1>2, MarkersAre DEF ReadSharedProjectRetirement, ReadLocalProjectRetirement
<1>4. (\E e : x = Stop(o, e)) \/ x = [o EXCEPT !.pc = "retireHub", !.seen = r]
  BY GoGives DEF RetireReads
<1> HIDE DEF r
<1>5. CASE x = [o EXCEPT !.pc = "retireHub", !.seen = r]
  <2>1. AskShape(x) /\ Same(o, x) /\ x.pc = "retireHub" /\ x.reg = None /\ x.seen = r
    BY <1>1, <1>5 DEF AskShape, AskFields, OpFits, Same
  <2>2. OpFits(i, x)
    BY <1>1, <1>2, <1>3, <2>1, SameWho DEF OpFits, KindFits, RegFits, RetireFits, LoopFits,
       EditFits, SnapFits, RetirePcs, RegisterPcs, BatchPcs, RestorePcs, AnswerPcs, ChangePcs,
       Onboards, Same
  <2> QED BY <1>1, <2>1, <2>2 DEF Retires, RetirePcs, PublishedPcs
<1> QED BY <1>1, <1>2, <1>4, <1>5, StopRetires

LEMMA DebugRetireProjectFits ==
  ASSUME Stores, Ops, NEW i \in Proc, DebugRetireProject(i)
  PROVE  Retires(i)
<1> DEFINE o == op[i]  x == op'[i]  s == o.seen.shared  l == o.seen.local  g == hub.marker[o.p]
           fresh == NewRecord(IF l = None THEN i ELSE l.at, o.reason, local[o.h].legacy[o.p])
           BeginRecord(rec, work) == [o EXCEPT !.pc = "beginLocal", !.phase = "retire", !.rec = rec,
                                         !.work = work, !.seen = None]
<1>1. OpFits(i, o) /\ o.pc = "retireHub" /\ o.kind = "retire" /\ o.reg = None
  BY OpsFit, Zenon DEF DebugRetireProject, OpAt, OpFits, KindFits, RegFits, RegisterPcs
<1>2. i \in Slot /\ o.h \in Host /\ o.p \in Project /\ o.reason \in STRING
  BY <1>1, AskedFacts
<1>3. s \in OrNone(Markers) /\ l \in OrNone(LocalMarkers) /\ g \in OrNone(Markers)
  BY <1>1, <1>2, MarkersAre DEF OpFits, RetireFits
<1>4. fresh \in Markers
  BY <1>2, <1>3, MarkersAre, NewRecordTyped, ZenonT(30) DEF OrNone, LocalMarkers
<1>5. \/ \E e : x = Stop(o, e)
      \/ s # None /\ x = BeginRecord(s, None)
      \/ g # None /\ x = BeginRecord(g, "import")
      \/ x = BeginRecord(fresh, "batch")
  <2>1. x = CASE s # None /\ g # None /\ g # s -> Stop(o, "conflict")
              [] s # None /\ (g # None => g = s) -> BeginRecord(s, None)
              [] s = None /\ g # None -> IF g.reason = o.reason THEN BeginRecord(g, "import")
                  ELSE Stop(o, "conflict")
              [] s = None /\ g = None ->
                   IF l = None /\ ~SourceExists(o.h, o.p) THEN Stop(o, "source")
                       ELSE BeginRecord(fresh, "batch")
    <3>1. Go(i, CASE s # None /\ g # None /\ g # s -> Stop(o, "conflict")
                  [] s # None /\ (g # None => g = s) -> BeginRecord(s, None)
                  [] s = None /\ g # None -> IF g.reason = o.reason THEN BeginRecord(g, "import")
                      ELSE Stop(o, "conflict")
                  [] s = None /\ g = None ->
                       IF l = None /\ ~SourceExists(o.h, o.p) THEN Stop(o, "source")
                           ELSE BeginRecord(fresh, "batch"))
      BY Zenon DEF DebugRetireProject
    <3> HIDE DEF BeginRecord, fresh
    <3> QED BY <3>1, GoGives
  <2> HIDE DEF BeginRecord, fresh
  <2> QED BY <2>1, Zenon
<1>6. ASSUME NEW rec \in Markers, NEW w \in {None, "import", "batch"}, x = BeginRecord(rec, w)
      PROVE  Retires(i)
  <2>1. AskShape(x) /\ Same(o, x) /\ x.pc = "beginLocal" /\ x.reg = None /\ x.phase = "retire" /\ x.rec = rec
          /\ x.work = w
    BY <1>1, <1>6, ZenonT(30) DEF AskShape, AskFields, OpFits, Same
  <2>2. OpFits(i, x)
    BY <1>1, <1>2, <1>6, <2>1, SameWho, ZenonT(30) DEF OpFits, KindFits, RegFits, RetireFits, LoopFits,
       EditFits, SnapFits, RetirePcs, RegisterPcs, BatchPcs, RestorePcs, AnswerPcs, ChangePcs,
       Onboards, Same
  <2> QED BY <1>1, <2>1, <2>2 DEF Retires, RetirePcs, PublishedPcs
<1> QED BY <1>1, <1>3, <1>4, <1>5, <1>6, StopRetires, Zenon DEF OrNone

LEMMA BeginLocalFits ==
  ASSUME Stores, Ops, NEW i \in Proc, BeginLocalProjectRetirement(i)
  PROVE  /\ Retires(i)
         /\ \/ op'[i].pc \notin PublishedPcs \cup {"next"} /\ UNCHANGED local
            \/ \E m \in LocalMarkers :
                 /\ local[op[i].h].marker[op[i].p] \in {None, m}
                 /\ local' = [local EXCEPT ![op[i].h].marker[op[i].p] = m]
<1> DEFINE o == op[i]  x == op'[i]  l == local[o.h].marker[o.p]
           m == IF l = None THEN [at |-> o.rec.at, reason |-> o.rec.reason] ELSE l
<1>1. /\ OpFits(i, o) /\ o.pc = "beginLocal" /\ o.kind \in {"retire", "sync"} /\ o.reg = None
      /\ o.rec \in Markers /\ o.h \in Host /\ o.p \in Project /\ o.pc \in RetirePcs
  BY RetireFacts DEF BeginLocalProjectRetirement, OpAt, RetirePcs
<1>2. l \in OrNone(LocalMarkers)
  BY <1>1, MarkersAre
<1>3. m \in LocalMarkers /\ l \in {None, m}
  BY <1>1, <1>2 DEF OrNone, LocalMarkers, Markers
<1>4. \/ (\E e : x = Stop(o, e)) /\ UNCHANGED local
      \/ x = [o EXCEPT !.pc = Follow(o, "beginLocal")] /\ local' = [local EXCEPT ![o.h].marker[o.p] = m]
  BY GoGives DEF BeginLocalProjectRetirement, Proceed
<1> HIDE DEF m
<1>5. CASE (\E e : x = Stop(o, e)) /\ UNCHANGED local
  <2>1. x.pc \in {"failed", "snapshot", "degraded"}
    BY <1>1, <1>5, StopFits
  <2> QED BY <1>1, <1>5, <2>1, StopRetires DEF PublishedPcs, RetirePcs
<1>6. CASE x = [o EXCEPT !.pc = Follow(o, "beginLocal")] /\ local' = [local EXCEPT ![o.h].marker[o.p] = m]
  BY <1>1, <1>3, <1>6, Following, Zenon
<1> QED BY <1>4, <1>5, <1>6

\* The two attempts on the Shared rows.
BatchPhase == {"batch", "batchWrite", "import", "importWrite"}
LEMMA SharedAttempt ==
  ASSUME Ops, NEW i \in Proc, op[i].pc \in BatchPhase, NEW rec \in Markers,
         \/ \E e : op'[i] = Stop(op[i], e)
         \/ op'[i] = [op[i] EXCEPT !.pc = Follow(op[i], "shared")]
         \/ op'[i] = [op[i] EXCEPT !.pc = Follow(op[i], "shared"), !.rec = rec]
         \/ \E pc \in BatchPhase : \E try : op'[i] = [op[i] EXCEPT !.pc = pc, !.rec = rec, !.try = try]
  PROVE  Retires(i)
<1> DEFINE o == op[i]  x == op'[i]
<1>1. /\ OpFits(i, o) /\ o.kind \in {"retire", "sync"} /\ o.reg = None /\ o.pc \in RetirePcs
           /\ o.rec \in Markers
      /\ o.pc # "unregisterWrite" /\ o.pc # "idle" /\ o.phase \in {"retire", "hub", "local", "publish"}
  BY RetireFacts, Zenon DEF RetirePcs, BatchPhase
<1>2. o.phase \in {"retire", "hub", "local"}
  BY <1>1, RetireFacts, Zenon DEF OpFits, RetireFits, BatchPhase
<1>3. CASE \E e : x = Stop(o, e)
  BY <1>1, <1>3, StopRetires, Zenon
<1>4. CASE \/ op'[i] = [op[i] EXCEPT !.pc = Follow(op[i], "shared")]
           \/ op'[i] = [op[i] EXCEPT !.pc = Follow(op[i], "shared"), !.rec = rec]
  <2>1. op[i].pc \in {"batch", "batchWrite", "import", "importWrite"}
    BY Zenon DEF BatchPhase
  <2>2. op[i].pc # "unregisterWrite" /\ op[i].pc \in RetirePcs
    BY <1>1, Zenon
  <2> QED BY <1>4, <2>1, <2>2, Following, Zenon
<1>5. ASSUME NEW pc \in BatchPhase, NEW try, x = [o EXCEPT !.pc = pc, !.rec = rec, !.try = try]
      PROVE  Retires(i)
  <2>1. /\ AskShape(x) /\ Same(o, x) /\ x.phase = o.phase /\ x.todo = o.todo /\ x.seen = o.seen /\ x.pc = pc
        /\ x.rec \in Markers /\ x.reg = None
    BY <1>1, <1>5, ZenonT(30) DEF AskShape, AskFields, OpFits, Same
  <2> QED BY <1>1, <1>2, <2>1, RetireMoves, Zenon DEF Goes, BatchPhase
<1> QED BY <1>3, <1>4, <1>5, Zenon

LEMMA RetireSharedReadsFits ==
  ASSUME Stores, Ops, NEW i \in Proc, RetireSharedReads(i)
  PROVE  Retires(i) /\ op[i].pc \in PublishedPcs
<1> DEFINE o == op[i]  s == shared[o.h]  m == s.marker[o.p]
           revs == {s.cfg[o.p].rev, s.hist[o.p]} \cup {c.rev : c \in s.pend[o.p]}
           r == [o.rec EXCEPT !.cfg = Max(revs), !.cancelled = s.pend[o.p]]
<1>1. /\ o.pc = "batch" /\ o.pc \in BatchPhase /\ o.pc \in RetirePcs /\ OpFits(i, o)
      /\ o.h \in Host /\ o.p \in Project /\ o.rec \in Markers
  BY RetireFacts DEF RetireSharedReads, OpAt, BatchPhase, RetirePcs
<1>2. /\ m \in OrNone(Markers) /\ s.cfg[o.p] \in Ents /\ s.hist[o.p] \in Revs /\ s.pend[o.p] \in SUBSET Ents
  BY <1>1, MarkersAre
<1>3. revs \in SUBSET Revs /\ revs # {}
  BY <1>2 DEF Ents
<1>4. Max(revs) \in Revs
  BY <1>3, LargestRev, SMTT(30)
<1> HIDE DEF revs
<1>5. r \in Markers
  BY <1>1, <1>2, <1>4, Zenon DEF Markers
<1>6. \/ \E e : op'[i] = Stop(o, e)
      \/ m \in Markers /\ op'[i] = [o EXCEPT !.pc = Follow(o, "shared"), !.rec = m]
      \/ op'[i] = [o EXCEPT !.pc = "batchWrite", !.rec = r]
  <2> DEFINE y == IF m # None
                  THEN IF m.reason = o.reason /\ m.legacy = o.rec.legacy
                       THEN [o EXCEPT !.pc = Follow(o, "shared"), !.rec = m]
                       ELSE Stop(o, "conflict")
                  ELSE [o EXCEPT !.pc = "batchWrite",
                      !.rec = [@ EXCEPT !.cfg = Max(revs), !.cancelled = s.pend[o.p]]]
  <2>0. Go(i, y)
    BY Zenon DEF RetireSharedReads, revs
  <2>1. op'[i] = y
    <3> HIDE DEF y
    <3> QED BY <2>0, GoGives
  <2>2. [o EXCEPT !.pc = "batchWrite", !.rec = [@ EXCEPT !.cfg = Max(revs), !.cancelled = s.pend[o.p]]]
          = [o EXCEPT !.pc = "batchWrite", !.rec = r]
    BY <1>1 DEF AskShape, AskFields, OpFits, Same
  <2> QED BY <1>2, <2>1, <2>2, Zenon DEF OrNone
<1> HIDE DEF r
<1>7. op'[i] = [o EXCEPT !.pc = "batchWrite", !.rec = r]
        => op'[i] = [o EXCEPT !.pc = "batchWrite", !.rec = r, !.try = o.try]
  BY <1>1, Zenon DEF AskShape, AskFields, OpFits, Same
<1> QED BY <1>1, <1>5, <1>6, <1>7, SharedAttempt, Zenon DEF BatchPhase, PublishedPcs, RetirePcs

LEMMA RetireSharedProjectFits ==
  ASSUME Stores, Ops, NEW i \in Proc, RetireSharedProject(i)
  PROVE  Retires(i) /\ op[i].pc \in PublishedPcs /\ op[i].rec \in Markers /\ op[i].h \in Host
           /\ op[i].p \in Project
<1> DEFINE o == op[i]  s == shared[o.h]  m == s.marker[o.p]
<1>1. /\ o.pc = "batchWrite" /\ o.pc \in BatchPhase /\ o.pc \in RetirePcs /\ OpFits(i, o)
      /\ o.h \in Host /\ o.p \in Project /\ o.rec \in Markers
  BY RetireFacts DEF RetireSharedProject, OpAt, BatchPhase, RetirePcs
<1>2. m \in OrNone(Markers)
  BY <1>1, MarkersAre
<1>3. \/ \E e : op'[i] = Stop(o, e)
      \/ op'[i] = [o EXCEPT !.pc = Follow(o, "shared")]
      \/ m \in Markers /\ op'[i] = [o EXCEPT !.pc = Follow(o, "shared"), !.rec = m]
      \/ op'[i] = [o EXCEPT !.pc = "batch", !.try = o.try + 1]
  <2>1. \/ op'[i] = [o EXCEPT !.pc = Follow(o, "shared")]
        \/ op'[i] = IF m # None
                    THEN IF m.reason = o.reason THEN [o EXCEPT !.pc = Follow(o, "shared"), !.rec = m]
                                                ELSE Stop(o, "conflict")
                    ELSE IF o.try < 2 THEN [o EXCEPT !.pc = "batch", !.try = @ + 1] ELSE Stop(o, "batch")
    BY GoGives DEF RetireSharedProject, Proceed
  <2>2. [o EXCEPT !.pc = "batch", !.try = @ + 1] = [o EXCEPT !.pc = "batch", !.try = o.try + 1]
    BY <1>1 DEF AskShape, AskFields, OpFits, Same
  <2> QED BY <1>2, <2>1, <2>2, SMTT(30) DEF OrNone
<1>4. op'[i] = [o EXCEPT !.pc = "batch", !.try = o.try + 1]
        => op'[i] = [o EXCEPT !.pc = "batch", !.rec = o.rec, !.try = o.try + 1]
  BY <1>1, Zenon DEF AskShape, AskFields, OpFits, Same
<1> QED BY <1>1, <1>3, <1>4, SharedAttempt, Zenon DEF BatchPhase, PublishedPcs, RetirePcs

LEMMA ImportFits ==
  ASSUME Stores, Ops, NEW i \in Proc, ImportReads(i) \/ ImportSharedProjectRetirement(i)
  PROVE  Retires(i) /\ op[i].pc \in PublishedPcs /\ op[i].rec \in Markers /\ op[i].h \in Host
           /\ op[i].p \in Project
<1> DEFINE o == op[i]  try == Cardinality(shared[o.h].pend[o.p])
<1>1. /\ o.pc \in BatchPhase /\ o.pc \in RetirePcs /\ OpFits(i, o)
      /\ o.h \in Host /\ o.p \in Project /\ o.rec \in Markers
  BY RetireFacts, Zenon DEF ImportReads, ImportSharedProjectRetirement, OpAt, BatchPhase, RetirePcs
<1>2. \/ \E e : op'[i] = Stop(o, e)
      \/ op'[i] = [o EXCEPT !.pc = Follow(o, "shared")]
      \/ op'[i] = [o EXCEPT !.pc = "importWrite", !.try = try]
  <2>1. CASE ImportReads(i)
    BY <2>1, GoGives, Zenon DEF ImportReads
  <2>2. CASE ImportSharedProjectRetirement(i)
    BY <2>2, GoGives DEF ImportSharedProjectRetirement, Proceed
  <2> QED BY <2>1, <2>2
<1> HIDE DEF try
<1>3. op'[i] = [o EXCEPT !.pc = "importWrite", !.try = try]
        => op'[i] = [o EXCEPT !.pc = "importWrite", !.rec = o.rec, !.try = try]
  BY <1>1, Zenon DEF AskShape, AskFields, OpFits, Same
<1>4. o.pc \in PublishedPcs
  BY Zenon DEF ImportReads, ImportSharedProjectRetirement, OpAt, PublishedPcs, RetirePcs
<1> QED BY <1>1, <1>2, <1>3, <1>4, SharedAttempt, Zenon DEF BatchPhase

LEMMA PublishFits ==
  ASSUME Stores, Ops, NEW i \in Proc, PublishHubProjectRetirement(i) \/ MarkOutboxPublished(i)
  PROVE  Retires(i) /\ op[i].pc \in PublishedPcs /\ op[i].rec \in Markers /\ op[i].h \in Host
           /\ op[i].p \in Project
<1> DEFINE o == op[i]
<1>1. /\ o.pc \in {"publish", "mark"} /\ o.pc \in RetirePcs /\ o.pc \in PublishedPcs
           /\ o.pc # "unregisterWrite"
      /\ o.h \in Host /\ o.p \in Project /\ o.rec \in Markers /\ o.kind \in {"retire", "sync"} /\ o.reg = None
      /\ o.pc # "idle"
  BY RetireFacts DEF PublishHubProjectRetirement, PublishesMarker, MarkOutboxPublished, OpAt, RetirePcs,
     PublishedPcs
<1>2. CASE \E e : op'[i] = Stop(o, e)
  BY <1>1, <1>2, StopRetires
<1>3. CASE op'[i] = [op[i] EXCEPT !.pc = Follow(op[i], "publish")] /\ op[i].pc = "publish"
  BY <1>1, <1>3, Following, Zenon
<1>4. CASE op'[i] = [op[i] EXCEPT !.pc = Follow(op[i], "mark")] /\ op[i].pc = "mark"
  BY <1>1, <1>4, Following, Zenon
<1>5. CASE PublishHubProjectRetirement(i)
  BY <1>1, <1>2, <1>3, <1>5, GoGives DEF PublishHubProjectRetirement, PublishesMarker, Proceed, OpAt
<1>6. CASE MarkOutboxPublished(i)
  BY <1>1, <1>2, <1>4, <1>6, GoGives DEF MarkOutboxPublished, Proceed, OpAt
<1> QED BY <1>5, <1>6

LEMMA RegistryLoadsFits ==
  ASSUME Stores, Ops, NEW i \in Proc, RegistryLoads(i)
  PROVE  Retires(i) /\ op[i].pc \in PublishedPcs
<1> DEFINE o == op[i]  x == op'[i]
<1>1. /\ o.pc = "unregister" /\ o.pc \in RetirePcs /\ o.pc \in PublishedPcs /\ OpFits(i, o)
      /\ o.h \in Host /\ o.p \in Project /\ o.rec \in Markers /\ o.kind \in {"retire", "sync"} /\ o.reg = None
      /\ o.kind = "retire" <=> i \in Slot
  BY RetireFacts DEF RegistryLoads, OpAt, RetirePcs, PublishedPcs
<1>2. \/ x = [o EXCEPT !.pc = Follow(o, "unregister")]
      \/ x = [o EXCEPT !.pc = "unregisterWrite", !.reg = reg[o.h]] /\ reg[o.h].entry[o.p] # None
  BY GoGives DEF RegistryLoads, Digest
<1>3. CASE op'[i] = [op[i] EXCEPT !.pc = Follow(op[i], "unregister")]
  BY <1>1, <1>3, Following, Zenon
<1>4. CASE x = [o EXCEPT !.pc = "unregisterWrite", !.reg = reg[o.h]] /\ reg[o.h].entry[o.p] # None
  <2>1. /\ AskShape(x) /\ Same(o, x) /\ x.phase = o.phase /\ x.todo = o.todo /\ x.seen = o.seen
        /\ x.pc = "unregisterWrite" /\ x.rec = o.rec /\ x.reg = reg[o.h]
    BY <1>1, <1>4, ZenonT(30) DEF AskShape, AskFields, OpFits, Same
  <2>2. reg[o.h] \in RegStore
    BY <1>1 DEF Stores
  <2>3. WhoFits(i, x)
    BY <1>1, <2>1, SlotOrHost DEF OpFits, WhoFits, Same
  <2>4. KindFits(x)
    BY <1>1, <2>1 DEF Same, KindFits, RegisterPcs, RestorePcs, BatchPcs, RetirePcs
  <2>5. RegFits(x) /\ EditFits(x) /\ SnapFits(x)
    BY <1>4, <2>1, <2>2 DEF RegFits, RegisterPcs, EditFits, BatchPcs, ChangePcs, SnapFits,
       RestorePcs, AnswerPcs, Same
  <2>6. RetireFits(x)
    BY <1>1, <2>1 DEF OpFits, RetireFits, RetirePcs, Same
  <2>7. LoopFits(x)
    BY <1>1, <2>1 DEF OpFits, LoopFits, RetirePcs, Same
  <2> QED BY <1>1, <2>1, <2>3, <2>4, <2>5, <2>6, <2>7 DEF Retires, OpFits, Same
<1> QED BY <1>1, <1>2, <1>3, <1>4

LEMMA RemoveManagedProjectFits ==
  ASSUME Stores, Ops, NEW i \in Proc, RemoveManagedProject(i)
  PROVE  Retires(i) /\ op[i].pc \in PublishedPcs
<1> DEFINE o == op[i]  x == op'[i]
<1>1. /\ o.pc = "unregisterWrite" /\ o.pc \in RetirePcs /\ o.pc \in PublishedPcs /\ OpFits(i, o)
      /\ o.h \in Host /\ o.p \in Project /\ o.rec \in Markers /\ o.kind \in {"retire", "sync"}
      /\ o.kind = "retire" <=> i \in Slot
  BY RetireFacts DEF RemoveManagedProject, OpAt, RetirePcs, PublishedPcs
<1>2. \/ x = [o EXCEPT !.pc = Follow(o, "unregister"), !.reg = None]
      \/ x = [Stop(o, "digest") EXCEPT !.reg = None]
  BY GoGives DEF RemoveManagedProject
<1>3. CASE op'[i] = [op[i] EXCEPT !.pc = Follow(op[i], "unregister"), !.reg = None]
  BY <1>1, <1>3, Following, Zenon
<1>4. CASE x = [Stop(o, "digest") EXCEPT !.reg = None]
  <2>1. CASE i \in Slot
    <3> DEFINE s == Stop(o, "digest")
    <3>1. OpFits(i, s) /\ Same(o, s) /\ s.pc = "failed"
      BY <1>1, <2>1, StopFits
    <3> HIDE DEF s
    <3>2. x = [s EXCEPT !.reg = None]
      BY <1>4 DEF s
    <3>3. AskShape(x) /\ Same(o, x) /\ x.pc = "failed" /\ x.reg = None
      BY <3>1, <3>2 DEF AskShape, AskFields, OpFits, Same
    <3>4. KindFits(x)
      BY <3>3 DEF KindFits, RegisterPcs, RestorePcs, BatchPcs, RetirePcs
    <3>5. OpFits(i, x)
      BY <1>1, <2>1, <3>3, <3>4, PlainStep DEF PlainPcs
    <3> QED BY <1>1, <3>3, <3>5 DEF Retires, RetirePcs, PublishedPcs
  <2>2. CASE i \notin Slot
    <3>1. o.kind = "sync" /\ i \in Host /\ o.h = i
      BY <1>1, <2>2, SyncFacts
    <3>2. x = [Retry(o) EXCEPT !.reg = None]
      BY <1>4, <3>1 DEF Stop, postReadyHubSyncRetryable
    <3>3. AskShape(x) /\ x.kind = "sync" /\ x.h = i /\ x.pc = "snapshot" /\ x.reg = None /\ x.phase = "hub"
      BY <1>1, <3>1, <3>2, ZenonT(30) DEF Retry, AskShape, AskFields, OpFits
    <3>4. KindFits(x) /\ WhoFits(i, x)
      BY <2>2, <3>1, <3>3 DEF WhoFits, KindFits, RegisterPcs, RestorePcs, BatchPcs, RetirePcs
    <3>5. OpFits(i, x)
      BY <3>3, <3>4, PlainFits DEF PlainPcs
    <3> QED BY <1>1, <2>2, <3>3, <3>5 DEF Retires, RetirePcs, PublishedPcs
  <2> QED BY <2>1, <2>2
<1> QED BY <1>1, <1>2, <1>3, <1>4

-----------------------------------------------------------------------------
(* The synchronisation, failures and crashes.                              *)

LEMMA HubSnapshotFits ==
  ASSUME Stores, Ops, NEW i \in Proc, HubSnapshot(i)
  PROVE  Retires(i) /\ op'[i].pc \notin PublishedPcs
<1> DEFINE o == op[i]  x == op'[i]
           live == {p \in Project : ProjectRead(o.h, p) /\ hub.cfg[p] # NoEnt}
           plan == IF \E p \in live : hub.old[p] THEN live ELSE {}
<1>1. OpFits(i, o) /\ o.pc = "snapshot" /\ o.kind = "sync" /\ o.reg = None /\ o.phase = "hub"
  BY OpsFit DEF HubSnapshot, OpAt, OpFits, KindFits, RegFits, RegisterPcs, LoopFits
<1>2. i \in Host /\ i \notin Slot /\ o.h = i
  BY <1>1, SyncFacts
<1>3. x = [o EXCEPT !.pc = "next", !.seen = hub.marker, !.todo = listHubProjectRetirements, !.plan = plan]
  BY GoGives DEF HubSnapshot
<1> HIDE DEF plan
<1>4. /\ AskShape(x) /\ Same(o, x) /\ x.pc = "next" /\ x.reg = None /\ x.phase = "hub"
      /\ x.seen = hub.marker /\ x.todo = listHubProjectRetirements
  BY <1>1, <1>3 DEF AskShape, AskFields, OpFits, Same
<1>5. WhoFits(i, x) /\ KindFits(x)
  BY <1>1, <1>2, <1>4 DEF WhoFits, Same, KindFits, RegisterPcs, RestorePcs, BatchPcs, RetirePcs
<1>6. LoopFits(x)
  BY <1>4, MarkersAre DEF LoopFits, listHubProjectRetirements
<1>7. RegFits(x) /\ RetireFits(x) /\ EditFits(x) /\ SnapFits(x)
  BY <1>4 DEF RegFits, RegisterPcs, RetireFits, RetirePcs, EditFits, BatchPcs, ChangePcs, SnapFits,
              RestorePcs, AnswerPcs
<1> QED BY <1>1, <1>2, <1>4, <1>5, <1>6, <1>7 DEF Retires, OpFits, PublishedPcs, RetirePcs

\* A step of the loops of the synchronisation.
LEMMA LoopMoves ==
  ASSUME Ops, NEW i \in Proc, op[i].pc \in {"next", "canonical"}, AskShape(op'[i]),
         op'[i].kind = op[i].kind, op'[i].h = op[i].h, op'[i].reg = None,
         op'[i].pc \in {"next", "canonical", "migrate", "beginLocal"}, LoopFits(op'[i]), RetireFits(op'[i])
  PROVE  Retires(i) /\ op'[i].pc \notin PublishedPcs /\ op'[i].pc # "snapshot"
<1> DEFINE o == op[i]  x == op'[i]
<1>1. OpFits(i, o) /\ o.kind = "sync"
  BY OpsFit DEF OpFits, KindFits
<1>2. i \in Host /\ i \notin Slot /\ o.h = i
  BY <1>1, SyncFacts
<1>3. WhoFits(i, x) /\ KindFits(x)
  BY <1>1, <1>2 DEF WhoFits, KindFits, RegisterPcs, RestorePcs, BatchPcs, RetirePcs
<1>4. RegFits(x) /\ EditFits(x) /\ SnapFits(x)
  BY DEF RegFits, RegisterPcs, EditFits, BatchPcs, ChangePcs, SnapFits, RestorePcs, AnswerPcs
<1> QED BY <1>1, <1>2, <1>3, <1>4 DEF Retires, OpFits, PublishedPcs, RetirePcs

LEMMA NextLoopFits ==
  ASSUME Stores, Ops, NEW i \in Proc, NextLoop(i)
  PROVE  Retires(i) /\ op'[i].pc \notin PublishedPcs
<1> DEFINE o == op[i]  x == op'[i]
<1>1. /\ OpFits(i, o) /\ o.pc = "next" /\ o.kind = "sync" /\ o.reg = None
      /\ o.phase \in {"hub", "local", "publish"}
  BY OpsFit DEF NextLoop, OpAt, OpFits, KindFits, RegFits, RegisterPcs, LoopFits
<1>2. i \in Host /\ o.h \in Host
  BY <1>1, SyncFacts
<1>3. \/ x = [o EXCEPT !.phase = "local", !.seen = None, !.todo = Listed(o.h, "local")]
      \/ x = [o EXCEPT !.pc = "canonical", !.phase = "publish", !.seen = shared[o.h].marker,
                       !.todo = Listed(o.h, "publish")]
      \/ x = [o EXCEPT !.pc = "migrate", !.seen = None]
  BY <1>1, GoGives DEF NextLoop
<1>4. CASE x = [o EXCEPT !.phase = "local", !.seen = None, !.todo = Listed(o.h, "local")]
  <2>1. /\ AskShape(x) /\ Same(o, x) /\ x.pc = "next" /\ x.reg = None /\ x.phase = "local"
        /\ x.todo = Listed(o.h, "local")
    BY <1>1, <1>4 DEF AskShape, AskFields, OpFits, Same
  <2>2. LoopFits(x) /\ RetireFits(x)
    BY <1>2, <2>1 DEF LoopFits, RetireFits, RetirePcs, Listed, ListLocalProjectRetirements,
                      ReadLocalProjectRetirement, Same
  <2> QED BY <1>1, <2>1, <2>2, LoopMoves DEF Same
<1>5. CASE x = [o EXCEPT !.pc = "canonical", !.phase = "publish", !.seen = shared[o.h].marker,
                         !.todo = Listed(o.h, "publish")]
  <2>1. /\ AskShape(x) /\ Same(o, x) /\ x.pc = "canonical" /\ x.reg = None /\ x.phase = "publish"
        /\ x.seen = shared[o.h].marker /\ x.todo = Listed(o.h, "publish")
    BY <1>1, <1>5 DEF AskShape, AskFields, OpFits, Same
  <2>2. LoopFits(x) /\ RetireFits(x)
    BY <1>2, <2>1, MarkersAre DEF LoopFits, RetireFits, RetirePcs, Listed,
       ListSharedProjectRetirements,
                                  ReadSharedProjectRetirement
  <2> QED BY <1>1, <2>1, <2>2, LoopMoves DEF Same
<1>6. CASE x = [o EXCEPT !.pc = "migrate", !.seen = None]
  <2>1. AskShape(x) /\ Same(o, x) /\ x.pc = "migrate" /\ x.reg = None
    BY <1>1, <1>6 DEF AskShape, AskFields, OpFits, Same
  <2>2. LoopFits(x) /\ RetireFits(x)
    BY <2>1 DEF LoopFits, RetireFits, RetirePcs
  <2> QED BY <1>1, <2>1, <2>2, LoopMoves DEF Same
<1> QED BY <1>3, <1>4, <1>5, <1>6

\* The migration between the collection and the publication.
LEMMA CanonicalFits ==
  ASSUME Stores, Ops, NEW i \in Proc, MigrateProjectConfiguration(i) \/ MigrationFails(i)
  PROVE  /\ Retires(i) /\ op'[i].pc \notin PublishedPcs /\ op[i].pc = "canonical"
         /\ MigrationFails(i) => OpFits(i, op'[i]) /\ i \notin Slot /\ op'[i].pc \in {"snapshot", "degraded"}
<1> DEFINE o == op[i]  x == op'[i]
<1>1. OpFits(i, o) /\ o.pc = "canonical" /\ o.kind = "sync" /\ o.reg = None
  BY OpsFit DEF MigrateProjectConfiguration, MigrationFails, OpAt, OpFits, KindFits, RegFits, RegisterPcs
<1>2. i \notin Slot
  BY <1>1, SyncFacts
<1>3. (\E e : x = Stop(o, e)) \/ x = [o EXCEPT !.pc = "next"]
  BY GoGives DEF MigrateProjectConfiguration, MigrationFails
<1>4. MigrationFails(i) => \E e : x = Stop(o, e)
  BY GoGives DEF MigrationFails
<1>5. ASSUME NEW e, x = Stop(o, e)
      PROVE  Retires(i) /\ x.pc \notin PublishedPcs /\ OpFits(i, x) /\ x.pc \in {"snapshot", "degraded"}
  <2>1. OpFits(i, x) /\ x.pc \in {"snapshot", "degraded"}
    BY <1>1, <1>2, <1>5, StopFits
  <2> QED BY <1>1, <1>5, <2>1, StopRetires DEF PublishedPcs, RetirePcs
<1>6. ASSUME x = [o EXCEPT !.pc = "next"]
      PROVE  Retires(i) /\ x.pc \notin PublishedPcs
  <2>1. /\ AskShape(x) /\ Same(o, x) /\ x.pc = "next" /\ x.reg = None /\ x.phase = o.phase
        /\ x.seen = o.seen /\ x.todo = o.todo
    BY <1>1, <1>6 DEF AskShape, AskFields, OpFits, Same
  <2>2. LoopFits(x) /\ RetireFits(x)
    BY <1>1, <2>1 DEF OpFits, LoopFits, RetireFits, RetirePcs, Same
  <2> QED BY <1>1, <2>1, <2>2, LoopMoves DEF Same
<1>7. Retires(i) /\ x.pc \notin PublishedPcs
  BY <1>3, <1>5, <1>6
<1>8. MigrationFails(i) => OpFits(i, x) /\ x.pc \in {"snapshot", "degraded"}
  BY <1>4, <1>5
<1> QED BY <1>1, <1>2, <1>7, <1>8

LEMMA NextRecordFits ==
  ASSUME Stores, Ops, NEW i \in Proc, NextRecord(i)
  PROVE  Retires(i) /\ op'[i].pc \notin PublishedPcs
<1> DEFINE o == op[i]  x == op'[i]
           BeginRecord(p, rec, work) == [o EXCEPT !.pc = "beginLocal", !.p = p, !.todo = o.todo \ {p},
               !.rec = rec,
                                            !.reason = rec.reason, !.work = work, !.try = 0]
           Skip(p) == [o EXCEPT !.todo = o.todo \ {p}]
           Fresh(p) == NewRecord(local[o.h].marker[p].at, local[o.h].marker[p].reason, local[o.h].legacy[p])
<1>1. /\ OpFits(i, o) /\ o.pc = "next" /\ o.kind = "sync" /\ o.reg = None
      /\ o.phase \in {"hub", "local", "publish"} /\ o.todo \subseteq Project
      /\ o.phase # "local" => o.seen \in [Project -> OrNone(Markers)] /\ \A p \in o.todo : o.seen[p] # None
      /\ o.phase = "local" => \A p \in o.todo : local[o.h].marker[p] # None
  BY OpsFit, Zenon DEF NextRecord, OpAt, OpFits, KindFits, RegFits, RegisterPcs, LoopFits
<1>2. i \in Host /\ o.h \in Host
  BY <1>1, SyncFacts
<1>3. \E p \in o.todo :
        \/ \E e : x = Stop(o, e)
        \/ o.phase = "hub" /\ \E w \in {"import", None} : x = BeginRecord(p, o.seen[p], w)
        \/ o.phase = "local" /\ x = BeginRecord(p, Fresh(p), "batch")
        \/ o.phase = "local" /\ x = Skip(p)
        \/ o.phase = "publish" /\ x = BeginRecord(p, o.seen[p], None)
  <2> DEFINE Y(p) ==
         LET s == shared[o.h].marker[p]  l == local[o.h].marker[p]
             begin(rec, work) == [o EXCEPT !.pc = "beginLocal", !.p = p, !.todo = @ \ {p}, !.rec = rec,
                                           !.reason = rec.reason, !.work = work, !.try = 0]
             skip == [o EXCEPT !.todo = @ \ {p}]
         IN CASE o.phase = "hub" -> IF s \in {None, o.seen[p]}
                                    THEN begin(o.seen[p], IF s = None THEN "import" ELSE None)
                                    ELSE Stop(o, "conflict")
              [] o.phase = "local" -> IF s = None
                                      THEN begin(NewRecord(l.at, l.reason, local[o.h].legacy[p]), "batch")
                                      ELSE IF s.reason = l.reason THEN skip ELSE Stop(o, "conflict")
              [] o.phase = "publish" -> begin(o.seen[p], None)
  <2>1. \E p \in o.todo : Go(i, Y(p))
    BY Zenon DEF NextRecord
  <2>2. PICK p \in o.todo : x = Y(p)
    <3> HIDE DEF Y
    <3> QED BY <2>1, GoGives
  <2>3. \A rec, w : [o EXCEPT !.pc = "beginLocal", !.p = p, !.todo = @ \ {p}, !.rec = rec,
                              !.reason = rec.reason, !.work = w, !.try = 0] = BeginRecord(p, rec, w)
    BY <1>1 DEF AskShape, AskFields, OpFits, Same
  <2>4. [o EXCEPT !.todo = @ \ {p}] = Skip(p)
    OBVIOUS
  <2>5. Y(p) = LET s == shared[o.h].marker[p]  l == local[o.h].marker[p] IN
               CASE o.phase = "hub" -> IF s \in {None, o.seen[p]}
                                       THEN BeginRecord(p, o.seen[p], IF s = None THEN "import" ELSE None)
                                       ELSE Stop(o, "conflict")
                 [] o.phase = "local" -> IF s = None THEN BeginRecord(p, Fresh(p), "batch")
                                         ELSE IF s.reason = l.reason THEN Skip(p) ELSE Stop(o, "conflict")
                 [] o.phase = "publish" -> BeginRecord(p, o.seen[p], None)
    BY <2>3, <2>4
  <2> HIDE DEF Y, BeginRecord, Skip, Fresh
  <2> QED BY <1>1, <2>2, <2>5, Zenon
<1>4. ASSUME NEW p \in o.todo, NEW rec \in Markers, NEW w, x = BeginRecord(p, rec, w),
             \/ o.phase = "hub" /\ w \in {None, "import"}
             \/ o.phase = "local" /\ w = "batch"
             \/ o.phase = "publish" /\ w = None
      PROVE  Retires(i) /\ x.pc \notin PublishedPcs
  <2>1. /\ AskShape(x) /\ x.kind = "sync" /\ x.h = o.h /\ x.pc = "beginLocal" /\ x.reg = None
             /\ x.phase = o.phase
        /\ x.todo = o.todo \ {p} /\ x.seen = o.seen /\ x.rec = rec /\ x.work = w /\ x.p = p
    BY <1>1, <1>4, Zenon DEF AskShape, AskFields, OpFits
  <2>2. LoopFits(x)
    BY <1>1, <2>1 DEF LoopFits
  <2>3. RetireFits(x)
    BY <1>1, <1>4, <2>1 DEF RetireFits, RetirePcs
  <2> QED BY <1>1, <2>1, <2>2, <2>3, LoopMoves
<1>5. ASSUME NEW p \in o.todo, x = Skip(p)
      PROVE  Retires(i) /\ x.pc \notin PublishedPcs
  <2>1. /\ AskShape(x) /\ x.kind = "sync" /\ x.h = o.h /\ x.pc = "next" /\ x.reg = None /\ x.phase = o.phase
        /\ x.todo = o.todo \ {p} /\ x.seen = o.seen
    BY <1>1, <1>5 DEF AskShape, AskFields, OpFits
  <2>2. LoopFits(x)
    BY <1>1, <2>1 DEF LoopFits
  <2>3. RetireFits(x)
    BY <2>1 DEF RetireFits, RetirePcs
  <2> QED BY <1>1, <2>1, <2>2, <2>3, LoopMoves
<1>6. ASSUME NEW e, x = Stop(o, e) PROVE Retires(i) /\ x.pc \notin PublishedPcs
  <2>1. x.pc \in {"snapshot", "degraded"}
    BY <1>1, <1>6, SyncFacts, StopFits
  <2> QED BY <1>1, <1>6, <2>1, StopRetires DEF PublishedPcs, RetirePcs
<1>7. \A p \in o.todo : o.phase = "local" => Fresh(p) \in Markers
  <2> SUFFICES ASSUME NEW p \in o.todo, o.phase = "local" PROVE Fresh(p) \in Markers
    OBVIOUS
  <2>1. local[o.h].marker[p] \in LocalMarkers /\ local[o.h].legacy[p] \in BOOLEAN
    BY <1>1, <1>2, MarkersAre DEF OrNone
  <2> QED BY <2>1, NewRecordTyped DEF LocalMarkers
<1>8. \A p \in o.todo : o.phase # "local" => o.seen[p] \in Markers
  BY <1>1 DEF OrNone
<1> HIDE DEF BeginRecord, Skip, Fresh
<1>9. PICK p \in o.todo :
        \/ \E e : x = Stop(o, e)
        \/ o.phase = "hub" /\ \E w \in {"import", None} : x = BeginRecord(p, o.seen[p], w)
        \/ o.phase = "local" /\ x = BeginRecord(p, Fresh(p), "batch")
        \/ o.phase = "local" /\ x = Skip(p)
        \/ o.phase = "publish" /\ x = BeginRecord(p, o.seen[p], None)
  BY <1>3
<1>10. CASE \E e : x = Stop(o, e)
  BY <1>6, <1>10
<1>11. CASE o.phase = "hub" /\ \E w \in {"import", None} : x = BeginRecord(p, o.seen[p], w)
  BY <1>4, <1>8, <1>11
<1>12. CASE o.phase = "local" /\ x = BeginRecord(p, Fresh(p), "batch")
  BY <1>4, <1>7, <1>12
<1>13. CASE o.phase = "publish" /\ x = BeginRecord(p, o.seen[p], None)
  BY <1>4, <1>8, <1>13
<1> QED BY <1>5, <1>9, <1>10, <1>11, <1>12, <1>13

LEMMA MigrateHubFits ==
  ASSUME Stores, Ops, NEW i \in Proc, MigrateHub(i)
  PROVE  Retires(i) /\ op'[i].pc \notin PublishedPcs
<1> DEFINE o == op[i]  x == op'[i]
<1>1. OpFits(i, o) /\ o.pc = "migrate" /\ o.kind = "sync" /\ o.reg = None
  BY OpsFit DEF MigrateHub, MigratesHub, OpAt, OpFits, KindFits, RegFits, RegisterPcs
<1>2. i \in Host /\ i \notin Slot /\ o.h = i
  BY <1>1, SyncFacts
<1>3. x = [Retry(o) EXCEPT !.pc = "ready"]
  BY GoGives DEF MigrateHub
<1>4. AskShape(x) /\ x.kind = "sync" /\ x.h = i /\ x.pc = "ready" /\ x.reg = None
  BY <1>1, <1>2, <1>3, Zenon DEF Retry, AskShape, AskFields, OpFits
<1>5. WhoFits(i, x) /\ KindFits(x)
  BY <1>1, <1>2, <1>4 DEF WhoFits, KindFits, RegisterPcs, RestorePcs, BatchPcs, RetirePcs
<1> QED BY <1>1, <1>2, <1>4, <1>5, PlainFits DEF Retires, PlainPcs, PublishedPcs, RetirePcs

\* A failed transaction leads an update to its compensation, and everything
\* else to an answer, except that a registration is rolled back.
LEMMA HubFailsFits ==
  ASSUME Stores, Ops, NEW i \in Proc, HubFails(i)
  PROVE  /\ OpFits(i, op'[i]) /\ (i \in Slot => Same(op[i], op'[i]))
         /\ op[i].pc # "restoreConf"
         /\ op'[i].pc \in {"rollback", "restoreConf", "failed", "snapshot", "degraded"}
         /\ op'[i].pc = "rollback" => op[i].pc = "identifiers"
         /\ op'[i].pc = "restoreConf" => /\ op[i].kind = "update" /\ op[i].pc \in {"hubCode", "rollbackCode"}
                                         /\ op'[i].seen = op[i].seen /\ op'[i].rec = op[i].rec
                                         /\ op[i].pc = "rollbackCode" => op'[i].work = "mixed"
                                         /\ op[i].pc = "hubCode" => UNCHANGED hub \/ op'[i].work = "pushed"
         /\ op'[i].pc = "failed" => op[i].pc \notin {"hubCode", "rollbackCode"}
<1> DEFINE o == op[i]  x == op'[i]
<1>1. /\ OpFits(i, o) /\ o.pc # "idle" /\ o.pc # "restoreConf"
      /\ o.pc \in {"register", "identifiers", "rollback", "reconcile", "hubCode", "rollbackCode", "publish",
                   "migrate"}
  BY OpsFit DEF HubFails
<1>2. o.pc \notin RegisterPcs => o.reg = None
  BY <1>1 DEF OpFits, RegFits
<1>3. x = OnFailure(o, TRUE) \/ (UNCHANGED hub /\ x = OnFailure(o, FALSE))
  <2>1. Go(i, OnFailure(o, TRUE)) \/ (UNCHANGED hub /\ Go(i, OnFailure(o, FALSE)))
    BY Zenon DEF HubFails
  <2> QED BY <2>1, GoGives, Zenon
<1>4. o.pc \in RegisterPcs \cup {"hubCode", "rollbackCode", "reconcile"} => i \in Slot
  BY <1>1, SlotOrHost DEF OpFits, KindFits, WhoFits, Onboards
<1>5. CASE o.pc = "identifiers"
  <2>1. x = [o EXCEPT !.pc = "rollback"]
    BY <1>3, <1>5 DEF OnFailure
  <2>2. AskShape(x) /\ Same(o, x) /\ x.pc = "rollback" /\ x.reg = o.reg
    BY <1>1, <2>1 DEF AskShape, AskFields, OpFits, Same
  <2>3. i \in Slot
    BY <1>4, <1>5 DEF RegisterPcs
  <2>4. OpFits(i, x)
    BY <1>1, <1>5, <2>2, <2>3, SameWho DEF OpFits, KindFits, RegFits, RetireFits, LoopFits,
       EditFits, SnapFits, RetirePcs, RegisterPcs, BatchPcs, RestorePcs, AnswerPcs, ChangePcs,
       Onboards, Same
  <2> QED BY <1>1, <1>5, <2>2, <2>4
<1>6. CASE o.pc \in {"hubCode", "rollbackCode"}
  <2>1. PICK w : /\ x = [o EXCEPT !.pc = "restoreConf", !.work = w]
                 /\ o.pc = "rollbackCode" => w = "mixed"
                 /\ o.pc = "hubCode" => UNCHANGED hub \/ w = "pushed"
    BY <1>3, <1>6 DEF OnFailure
  <2>2. /\ AskShape(x) /\ Same(o, x) /\ x.pc = "restoreConf" /\ x.reg = o.reg /\ x.seen = o.seen
             /\ x.rec = o.rec /\ x.work = w
    BY <1>1, <2>1, Zenon DEF AskShape, AskFields, OpFits, Same
  <2>3. i \in Slot
    BY <1>4, <1>6
  <2>4. OpFits(i, x)
    BY <1>1, <1>6, <2>2, <2>3, SameWho DEF OpFits, KindFits, RegFits, RetireFits, LoopFits,
       EditFits, SnapFits, RetirePcs, RegisterPcs, BatchPcs, RestorePcs, AnswerPcs, ChangePcs,
       Onboards, Same
  <2>5. o.kind = "update"
    BY <1>1, <1>6 DEF OpFits, KindFits
  <2> QED BY <1>1, <1>6, <2>1, <2>2, <2>4, <2>5
<1>7. CASE o.pc \in {"register", "rollback", "reconcile", "publish", "migrate"}
  <2>1. x = Stop(o, "hub")
    BY <1>3, <1>7 DEF OnFailure
  <2>2. i \in Slot \/ o.reg = None
    BY <1>2, <1>4, <1>7 DEF RegisterPcs
  <2>3. OpFits(i, x) /\ (i \in Slot => Same(o, x) /\ x.pc = "failed")
          /\ (i \notin Slot => x.pc \in {"snapshot", "degraded"})
    BY <1>1, <2>1, <2>2, StopFits
  <2> QED BY <1>1, <1>7, <2>3
<1> QED BY <1>1, <1>5, <1>6, <1>7

LEMMA FaultFits ==
  ASSUME Stores, Ops, NEW i \in Proc, Fault(i)
  PROVE  /\ OpFits(i, op'[i]) /\ (i \in Slot => Same(op[i], op'[i]))
         /\ op'[i].pc \in {"rollback", "restoreConf", "failed", "mixed", "snapshot", "degraded"}
         /\ op'[i].pc = "rollback" => op[i].pc = "identifiers"
         /\ op'[i].pc = "restoreConf" => /\ op[i].kind = "update" /\ op[i].pc \in {"hubCode", "rollbackCode"}
                                         /\ op'[i].seen = op[i].seen /\ op'[i].rec = op[i].rec
                                         /\ op[i].pc = "rollbackCode" => op'[i].work = "mixed"
                                         /\ op[i].pc = "hubCode" => UNCHANGED hub \/ op'[i].work = "pushed"
         /\ op'[i].pc = "failed" => op[i].pc \notin {"hubCode", "rollbackCode"}
         /\ op'[i].pc = "mixed" => op[i].pc = "restoreConf"
         /\ op[i].pc = "restoreConf" => op'[i].pc = "mixed" \/ (op'[i].pc = "failed" /\ op'[i].work = "kept")
<1>1. HubFails(i) \/ RestoreFails(i) \/ MigrationFails(i)
  BY DEF Fault, LocalFails
<1>2. CASE HubFails(i)
  BY <1>2, HubFailsFits
<1>3. CASE RestoreFails(i)
  BY <1>3, RestoreFailsFits DEF Onward
<1>4. CASE MigrationFails(i)
  BY <1>4, CanonicalFits
<1> QED BY <1>1, <1>2, <1>3, <1>4

LEMMA CrashFits ==
  ASSUME Stores, Ops, NEW h \in Host, Crash(h)
  PROVE  /\ op' = [i \in Proc |-> op'[i]]
         /\ \A i \in Proc : /\ OpFits(i, op'[i]) /\ (i \in Slot => Same(op[i], op'[i]))
                            /\ \/ op'[i] = op[i]
                               \/ op'[i].pc = "crashed" /\ op[i].h = h /\ op[i].pc \notin Ended /\ i \in Slot
                               \/ op'[i].pc = "snapshot" /\ i \notin Slot
         /\ \A i \in Slot : op[i].h = h /\ op[i].pc \notin Ended => op'[i].pc = "crashed"
<1>1. op' = [i \in Proc |-> IF i = h THEN [Retry(op[h]) EXCEPT !.reg = None]
                            ELSE IF op[i].h = h /\ op[i].pc \notin Ended
                            THEN [Stop(op[i], "crash") EXCEPT !.pc = "crashed"]
                            ELSE op[i]]
  BY DEF Crash
<1>2. ASSUME NEW i \in Proc
      PROVE  /\ OpFits(i, op'[i]) /\ (i \in Slot => Same(op[i], op'[i]))
             /\ \/ op'[i] = op[i]
                \/ op'[i].pc = "crashed" /\ op[i].h = h /\ op[i].pc \notin Ended /\ i \in Slot
                \/ op'[i].pc = "snapshot" /\ i \notin Slot
             /\ i \in Slot /\ op[i].h = h /\ op[i].pc \notin Ended => op'[i].pc = "crashed"
  <2> DEFINE o == op[i]  x == op'[i]
  <2>1. OpFits(i, o)
    BY OpsFit
  <2>2. CASE i = h
    <3>1. i \in Host /\ i \notin Slot /\ o.kind = "sync" /\ o.h = i
      BY <2>1, <2>2, SlotOrHost DEF OpFits, WhoFits
    <3>2. x = [Retry(o) EXCEPT !.reg = None]
      BY <1>1, <2>2
    <3>3. AskShape(x) /\ x.kind = "sync" /\ x.h = i /\ x.pc = "snapshot" /\ x.reg = None /\ x.phase = "hub"
      BY <2>1, <3>1, <3>2, Zenon DEF Retry, AskShape, AskFields, OpFits
    <3>4. WhoFits(i, x) /\ KindFits(x)
      BY <3>1, <3>3 DEF WhoFits, KindFits, RegisterPcs, RestorePcs, BatchPcs, RetirePcs
    <3> QED BY <3>1, <3>3, <3>4, PlainFits DEF PlainPcs
  <2>3. CASE i # h /\ o.h = h /\ o.pc \notin Ended
    <3>1. i \in Slot
      BY <2>1, <2>3, SlotOrHost DEF OpFits, WhoFits
    <3> DEFINE s == Stop(o, "crash")
    <3>2. OpFits(i, s) /\ Same(o, s) /\ s.pc = "failed" /\ o.pc # "idle"
      BY <2>1, <2>3, <3>1, StopFits DEF Ended
    <3>3. x = [s EXCEPT !.pc = "crashed"]
      BY <1>1, <2>3
    <3> HIDE DEF s
    <3>4. AskShape(x) /\ Same(o, x) /\ x.pc = "crashed" /\ x.reg = None
      BY <3>2, <3>3 DEF RegFits, RegisterPcs, AskShape, AskFields, OpFits, Same
    <3>5. KindFits(x)
      BY <3>4 DEF KindFits, RegisterPcs, RestorePcs, BatchPcs, RetirePcs
    <3>6. OpFits(i, x)
      BY <2>1, <3>1, <3>2, <3>4, <3>5, PlainStep DEF PlainPcs
    <3> QED BY <2>3, <3>1, <3>4, <3>6
  <2>4. CASE i # h /\ ~(o.h = h /\ o.pc \notin Ended)
    <3>1. x = o
      BY <1>1, <2>4
    <3> QED BY <2>1, <2>4, <3>1, SlotOrHost DEF Same
  <2> QED BY <2>2, <2>3, <2>4
<1> QED BY <1>1, <1>2 DEF Proc

-----------------------------------------------------------------------------
(* What the steps change in the stores.                                    *)

\* A Hub transaction that leaves entities, and one that leaves markers too.
KeepsEntities == hub'.ent = hub.ent /\ hub'.evid = hub.evid /\ hub'.next = hub.next
KeepsMarkers == hub'.marker = hub.marker /\ KeepsEntities

LEMMA HubTyped ==
  ASSUME Stores
  PROVE  /\ hub \in HubStore /\ hub.rev \in Nat /\ hub.project \in [Project -> BOOLEAN] /\ hub.code \in Codes
         /\ hub.cfg \in [Project -> Ents] /\ hub.old \in [Project -> BOOLEAN]
         /\ hub.marker \in [Project -> OrNone(Markers)] /\ hub.ent \in [Project -> [Num -> Versions]]
         /\ hub.evid \in [Project -> SUBSET Evidence] /\ hub.next \in [Project -> Nat]
BY DEF Stores, HubStore, Flags

LEMMA NoEntIs == NoEnt \in Ents /\ NoEnt \in Versions /\ NoEnt.rev = 0
BY RevsAre DEF NoEnt, Ents, Versions, OrNone

HubWrites(project, code, cfg, old, marker, ent, evid) ==
  hub' = [rev |-> hub.rev + 1, project |-> project, code |-> code, cfg |-> cfg, old |-> old,
          marker |-> marker, ent |-> ent, evid |-> evid, next |-> hub.next]

LEMMA ProjectRegisterHub ==
  ASSUME Stores, Ops, NEW i \in Proc, Registers(i)
  PROVE  \/ UNCHANGED hub
         \/ /\ hub' \in HubStore /\ KeepsMarkers /\ MayRegister(op[i].h, op[i].p)
            /\ hub'.project = [hub.project EXCEPT ![op[i].p] = TRUE] /\ hub'.code = hub.code
<1> DEFINE o == op[i]  c == [rev |-> 1, by |-> o.h]
<1>1. o.p \in Project /\ o.h \in Host /\ i \in Slot
  BY OpsFit, OnboardFacts DEF Registers, OpAt, OpFits, KindFits, RegisterPcs
<1>2. \/ UNCHANGED hub
      \/ /\ Commit([hub EXCEPT !.project[o.p] = TRUE, !.cfg[o.p] = c])
         /\ MayRegister(o.h, o.p)
  BY DEF Registers, Registrable
<1>3. c \in Ents
  BY <1>1, RevsAre DEF Ents, OrNone, Proc
<1> HIDE DEF c
<1>4. CASE Commit([hub EXCEPT !.project[o.p] = TRUE, !.cfg[o.p] = c]) /\ MayRegister(o.h, o.p)
  <2> DEFINE project == [hub.project EXCEPT ![o.p] = TRUE]  cfg == [hub.cfg EXCEPT ![o.p] = c]
  <2>1. HubWrites(project, hub.code, cfg, hub.old, hub.marker, hub.ent, hub.evid)
    BY <1>4, HubTyped DEF Commit, HubStore, HubWrites
  <2>2. project \in [Project -> BOOLEAN] /\ cfg \in [Project -> Ents]
    BY <1>3, HubTyped
  <2> HIDE DEF project, cfg
  <2>3. /\ hub' \in HubStore /\ hub'.project = project /\ hub'.code = hub.code
        /\ hub'.marker = hub.marker /\ hub'.ent = hub.ent /\ hub'.evid = hub.evid /\ hub'.next = hub.next
    BY <2>1, <2>2, HubTyped DEF HubWrites, HubStore, Flags
  <2> QED BY <1>4, <2>3 DEF project, KeepsMarkers, KeepsEntities
<1> QED BY <1>2, <1>4 DEF c

LEMMA AdoptHubWrites ==
  ASSUME Stores, Ops, NEW i \in Proc, Adopts(i)
  PROVE  \/ UNCHANGED hub
         \/ /\ hub' \in HubStore /\ KeepsMarkers /\ ProjectRead(op[i].h, op[i].p)
            /\ hub'.project = hub.project /\ hub'.code = [hub.code EXCEPT ![op[i].p] = op[i].code]
<1> DEFINE o == op[i]
<1>1. o.p \in Project /\ o.code \in Code
  BY OpsFit, OnboardFacts DEF Adopts, OpAt, OpFits, KindFits, RegisterPcs
<1>2. \/ UNCHANGED hub
      \/ Commit([hub EXCEPT !.code[o.p] = o.code]) /\ ProjectRead(o.h, o.p)
  BY DEF Adopts, Adoptable
<1>3. CASE Commit([hub EXCEPT !.code[o.p] = o.code]) /\ ProjectRead(o.h, o.p)
  <2> DEFINE code == [hub.code EXCEPT ![o.p] = o.code]
  <2>1. HubWrites(hub.project, code, hub.cfg, hub.old, hub.marker, hub.ent, hub.evid)
    BY <1>3, HubTyped DEF Commit, HubStore, HubWrites
  <2>2. code \in Codes
    BY <1>1, HubTyped, NoEntIs, NoneApart DEF OrNone, Codes
  <2> HIDE DEF code
  <2>3. /\ hub' \in HubStore
        /\ hub'.project = hub.project /\ hub'.code = code /\ hub'.cfg = hub.cfg /\ hub'.old = hub.old
        /\ hub'.marker = hub.marker /\ hub'.ent = hub.ent /\ hub'.evid = hub.evid /\ hub'.next = hub.next
    BY <2>1, <2>2, HubTyped DEF HubWrites, HubStore, Flags
  <2> QED BY <1>1, <1>3, <2>3 DEF code, KeepsMarkers, KeepsEntities
<1> QED BY <1>2, <1>3

LEMMA RollbackOnboardHubWrites ==
  ASSUME Stores, Ops, NEW i \in Proc, Unregisters(i)
  PROVE  \/ UNCHANGED hub
         \/ /\ hub' \in HubStore /\ KeepsMarkers
            /\ hub'.project = [hub.project EXCEPT ![op[i].p] = FALSE]
                 /\ hub'.code = [hub.code EXCEPT ![op[i].p] = None]
<1> DEFINE o == op[i]
<1>1. o.p \in Project
  BY OpsFit, OnboardFacts, Zenon DEF Unregisters, OpAt, OpFits, KindFits, RegisterPcs
<1>2. \/ UNCHANGED hub
      \/ Commit([hub EXCEPT !.project[o.p] = FALSE, !.cfg[o.p] = NoEnt, !.code[o.p] = None])
  BY Zenon DEF Unregisters
<1>3. CASE Commit([hub EXCEPT !.project[o.p] = FALSE, !.cfg[o.p] = NoEnt, !.code[o.p] = None])
  <2> DEFINE project == [hub.project EXCEPT ![o.p] = FALSE]  code == [hub.code EXCEPT ![o.p] = None]
             cfg == [hub.cfg EXCEPT ![o.p] = NoEnt]
  <2>1. HubWrites(project, code, cfg, hub.old, hub.marker, hub.ent, hub.evid)
    BY <1>3, HubTyped DEF Commit, HubStore, HubWrites
  <2>2. project \in [Project -> BOOLEAN] /\ code \in Codes /\ cfg \in [Project -> Ents]
    BY <1>1, HubTyped, NoEntIs, NoneApart DEF OrNone, Codes
  <2> HIDE DEF project, code, cfg
  <2>3. /\ hub' \in HubStore
        /\ hub'.project = project /\ hub'.code = code /\ hub'.cfg = cfg /\ hub'.old = hub.old
        /\ hub'.marker = hub.marker /\ hub'.ent = hub.ent /\ hub'.evid = hub.evid /\ hub'.next = hub.next
    BY <2>1, <2>2, HubTyped DEF HubWrites, HubStore, Flags
  <2> QED BY <1>1, <1>3, <2>3 DEF project, code, cfg, KeepsMarkers, KeepsEntities
<1> QED BY <1>2, <1>3

LEMMA ReconcileHubWrites ==
  ASSUME Stores, Ops, NEW i \in Proc, Canonicalizes(i)
  PROVE  \/ UNCHANGED hub
         \/ hub' \in HubStore /\ KeepsMarkers /\ hub'.project = hub.project /\ hub'.code = hub.code
<1> DEFINE o == op[i]
<1>1. o.p \in Project
  BY OpsFit, OnboardFacts DEF Canonicalizes, OpAt, OpFits, KindFits
<1>2. \/ UNCHANGED hub
      \/ Commit([hub EXCEPT !.old[o.p] = FALSE])
  BY DEF Canonicalizes
<1>3. CASE Commit([hub EXCEPT !.old[o.p] = FALSE])
  <2> DEFINE old == [hub.old EXCEPT ![o.p] = FALSE]
  <2>1. HubWrites(hub.project, hub.code, hub.cfg, old, hub.marker, hub.ent, hub.evid)
    BY <1>3, HubTyped DEF Commit, HubStore, HubWrites
  <2>2. old \in [Project -> BOOLEAN]
    BY <1>1, HubTyped, NoEntIs, NoneApart DEF OrNone, Codes
  <2> HIDE DEF old
  <2>3. /\ hub' \in HubStore
        /\ hub'.project = hub.project /\ hub'.code = hub.code /\ hub'.cfg = hub.cfg /\ hub'.old = old
        /\ hub'.marker = hub.marker /\ hub'.ent = hub.ent /\ hub'.evid = hub.evid /\ hub'.next = hub.next
    BY <2>1, <2>2, HubTyped DEF HubWrites, HubStore, Flags
  <2> QED BY <1>1, <1>3, <2>3 DEF old, KeepsMarkers, KeepsEntities
<1> QED BY <1>2, <1>3

LEMMA HubCodeWrites ==
  ASSUME Stores, Ops, NEW i \in Proc, ChangesCode(i)
  PROVE  /\ hub' \in HubStore /\ KeepsMarkers /\ hub'.project = hub.project
         /\ hub'.code = [hub.code EXCEPT ![op[i].p] = op[i].code] /\ hub.code[op[i].p] = op[i].seen.old
<1> DEFINE o == op[i]
<1>1. o.p \in Project /\ o.code \in Code /\ o.seen.cfg \in Ents
  BY UpdateFacts DEF ChangesCode, OpAt, OpFits, EditFits, ChangePcs
<1>2. /\ Commit([hub EXCEPT !.code[o.p] = o.code, !.cfg[o.p] = o.seen.cfg])
      /\ hub.code[op[i].p] = op[i].seen.old
  BY Zenon DEF ChangesCode, Changeable
<1>3. CASE /\ Commit([hub EXCEPT !.code[o.p] = o.code, !.cfg[o.p] = o.seen.cfg])
         /\ hub.code[op[i].p] = op[i].seen.old
  <2> DEFINE code == [hub.code EXCEPT ![o.p] = o.code]  cfg == [hub.cfg EXCEPT ![o.p] = o.seen.cfg]
  <2>1. HubWrites(hub.project, code, cfg, hub.old, hub.marker, hub.ent, hub.evid)
    BY <1>3, HubTyped DEF Commit, HubStore, HubWrites
  <2>2. code \in Codes /\ cfg \in [Project -> Ents]
    BY <1>1, HubTyped, NoEntIs, NoneApart DEF OrNone, Codes
  <2> HIDE DEF code, cfg
  <2>3. /\ hub' \in HubStore
        /\ hub'.project = hub.project /\ hub'.code = code /\ hub'.cfg = cfg /\ hub'.old = hub.old
        /\ hub'.marker = hub.marker /\ hub'.ent = hub.ent /\ hub'.evid = hub.evid /\ hub'.next = hub.next
    BY <2>1, <2>2, HubTyped DEF HubWrites, HubStore, Flags
  <2> QED BY <1>1, <1>3, <2>3 DEF code, cfg, KeepsMarkers, KeepsEntities
<1> QED BY <1>2, <1>3

LEMMA RollbackCodeWrites ==
  ASSUME Stores, Ops, NEW i \in Proc, RevertsCode(i)
  PROVE  /\ hub' \in HubStore /\ KeepsMarkers /\ hub'.project = hub.project /\ hub.code[op[i].p] # None
         /\ hub'.code = [hub.code EXCEPT ![op[i].p] = op[i].seen.old]
<1> DEFINE o == op[i]
<1>1. o.p \in Project /\ o.seen.old \in Code
  BY UpdateFacts DEF RevertsCode, OpAt, OpFits, EditFits, ChangePcs
<1>2. Commit([hub EXCEPT !.code[o.p] = o.seen.old]) /\ hub.code[op[i].p] # None
  BY DEF RevertsCode, Revertible
<1>3. CASE Commit([hub EXCEPT !.code[o.p] = o.seen.old]) /\ hub.code[op[i].p] # None
  <2> DEFINE code == [hub.code EXCEPT ![o.p] = o.seen.old]
  <2>1. HubWrites(hub.project, code, hub.cfg, hub.old, hub.marker, hub.ent, hub.evid)
    BY <1>3, HubTyped DEF Commit, HubStore, HubWrites
  <2>2. code \in Codes
    BY <1>1, HubTyped, NoEntIs, NoneApart DEF OrNone, Codes
  <2> HIDE DEF code
  <2>3. /\ hub' \in HubStore
        /\ hub'.project = hub.project /\ hub'.code = code /\ hub'.cfg = hub.cfg /\ hub'.old = hub.old
        /\ hub'.marker = hub.marker /\ hub'.ent = hub.ent /\ hub'.evid = hub.evid /\ hub'.next = hub.next
    BY <2>1, <2>2, HubTyped DEF HubWrites, HubStore, Flags
  <2> QED BY <1>1, <1>3, <2>3 DEF code, KeepsMarkers, KeepsEntities
<1> QED BY <1>2, <1>3

LEMMA HubRetiresWrites ==
  ASSUME Stores, Ops, NEW p \in Project, NEW rec \in OrNone(Markers), HubRetires(p, rec)
  PROVE  \/ UNCHANGED hub
         \/ /\ hub' \in HubStore /\ KeepsEntities /\ hub'.marker = [hub.marker EXCEPT ![p] = rec]
            /\ hub'.project = [hub.project EXCEPT ![p] = FALSE] /\ hub'.code = [hub.code EXCEPT ![p] = None]
<1> DEFINE r == rec
<1>1. p \in Project /\ rec \in OrNone(Markers)
  OBVIOUS
<1>2. \/ UNCHANGED hub
      \/ Commit([hub EXCEPT !.marker[p] = rec, !.project[p] = FALSE, !.code[p] = None, !.cfg[p] = NoEnt,
           !.old[p] = FALSE])
  BY DEF HubRetires
<1>3. CASE Commit([hub EXCEPT !.marker[p] = rec, !.project[p] = FALSE, !.code[p] = None, !.cfg[p] = NoEnt,
             !.old[p] = FALSE])
  <2> DEFINE marker == [hub.marker EXCEPT ![p] = rec]  project == [hub.project EXCEPT ![p] = FALSE]
             code == [hub.code EXCEPT ![p] = None]  cfg == [hub.cfg EXCEPT ![p]
             = NoEnt]  old == [hub.old EXCEPT ![p] = FALSE]
  <2>1. HubWrites(project, code, cfg, old, marker, hub.ent, hub.evid)
    BY <1>3, HubTyped DEF Commit, HubStore, HubWrites
  <2>2. marker \in [Project -> OrNone(Markers)] /\ project \in [Project -> BOOLEAN] /\ code \in Codes
          /\ cfg \in [Project -> Ents] /\ old \in [Project -> BOOLEAN]
    BY <1>1, HubTyped, NoEntIs, NoneApart DEF OrNone, Codes
  <2> HIDE DEF marker, project, code, cfg, old
  <2>3. /\ hub' \in HubStore
        /\ hub'.project = project /\ hub'.code = code /\ hub'.cfg = cfg /\ hub'.old = old
        /\ hub'.marker = marker /\ hub'.ent = hub.ent /\ hub'.evid = hub.evid /\ hub'.next = hub.next
    BY <2>1, <2>2, HubTyped DEF HubWrites, HubStore, Flags
  <2> QED BY <1>1, <1>3, <2>3 DEF marker, project, code, cfg, old, KeepsMarkers, KeepsEntities
<1> QED BY <1>2, <1>3

LEMMA MigrateHubWrites ==
  ASSUME Stores, Ops, NEW i \in Proc, MigratesHub(i)
  PROVE  \/ UNCHANGED hub
         \/ hub' \in HubStore /\ KeepsMarkers /\ hub'.project = hub.project /\ hub'.code = hub.code
<1> DEFINE still == {p \in op[i].plan : hub.cfg[p] # NoEnt /\ hub.old[p]}
           m == [p \in Project |-> hub.old[p] /\ p \notin still]
<1>1. m \in [Project -> BOOLEAN]
  OBVIOUS
<1>2. \/ UNCHANGED hub
      \/ Commit([hub EXCEPT !.old = m])
  BY DEF MigratesHub
<1>3. CASE Commit([hub EXCEPT !.old = m])
  <2> DEFINE old == m
  <2>1. HubWrites(hub.project, hub.code, hub.cfg, old, hub.marker, hub.ent, hub.evid)
    BY <1>3, HubTyped DEF Commit, HubStore, HubWrites
  <2>2. old \in [Project -> BOOLEAN]
    BY <1>1, HubTyped, NoEntIs, NoneApart DEF OrNone, Codes
  <2> HIDE DEF old
  <2>3. /\ hub' \in HubStore
        /\ hub'.project = hub.project /\ hub'.code = hub.code /\ hub'.cfg = hub.cfg /\ hub'.old = old
        /\ hub'.marker = hub.marker /\ hub'.ent = hub.ent /\ hub'.evid = hub.evid /\ hub'.next = hub.next
    BY <2>1, <2>2, HubTyped DEF HubWrites, HubStore, Flags
  <2> QED BY <1>1, <1>3, <2>3 DEF old, KeepsMarkers, KeepsEntities
<1> QED BY <1>2, <1>3

\* The oldest pending configuration is one of them.
LEMMA FirstPending ==
  ASSUME Stores, NEW h \in Host, NEW p \in Project, shared[h].pend[p] # {}
  PROVE  (CHOOSE c \in shared[h].pend[p] : \A d \in shared[h].pend[p] : c.rev <= d.rev) \in shared[h].pend[p]
<1> DEFINE S == shared[h].pend[p]  R == {c.rev : c \in S}  P(c) == \A d \in S : c.rev <= d.rev
<1>1. S \in SUBSET Ents
  BY MarkersAre
<1>2. \A c \in S : c.rev \in Nat
  BY <1>1, RevsAre DEF Ents, Revs
<1>3. R \in SUBSET Nat /\ R # {}
  BY <1>2
<1>4. PICK r \in R : \A e \in R : r <= e
  BY <1>3, Least
<1>5. PICK c \in S : c.rev = r
  BY <1>4
<1>6. \A d \in S : c.rev <= d.rev
  BY <1>4, <1>5
<1>7. (CHOOSE x \in S : P(x)) \in S
  BY <1>6, Zenon
<1> QED BY <1>7

LEMMA PublishConfigurationFirst ==
  ASSUME NEW h \in Host, NEW p \in Project, PublishConfiguration(h, p)
  PROVE  shared[h].pend[p] # {}
BY DEF PublishConfiguration

LEMMA ConfigurationHubWrites ==
  ASSUME Stores, Ops, NEW h \in Host, NEW p \in Project, PublishConfiguration(h, p)
  PROVE  \/ UNCHANGED hub
         \/ hub' \in HubStore /\ KeepsMarkers /\ hub'.project = hub.project /\ hub'.code = hub.code
<1> DEFINE first == CHOOSE c \in shared[h].pend[p] : \A d \in shared[h].pend[p] : c.rev <= d.rev
<1>1. first \in Ents
  BY FirstPending, PublishConfigurationFirst, MarkersAre
<1>2. \/ UNCHANGED hub
      \/ Commit([hub EXCEPT !.cfg[p] = first, !.old[p] = FALSE])
  BY DEF PublishConfiguration
<1>3. CASE Commit([hub EXCEPT !.cfg[p] = first, !.old[p] = FALSE])
  <2> DEFINE cfg == [hub.cfg EXCEPT ![p] = first]  old == [hub.old EXCEPT ![p] = FALSE]
  <2>1. HubWrites(hub.project, hub.code, cfg, old, hub.marker, hub.ent, hub.evid)
    BY <1>3, HubTyped DEF Commit, HubStore, HubWrites
  <2>2. cfg \in [Project -> Ents] /\ old \in [Project -> BOOLEAN]
    BY <1>1, HubTyped, NoEntIs, NoneApart DEF OrNone, Codes
  <2> HIDE DEF cfg, old
  <2>3. /\ hub' \in HubStore
        /\ hub'.project = hub.project /\ hub'.code = hub.code /\ hub'.cfg = cfg /\ hub'.old = old
        /\ hub'.marker = hub.marker /\ hub'.ent = hub.ent /\ hub'.evid = hub.evid /\ hub'.next = hub.next
    BY <2>1, <2>2, HubTyped DEF HubWrites, HubStore, Flags
  <2> QED BY <1>1, <1>3, <2>3 DEF cfg, old, KeepsMarkers, KeepsEntities
<1> QED BY <1>2, <1>3

LEMMA EntityHubWrites ==
  ASSUME Stores, NEW h \in Host, NEW p \in Project, PublishEntity(h, p)
  PROVE  /\ hub' \in HubStore /\ hub'.marker = hub.marker /\ hub'.next = hub.next
         /\ hub'.project = hub.project /\ hub'.code = hub.code
         /\ \E n \in Num : /\ hub.ent[p][n].rev < shared[h].ent[p][n].rev
                          /\ hub'.ent = [hub.ent EXCEPT ![p][n] = shared[h].ent[p][n]]
<1>1. PICK n \in Num : /\ hub.ent[p][n].rev < shared[h].ent[p][n].rev
                        /\ Commit([hub EXCEPT !.ent[p][n] = shared[h].ent[p][n],
                                              !.evid[p] = @ \cup {e \in shared[h].evid[p] : e.n = n}])
  BY Zenon DEF PublishEntity
<1> DEFINE v == shared[h].ent[p][n]  d == {e \in shared[h].evid[p] : e.n = n}
<1>2. v \in Versions /\ d \subseteq Evidence
  BY DEF Stores, SharedStore
<1>3. Commit([hub EXCEPT !.ent[p][n] = v, !.evid[p] = @ \cup d])
  BY <1>1
<1> HIDE DEF v, d
<1> DEFINE ent == [hub.ent EXCEPT ![p] = [hub.ent[p] EXCEPT ![n] = v]]
           evid == [hub.evid EXCEPT ![p] = hub.evid[p] \cup d]
<1>4. HubWrites(hub.project, hub.code, hub.cfg, hub.old, hub.marker, ent, evid)
  BY <1>3, HubTyped DEF Commit, HubStore, HubWrites
<1>5. ent \in [Project -> [Num -> Versions]] /\ evid \in [Project -> SUBSET Evidence]
  BY <1>2, HubTyped
<1>6. ent = [hub.ent EXCEPT ![p][n] = v]
  BY HubTyped
<1> HIDE DEF ent, evid
<1>7. /\ hub' \in HubStore /\ hub'.project = hub.project /\ hub'.code = hub.code
      /\ hub'.marker = hub.marker /\ hub'.ent = ent /\ hub'.next = hub.next
  BY <1>4, <1>5, HubTyped DEF HubWrites, HubStore, Flags
<1> QED BY <1>1, <1>6, <1>7, Zenon DEF v

\* There is a largest entity number.
LEMMA NumBound == \E b \in Nat : \A n \in Num : n <= b
<1> DEFINE Bounded(S) == \E b \in Nat : \A n \in S : n <= b
           R == {k \in Nat : \E S \in SUBSET Num : Cardinality(S) = k /\ ~Bounded(S)}
<1>1. Num \in SUBSET Nat /\ IsFiniteSet(Num)
  BY ProjectLifecycleAssumption
<1>2. SUFFICES ASSUME ~Bounded(Num) PROVE FALSE
  BY <1>1
<1>3. Cardinality(Num) \in R
  BY <1>1, <1>2, FS_CardinalityType
<1>4. PICK k \in R : \A j \in R : k <= j
  <2>1. R \in SUBSET Nat /\ R # {}
    BY <1>3
  <2> HIDE DEF R
  <2> QED BY <2>1, Least
<1>5. PICK S \in SUBSET Num : Cardinality(S) = k /\ ~Bounded(S)
  BY <1>4
<1>6. S # {}
  BY <1>5
<1>7. PICK s \in S : TRUE
  BY <1>6
<1>8. IsFiniteSet(S)
  BY <1>1, FS_Subset
<1>9. Cardinality(S \ {s}) = k - 1 /\ Cardinality(S \ {s}) \in Nat
  BY <1>5, <1>7, <1>8, FS_RemoveElement, FS_CardinalityType
<1>10. Bounded(S \ {s})
  <2> SUFFICES ASSUME ~Bounded(S \ {s}) PROVE FALSE
    OBVIOUS
  <2>1. Cardinality(S \ {s}) \in R
    BY <1>9
  <2> QED BY <1>4, <1>9, <2>1
<1>11. PICK b \in Nat : \A n \in S \ {s} : n <= b
  BY <1>10
<1>12. \A n \in S : n <= b + s
  BY <1>1, <1>7, <1>11
<1>13. b + s \in Nat
  BY <1>1, <1>7
<1> QED BY <1>5, <1>12, <1>13

-----------------------------------------------------------------------------
LEMMA SharedTyped ==
  ASSUME Stores, NEW h \in Host
  PROVE  /\ shared \in [Host -> SharedStore] /\ shared[h] \in SharedStore /\ shared[h].code \in Codes
         /\ shared[h].cfg \in [Project -> Ents] /\ shared[h].hist \in [Project -> Revs]
         /\ shared[h].pend \in [Project -> SUBSET Ents] /\ shared[h].rules \in [Project -> BOOLEAN]
         /\ shared[h].marker \in [Project -> OrNone(Markers)] /\ shared[h].mpend \in [Project -> BOOLEAN]
         /\ shared[h].ent \in [Project -> [Num -> Versions]]
         /\ shared[h].evid \in [Project -> SUBSET Evidence] /\ shared[h].seq \in [Project -> Nat]
<1>1. shared[h] \in SharedStore
  BY DEF Stores
<1> QED BY <1>1 DEF Stores, SharedStore, Flags

SharedRow(code, cfg, hist, pend, rules, marker, mpend, ent, evid, numbers) ==
  [code |-> code, cfg |-> cfg, hist |-> hist, pend |-> pend, rules |-> rules, marker |-> marker,
   mpend |-> mpend, ent |-> ent, evid |-> evid, seq |-> numbers]

\* A step on the rows of one host that leaves its entities.
SharedMoves(h) == shared' \in [Host -> SharedStore] /\ \A g \in Host : g # h => shared'[g] = shared[g]
KeepsKnown(h) ==
  shared'[h].ent = shared[h].ent /\ shared'[h].evid = shared[h].evid /\ shared'[h].seq = shared[h].seq

SharedFields == {"code", "cfg", "hist", "pend", "rules", "marker", "mpend", "ent", "evid", "seq"}
LEMMA SharedShape ==
  ASSUME NEW t \in SharedStore PROVE DOMAIN t = SharedFields /\ t = [x \in SharedFields |-> t[x]]
BY DEF SharedFields, SharedStore

\* The code a bootstrap batch leaves: one that was read as it should be is not written.
BatchCode(i, read) == IF read.code = op[i].code THEN shared[op[i].h].code[op[i].p] ELSE op[i].code

LEMMA BootstrapWrites ==
  ASSUME Stores, Ops, NEW i \in Proc, BootstrapBatch(i)
  PROVE  \/ BootstrapFailed(i) /\ UNCHANGED shared
         \/ /\ SharedMoves(op[i].h) /\ KeepsKnown(op[i].h) /\ shared'[op[i].h].marker = shared[op[i].h].marker
            /\ \E read \in op[i].plan :
                 shared'[op[i].h].code = [shared[op[i].h].code EXCEPT ![op[i].p] = BatchCode(i, read)]
<1> DEFINE o == op[i]
<1>1. o.h \in Host /\ o.p \in Project /\ o.code \in Code /\ o.seen.cfg \in Ents
  BY BootstrapBatchFits, BatchFacts, MarkersAre DEF BatchPcs
<1>2. PICK read \in o.plan :
        (BootstrapFailed(i) /\ UNCHANGED shared) \/ shared' = BootstrapRows(o.h, o.p, read, o.code, o.seen.cfg)
  BY DEF BootstrapBatch
<1>3. CASE shared' = BootstrapRows(o.h, o.p, read, o.code, o.seen.cfg)
  <2> DEFINE to == BatchCode(i, read)
             c == IF read.cfg = NoEnt THEN o.seen.cfg ELSE shared[o.h].cfg[o.p]
  <2>a. to \in OrNone(Code) /\ c \in Ents
    BY <1>1, SharedTyped DEF BatchCode, OrNone, Codes
  <2> DEFINE code == [shared[o.h].code EXCEPT ![o.p] = to]
             rules == [shared[o.h].rules EXCEPT ![o.p] = TRUE]
             cfg == [shared[o.h].cfg EXCEPT ![o.p] = c]
  <2>0. shared' = [shared EXCEPT ![o.h] = [shared[o.h] EXCEPT !.code = code, !.rules = rules, !.cfg = cfg]]
    BY <1>1, <1>3, SharedTyped, Zenon DEF SharedStore, BootstrapRows, BatchCode
  <2>2. code \in Codes /\ rules \in [Project -> BOOLEAN] /\ cfg \in [Project -> Ents]
    BY <1>1, <2>a, SharedTyped, NoEntIs, NoneApart DEF OrNone, Codes
  <2> HIDE DEF code, rules, cfg, to, c
  <2>6. \A t \in SharedStore : [t EXCEPT !.code = code, !.rules = rules, !.cfg = cfg]
          = SharedRow(code, cfg, t.hist, t.pend, rules, t.marker, t.mpend, t.ent, t.evid, t.seq)
    <3> SUFFICES ASSUME NEW t \in SharedStore
                 PROVE  [t EXCEPT !.code = code, !.rules = rules, !.cfg = cfg]
                          = SharedRow(code, cfg, t.hist, t.pend, rules, t.marker, t.mpend, t.ent, t.evid,
                          t.seq)
      BY Zenon
    <3> DEFINE t1 == [t EXCEPT !.code = code]  t2 == [t1 EXCEPT !.rules = rules]
    <3>1. t1 = SharedRow(code, t.cfg, t.hist, t.pend, t.rules, t.marker, t.mpend, t.ent, t.evid, t.seq)
      BY SharedShape DEF SharedRow, SharedFields
    <3>2. t2 = SharedRow(code, t.cfg, t.hist, t.pend, rules, t.marker, t.mpend, t.ent, t.evid, t.seq)
      <4> HIDE DEF t1
      <4> QED BY <3>1 DEF SharedRow
    <3>3. [t EXCEPT !.code = code, !.rules = rules, !.cfg = cfg] = [t2 EXCEPT !.cfg = cfg]
      OBVIOUS
    <3> HIDE DEF t2
    <3> QED BY <3>2, <3>3 DEF SharedRow
  <2>1. shared' = [shared EXCEPT ![o.h]
          = SharedRow(code, cfg, shared[o.h].hist, shared[o.h].pend, rules, shared[o.h].marker,
          shared[o.h].mpend, shared[o.h].ent, shared[o.h].evid, shared[o.h].seq)]
    BY <1>1, <2>0, <2>6, SharedTyped, Zenon
  <2>3. SharedRow(code, cfg, shared[o.h].hist, shared[o.h].pend, rules, shared[o.h].marker,
          shared[o.h].mpend, shared[o.h].ent, shared[o.h].evid, shared[o.h].seq) \in SharedStore
    BY <1>1, <2>2, SharedTyped DEF SharedRow, SharedStore, Flags
  <2>4. /\ shared'[o.h] = SharedRow(code, cfg, shared[o.h].hist, shared[o.h].pend, rules, shared[o.h].marker,
             shared[o.h].mpend, shared[o.h].ent, shared[o.h].evid, shared[o.h].seq)
        /\ SharedMoves(o.h)
    BY <1>1, <2>1, <2>3, SharedTyped DEF SharedMoves
  <2>5. /\ shared'[o.h].code = code /\ shared'[o.h].marker = shared[o.h].marker
        /\ shared'[o.h].ent = shared[o.h].ent /\ shared'[o.h].evid = shared[o.h].evid
             /\ shared'[o.h].seq = shared[o.h].seq
    BY <2>4 DEF SharedRow
  <2> QED BY <1>1, <1>3, <2>4, <2>5, Zenon DEF code, rules, cfg, to, KeepsKnown
<1> QED BY <1>2, <1>3

LEMMA RestorePutWrites ==
  ASSUME Stores, Ops, NEW i \in Proc, RestorePut(i)
  PROVE  /\ SharedMoves(op[i].h) /\ shared'[op[i].h].code = shared[op[i].h].code
         /\ shared'[op[i].h].marker = shared[op[i].h].marker
         /\ shared'[op[i].h].evid = shared[op[i].h].evid /\ shared'[op[i].h].seq = shared[op[i].h].seq
         /\ \E n \in Num :
              /\ op[i].plan = {n}
              /\ LET ours == shared[op[i].h].ent[op[i].p][n]  theirs == op[i].seen.ent[n] IN
                 shared'[op[i].h].ent = [shared[op[i].h].ent EXCEPT ![op[i].p][n] =
                                           IF theirs.rev >= ours.rev THEN theirs ELSE ours]
<1> DEFINE o == op[i]
<1>0. o.h \in Host /\ o.p \in Project /\ o.seen \in Snapshots
  BY RestorePutFits, OnboardFacts DEF OpFits, SnapFits, RestorePcs
<1>5. PICK n \in Num : o.plan = {n} /\ PutSharedProjection(o.h, o.p, n, o.seen.ent[n])
  BY RestorePutFits
<1> DEFINE v == IF o.seen.ent[n].rev >= shared[o.h].ent[o.p][n].rev THEN o.seen.ent[n]
           ELSE shared[o.h].ent[o.p][n]
<1>1. o.h \in Host /\ o.p \in Project /\ v \in Versions
  BY <1>0, SharedTyped, SMTT(30) DEF Snapshots
<1>2. shared' = [shared EXCEPT ![o.h].ent[o.p][n] = v]
  BY <1>0, <1>5, SharedTyped DEF PutSharedProjection, SharedStore
<1> HIDE DEF v
<1>3. CASE shared' = [shared EXCEPT ![o.h].ent[o.p][n] = v]
  <2> DEFINE ent == [shared[o.h].ent EXCEPT ![o.p] = [shared[o.h].ent[o.p] EXCEPT ![n] = v]]
  <2>0. shared' = [shared EXCEPT ![o.h] = [shared[o.h] EXCEPT !.ent = ent]]
    BY <1>1, <1>3, SharedTyped DEF SharedStore
  <2>2. ent \in [Project -> [Num -> Versions]]
    BY <1>1, SharedTyped, NoEntIs, NoneApart DEF OrNone, Codes
  <2> HIDE DEF ent
  <2>6. \A t \in SharedStore : [t EXCEPT !.ent = ent]
          = SharedRow(t.code, t.cfg, t.hist, t.pend, t.rules, t.marker, t.mpend, ent, t.evid, t.seq)
    BY SharedShape DEF SharedRow, SharedFields
  <2>1. shared' = [shared EXCEPT ![o.h]
          = SharedRow(shared[o.h].code, shared[o.h].cfg, shared[o.h].hist, shared[o.h].pend,
          shared[o.h].rules, shared[o.h].marker, shared[o.h].mpend, ent, shared[o.h].evid, shared[o.h].seq)]
    BY <1>1, <2>0, <2>6, SharedTyped
  <2>3. SharedRow(shared[o.h].code, shared[o.h].cfg, shared[o.h].hist, shared[o.h].pend, shared[o.h].rules,
          shared[o.h].marker, shared[o.h].mpend, ent, shared[o.h].evid, shared[o.h].seq) \in SharedStore
    BY <1>1, <2>2, SharedTyped DEF SharedRow, SharedStore, Flags
  <2>4. /\ shared'[o.h] = SharedRow(shared[o.h].code, shared[o.h].cfg, shared[o.h].hist, shared[o.h].pend,
             shared[o.h].rules, shared[o.h].marker, shared[o.h].mpend, ent, shared[o.h].evid, shared[o.h].seq)
        /\ SharedMoves(o.h)
    BY <1>1, <2>1, <2>3, SharedTyped DEF SharedMoves
  <2>5. /\ shared'[o.h].code = shared[o.h].code /\ shared'[o.h].marker = shared[o.h].marker
        /\ shared'[o.h].ent = ent /\ shared'[o.h].evid = shared[o.h].evid
             /\ shared'[o.h].seq = shared[o.h].seq
    BY <2>4 DEF SharedRow
  <2>7. ent = [shared[o.h].ent EXCEPT ![o.p][n] = v]
    BY <1>1, SharedTyped, SMTT(30) DEF ent
  <2> QED BY <1>5, <2>4, <2>5, <2>7, Zenon DEF v
<1> QED BY <1>2, <1>3, Zenon

LEMMA EnsureEvidenceWrites ==
  ASSUME Stores, Ops, NEW i \in Proc, EnsureEvidence(i)
  PROVE  \/ op'[i].pc = "failed" /\ UNCHANGED shared
         \/ /\ SharedMoves(op[i].h) /\ shared'[op[i].h].code = shared[op[i].h].code
            /\ shared'[op[i].h].marker = shared[op[i].h].marker
            /\ shared'[op[i].h].ent = shared[op[i].h].ent /\ shared'[op[i].h].seq = shared[op[i].h].seq
            /\ \E e \in op[i].seen.evid :
                 /\ ~ExceedsCurrent(op[i].h, op[i].p, e)
                 /\ shared'[op[i].h].evid = [shared[op[i].h].evid EXCEPT ![op[i].p]
                      = shared[op[i].h].evid[op[i].p] \cup {e}]
                 /\ op'[i].pc = "evidence" /\ op'[i].seen = op[i].seen /\ op'[i].todo = op[i].todo \ {e}
<1> DEFINE o == op[i]
<1>0. o.h \in Host /\ o.p \in Project /\ o.seen \in Snapshots
  BY EnsureEvidenceFits, OnboardFacts DEF OpFits, SnapFits, RestorePcs
<1>5. SUFFICES ASSUME ~(op'[i].pc = "failed" /\ UNCHANGED shared)
               PROVE  /\ SharedMoves(o.h) /\ shared'[o.h].code = shared[o.h].code
                      /\ shared'[o.h].marker = shared[o.h].marker
                      /\ shared'[o.h].ent = shared[o.h].ent /\ shared'[o.h].seq = shared[o.h].seq
                      /\ \E e \in o.seen.evid :
                           /\ ~ExceedsCurrent(o.h, o.p, e)
                           /\ shared'[o.h].evid = [shared[o.h].evid EXCEPT ![o.p] = shared[o.h].evid[o.p]
                                \cup {e}]
                           /\ op'[i].pc = "evidence" /\ op'[i].seen = o.seen /\ op'[i].todo = o.todo \ {e}
  OBVIOUS
<1>6. PICK e \in o.seen.evid : /\ ~ExceedsCurrent(o.h, o.p, e)
                               /\ shared' = [shared EXCEPT ![o.h].evid[o.p] = @ \cup {e}]
                               /\ op'[i].pc = "evidence" /\ op'[i].seen = o.seen /\ op'[i].todo = o.todo \ {e}
  BY <1>5, EnsureEvidenceFits
<1>1. o.h \in Host /\ o.p \in Project /\ e \in Evidence
  BY <1>0, <1>6 DEF Snapshots
<1>2. shared' = [shared EXCEPT ![o.h].evid[o.p] = @ \cup {e}]
  BY <1>6
<1>3. CASE shared' = [shared EXCEPT ![o.h].evid[o.p] = @ \cup {e}]
  <2> DEFINE evid == [shared[o.h].evid EXCEPT ![o.p] = shared[o.h].evid[o.p] \cup {e}]
  <2>0. shared' = [shared EXCEPT ![o.h] = [shared[o.h] EXCEPT !.evid = evid]]
    BY <1>1, <1>3, SharedTyped DEF SharedStore
  <2>2. evid \in [Project -> SUBSET Evidence]
    BY <1>1, SharedTyped, NoEntIs, NoneApart DEF OrNone, Codes
  <2> HIDE DEF evid
  <2>6. \A t \in SharedStore : [t EXCEPT !.evid = evid]
          = SharedRow(t.code, t.cfg, t.hist, t.pend, t.rules, t.marker, t.mpend, t.ent, evid, t.seq)
    BY SharedShape DEF SharedRow, SharedFields
  <2>1. shared' = [shared EXCEPT ![o.h]
          = SharedRow(shared[o.h].code, shared[o.h].cfg, shared[o.h].hist, shared[o.h].pend,
          shared[o.h].rules, shared[o.h].marker, shared[o.h].mpend, shared[o.h].ent, evid, shared[o.h].seq)]
    BY <1>1, <2>0, <2>6, SharedTyped
  <2>3. SharedRow(shared[o.h].code, shared[o.h].cfg, shared[o.h].hist, shared[o.h].pend, shared[o.h].rules,
          shared[o.h].marker, shared[o.h].mpend, shared[o.h].ent, evid, shared[o.h].seq) \in SharedStore
    BY <1>1, <2>2, SharedTyped DEF SharedRow, SharedStore, Flags
  <2>4. /\ shared'[o.h] = SharedRow(shared[o.h].code, shared[o.h].cfg, shared[o.h].hist, shared[o.h].pend,
             shared[o.h].rules, shared[o.h].marker, shared[o.h].mpend, shared[o.h].ent, evid, shared[o.h].seq)
        /\ SharedMoves(o.h)
    BY <1>1, <2>1, <2>3, SharedTyped DEF SharedMoves
  <2>5. /\ shared'[o.h].code = shared[o.h].code /\ shared'[o.h].marker = shared[o.h].marker
        /\ shared'[o.h].ent = shared[o.h].ent /\ shared'[o.h].evid = evid
             /\ shared'[o.h].seq = shared[o.h].seq
    BY <2>4 DEF SharedRow
  <2> QED BY <1>6, <2>4, <2>5, Zenon DEF evid
<1> QED BY <1>2, <1>3

\* A reconstructed sequence is above every number in use.
LEMMA SequenceAbove ==
  ASSUME Stores, NEW h \in Host, NEW p \in Project, NEW next \in Nat
  PROVE  /\ ReconstructedSequence(h, p, next) \in Nat
         /\ ReconstructedSequence(h, p, next) >= shared[h].seq[p]
         /\ \A n \in Num : shared[h].ent[p][n] # NoEnt => n < ReconstructedSequence(h, p, next)
<1> DEFINE used == {n + 1 : n \in {k \in Num : shared[h].ent[p][k] # NoEnt}}
           S == {shared[h].seq[p], next} \cup used
<1>1. PICK b \in Nat : \A n \in Num : n <= b
  BY NumBound
<1>2. Num \subseteq Nat /\ shared[h].seq[p] \in Nat
  BY SharedTyped, ProjectLifecycleAssumption
<1>3. \A n \in used : n \in Nat /\ n <= b + 1
  BY <1>1, <1>2
<1>4. \A n \in Num : shared[h].ent[p][n] # NoEnt => n + 1 \in used
  OBVIOUS
<1> HIDE DEF used
<1> DEFINE N == b + 1 + shared[h].seq[p] + next
<1>5. N \in Nat /\ S \in SUBSET Nat /\ S # {} /\ \A r \in S : r <= N
  BY <1>2, <1>3
<1>6. shared[h].seq[p] \in S /\ \A n \in used : n \in S
  OBVIOUS
<1> HIDE DEF S, N
<1>7. Max(S) \in S /\ \A r \in S : r <= Max(S)
  BY <1>5, LargestBelow
<1>8. Max(S) \in Nat
  BY <1>5, <1>7
<1>9. ReconstructedSequence(h, p, next) = Max(S)
  BY DEF ReconstructedSequence, S, used
<1> QED BY <1>2, <1>4, <1>6, <1>7, <1>8, <1>9

LEMMA SequencesWrites ==
  ASSUME Stores, Ops, NEW i \in Proc, RestoreSequences(i)
  PROVE  /\ SharedMoves(op[i].h) /\ shared'[op[i].h].code = shared[op[i].h].code
         /\ shared'[op[i].h].marker = shared[op[i].h].marker
         /\ shared'[op[i].h].ent = shared[op[i].h].ent /\ shared'[op[i].h].evid = shared[op[i].h].evid
         /\ \E next \in Nat :
              /\ shared'[op[i].h].seq = [shared[op[i].h].seq EXCEPT ![op[i].p] = next]
              /\ next >= shared[op[i].h].seq[op[i].p]
              /\ \A n \in Num : shared[op[i].h].ent[op[i].p][n] # NoEnt => n < next
<1> DEFINE o == op[i]  s == ReconstructedSequence(o.h, o.p, o.seen.next)
<1>1. /\ o.h \in Host /\ o.p \in Project /\ s \in Nat /\ s >= shared[o.h].seq[o.p]
      /\ \A n \in Num : shared[o.h].ent[o.p][n] # NoEnt => n < s
  BY RestoreSequencesFits, OnboardFacts, SequenceAbove DEF Snapshots
<1> HIDE DEF s
<1>2. shared' = [shared EXCEPT ![o.h].seq[o.p] = s]
  BY DEF RestoreSequences, s
<1>3. CASE shared' = [shared EXCEPT ![o.h].seq[o.p] = s]
  <2> DEFINE numbers == [shared[o.h].seq EXCEPT ![o.p] = s]
  <2>0. shared' = [shared EXCEPT ![o.h] = [shared[o.h] EXCEPT !.seq = numbers]]
    BY <1>1, <1>3, SharedTyped DEF SharedStore
  <2>2. numbers \in [Project -> Nat]
    BY <1>1, SharedTyped, NoEntIs, NoneApart DEF OrNone, Codes
  <2> HIDE DEF numbers
  <2>6. \A t \in SharedStore : [t EXCEPT !.seq = numbers]
          = SharedRow(t.code, t.cfg, t.hist, t.pend, t.rules, t.marker, t.mpend, t.ent, t.evid, numbers)
    BY SharedShape DEF SharedRow, SharedFields
  <2>1. shared' = [shared EXCEPT ![o.h]
          = SharedRow(shared[o.h].code, shared[o.h].cfg, shared[o.h].hist, shared[o.h].pend,
          shared[o.h].rules, shared[o.h].marker, shared[o.h].mpend, shared[o.h].ent, shared[o.h].evid,
          numbers)]
    BY <1>1, <2>0, <2>6, SharedTyped
  <2>3. SharedRow(shared[o.h].code, shared[o.h].cfg, shared[o.h].hist, shared[o.h].pend, shared[o.h].rules,
          shared[o.h].marker, shared[o.h].mpend, shared[o.h].ent, shared[o.h].evid, numbers) \in SharedStore
    BY <1>1, <2>2, SharedTyped DEF SharedRow, SharedStore, Flags
  <2>4. /\ shared'[o.h] = SharedRow(shared[o.h].code, shared[o.h].cfg, shared[o.h].hist, shared[o.h].pend,
             shared[o.h].rules, shared[o.h].marker, shared[o.h].mpend, shared[o.h].ent, shared[o.h].evid,
             numbers)
        /\ SharedMoves(o.h)
    BY <1>1, <2>1, <2>3, SharedTyped DEF SharedMoves
  <2>5. /\ shared'[o.h].code = shared[o.h].code /\ shared'[o.h].marker = shared[o.h].marker
        /\ shared'[o.h].ent = shared[o.h].ent /\ shared'[o.h].evid = shared[o.h].evid
             /\ shared'[o.h].seq = numbers
    BY <2>4, SMTT(30) DEF SharedRow
  <2> QED BY <1>1, <1>3, <2>4, <2>5, Zenon DEF numbers, KeepsKnown
<1> QED BY <1>2, <1>3

LEMMA ConfigurationWrites ==
  ASSUME Stores, Ops, NEW i \in Proc, MutateProjectConfiguration(i)
  PROVE  \/ UNCHANGED shared
         \/ /\ SharedMoves(op[i].h) /\ KeepsKnown(op[i].h) /\ shared'[op[i].h].marker = shared[op[i].h].marker
            /\ shared'[op[i].h].code = shared[op[i].h].code
<1> DEFINE o == op[i]  new == [rev |-> o.seen.rev + 1, by |-> i]  r == new.rev
<1>1. o.h \in Host /\ o.p \in Project /\ new \in Ents /\ r \in Revs
  <2>1. OpFits(i, o) /\ i \in Slot /\ o.kind = "config" /\ o.pc = "commitConfig"
    BY EditingFits, OpsFit, Zenon DEF MutateProjectConfiguration, OpAt, OpFits, KindFits
  <2>2. o.seen \in Ents /\ o.seen.rev < MaxCfg /\ o.h \in Host /\ o.p \in Project
    BY <2>1, AskedFacts DEF OpFits, EditFits
  <2>3. o.seen.rev \in Revs
    BY <2>2 DEF Ents
  <2>4. o.seen.rev + 1 \in Revs
    BY <2>2, <2>3, RevsAre, ProjectLifecycleAssumption, SMTT(30) DEF Revs
  <2> QED BY <2>2, <2>4 DEF Ents, OrNone
<1>2. UNCHANGED shared \/ shared'
        = [shared EXCEPT ![o.h].cfg[o.p] = new, ![o.h].hist[o.p] = r, ![o.h].pend[o.p] = @ \cup {new}]
  BY DEF MutateProjectConfiguration
<1> HIDE DEF new, r
<1>3. CASE shared' = [shared EXCEPT ![o.h].cfg[o.p] = new, ![o.h].hist[o.p] = r,
             ![o.h].pend[o.p] = @ \cup {new}]
  <2> DEFINE cfg == [shared[o.h].cfg EXCEPT ![o.p] = new]
           hist == [shared[o.h].hist EXCEPT ![o.p] = r]
           pend == [shared[o.h].pend EXCEPT ![o.p] = shared[o.h].pend[o.p] \cup {new}]
  <2>0. shared' = [shared EXCEPT ![o.h] = [shared[o.h] EXCEPT !.cfg = cfg, !.hist = hist, !.pend = pend]]
    BY <1>1, <1>3, SharedTyped, Zenon DEF SharedStore
  <2>2. cfg \in [Project -> Ents] /\ hist \in [Project -> Revs] /\ pend \in [Project -> SUBSET Ents]
    BY <1>1, SharedTyped, NoEntIs, NoneApart DEF OrNone, Codes
  <2> HIDE DEF cfg, hist, pend
  <2>6. \A t \in SharedStore : [t EXCEPT !.cfg = cfg, !.hist = hist, !.pend = pend]
          = SharedRow(t.code, cfg, hist, pend, t.rules, t.marker, t.mpend, t.ent, t.evid, t.seq)
    <3> SUFFICES ASSUME NEW t \in SharedStore
                 PROVE  [t EXCEPT !.cfg = cfg, !.hist = hist, !.pend = pend]
                          = SharedRow(t.code, cfg, hist, pend, t.rules, t.marker, t.mpend, t.ent, t.evid,
                          t.seq)
      BY Zenon
    <3> DEFINE t1 == [t EXCEPT !.cfg = cfg]  t2 == [t1 EXCEPT !.hist = hist]
    <3>1. t1 = SharedRow(t.code, cfg, t.hist, t.pend, t.rules, t.marker, t.mpend, t.ent, t.evid, t.seq)
      BY SharedShape DEF SharedRow, SharedFields
    <3>2. t2 = SharedRow(t.code, cfg, hist, t.pend, t.rules, t.marker, t.mpend, t.ent, t.evid, t.seq)
      <4> HIDE DEF t1
      <4> QED BY <3>1 DEF SharedRow
    <3>3. [t EXCEPT !.cfg = cfg, !.hist = hist, !.pend = pend] = [t2 EXCEPT !.pend = pend]
      OBVIOUS
    <3> HIDE DEF t2
    <3> QED BY <3>2, <3>3 DEF SharedRow
  <2>1. shared' = [shared EXCEPT ![o.h]
          = SharedRow(shared[o.h].code, cfg, hist, pend, shared[o.h].rules, shared[o.h].marker,
          shared[o.h].mpend, shared[o.h].ent, shared[o.h].evid, shared[o.h].seq)]
    BY <1>1, <2>0, <2>6, SharedTyped, Zenon
  <2>3. SharedRow(shared[o.h].code, cfg, hist, pend, shared[o.h].rules, shared[o.h].marker,
          shared[o.h].mpend, shared[o.h].ent, shared[o.h].evid, shared[o.h].seq) \in SharedStore
    BY <1>1, <2>2, SharedTyped DEF SharedRow, SharedStore, Flags
  <2>4. /\ shared'[o.h] = SharedRow(shared[o.h].code, cfg, hist, pend, shared[o.h].rules, shared[o.h].marker,
             shared[o.h].mpend, shared[o.h].ent, shared[o.h].evid, shared[o.h].seq)
        /\ SharedMoves(o.h)
    BY <1>1, <2>1, <2>3, SharedTyped DEF SharedMoves
  <2>5. /\ shared'[o.h].code = shared[o.h].code /\ shared'[o.h].marker = shared[o.h].marker
        /\ shared'[o.h].ent = shared[o.h].ent /\ shared'[o.h].evid = shared[o.h].evid
             /\ shared'[o.h].seq = shared[o.h].seq
    BY <2>4 DEF SharedRow
  <2> QED BY <1>1, <1>3, <2>4, <2>5, Zenon DEF cfg, hist, pend, KeepsKnown
<1> QED BY <1>2, <1>3 DEF new, r

LEMMA EditEntityWrites ==
  ASSUME Stores, Ops, NEW i \in Proc, EditEntity(i)
  PROVE  \/ UNCHANGED shared
         \/ /\ SharedMoves(op[i].h) /\ shared'[op[i].h].marker = shared[op[i].h].marker
            /\ shared'[op[i].h].code = shared[op[i].h].code
            /\ \E n \in Num, next \in Nat, new \in Versions, e \in Evidence :
                 LET h == op[i].h  p == op[i].p  was == shared[h].ent[p][n] IN
                 /\ shared'[h].ent = [shared[h].ent EXCEPT ![p][n] = new] /\ new.rev = was.rev + 1
                 /\ shared'[h].evid = [shared[h].evid EXCEPT ![p] = shared[h].evid[p] \cup {e}]
                 /\ e.n = n /\ e.rev = new.rev
                 /\ shared'[h].seq = [shared[h].seq EXCEPT ![p] = next]
                 /\ IF was = NoEnt THEN n = shared[h].seq[p] /\ next = n + 1 ELSE next = shared[h].seq[p]
<1> DEFINE o == op[i]  n == IF o.kind = "create" THEN shared[o.h].seq[o.p] ELSE 1
           cur == shared[o.h].ent[o.p][n]
           new == [rev |-> cur.rev + 1, by |-> i]
           e == [kind |-> "revision", n |-> n, rev |-> new.rev, by |-> i]
           next == IF o.kind = "create" THEN shared[o.h].seq[o.p] + 1 ELSE shared[o.h].seq[o.p]
           form == [shared EXCEPT ![o.h].ent[o.p][n] = new, ![o.h].evid[o.p] = @ \cup {e},
               ![o.h].seq[o.p] = next]
<1>0. o.h \in Host /\ o.p \in Project
  BY EditingFits, AskedFacts
<1>5. UNCHANGED shared \/ (shared' = form /\ n \in Num /\ (o.kind = "create") = (cur = NoEnt))
  BY <1>0, SharedTyped, Zenon DEF EditEntity, SharedStore
<1>6. SUFFICES ASSUME shared' = form /\ n \in Num /\ (o.kind = "create") = (cur = NoEnt)
               PROVE  /\ SharedMoves(o.h) /\ shared'[o.h].marker = shared[o.h].marker
                      /\ shared'[o.h].code = shared[o.h].code
                      /\ shared'[o.h].ent = [shared[o.h].ent EXCEPT ![o.p][n] = new] /\ new.rev = cur.rev + 1
                      /\ new \in Versions /\ e \in Evidence /\ next \in Nat /\ e.n = n /\ e.rev = new.rev
                      /\ shared'[o.h].evid = [shared[o.h].evid EXCEPT ![o.p] = shared[o.h].evid[o.p] \cup {e}]
                      /\ shared'[o.h].seq = [shared[o.h].seq EXCEPT ![o.p] = next]
                      /\ IF cur = NoEnt THEN n = shared[o.h].seq[o.p] /\ next = n + 1
                           ELSE next = shared[o.h].seq[o.p]
  <2>1. CASE UNCHANGED shared
    BY <2>1, Zenon
  <2>2. CASE shared' = form /\ n \in Num /\ (o.kind = "create") = (cur = NoEnt)
    <3>1. /\ SharedMoves(o.h) /\ shared'[o.h].marker = shared[o.h].marker
          /\ shared'[o.h].code = shared[o.h].code
          /\ shared'[o.h].ent = [shared[o.h].ent EXCEPT ![o.p][n] = new] /\ new.rev = cur.rev + 1
          /\ new \in Versions /\ e \in Evidence /\ next \in Nat /\ e.n = n /\ e.rev = new.rev
          /\ shared'[o.h].evid = [shared[o.h].evid EXCEPT ![o.p] = shared[o.h].evid[o.p] \cup {e}]
          /\ shared'[o.h].seq = [shared[o.h].seq EXCEPT ![o.p] = next]
          /\ IF cur = NoEnt THEN n = shared[o.h].seq[o.p] /\ next = n + 1 ELSE next = shared[o.h].seq[o.p]
      BY <1>6, <2>2, Zenon
    <3> HIDE DEF n, new, e, next, form
    <3> DEFINE Makes(n1, next1, new1, e1) ==
           LET h == op[i].h  p == op[i].p  was == shared[h].ent[p][n1] IN
           /\ shared'[h].ent = [shared[h].ent EXCEPT ![p][n1] = new1] /\ new1.rev = was.rev + 1
           /\ shared'[h].evid = [shared[h].evid EXCEPT ![p] = shared[h].evid[p] \cup {e1}]
           /\ e1.n = n1 /\ e1.rev = new1.rev
           /\ shared'[h].seq = [shared[h].seq EXCEPT ![p] = next1]
           /\ IF was = NoEnt THEN n1 = shared[h].seq[p] /\ next1 = n1 + 1 ELSE next1 = shared[h].seq[p]
    <3>2. \E n1 \in Num, next1 \in Nat, new1 \in Versions, e1 \in Evidence : Makes(n1, next1, new1, e1)
      <4>1. n \in Num /\ next \in Nat /\ new \in Versions /\ e \in Evidence
        BY <2>2, <3>1, Zenon
      <4>2. Makes(n, next, new, e)
        BY <3>1, Zenon DEF cur
      <4> HIDE DEF Makes
      <4> QED BY <4>1, <4>2, Zenon
    <3> HIDE DEF cur, o
    <3> QED BY <3>1, <3>2, Zenon DEF o
  <2> QED BY <1>5, <2>1, <2>2, Zenon
<1>7. /\ new \in Versions /\ e \in Evidence /\ next \in Nat /\ e.n = n /\ e.rev = new.rev
      /\ new.rev = cur.rev + 1
      /\ IF cur = NoEnt THEN n = shared[o.h].seq[o.p] /\ next = n + 1 ELSE next = shared[o.h].seq[o.p]
  <2>0. n \in Num /\ (o.kind = "create") = (cur = NoEnt)
    BY <1>6, Zenon
  <2>1. cur \in Versions /\ shared[o.h].seq[o.p] \in Nat
    <3> HIDE DEF n
    <3> QED BY <1>0, <2>0, SharedTyped
  <2>4. IF o.kind = "create" THEN n = shared[o.h].seq[o.p] /\ next = n + 1 ELSE next = shared[o.h].seq[o.p]
    BY SMTT(30)
  <2>5. next \in Nat
    BY <2>1
  <2> HIDE DEF cur, n, next
  <2>2. new \in Versions /\ new.rev = cur.rev + 1
    BY <2>1 DEF Versions, OrNone
  <2> HIDE DEF new
  <2>3. e \in Evidence /\ e.n = n /\ e.rev = new.rev
    BY <2>0, <2>2 DEF Evidence, Versions, OrNone
  <2> HIDE DEF e
  <2> QED BY <2>0, <2>2, <2>3, <2>4, <2>5
<1> HIDE DEF n, new, e, next
<1>1. o.h \in Host /\ o.p \in Project /\ n \in Num /\ new \in Versions /\ e \in Evidence /\ next \in Nat
  BY <1>0, <1>6, <1>7, Zenon
<1>2. shared' = form
  BY <1>6, Zenon
<1>3. CASE shared' = form
  <2> DEFINE ent == [shared[o.h].ent EXCEPT ![o.p] = [shared[o.h].ent[o.p] EXCEPT ![n] = new]]
           evid == [shared[o.h].evid EXCEPT ![o.p] = shared[o.h].evid[o.p] \cup {e}]
           numbers == [shared[o.h].seq EXCEPT ![o.p] = next]
  <2>0. shared' = [shared EXCEPT ![o.h] = [shared[o.h] EXCEPT !.ent = ent, !.evid = evid, !.seq = numbers]]
    BY <1>1, <1>3, SharedTyped, Zenon DEF SharedStore
  <2>2. ent \in [Project -> [Num -> Versions]] /\ evid \in [Project -> SUBSET Evidence]
          /\ numbers \in [Project -> Nat]
    BY <1>1, SharedTyped, NoEntIs, NoneApart DEF OrNone, Codes
  <2> HIDE DEF ent, evid, numbers
  <2>6. \A t \in SharedStore : [t EXCEPT !.ent = ent, !.evid = evid, !.seq = numbers]
          = SharedRow(t.code, t.cfg, t.hist, t.pend, t.rules, t.marker, t.mpend, ent, evid, numbers)
    <3> SUFFICES ASSUME NEW t \in SharedStore
                 PROVE  [t EXCEPT !.ent = ent, !.evid = evid, !.seq = numbers]
                          = SharedRow(t.code, t.cfg, t.hist, t.pend, t.rules, t.marker, t.mpend, ent, evid,
                          numbers)
      BY Zenon
    <3> DEFINE t1 == [t EXCEPT !.ent = ent]  t2 == [t1 EXCEPT !.evid = evid]
    <3>1. t1 = SharedRow(t.code, t.cfg, t.hist, t.pend, t.rules, t.marker, t.mpend, ent, t.evid, t.seq)
      BY SharedShape DEF SharedRow, SharedFields
    <3>2. t2 = SharedRow(t.code, t.cfg, t.hist, t.pend, t.rules, t.marker, t.mpend, ent, evid, t.seq)
      <4> HIDE DEF t1
      <4> QED BY <3>1 DEF SharedRow
    <3>3. [t EXCEPT !.ent = ent, !.evid = evid, !.seq = numbers] = [t2 EXCEPT !.seq = numbers]
      OBVIOUS
    <3> HIDE DEF t2
    <3> QED BY <3>2, <3>3 DEF SharedRow
  <2>1. shared' = [shared EXCEPT ![o.h]
          = SharedRow(shared[o.h].code, shared[o.h].cfg, shared[o.h].hist, shared[o.h].pend,
          shared[o.h].rules, shared[o.h].marker, shared[o.h].mpend, ent, evid, numbers)]
    BY <1>1, <2>0, <2>6, SharedTyped, Zenon
  <2>3. SharedRow(shared[o.h].code, shared[o.h].cfg, shared[o.h].hist, shared[o.h].pend, shared[o.h].rules,
          shared[o.h].marker, shared[o.h].mpend, ent, evid, numbers) \in SharedStore
    BY <1>1, <2>2, SharedTyped DEF SharedRow, SharedStore, Flags
  <2>4. /\ shared'[o.h] = SharedRow(shared[o.h].code, shared[o.h].cfg, shared[o.h].hist, shared[o.h].pend,
             shared[o.h].rules, shared[o.h].marker, shared[o.h].mpend, ent, evid, numbers)
        /\ SharedMoves(o.h)
    BY <1>1, <2>1, <2>3, SharedTyped DEF SharedMoves
  <2>5. /\ shared'[o.h].code = shared[o.h].code /\ shared'[o.h].marker = shared[o.h].marker
        /\ shared'[o.h].ent = ent /\ shared'[o.h].evid = evid /\ shared'[o.h].seq = numbers
    BY <2>4 DEF SharedRow
  <2>7. ent = [shared[o.h].ent EXCEPT ![o.p][n] = new]
    BY <1>1, SharedTyped DEF ent
  <2> QED BY <1>7, <2>4, <2>5, <2>7, Zenon DEF evid, numbers
<1> QED BY <1>2, <1>3, Zenon

LEMMA RetireSharedWrites ==
  ASSUME Stores, Ops, NEW i \in Proc, RetireSharedProject(i)
  PROVE  \/ UNCHANGED shared
         \/ /\ SharedMoves(op[i].h) /\ KeepsKnown(op[i].h) /\ shared'[op[i].h].code = shared[op[i].h].code
            /\ shared[op[i].h].marker[op[i].p] = None
            /\ shared'[op[i].h].marker = [shared[op[i].h].marker EXCEPT ![op[i].p] = op[i].rec]
<1> DEFINE o == op[i]  rec == o.rec
<1>1. o.h \in Host /\ o.p \in Project /\ rec \in Markers
  BY RetireSharedProjectFits, SMTT(30)
<1>4. UNCHANGED shared \/ shared[o.h].marker[o.p] = None
  BY DEF RetireSharedProject, ImportReads, ImportSharedProjectRetirement, stores
<1>2. UNCHANGED shared \/ shared'
        = [shared EXCEPT ![o.h] = [RetiredRows(shared[o.h], o.p, rec) EXCEPT !.mpend[o.p] = TRUE]]
  BY SMTT(30) DEF RetireSharedProject
<1>3. CASE shared' = [shared EXCEPT ![o.h] = [RetiredRows(shared[o.h], o.p, rec) EXCEPT !.mpend[o.p] = TRUE]]
  <2> DEFINE marker == [shared[o.h].marker EXCEPT ![o.p] = rec]
           cfg == [shared[o.h].cfg EXCEPT ![o.p] = NoEnt]
           pend == [shared[o.h].pend EXCEPT ![o.p] = {}]
           mpend == [shared[o.h].mpend EXCEPT ![o.p] = TRUE]
  <2>0. shared' = [shared EXCEPT ![o.h]
          = [shared[o.h] EXCEPT !.marker = marker, !.cfg = cfg, !.pend = pend, !.mpend = mpend]]
    BY <1>1, <1>3, SharedTyped DEF SharedStore, RetiredRows
  <2>2. marker \in [Project -> OrNone(Markers)] /\ cfg \in [Project -> Ents]
          /\ pend \in [Project -> SUBSET Ents] /\ mpend \in [Project -> BOOLEAN]
    BY <1>1, SharedTyped, NoEntIs, NoneApart DEF OrNone, Codes
  <2> HIDE DEF marker, cfg, pend, mpend
  <2>6. \A t \in SharedStore : [t EXCEPT !.marker = marker, !.cfg = cfg, !.pend = pend, !.mpend = mpend]
          = SharedRow(t.code, cfg, t.hist, pend, t.rules, marker, mpend, t.ent, t.evid, t.seq)
    <3> SUFFICES ASSUME NEW t \in SharedStore
                 PROVE  [t EXCEPT !.marker = marker, !.cfg = cfg, !.pend = pend, !.mpend = mpend]
                          = SharedRow(t.code, cfg, t.hist, pend, t.rules, marker, mpend, t.ent, t.evid, t.seq)
      BY Zenon
    <3> DEFINE t1 == [t EXCEPT !.marker = marker]  t2 == [t1 EXCEPT !.cfg = cfg]
               t3 == [t2 EXCEPT !.pend = pend]
    <3>1. t1 = SharedRow(t.code, t.cfg, t.hist, t.pend, t.rules, marker, t.mpend, t.ent, t.evid, t.seq)
      BY SharedShape DEF SharedRow, SharedFields
    <3>2. t2 = SharedRow(t.code, cfg, t.hist, t.pend, t.rules, marker, t.mpend, t.ent, t.evid, t.seq)
      <4> HIDE DEF t1
      <4> QED BY <3>1 DEF SharedRow
    <3>3. t3 = SharedRow(t.code, cfg, t.hist, pend, t.rules, marker, t.mpend, t.ent, t.evid, t.seq)
      <4> HIDE DEF t2
      <4> QED BY <3>2 DEF SharedRow
    <3>4. [t EXCEPT !.marker = marker, !.cfg = cfg, !.pend = pend, !.mpend = mpend]
            = [t3 EXCEPT !.mpend = mpend]
      OBVIOUS
    <3> HIDE DEF t3
    <3> QED BY <3>3, <3>4 DEF SharedRow
  <2>1. shared' = [shared EXCEPT ![o.h]
          = SharedRow(shared[o.h].code, cfg, shared[o.h].hist, pend, shared[o.h].rules, marker, mpend,
          shared[o.h].ent, shared[o.h].evid, shared[o.h].seq)]
    BY <1>1, <2>0, <2>6, SharedTyped, Zenon
  <2>3. SharedRow(shared[o.h].code, cfg, shared[o.h].hist, pend, shared[o.h].rules, marker, mpend,
          shared[o.h].ent, shared[o.h].evid, shared[o.h].seq) \in SharedStore
    BY <1>1, <2>2, SharedTyped DEF SharedRow, SharedStore, Flags
  <2>4. /\ shared'[o.h] = SharedRow(shared[o.h].code, cfg, shared[o.h].hist, pend, shared[o.h].rules, marker,
             mpend, shared[o.h].ent, shared[o.h].evid, shared[o.h].seq)
        /\ SharedMoves(o.h)
    BY <1>1, <2>1, <2>3, SharedTyped DEF SharedMoves
  <2>5. /\ shared'[o.h].code = shared[o.h].code /\ shared'[o.h].marker = marker
        /\ shared'[o.h].ent = shared[o.h].ent /\ shared'[o.h].evid = shared[o.h].evid
             /\ shared'[o.h].seq = shared[o.h].seq
    BY <2>4 DEF SharedRow
  <2> QED BY <1>1, <1>3, <1>4, <2>4, <2>5 DEF marker, cfg, pend, mpend, KeepsKnown
<1> QED BY <1>2, <1>3, <1>4

LEMMA ImportWrites ==
  ASSUME Stores, Ops, NEW i \in Proc, ImportReads(i) \/ ImportSharedProjectRetirement(i)
  PROVE  \/ UNCHANGED shared
         \/ /\ SharedMoves(op[i].h) /\ KeepsKnown(op[i].h) /\ shared'[op[i].h].code = shared[op[i].h].code
            /\ shared[op[i].h].marker[op[i].p] = None
            /\ shared'[op[i].h].marker = [shared[op[i].h].marker EXCEPT ![op[i].p] = op[i].rec]
<1> DEFINE o == op[i]  rec == o.rec
<1>1. o.h \in Host /\ o.p \in Project /\ rec \in Markers
  BY ImportFits
<1>4. UNCHANGED shared \/ shared[o.h].marker[o.p] = None
  BY Zenon DEF RetireSharedProject, ImportReads, ImportSharedProjectRetirement, stores
<1>2. UNCHANGED shared \/ shared' = [shared EXCEPT ![o.h] = RetiredRows(shared[o.h], o.p, rec)]
  BY ZenonT(30) DEF ImportReads, ImportSharedProjectRetirement, stores
<1>3. CASE shared' = [shared EXCEPT ![o.h] = RetiredRows(shared[o.h], o.p, rec)]
  <2> DEFINE marker == [shared[o.h].marker EXCEPT ![o.p] = rec]
           cfg == [shared[o.h].cfg EXCEPT ![o.p] = NoEnt]
           pend == [shared[o.h].pend EXCEPT ![o.p] = {}]
  <2>0. shared' = [shared EXCEPT ![o.h] = [shared[o.h] EXCEPT !.marker = marker, !.cfg = cfg, !.pend = pend]]
    BY <1>1, <1>3, SharedTyped DEF SharedStore, RetiredRows
  <2>2. marker \in [Project -> OrNone(Markers)] /\ cfg \in [Project -> Ents]
          /\ pend \in [Project -> SUBSET Ents]
    BY <1>1, SharedTyped, NoEntIs, NoneApart DEF OrNone, Codes
  <2> HIDE DEF marker, cfg, pend
  <2>6. \A t \in SharedStore : [t EXCEPT !.marker = marker, !.cfg = cfg, !.pend = pend]
          = SharedRow(t.code, cfg, t.hist, pend, t.rules, marker, t.mpend, t.ent, t.evid, t.seq)
    <3> SUFFICES ASSUME NEW t \in SharedStore
                 PROVE  [t EXCEPT !.marker = marker, !.cfg = cfg, !.pend = pend]
                          = SharedRow(t.code, cfg, t.hist, pend, t.rules, marker, t.mpend, t.ent, t.evid,
                          t.seq)
      BY Zenon
    <3> DEFINE t1 == [t EXCEPT !.marker = marker]  t2 == [t1 EXCEPT !.cfg = cfg]
    <3>1. t1 = SharedRow(t.code, t.cfg, t.hist, t.pend, t.rules, marker, t.mpend, t.ent, t.evid, t.seq)
      BY SharedShape DEF SharedRow, SharedFields
    <3>2. t2 = SharedRow(t.code, cfg, t.hist, t.pend, t.rules, marker, t.mpend, t.ent, t.evid, t.seq)
      <4> HIDE DEF t1
      <4> QED BY <3>1 DEF SharedRow
    <3>3. [t EXCEPT !.marker = marker, !.cfg = cfg, !.pend = pend] = [t2 EXCEPT !.pend = pend]
      OBVIOUS
    <3> HIDE DEF t2
    <3> QED BY <3>2, <3>3 DEF SharedRow
  <2>1. shared' = [shared EXCEPT ![o.h]
          = SharedRow(shared[o.h].code, cfg, shared[o.h].hist, pend, shared[o.h].rules, marker,
          shared[o.h].mpend, shared[o.h].ent, shared[o.h].evid, shared[o.h].seq)]
    BY <1>1, <2>0, <2>6, SharedTyped, Zenon
  <2>3. SharedRow(shared[o.h].code, cfg, shared[o.h].hist, pend, shared[o.h].rules, marker,
          shared[o.h].mpend, shared[o.h].ent, shared[o.h].evid, shared[o.h].seq) \in SharedStore
    BY <1>1, <2>2, SharedTyped DEF SharedRow, SharedStore, Flags
  <2>4. /\ shared'[o.h] = SharedRow(shared[o.h].code, cfg, shared[o.h].hist, pend, shared[o.h].rules, marker,
             shared[o.h].mpend, shared[o.h].ent, shared[o.h].evid, shared[o.h].seq)
        /\ SharedMoves(o.h)
    BY <1>1, <2>1, <2>3, SharedTyped DEF SharedMoves
  <2>5. /\ shared'[o.h].code = shared[o.h].code /\ shared'[o.h].marker = marker
        /\ shared'[o.h].ent = shared[o.h].ent /\ shared'[o.h].evid = shared[o.h].evid
             /\ shared'[o.h].seq = shared[o.h].seq
    BY <2>4 DEF SharedRow
  <2> QED BY <1>1, <1>3, <1>4, <2>4, <2>5 DEF marker, cfg, pend, KeepsKnown
<1> QED BY <1>2, <1>3, <1>4

LEMMA MarkWrites ==
  ASSUME Stores, Ops, NEW i \in Proc, MarkOutboxPublished(i)
  PROVE  UNCHANGED shared \/
         (/\ SharedMoves(op[i].h) /\ KeepsKnown(op[i].h) /\ shared'[op[i].h].code = shared[op[i].h].code
            /\ shared'[op[i].h].marker = shared[op[i].h].marker)
<1> DEFINE o == op[i]
<1>1. o.h \in Host /\ o.p \in Project
  BY PublishFits
<1>2. UNCHANGED shared \/ shared' = [shared EXCEPT ![o.h].mpend[o.p] = FALSE]
  BY DEF MarkOutboxPublished
<1>3. CASE shared' = [shared EXCEPT ![o.h].mpend[o.p] = FALSE]
  <2> DEFINE mpend == [shared[o.h].mpend EXCEPT ![o.p] = FALSE]
  <2>0. shared' = [shared EXCEPT ![o.h] = [shared[o.h] EXCEPT !.mpend = mpend]]
    BY <1>1, <1>3, SharedTyped DEF SharedStore
  <2>2. mpend \in [Project -> BOOLEAN]
    BY <1>1, SharedTyped, NoEntIs, NoneApart DEF OrNone, Codes
  <2> HIDE DEF mpend
  <2>6. \A t \in SharedStore : [t EXCEPT !.mpend = mpend]
          = SharedRow(t.code, t.cfg, t.hist, t.pend, t.rules, t.marker, mpend, t.ent, t.evid, t.seq)
    BY SharedShape DEF SharedRow, SharedFields
  <2>1. shared' = [shared EXCEPT ![o.h]
          = SharedRow(shared[o.h].code, shared[o.h].cfg, shared[o.h].hist, shared[o.h].pend,
          shared[o.h].rules, shared[o.h].marker, mpend, shared[o.h].ent, shared[o.h].evid, shared[o.h].seq)]
    BY <1>1, <2>0, <2>6, SharedTyped
  <2>3. SharedRow(shared[o.h].code, shared[o.h].cfg, shared[o.h].hist, shared[o.h].pend, shared[o.h].rules,
          shared[o.h].marker, mpend, shared[o.h].ent, shared[o.h].evid, shared[o.h].seq) \in SharedStore
    BY <1>1, <2>2, SharedTyped DEF SharedRow, SharedStore, Flags
  <2>4. /\ shared'[o.h] = SharedRow(shared[o.h].code, shared[o.h].cfg, shared[o.h].hist, shared[o.h].pend,
             shared[o.h].rules, shared[o.h].marker, mpend, shared[o.h].ent, shared[o.h].evid, shared[o.h].seq)
        /\ SharedMoves(o.h)
    BY <1>1, <2>1, <2>3, SharedTyped DEF SharedMoves
  <2>5. /\ shared'[o.h].code = shared[o.h].code /\ shared'[o.h].marker = shared[o.h].marker
        /\ shared'[o.h].ent = shared[o.h].ent /\ shared'[o.h].evid = shared[o.h].evid
             /\ shared'[o.h].seq = shared[o.h].seq
    BY <2>4 DEF SharedRow
  <2> QED BY <1>1, <1>3, <2>4, <2>5 DEF mpend, KeepsKnown
<1> QED BY <1>2, <1>3

LEMMA PublishConfigurationWrites ==
  ASSUME Stores, NEW h \in Host, NEW p \in Project, PublishConfiguration(h, p)
  PROVE  UNCHANGED shared \/
         (/\ SharedMoves(h) /\ KeepsKnown(h) /\ shared'[h].code = shared[h].code
            /\ shared'[h].marker = shared[h].marker)
<1> DEFINE first == CHOOSE c \in shared[h].pend[p] : \A d \in shared[h].pend[p] : c.rev <= d.rev
           rest == shared[h].pend[p] \ {first}
<1>1. h \in Host /\ p \in Project /\ rest \in SUBSET Ents
  BY SharedTyped
<1>2. UNCHANGED shared \/ shared' = [shared EXCEPT ![h].pend[p] = rest]
  BY DEF PublishConfiguration
<1> HIDE DEF rest
<1>3. CASE shared' = [shared EXCEPT ![h].pend[p] = rest]
  <2> DEFINE pend == [shared[h].pend EXCEPT ![p] = rest]
  <2>0. shared' = [shared EXCEPT ![h] = [shared[h] EXCEPT !.pend = pend]]
    BY <1>1, <1>3, SharedTyped DEF SharedStore
  <2>2. pend \in [Project -> SUBSET Ents]
    BY <1>1, SharedTyped, NoEntIs, NoneApart DEF OrNone, Codes
  <2> HIDE DEF pend
  <2>6. \A t \in SharedStore : [t EXCEPT !.pend = pend]
          = SharedRow(t.code, t.cfg, t.hist, pend, t.rules, t.marker, t.mpend, t.ent, t.evid, t.seq)
    BY SharedShape DEF SharedRow, SharedFields
  <2>1. shared' = [shared EXCEPT ![h]
          = SharedRow(shared[h].code, shared[h].cfg, shared[h].hist, pend, shared[h].rules, shared[h].marker,
          shared[h].mpend, shared[h].ent, shared[h].evid, shared[h].seq)]
    BY <1>1, <2>0, <2>6, SharedTyped
  <2>3. SharedRow(shared[h].code, shared[h].cfg, shared[h].hist, pend, shared[h].rules, shared[h].marker,
          shared[h].mpend, shared[h].ent, shared[h].evid, shared[h].seq) \in SharedStore
    BY <1>1, <2>2, SharedTyped DEF SharedRow, SharedStore, Flags
  <2>4. /\ shared'[h] = SharedRow(shared[h].code, shared[h].cfg, shared[h].hist, pend, shared[h].rules,
             shared[h].marker, shared[h].mpend, shared[h].ent, shared[h].evid, shared[h].seq)
        /\ SharedMoves(h)
    BY <1>1, <2>1, <2>3, SharedTyped DEF SharedMoves
  <2>5. /\ shared'[h].code = shared[h].code /\ shared'[h].marker = shared[h].marker
        /\ shared'[h].ent = shared[h].ent /\ shared'[h].evid = shared[h].evid
             /\ shared'[h].seq = shared[h].seq
    BY <2>4 DEF SharedRow
  <2> QED BY <1>1, <1>3, <2>4, <2>5 DEF pend, KeepsKnown
<1> QED BY <1>2, <1>3

LEMMA PublishRetirementWrites ==
  ASSUME Stores, NEW h \in Host, NEW p \in Project, PublishRetirement(h, p)
  PROVE  UNCHANGED shared \/
         (/\ SharedMoves(h) /\ KeepsKnown(h) /\ shared'[h].code = shared[h].code
            /\ shared'[h].marker = shared[h].marker)
<1> DEFINE x == h
<1>1. h \in Host /\ p \in Project
  OBVIOUS
<1>2. UNCHANGED shared \/ shared' = [shared EXCEPT ![h].mpend[p] = FALSE]
  BY DEF PublishRetirement
<1>3. CASE shared' = [shared EXCEPT ![h].mpend[p] = FALSE]
  <2> DEFINE mpend == [shared[h].mpend EXCEPT ![p] = FALSE]
  <2>0. shared' = [shared EXCEPT ![h] = [shared[h] EXCEPT !.mpend = mpend]]
    BY <1>1, <1>3, SharedTyped DEF SharedStore
  <2>2. mpend \in [Project -> BOOLEAN]
    BY <1>1, SharedTyped, NoEntIs, NoneApart DEF OrNone, Codes
  <2> HIDE DEF mpend
  <2>6. \A t \in SharedStore : [t EXCEPT !.mpend = mpend]
          = SharedRow(t.code, t.cfg, t.hist, t.pend, t.rules, t.marker, mpend, t.ent, t.evid, t.seq)
    BY SharedShape DEF SharedRow, SharedFields
  <2>1. shared' = [shared EXCEPT ![h]
          = SharedRow(shared[h].code, shared[h].cfg, shared[h].hist, shared[h].pend, shared[h].rules,
          shared[h].marker, mpend, shared[h].ent, shared[h].evid, shared[h].seq)]
    BY <1>1, <2>0, <2>6, SharedTyped
  <2>3. SharedRow(shared[h].code, shared[h].cfg, shared[h].hist, shared[h].pend, shared[h].rules,
          shared[h].marker, mpend, shared[h].ent, shared[h].evid, shared[h].seq) \in SharedStore
    BY <1>1, <2>2, SharedTyped DEF SharedRow, SharedStore, Flags
  <2>4. /\ shared'[h] = SharedRow(shared[h].code, shared[h].cfg, shared[h].hist, shared[h].pend,
             shared[h].rules, shared[h].marker, mpend, shared[h].ent, shared[h].evid, shared[h].seq)
        /\ SharedMoves(h)
    BY <1>1, <2>1, <2>3, SharedTyped DEF SharedMoves
  <2>5. /\ shared'[h].code = shared[h].code /\ shared'[h].marker = shared[h].marker
        /\ shared'[h].ent = shared[h].ent /\ shared'[h].evid = shared[h].evid
             /\ shared'[h].seq = shared[h].seq
    BY <2>4 DEF SharedRow
  <2> QED BY <1>1, <1>3, <2>4, <2>5 DEF mpend, KeepsKnown
<1> QED BY <1>2, <1>3

-----------------------------------------------------------------------------
(* The registry, the configuration and the Local database.                 *)

LEMMA RegTyped ==
  ASSUME Stores, NEW h \in Host
  PROVE  reg \in [Host -> RegStore] /\ reg[h] \in RegStore /\ reg[h].rev \in Nat /\ reg[h].entry \in Codes
BY DEF Stores, RegStore

\* A write of the registry changes one entry of what it has read.
LEMMA RegistryWrites ==
  ASSUME Stores, NEW h \in Host, NEW p \in Project, NEW code \in OrNone(Code),
         reg' = [reg EXCEPT ![h] = [rev |-> @.rev + 1, entry |-> [@.entry EXCEPT ![p] = code]]]
  PROVE  /\ reg' \in [Host -> RegStore]
         /\ \A g \in Host : g # h => reg'[g] = reg[g]
         /\ reg'[h].rev = reg[h].rev + 1
         /\ reg'[h].entry = [reg[h].entry EXCEPT ![p] = code]
<1> DEFINE new == [rev |-> reg[h].rev + 1, entry |-> [reg[h].entry EXCEPT ![p] = code]]
<1>1. reg' = [reg EXCEPT ![h] = new]
  BY RegTyped
<1>2. new \in RegStore /\ new.rev = reg[h].rev + 1 /\ new.entry = [reg[h].entry EXCEPT ![p] = code]
  BY RegTyped DEF RegStore, Codes
<1> HIDE DEF new
<1> QED BY <1>1, <1>2, RegTyped

LEMMA ConfShape ==
  ASSUME NEW t \in ConfStore, NEW file, NEW mem
  PROVE  /\ [t EXCEPT !.file = file] = [file |-> file, mem |-> t.mem]
         /\ [t EXCEPT !.mem = mem] = [file |-> t.file, mem |-> mem]
BY DEF ConfStore

LEMMA ConfTyped ==
  ASSUME Stores, NEW h \in Host
  PROVE  /\ conf \in [Host -> ConfStore] /\ conf[h] \in ConfStore
         /\ conf[h].file \in Codes /\ conf[h].mem \in Codes
BY DEF Stores, ConfStore

LEMMA ConfWritten ==
  ASSUME Stores, NEW h \in Host, NEW file \in Codes, NEW mem \in Codes,
         conf' = [conf EXCEPT ![h] = [file |-> file, mem |-> mem]]
  PROVE  /\ conf' \in [Host -> ConfStore] /\ conf'[h].file = file /\ conf'[h].mem = mem
         /\ \A g \in Host : g # h => conf'[g] = conf[g]
BY ConfTyped DEF ConfStore

LEMMA UpdateConfWrites ==
  ASSUME Stores, Ops, NEW i \in Proc, UpdateProjectCode(i), op'[i].pc # "failed"
  PROVE  /\ conf' \in [Host -> ConfStore] /\ conf'[op[i].h].mem = conf[op[i].h].mem
         /\ conf'[op[i].h].file = [conf[op[i].h].file EXCEPT ![op[i].p] = op[i].code]
         /\ \A g \in Host : g # op[i].h => conf'[g] = conf[g]
<1> DEFINE o == op[i]  file == [conf[o.h].file EXCEPT ![o.p] = o.code]
<1>1. o.h \in Host /\ o.p \in Project /\ o.code \in Code
  BY UpdateProjectCodeFits, UpdateFacts
<1>2. conf' = [conf EXCEPT ![o.h].file[o.p] = o.code]
  BY UpdateProjectCodeFits
<1>3. file \in Codes
  BY <1>1, ConfTyped DEF Codes, OrNone
<1>6. conf' = [conf EXCEPT ![o.h] = [conf[o.h] EXCEPT !.file = file]]
  BY <1>1, <1>2, ConfTyped
<1> HIDE DEF file
<1>4. conf' = [conf EXCEPT ![o.h] = [file |-> file, mem |-> conf[o.h].mem]]
  BY <1>1, <1>6, ConfTyped, ConfShape
<1>5. /\ conf' \in [Host -> ConfStore] /\ conf'[o.h].file = file /\ conf'[o.h].mem = conf[o.h].mem
      /\ \A g \in Host : g # o.h => conf'[g] = conf[g]
  BY <1>1, <1>3, <1>4, ConfTyped DEF ConfStore
<1> QED BY <1>5 DEF file

LEMMA RestoreConfWrites ==
  ASSUME Stores, Ops, NEW i \in Proc, RestoreConf(i)
  PROVE  /\ conf' \in [Host -> ConfStore] /\ conf'[op[i].h].mem = conf[op[i].h].mem
         /\ conf'[op[i].h].file = op[i].rec
         /\ \A g \in Host : g # op[i].h => conf'[g] = conf[g]
<1> DEFINE o == op[i]
<1>1. o.h \in Host /\ o.rec \in Codes
  BY RestoreConfFits, UpdateFacts DEF OpFits, EditFits, ChangePcs
<1>2. conf' = [conf EXCEPT ![o.h] = [conf[o.h] EXCEPT !.file = o.rec]]
  BY <1>1, ConfTyped DEF RestoreConf, Restore
<1>3. [conf[o.h] EXCEPT !.file = o.rec] = [file |-> o.rec, mem |-> conf[o.h].mem]
  BY <1>1, ConfTyped, ConfShape
<1> QED BY <1>1, <1>2, <1>3, ConfTyped DEF ConfStore

LEMMA CrashConfWrites ==
  ASSUME Stores, NEW h \in Host, Crash(h)
  PROVE  /\ conf' \in [Host -> ConfStore]
         /\ conf'[h].mem = conf[h].file /\ conf'[h].file = conf[h].file
         /\ \A g \in Host : g # h => conf'[g] = conf[g]
<1>1. conf' = [conf EXCEPT ![h] = [conf[h] EXCEPT !.mem = conf[h].file]]
  BY ConfTyped DEF Crash
<1>2. [conf[h] EXCEPT !.mem = conf[h].file] = [file |-> conf[h].file, mem |-> conf[h].file]
  BY ConfTyped, ConfShape
<1> QED BY <1>1, <1>2, ConfTyped DEF ConfStore

LEMMA LocalShape ==
  ASSUME NEW t \in LocalStore, NEW marker, NEW busy
  PROVE  /\ [t EXCEPT !.marker = marker] = [marker |-> marker, busy |-> t.busy, legacy |-> t.legacy]
         /\ [t EXCEPT !.busy = busy] = [marker |-> t.marker, busy |-> busy, legacy |-> t.legacy]
BY DEF LocalStore

LEMMA LocalTyped ==
  ASSUME Stores, NEW h \in Host
  PROVE  /\ local \in [Host -> LocalStore] /\ local[h] \in LocalStore
         /\ local[h].marker \in [Project -> OrNone(LocalMarkers)] /\ local[h].busy \in Flags
              /\ local[h].legacy \in Flags
BY DEF Stores, LocalStore

\* A Local marker is only ever put where there is none, or put again.
MarkersStay == \A h \in Host, p \in Project :
                 local[h].marker[p] # None => local'[h].marker[p] = local[h].marker[p]

LEMMA BeginLocalWrites ==
  ASSUME Stores, Ops, NEW i \in Proc, BeginLocalProjectRetirement(i)
  PROVE  /\ local' \in [Host -> LocalStore] /\ MarkersStay
         /\ op'[i].pc \in PublishedPcs \cup {"next"} => local'[op[i].h].marker[op[i].p] # None
<1> DEFINE o == op[i]
<1>1. o.h \in Host /\ o.p \in Project
  BY RetireFacts, SMTT(30) DEF BeginLocalProjectRetirement, OpAt, RetirePcs
<1>2. CASE op'[i].pc \notin PublishedPcs \cup {"next"} /\ UNCHANGED local
  BY <1>2, LocalTyped DEF MarkersStay, Stores
<1>3. ASSUME NEW m \in LocalMarkers, local[o.h].marker[o.p] \in {None, m},
             local' = [local EXCEPT ![o.h].marker[o.p] = m]
      PROVE  /\ local' \in [Host -> LocalStore] /\ MarkersStay
             /\ local'[op[i].h].marker[op[i].p] # None
  <2> DEFINE marker == [local[o.h].marker EXCEPT ![o.p] = m]
             new == [marker |-> marker, busy |-> local[o.h].busy, legacy |-> local[o.h].legacy]
  <2>0. local' = [local EXCEPT ![o.h] = [local[o.h] EXCEPT !.marker = marker]]
    BY <1>1, <1>3, LocalTyped
  <2>1. local' = [local EXCEPT ![o.h] = new]
    <3> HIDE DEF marker
    <3> QED BY <1>1, <2>0, LocalTyped, LocalShape
  <2>2. marker \in [Project -> OrNone(LocalMarkers)] /\ m # None
    BY <1>1, <1>3, LocalTyped, NoneApart DEF OrNone
  <2>3. /\ marker[o.p] # None
        /\ \A p \in Project : local[o.h].marker[p] # None => marker[p] = local[o.h].marker[p]
    BY <1>1, <1>3, <2>2, LocalTyped
  <2> HIDE DEF marker
  <2>4. new \in LocalStore /\ new.marker = marker
    BY <1>1, <2>2, LocalTyped DEF LocalStore
  <2> HIDE DEF new
  <2>5. local' \in [Host -> LocalStore] /\ local'[o.h] = new /\ \A g \in Host : g # o.h
          => local'[g] = local[g]
    BY <1>1, <2>1, <2>4, LocalTyped
  <2> QED BY <1>1, <2>3, <2>4, <2>5 DEF MarkersStay
<1> QED BY <1>2, <1>3, BeginLocalFits

LEMMA EndSessionWrites ==
  ASSUME Stores, NEW h \in Host, NEW p \in Project, EndSession(h, p)
  PROVE  local' \in [Host -> LocalStore] /\ MarkersStay
<1> DEFINE busy == [local[h].busy EXCEPT ![p] = FALSE]
           new == [marker |-> local[h].marker, busy |-> busy, legacy |-> local[h].legacy]
<1>0. local' = [local EXCEPT ![h] = [local[h] EXCEPT !.busy = busy]]
  BY LocalTyped DEF EndSession
<1>1. local' = [local EXCEPT ![h] = new]
  <2> HIDE DEF busy
  <2> QED BY <1>0, LocalTyped, LocalShape
<1>2. busy \in Flags
  BY LocalTyped DEF Flags
<1> HIDE DEF busy
<1>3. new \in LocalStore /\ new.marker = local[h].marker
  BY <1>2, LocalTyped DEF LocalStore
<1> HIDE DEF new
<1> QED BY <1>1, <1>3, LocalTyped DEF MarkersStay

-----------------------------------------------------------------------------
(* Which steps write which store.                                          *)

LEMMA HubWriters ==
  ASSUME ProjectNext
  PROVE  \/ UNCHANGED hub
         \/ \E i \in Proc : Pushes(i) /\ (OpStep(i) \/ Fault(i))
         \/ \E h \in Host, p \in Project : PublishConfiguration(h, p) \/ PublishRetirement(h, p)
              \/ PublishEntity(h, p)
<1>1. ASSUME NEW i \in Proc, Onboarding(i) \/ Editing(i)
      PROVE  UNCHANGED hub \/ Pushes(i)
  <2>1. CASE ProjectRegister(i) \/ ProjectIdentifiersAdopt(i) \/ RollbackOnboardHub(i)
             \/ ReconcileReads(i) \/ HubCode(i) \/ RollbackProjectCode(i)
    BY <2>1, Zenon DEF Pushes, ProjectRegister, ProjectIdentifiersAdopt, RollbackOnboardHub, ReconcileReads,
       HubCode, RollbackProjectCode
  <2>2. CASE ~(ProjectRegister(i) \/ ProjectIdentifiersAdopt(i) \/ RollbackOnboardHub(i)
               \/ ReconcileReads(i) \/ HubCode(i) \/ RollbackProjectCode(i))
    BY <1>1, <2>2, Zenon DEF Onboarding, Editing, stores,
              AdminRepository, Discover, ReadHubOnboardProject, HubRevision, PublishRegistry,
              AdoptHub, BootstrapChecks, BootstrapBatch, RestoreSnapshot, RestoreEntity,
              RestorePut, RestoreEvidence, EnsureEvidence, RestoreSequences, Verify,
              EnsureDetached, Preflight, UpdateProjectCode, RestoreConf, ConfigurationReads,
              MutateProjectConfiguration, EditEntity
  <2> QED BY <2>1, <2>2
<1>2. ASSUME NEW i \in Proc, Retiring(i) \/ Syncing(i)
      PROVE  UNCHANGED hub \/ Pushes(i)
  BY <1>2, Zenon DEF Retiring, Syncing, stores, Pushes,
              RetireReads, DebugRetireProject, BeginLocalProjectRetirement,
              RetireSharedReads, RetireSharedProject, ImportReads,
              ImportSharedProjectRetirement, MarkOutboxPublished, RegistryLoads,
              RemoveManagedProject, HubSnapshot, NextLoop, NextRecord, MigrateProjectConfiguration,
              PublishHubProjectRetirement, MigrateHub
<1>3. ASSUME NEW i \in Proc, EnsureAdminWorker(i) \/ Fault(i) PROVE UNCHANGED hub \/ Pushes(i)
  BY <1>3, Zenon DEF EnsureAdminWorker, Fault, HubFails, LocalFails, stores
<1>4. ASSUME NEW h \in Host, WorkerStep(h)
      PROVE  UNCHANGED hub \/ \E p \in Project : PublishConfiguration(h, p) \/ PublishRetirement(h, p)
               \/ PublishEntity(h, p)
  BY <1>4 DEF WorkerStep, stores, WorkerStarts
<1>5. ASSUME NEW h \in Host, Crash(h) \/ \E p \in Project : EndSession(h, p)
      PROVE  UNCHANGED hub
  BY <1>5 DEF Crash, EndSession
<1>6. ASSUME NEW i \in Proc, OpStep(i) \/ Fault(i) PROVE UNCHANGED hub \/ Pushes(i)
  BY <1>1, <1>2, <1>3, <1>6, Zenon DEF OpStep
<1> QED BY <1>4, <1>5, <1>6 DEF ProjectNext

LEMMA SharedWriters ==
  ASSUME ProjectNext
  PROVE  \/ UNCHANGED shared
         \/ \E i \in Proc : BootstrapBatch(i) \/ RestorePut(i) \/ EnsureEvidence(i) \/ RestoreSequences(i)
              \/ MutateProjectConfiguration(i) \/ EditEntity(i) \/ RetireSharedProject(i)
                   \/ ImportSharedProjectRetirement(i) \/ MarkOutboxPublished(i)
         \/ \E h \in Host, p \in Project : PublishConfiguration(h, p) \/ PublishRetirement(h, p)
<1>1. ASSUME NEW i \in Proc, Onboarding(i) \/ Editing(i)
        PROVE UNCHANGED shared \/ BootstrapBatch(i) \/ RestorePut(i) \/ EnsureEvidence(i)
        \/ RestoreSequences(i) \/ MutateProjectConfiguration(i) \/ EditEntity(i)
  BY <1>1, Zenon DEF Onboarding, Editing, stores,
              AdminRepository, Discover, ReadHubOnboardProject, HubRevision, ProjectRegister,
              ProjectIdentifiersAdopt, RollbackOnboardHub, PublishRegistry, AdoptHub,
              ReconcileReads, BootstrapChecks, RestoreSnapshot, RestoreEntity,
              RestoreEvidence, Verify, EnsureDetached, Preflight, UpdateProjectCode, HubCode,
              RollbackProjectCode, RestoreConf, ConfigurationReads
<1>2. ASSUME NEW i \in Proc, Retiring(i) \/ Syncing(i)
        PROVE UNCHANGED shared \/ RetireSharedProject(i) \/ ImportSharedProjectRetirement(i)
        \/ MarkOutboxPublished(i)
  BY <1>2, Zenon DEF Retiring, Syncing, stores,
              RetireReads, DebugRetireProject, BeginLocalProjectRetirement,
              RetireSharedReads, ImportReads, PublishHubProjectRetirement, RegistryLoads,
              RemoveManagedProject, HubSnapshot, NextLoop, NextRecord, MigrateProjectConfiguration, MigrateHub
<1>3. ASSUME NEW i \in Proc, EnsureAdminWorker(i) \/ Fault(i) PROVE UNCHANGED shared
  BY <1>3 DEF EnsureAdminWorker, Fault, stores
<1>4. ASSUME NEW h \in Host, WorkerStep(h)
      PROVE  UNCHANGED shared \/ \E p \in Project : PublishConfiguration(h, p) \/ PublishRetirement(h, p)
  BY <1>4, Zenon DEF WorkerStep, stores, WorkerStarts, PublishEntity
<1>5. ASSUME NEW h \in Host, Crash(h) \/ \E p \in Project : EndSession(h, p)
      PROVE  UNCHANGED shared
  BY <1>5 DEF Crash, EndSession
<1> QED BY <1>1, <1>2, <1>3, <1>4, <1>5 DEF ProjectNext, OpStep

LEMMA RegistryWriters ==
  ASSUME ProjectNext
  PROVE  \/ UNCHANGED reg
         \/ \E i \in Proc : PublishRegistry(i) \/ AdoptHub(i) \/ RemoveManagedProject(i)
<1>1. ASSUME NEW i \in Proc, Onboarding(i) \/ Editing(i)
        PROVE UNCHANGED reg \/ PublishRegistry(i) \/ AdoptHub(i)
  BY <1>1, Zenon DEF Onboarding, Editing, stores,
              AdminRepository, Discover, ReadHubOnboardProject, HubRevision, ProjectRegister,
              ProjectIdentifiersAdopt, RollbackOnboardHub, ReconcileReads, BootstrapChecks,
              BootstrapBatch, RestoreSnapshot, RestoreEntity, RestorePut, RestoreEvidence,
              EnsureEvidence, RestoreSequences, Verify, EnsureDetached, Preflight,
              UpdateProjectCode, HubCode, RollbackProjectCode, RestoreConf,
              ConfigurationReads, MutateProjectConfiguration, EditEntity
<1>2. ASSUME NEW i \in Proc, Retiring(i) \/ Syncing(i) PROVE UNCHANGED reg \/ RemoveManagedProject(i)
  BY <1>2, Zenon DEF Retiring, Syncing, stores,
              RetireReads, DebugRetireProject, BeginLocalProjectRetirement,
              RetireSharedReads, RetireSharedProject, ImportReads,
              ImportSharedProjectRetirement, PublishHubProjectRetirement,
              MarkOutboxPublished, RegistryLoads, HubSnapshot, NextLoop, NextRecord,
              MigrateProjectConfiguration, MigrateHub
<1>3. ASSUME NEW i \in Proc, EnsureAdminWorker(i) \/ Fault(i) PROVE UNCHANGED reg
  BY <1>3 DEF EnsureAdminWorker, Fault, stores
<1>4. ASSUME NEW h \in Host, WorkerStep(h)
      PROVE  UNCHANGED reg
  BY <1>4, Zenon DEF WorkerStep, stores, WorkerStarts, PublishConfiguration, PublishRetirement,
     PublishEntity
<1>5. ASSUME NEW h \in Host, Crash(h) \/ \E p \in Project : EndSession(h, p)
      PROVE  UNCHANGED reg
  BY <1>5 DEF Crash, EndSession
<1> QED BY <1>1, <1>2, <1>3, <1>4, <1>5 DEF ProjectNext, OpStep

LEMMA ConfigurationWriters ==
  ASSUME ProjectNext
  PROVE  \/ UNCHANGED conf
         \/ \E i \in Proc : UpdateProjectCode(i) \/ RestoreConf(i)
         \/ \E h \in Host : Crash(h)
<1>1. ASSUME NEW i \in Proc, Onboarding(i) \/ Editing(i)
        PROVE UNCHANGED conf \/ UpdateProjectCode(i) \/ RestoreConf(i)
  BY <1>1, Zenon DEF Onboarding, Editing, stores,
              AdminRepository, Discover, ReadHubOnboardProject, HubRevision, ProjectRegister,
              ProjectIdentifiersAdopt, RollbackOnboardHub, PublishRegistry, AdoptHub,
              ReconcileReads, BootstrapChecks, BootstrapBatch, RestoreSnapshot,
              RestoreEntity, RestorePut, RestoreEvidence, EnsureEvidence, RestoreSequences,
              Verify, EnsureDetached, Preflight, HubCode, RollbackProjectCode,
              ConfigurationReads, MutateProjectConfiguration, EditEntity
<1>2. ASSUME NEW i \in Proc, Retiring(i) \/ Syncing(i) PROVE UNCHANGED conf \/ FALSE
  BY <1>2, Zenon DEF Retiring, Syncing, stores,
              RetireReads, DebugRetireProject, BeginLocalProjectRetirement,
              RetireSharedReads, RetireSharedProject, ImportReads,
              ImportSharedProjectRetirement, PublishHubProjectRetirement,
              MarkOutboxPublished, RegistryLoads, RemoveManagedProject, HubSnapshot,
              NextLoop, NextRecord, MigrateProjectConfiguration, MigrateHub
<1>3. ASSUME NEW i \in Proc, EnsureAdminWorker(i) \/ Fault(i) PROVE UNCHANGED conf
  BY <1>3 DEF EnsureAdminWorker, Fault, stores
<1>4. ASSUME NEW h \in Host, WorkerStep(h)
      PROVE  UNCHANGED conf
  BY <1>4, Zenon DEF WorkerStep, stores, WorkerStarts, PublishConfiguration, PublishRetirement,
     PublishEntity
<1>5. ASSUME NEW h \in Host, Crash(h) \/ \E p \in Project : EndSession(h, p)
      PROVE  UNCHANGED conf \/ Crash(h)
  BY <1>5 DEF EndSession
<1> QED BY <1>1, <1>2, <1>3, <1>4, <1>5 DEF ProjectNext, OpStep

LEMMA LocalWriters ==
  ASSUME ProjectNext
  PROVE  \/ UNCHANGED local
         \/ \E i \in Proc : BeginLocalProjectRetirement(i)
         \/ \E h \in Host, p \in Project : EndSession(h, p)
<1>1. ASSUME NEW i \in Proc, Onboarding(i) \/ Editing(i) PROVE UNCHANGED local \/ FALSE
  BY <1>1, Zenon DEF Onboarding, Editing, stores,
              AdminRepository, Discover, ReadHubOnboardProject, HubRevision, ProjectRegister,
              ProjectIdentifiersAdopt, RollbackOnboardHub, PublishRegistry, AdoptHub,
              ReconcileReads, BootstrapChecks, BootstrapBatch, RestoreSnapshot,
              RestoreEntity, RestorePut, RestoreEvidence, EnsureEvidence, RestoreSequences,
              Verify, EnsureDetached, Preflight, UpdateProjectCode, HubCode,
              RollbackProjectCode, RestoreConf, ConfigurationReads,
              MutateProjectConfiguration, EditEntity
<1>2. ASSUME NEW i \in Proc, Retiring(i) \/ Syncing(i) PROVE UNCHANGED local \/ BeginLocalProjectRetirement(i)
  BY <1>2, Zenon DEF Retiring, Syncing, stores,
              RetireReads, DebugRetireProject, RetireSharedReads, RetireSharedProject,
              ImportReads, ImportSharedProjectRetirement, PublishHubProjectRetirement,
              MarkOutboxPublished, RegistryLoads, RemoveManagedProject, HubSnapshot,
              NextLoop, NextRecord, MigrateProjectConfiguration, MigrateHub
<1>3. ASSUME NEW i \in Proc, EnsureAdminWorker(i) \/ Fault(i) PROVE UNCHANGED local
  BY <1>3 DEF EnsureAdminWorker, Fault, stores
<1>4. ASSUME NEW h \in Host, WorkerStep(h)
      PROVE  UNCHANGED local
  BY <1>4, Zenon DEF WorkerStep, stores, WorkerStarts, PublishConfiguration, PublishRetirement,
     PublishEntity
<1>5. ASSUME NEW h \in Host, Crash(h) \/ \E p \in Project : EndSession(h, p)
      PROVE  UNCHANGED local \/ \E p \in Project : EndSession(h, p)
  BY <1>5 DEF Crash
<1> QED BY <1>1, <1>2, <1>3, <1>4, <1>5 DEF ProjectNext, OpStep

-----------------------------------------------------------------------------
(* The stores and the requests keep their form.                            *)

\* A retirement on the Hub, by a request or by the outbox worker.
HubRetiresOne ==
  \E p \in Project, rec \in OrNone(Markers) :
    /\ hub' \in HubStore /\ KeepsEntities /\ MayRetire(p, rec)
    /\ hub'.marker = [hub.marker EXCEPT ![p] = rec]
    /\ hub'.project = [hub.project EXCEPT ![p] = FALSE] /\ hub'.code = [hub.code EXCEPT ![p] = None]

LEMMA RetirePublishWrites ==
  ASSUME Stores, Ops, NEW i \in Proc, PublishesMarker(i)
  PROVE  UNCHANGED hub \/ HubRetiresOne
<1>1. op[i].p \in Project /\ op[i].rec \in OrNone(Markers)
  BY RetireFacts DEF PublishesMarker, OpAt, RetirePcs, OrNone
<1>2. MayRetire(op[i].p, op[i].rec) /\ HubRetires(op[i].p, op[i].rec)
  BY DEF PublishesMarker
<1> QED BY <1>1, <1>2, HubRetiresWrites DEF HubRetiresOne

LEMMA WorkerRetireWrites ==
  ASSUME Stores, Ops, NEW h \in Host, NEW p \in Project, PublishRetirement(h, p)
  PROVE  UNCHANGED hub \/ HubRetiresOne
<1>1. shared[h].marker[p] \in OrNone(Markers)
  BY MarkersAre
<1>2. MayRetire(p, shared[h].marker[p]) /\ HubRetires(p, shared[h].marker[p])
  BY DEF PublishRetirement
<1> QED BY <1>1, <1>2, HubRetiresWrites DEF HubRetiresOne

\* How a step may change the markers, the projects and the codes of the Hub.
\* The steps that write the code of a project on the Hub.
WritesCode(i) == (ChangesCode(i) \/ RevertsCode(i)) /\ (OpStep(i) \/ Fault(i))

LEMMA HubSteps ==
  ASSUME Stores, Ops, ProjectNext
  PROVE  \/ UNCHANGED hub
         \/ hub' \in HubStore /\ KeepsMarkers /\ hub'.project = hub.project /\ hub'.code = hub.code
         \/ \E i \in Proc : Registers(i) \/ Adopts(i) \/ Unregisters(i) \/ WritesCode(i)
         \/ HubRetiresOne
         \/ \E h \in Host, p \in Project : PublishEntity(h, p)
<1>1. ASSUME NEW i \in Proc, Canonicalizes(i)
      PROVE  \/ UNCHANGED hub
             \/ hub' \in HubStore /\ KeepsMarkers /\ hub'.project = hub.project /\ hub'.code = hub.code
  BY <1>1, ReconcileHubWrites
<1>2. ASSUME NEW i \in Proc, MigratesHub(i)
      PROVE  \/ UNCHANGED hub
             \/ hub' \in HubStore /\ KeepsMarkers /\ hub'.project = hub.project /\ hub'.code = hub.code
  BY <1>2, MigrateHubWrites
<1>3. ASSUME NEW h \in Host, NEW p \in Project, PublishConfiguration(h, p)
      PROVE  \/ UNCHANGED hub
             \/ hub' \in HubStore /\ KeepsMarkers /\ hub'.project = hub.project /\ hub'.code = hub.code
  BY <1>3, ConfigurationHubWrites
<1> QED BY <1>1, <1>2, <1>3, HubWriters, RetirePublishWrites, WorkerRetireWrites DEF Pushes, WritesCode

LEMMA HubNext ==
  ASSUME Stores, Ops, ProjectNext
  PROVE  hub' \in HubStore
<1>1. ASSUME NEW i \in Proc, Registers(i) PROVE hub' \in HubStore
  BY <1>1, HubTyped, ProjectRegisterHub
<1>2. ASSUME NEW i \in Proc, Adopts(i) PROVE hub' \in HubStore
  BY <1>2, HubTyped, AdoptHubWrites
<1>3. ASSUME NEW i \in Proc, Unregisters(i) PROVE hub' \in HubStore
  BY <1>3, HubTyped, RollbackOnboardHubWrites
<1>4. ASSUME NEW i \in Proc, ChangesCode(i) PROVE hub' \in HubStore
  BY <1>4, HubTyped, HubCodeWrites
<1>5. ASSUME NEW i \in Proc, RevertsCode(i) PROVE hub' \in HubStore
  BY <1>5, HubTyped, RollbackCodeWrites
<1>6. ASSUME NEW h \in Host, NEW p \in Project, PublishEntity(h, p) PROVE hub' \in HubStore
  BY <1>6, EntityHubWrites
<1>7. HubRetiresOne => hub' \in HubStore
  BY DEF HubRetiresOne
<1>8. UNCHANGED hub => hub' \in HubStore
  BY HubTyped
<1> QED BY <1>1, <1>2, <1>3, <1>4, <1>5, <1>6, <1>7, <1>8, HubSteps DEF WritesCode

LEMMA SharedNext ==
  ASSUME Stores, Ops, ProjectNext
  PROVE  shared' \in [Host -> SharedStore]
<1>0. UNCHANGED shared => shared' \in [Host -> SharedStore]
  BY DEF Stores
<1>1. ASSUME NEW i \in Proc, BootstrapBatch(i) PROVE shared' \in [Host -> SharedStore]
  BY <1>0, <1>1, BootstrapWrites, ZenonT(30) DEF SharedMoves
<1>2. ASSUME NEW i \in Proc, RestorePut(i) PROVE shared' \in [Host -> SharedStore]
  BY <1>0, <1>2, RestorePutWrites, SMTT(30) DEF SharedMoves
<1>3. ASSUME NEW i \in Proc, EnsureEvidence(i) PROVE shared' \in [Host -> SharedStore]
  BY <1>0, <1>3, EnsureEvidenceWrites DEF SharedMoves
<1>4. ASSUME NEW i \in Proc, RestoreSequences(i) PROVE shared' \in [Host -> SharedStore]
  BY <1>0, <1>4, SequencesWrites DEF SharedMoves
<1>5. ASSUME NEW i \in Proc, MutateProjectConfiguration(i) PROVE shared' \in [Host -> SharedStore]
  BY <1>0, <1>5, ConfigurationWrites DEF SharedMoves
<1>6. ASSUME NEW i \in Proc, EditEntity(i) PROVE shared' \in [Host -> SharedStore]
  BY <1>0, <1>6, EditEntityWrites, ZenonT(30) DEF SharedMoves
<1>7. ASSUME NEW i \in Proc, RetireSharedProject(i) PROVE shared' \in [Host -> SharedStore]
  BY <1>0, <1>7, RetireSharedWrites DEF SharedMoves
<1>8. ASSUME NEW i \in Proc, ImportSharedProjectRetirement(i) PROVE shared' \in [Host -> SharedStore]
  BY <1>0, <1>8, ImportWrites DEF SharedMoves
<1>9. ASSUME NEW i \in Proc, MarkOutboxPublished(i) PROVE shared' \in [Host -> SharedStore]
  BY <1>0, <1>9, MarkWrites DEF SharedMoves
<1>10. ASSUME NEW h \in Host, NEW p \in Project, PublishConfiguration(h, p)
         PROVE shared' \in [Host -> SharedStore]
  BY <1>0, <1>10, PublishConfigurationWrites DEF SharedMoves
<1>11. ASSUME NEW h \in Host, NEW p \in Project, PublishRetirement(h, p)
         PROVE shared' \in [Host -> SharedStore]
  BY <1>0, <1>11, PublishRetirementWrites DEF SharedMoves
<1> QED BY <1>0, <1>1, <1>2, <1>3, <1>4, <1>5, <1>6, <1>7, <1>8, <1>9, <1>10, <1>11, SharedWriters

\* How a step may change the registry: one entry of one host.
MovesOne(i, code) ==
  LET h == op[i].h  p == op[i].p IN
  /\ h \in Host /\ p \in Project
  /\ op[i].pc \in {"registry", "unregisterWrite"}
  /\ op[i].reg = reg[h]
  /\ op[i].pc = "registry" => code \in Code
  /\ op[i].pc = "unregisterWrite" => code = None
  /\ reg' \in [Host -> RegStore] /\ \A g \in Host : g # h => reg'[g] = reg[g]
  /\ reg'[h].rev = reg[h].rev + 1 /\ reg'[h].entry = [reg[h].entry EXCEPT ![p] = code]
RegistryMoves == \E i \in Proc, code \in OrNone(Code) : MovesOne(i, code)

LEMMA RegistryMovesOne ==
  ASSUME Stores, NEW i \in Proc, NEW code \in OrNone(Code), op[i].h \in Host, op[i].p \in Project,
         op[i].pc \in {"registry", "unregisterWrite"},
         op[i].pc = "registry" => code \in Code, op[i].pc = "unregisterWrite" => code = None,
         WriteManagedProjectRegistry(op[i].h, op[i].reg, op[i].p, code)
  PROVE  MovesOne(i, code)
<1> DEFINE o == op[i]
<1>1. op[i].reg = reg[o.h] /\ reg'
        = [reg EXCEPT ![o.h] = [rev |-> @.rev + 1, entry |-> [@.entry EXCEPT ![o.p] = code]]]
  BY SMTT(30) DEF WriteManagedProjectRegistry, Digest
<1>2. /\ reg' \in [Host -> RegStore]
      /\ \A g \in Host : g # o.h => reg'[g] = reg[g]
      /\ reg'[o.h].rev = reg[o.h].rev + 1
      /\ reg'[o.h].entry = [reg[o.h].entry EXCEPT ![o.p] = code]
  BY <1>1, RegistryWrites
<1> QED BY <1>1, <1>2 DEF MovesOne

LEMMA RegistrySteps ==
  ASSUME Stores, Ops, ProjectNext
  PROVE  UNCHANGED reg \/ RegistryMoves
<1>1. ASSUME NEW i \in Proc, PublishRegistry(i) \/ AdoptHub(i) PROVE UNCHANGED reg \/ MovesOne(i, op[i].code)
  <2>1. op[i].h \in Host /\ op[i].p \in Project /\ op[i].code \in Code /\ op[i].pc = "registry"
    BY <1>1, RegistryFits, OnboardFacts
  <2>2. UNCHANGED reg \/ WriteManagedProjectRegistry(op[i].h, op[i].reg, op[i].p, op[i].code)
    BY <1>1 DEF PublishRegistry, AdoptHub
  <2>3. op[i].code \in OrNone(Code)
    BY <2>1 DEF OrNone
  <2> QED BY <2>1, <2>2, <2>3, RegistryMovesOne
<1>2. ASSUME NEW i \in Proc, RemoveManagedProject(i) PROVE UNCHANGED reg \/ MovesOne(i, None)
  <2>1. op[i].h \in Host /\ op[i].p \in Project /\ op[i].pc = "unregisterWrite"
    BY <1>2, RetireFacts DEF RemoveManagedProject, OpAt, RetirePcs
  <2>2. UNCHANGED reg \/ WriteManagedProjectRegistry(op[i].h, op[i].reg, op[i].p, None)
    BY <1>2 DEF RemoveManagedProject
  <2>3. None \in OrNone(Code)
    BY DEF OrNone
  <2> QED BY <2>1, <2>2, <2>3, RegistryMovesOne
<1>3. ASSUME NEW i \in Proc, PublishRegistry(i) \/ AdoptHub(i) PROVE op[i].code \in OrNone(Code)
  BY <1>3, RegistryFits, OnboardFacts DEF OrNone
<1> QED BY <1>1, <1>2, <1>3, RegistryWriters DEF RegistryMoves, OrNone

\* How a step may change the configuration: the file of one host, or what a
\* starting gateway has loaded.
LEMMA ConfNext ==
  ASSUME Stores, Ops, ProjectNext
  PROVE  conf' \in [Host -> ConfStore]
<1>1. ASSUME NEW i \in Proc, UpdateProjectCode(i) PROVE conf' \in [Host -> ConfStore]
  BY <1>1, UpdateProjectCodeFits, UpdateConfWrites DEF Stores
<1>2. ASSUME NEW i \in Proc, RestoreConf(i) PROVE conf' \in [Host -> ConfStore]
  BY <1>2, RestoreConfWrites
<1>3. ASSUME NEW h \in Host, Crash(h) PROVE conf' \in [Host -> ConfStore]
  BY <1>3, CrashConfWrites
<1>4. UNCHANGED conf => conf' \in [Host -> ConfStore]
  BY DEF Stores
<1> QED BY <1>1, <1>2, <1>3, <1>4, ConfigurationWriters

LEMMA LocalNext ==
  ASSUME Stores, Ops, ProjectNext
  PROVE  local' \in [Host -> LocalStore] /\ MarkersStay
<1>1. UNCHANGED local => local' \in [Host -> LocalStore] /\ MarkersStay
  BY DEF Stores, MarkersStay
<1> QED BY <1>1, LocalWriters, BeginLocalWrites, EndSessionWrites

LEMMA MixStays ==
  ASSUME Stores, ProjectNext PROVE mix' = mix /\ worker' \subseteq Host
<1>0. worker \subseteq Host
  BY DEF Stores
<1>1. ASSUME NEW i \in Proc, OpStep(i) PROVE mix' = mix /\ worker' = worker
  BY <1>1 DEF OpStep
<1>2. ASSUME NEW i \in Proc, Fault(i) PROVE mix' = mix /\ worker' = worker
  BY <1>2 DEF Fault
<1>3. ASSUME NEW h \in Host, WorkerStarts(h) PROVE mix' = mix /\ worker' \subseteq Host
  BY <1>0, <1>3 DEF WorkerStarts
<1>4. ASSUME NEW h \in Host, NEW p \in Project, PublishConfiguration(h, p)
      PROVE  mix' = mix /\ worker' = worker
  BY <1>4 DEF PublishConfiguration
<1>5. ASSUME NEW h \in Host, NEW p \in Project, PublishRetirement(h, p)
      PROVE  mix' = mix /\ worker' = worker
  BY <1>5 DEF PublishRetirement
<1>6. ASSUME NEW h \in Host, NEW p \in Project, PublishEntity(h, p)
      PROVE  mix' = mix /\ worker' = worker
  BY <1>6 DEF PublishEntity
<1>7. ASSUME NEW h \in Host, Crash(h) PROVE mix' = mix /\ worker' \subseteq Host
  BY <1>0, <1>7 DEF Crash
<1>8. ASSUME NEW h \in Host, NEW p \in Project, EndSession(h, p)
      PROVE  mix' = mix /\ worker' = worker
  BY <1>8 DEF EndSession
<1>9. ASSUME NEW h \in Host, WorkerStep(h) PROVE mix' = mix /\ worker' \subseteq Host
  BY <1>0, <1>3, <1>4, <1>5, <1>6, <1>9 DEF WorkerStep
<1> QED BY <1>0, <1>1, <1>2, <1>7, <1>8, <1>9 DEF ProjectNext

LEMMA StoresNext ==
  ASSUME Stores, Ops, ProjectNext PROVE Stores'
<1>1. reg' \in [Host -> RegStore]
  BY RegistrySteps DEF Stores, RegistryMoves, MovesOne
<1>2. hub' \in HubStore /\ shared' \in [Host -> SharedStore] /\ conf' \in [Host -> ConfStore]
      /\ local' \in [Host -> LocalStore] /\ worker' \subseteq Host /\ mix' = mix
  BY HubNext, SharedNext, ConfNext, LocalNext, MixStays
<1> QED BY <1>1, <1>2 DEF Stores

-----------------------------------------------------------------------------
(* A step of the program moves one request, or none; a crash ends those of *)
(* one host.                                                               *)

\* One request moves, and the others do not.
MovesOp(i) == op' = [op EXCEPT ![i] = op'[i]]

LEMMA MovesOpIs ==
  ASSUME Ops, NEW i \in Proc, MovesOp(i) PROVE \A j \in Proc : j # i => op'[j] = op[j]
BY DEF MovesOp, Ops

LEMMA GoMoves == ASSUME Ops, NEW i \in Proc, \E o : Go(i, o) PROVE MovesOp(i)
BY GoGives DEF MovesOp

LEMMA StepMovesOp ==
  ASSUME Ops, NEW i \in Proc, OpStep(i) \/ Fault(i)
  PROVE  MovesOp(i)
<1>1. SUFFICES \E o : Go(i, o)
  BY GoMoves
<1>2. ASSUME Onboarding(i) PROVE \E o : Go(i, o)
  <2>1. ASSUME AdminRepository(i) PROVE \E o : Go(i, o)
    BY <2>1 DEF AdminRepository, Proceed
  <2>2. ASSUME Discover(i) PROVE \E o : Go(i, o)
    BY <2>2 DEF Discover, Proceed
  <2>3. ASSUME ReadHubOnboardProject(i) PROVE \E o : Go(i, o)
    BY <2>3 DEF ReadHubOnboardProject, Proceed
  <2>4. ASSUME HubRevision(i) PROVE \E o : Go(i, o)
    BY <2>4 DEF HubRevision, Proceed
  <2>5. ASSUME ProjectRegister(i) PROVE \E o : Go(i, o)
    BY <2>5 DEF ProjectRegister, Proceed
  <2>6. ASSUME ProjectIdentifiersAdopt(i) PROVE \E o : Go(i, o)
    BY <2>6 DEF ProjectIdentifiersAdopt, Proceed
  <2>7. ASSUME RollbackOnboardHub(i) PROVE \E o : Go(i, o)
    BY <2>7, Zenon DEF RollbackOnboardHub, Proceed
  <2>8. ASSUME PublishRegistry(i) PROVE \E o : Go(i, o)
    BY <2>8 DEF PublishRegistry, Proceed
  <2>9. ASSUME AdoptHub(i) PROVE \E o : Go(i, o)
    BY <2>9 DEF AdoptHub, Proceed
  <2>10. ASSUME ReconcileReads(i) PROVE \E o : Go(i, o)
    BY <2>10 DEF ReconcileReads, Proceed
  <2>11. ASSUME BootstrapChecks(i) PROVE \E o : Go(i, o)
    BY <2>11 DEF BootstrapChecks, Proceed, BootstrapFailed
  <2>12. ASSUME BootstrapBatch(i) PROVE \E o : Go(i, o)
    BY <2>12 DEF BootstrapBatch, Proceed, BootstrapFailed
  <2>13. ASSUME RestoreSnapshot(i) PROVE \E o : Go(i, o)
    BY <2>13 DEF RestoreSnapshot, Proceed
  <2>14. ASSUME RestoreEntity(i) PROVE \E o : Go(i, o)
    BY <2>14, ZenonT(30) DEF RestoreEntity, Proceed
  <2>15. ASSUME RestorePut(i) PROVE \E o : Go(i, o)
    BY <2>15 DEF RestorePut, Proceed
  <2>16. ASSUME RestoreEvidence(i) PROVE \E o : Go(i, o)
    BY <2>16 DEF RestoreEvidence, Proceed
  <2>17. ASSUME EnsureEvidence(i) PROVE \E o : Go(i, o)
    BY <2>17 DEF EnsureEvidence, Proceed
  <2>18. ASSUME RestoreSequences(i) PROVE \E o : Go(i, o)
    BY <2>18 DEF RestoreSequences, Proceed
  <2>19. ASSUME Verify(i) PROVE \E o : Go(i, o)
    BY <2>19 DEF Verify, Proceed
  <2>20. ASSUME EnsureDetached(i) PROVE \E o : Go(i, o)
    BY <2>20 DEF EnsureDetached, Proceed
  <2> QED BY <1>2, <2>1, <2>2, <2>3, <2>4, <2>5, <2>6, <2>7, <2>8, <2>9, <2>10, <2>11, <2>12, <2>13,
     <2>14, <2>15, <2>16, <2>17, <2>18, <2>19, <2>20 DEF Onboarding
<1>3. ASSUME Editing(i) PROVE \E o : Go(i, o)
  <2>1. ASSUME Preflight(i) PROVE \E o : Go(i, o)
    BY <2>1 DEF Preflight, Proceed
  <2>2. ASSUME UpdateProjectCode(i) PROVE \E o : Go(i, o)
    BY <2>2 DEF UpdateProjectCode, Proceed
  <2>3. ASSUME HubCode(i) PROVE \E o : Go(i, o)
    BY <2>3 DEF HubCode, Proceed
  <2>4. ASSUME RollbackProjectCode(i) PROVE \E o : Go(i, o)
    BY <2>4 DEF RollbackProjectCode, Proceed
  <2>5. ASSUME RestoreConf(i) PROVE \E o : Go(i, o)
    BY <2>5 DEF RestoreConf, Proceed
  <2>6. ASSUME ConfigurationReads(i) PROVE \E o : Go(i, o)
    BY <2>6, SMTT(30) DEF ConfigurationReads, Proceed
  <2>7. ASSUME MutateProjectConfiguration(i) PROVE \E o : Go(i, o)
    BY <2>7 DEF MutateProjectConfiguration, Proceed
  <2>8. ASSUME EditEntity(i) PROVE \E o : Go(i, o)
    BY <2>8, Zenon DEF EditEntity, Proceed
  <2> QED BY <1>3, <2>1, <2>2, <2>3, <2>4, <2>5, <2>6, <2>7, <2>8, SMTT(30) DEF Editing
<1>4. ASSUME Retiring(i) PROVE \E o : Go(i, o)
  <2>1. ASSUME RetireReads(i) PROVE \E o : Go(i, o)
    BY <2>1 DEF RetireReads, Proceed
  <2>2. ASSUME DebugRetireProject(i) PROVE \E o : Go(i, o)
    BY <2>2 DEF DebugRetireProject, Proceed
  <2>3. ASSUME BeginLocalProjectRetirement(i) PROVE \E o : Go(i, o)
    BY <2>3 DEF BeginLocalProjectRetirement, Proceed
  <2>4. ASSUME RetireSharedReads(i) PROVE \E o : Go(i, o)
    BY <2>4, SMTT(30) DEF RetireSharedReads, Proceed
  <2>5. ASSUME RetireSharedProject(i) PROVE \E o : Go(i, o)
    BY <2>5 DEF RetireSharedProject, Proceed
  <2>6. ASSUME ImportReads(i) PROVE \E o : Go(i, o)
    BY <2>6, ZenonT(30) DEF ImportReads, Proceed
  <2>7. ASSUME ImportSharedProjectRetirement(i) PROVE \E o : Go(i, o)
    BY <2>7 DEF ImportSharedProjectRetirement, Proceed
  <2>8. ASSUME PublishHubProjectRetirement(i) PROVE \E o : Go(i, o)
    BY <2>8 DEF PublishHubProjectRetirement, Proceed
  <2>9. ASSUME MarkOutboxPublished(i) PROVE \E o : Go(i, o)
    BY <2>9 DEF MarkOutboxPublished, Proceed
  <2>10. ASSUME RegistryLoads(i) PROVE \E o : Go(i, o)
    BY <2>10 DEF RegistryLoads, Proceed
  <2>11. ASSUME RemoveManagedProject(i) PROVE \E o : Go(i, o)
    BY <2>11 DEF RemoveManagedProject, Proceed
  <2> QED BY <1>4, <2>1, <2>2, <2>3, <2>4, <2>5, <2>6, <2>7, <2>8, <2>9, <2>10, <2>11 DEF Retiring
<1>5. ASSUME Syncing(i) PROVE \E o : Go(i, o)
  <2>1. ASSUME HubSnapshot(i) PROVE \E o : Go(i, o)
    BY <2>1 DEF HubSnapshot, Proceed
  <2>2. ASSUME NextLoop(i) PROVE \E o : Go(i, o)
    BY <2>2, SMTT(30) DEF NextLoop, Proceed
  <2>3. ASSUME NextRecord(i) PROVE \E o : Go(i, o)
    BY <2>3 DEF NextRecord, Proceed
  <2>4. ASSUME MigrateHub(i) PROVE \E o : Go(i, o)
    BY <2>4 DEF MigrateHub, Proceed
  <2>5. ASSUME MigrateProjectConfiguration(i) PROVE \E o : Go(i, o)
    BY <2>5 DEF MigrateProjectConfiguration
  <2> QED BY <1>5, <2>1, <2>2, <2>3, <2>4, <2>5 DEF Syncing
<1>6. ASSUME EnsureAdminWorker(i) \/ Fault(i) PROVE \E o : Go(i, o)
  BY <1>6 DEF EnsureAdminWorker, Fault, HubFails, LocalFails, RestoreFails, MigrationFails, Proceed
<1> QED BY <1>2, <1>3, <1>4, <1>5, <1>6 DEF OpStep

LEMMA OnboardingFits ==
  ASSUME Stores, Ops, NEW i \in Proc, Onboarding(i) \/ EnsureAdminWorker(i) \/ Editing(i)
  PROVE  Onward(i) /\ i \in Slot
<1>1. ASSUME AdminRepository(i) PROVE Onward(i) /\ i \in Slot
  BY <1>1, AdminRepositoryFits, OnboardFacts DEF BatchPcs
<1>2. ASSUME Discover(i) PROVE Onward(i) /\ i \in Slot
  BY <1>2, DiscoverFits, OnboardFacts DEF BatchPcs
<1>3. ASSUME ReadHubOnboardProject(i) PROVE Onward(i) /\ i \in Slot
  BY <1>3, ReadHubFits, OnboardFacts DEF BatchPcs
<1>4. ASSUME HubRevision(i) PROVE Onward(i) /\ i \in Slot
  BY <1>4, HubRevisionFits, OnboardFacts DEF BatchPcs
<1>5. ASSUME ProjectRegister(i) PROVE Onward(i) /\ i \in Slot
  BY <1>5, ProjectRegisterFits, OnboardFacts DEF BatchPcs
<1>6. ASSUME ProjectIdentifiersAdopt(i) PROVE Onward(i) /\ i \in Slot
  BY <1>6, AdoptFits, OnboardFacts DEF BatchPcs
<1>7. ASSUME RollbackOnboardHub(i) PROVE Onward(i) /\ i \in Slot
  BY <1>7, RollbackOnboardHubFits, OnboardFacts DEF BatchPcs
<1>8. ASSUME PublishRegistry(i) PROVE Onward(i) /\ i \in Slot
  BY <1>8, RegistryFits, OnboardFacts DEF BatchPcs
<1>9. ASSUME AdoptHub(i) PROVE Onward(i) /\ i \in Slot
  BY <1>9, RegistryFits, OnboardFacts DEF BatchPcs
<1>10. ASSUME ReconcileReads(i) PROVE Onward(i) /\ i \in Slot
  BY <1>10, ReconcileReadsFits, OnboardFacts DEF BatchPcs
<1>11. ASSUME BootstrapChecks(i) PROVE Onward(i) /\ i \in Slot
  BY <1>11, BootstrapChecksFits, BatchFacts DEF BatchPcs
<1>12. ASSUME BootstrapBatch(i) PROVE Onward(i) /\ i \in Slot
  BY <1>12, BootstrapBatchFits, BatchFacts DEF BatchPcs
<1>13. ASSUME RestoreSnapshot(i) PROVE Onward(i) /\ i \in Slot
  BY <1>13, RestoreSnapshotFits, OnboardFacts DEF BatchPcs
<1>14. ASSUME RestoreEntity(i) PROVE Onward(i) /\ i \in Slot
  BY <1>14, RestoreEntityFits, OnboardFacts DEF BatchPcs
<1>15. ASSUME RestorePut(i) PROVE Onward(i) /\ i \in Slot
  BY <1>15, RestorePutFits, OnboardFacts DEF BatchPcs
<1>16. ASSUME RestoreEvidence(i) PROVE Onward(i) /\ i \in Slot
  BY <1>16, RestoreEvidenceFits, OnboardFacts DEF BatchPcs
<1>17. ASSUME EnsureEvidence(i) PROVE Onward(i) /\ i \in Slot
  BY <1>17, EnsureEvidenceFits, OnboardFacts DEF BatchPcs
<1>18. ASSUME RestoreSequences(i) PROVE Onward(i) /\ i \in Slot
  BY <1>18, RestoreSequencesFits, OnboardFacts DEF BatchPcs
<1>19. ASSUME Verify(i) PROVE Onward(i) /\ i \in Slot
  BY <1>19, AnswerFits, OnboardFacts DEF BatchPcs
<1>20. ASSUME EnsureDetached(i) PROVE Onward(i) /\ i \in Slot
  BY <1>20, AnswerFits, OnboardFacts DEF BatchPcs
<1>21. ASSUME EnsureAdminWorker(i) PROVE Onward(i) /\ i \in Slot
  BY <1>21, AnswerFits, OnboardFacts DEF BatchPcs
<1>22. ASSUME Preflight(i) PROVE Onward(i) /\ i \in Slot
  BY <1>22, PreflightFits, UpdateFacts DEF BatchPcs
<1>23. ASSUME UpdateProjectCode(i) PROVE Onward(i) /\ i \in Slot
  BY <1>23, UpdateProjectCodeFits, UpdateFacts DEF BatchPcs
<1>24. ASSUME HubCode(i) PROVE Onward(i) /\ i \in Slot
  BY <1>24, HubCodeFits, UpdateFacts, Zenon DEF BatchPcs
<1>25. ASSUME RollbackProjectCode(i) PROVE Onward(i) /\ i \in Slot
  BY <1>25, RollbackProjectCodeFits, UpdateFacts DEF BatchPcs
<1>26. ASSUME RestoreConf(i) PROVE Onward(i) /\ i \in Slot
  BY <1>26, RestoreConfFits, UpdateFacts DEF BatchPcs
<1>27. ASSUME ConfigurationReads(i) PROVE Onward(i) /\ i \in Slot
  BY <1>27, ConfigurationReadsFits, AskedFacts DEF BatchPcs
<1>28. ASSUME MutateProjectConfiguration(i) PROVE Onward(i) /\ i \in Slot
  BY <1>28, EditingFits, AskedFacts DEF BatchPcs
<1>29. ASSUME EditEntity(i) PROVE Onward(i) /\ i \in Slot
  BY <1>29, EditingFits, AskedFacts DEF BatchPcs
<1> QED BY <1>1, <1>2, <1>3, <1>4, <1>5, <1>6, <1>7, <1>8, <1>9, <1>10, <1>11, <1>12, <1>13, <1>14,
   <1>15, <1>16, <1>17, <1>18, <1>19, <1>20, <1>21, <1>22, <1>23, <1>24, <1>25, <1>26, <1>27, <1>28,
   <1>29 DEF Onboarding, Editing

LEMMA RetiringFits ==
  ASSUME Stores, Ops, NEW i \in Proc, Retiring(i) \/ Syncing(i)
  PROVE  Retires(i)
BY RetireReadsFits, DebugRetireProjectFits, BeginLocalFits, RetireSharedReadsFits,
   RetireSharedProjectFits, ImportFits, PublishFits, RegistryLoadsFits, RemoveManagedProjectFits,
   HubSnapshotFits, NextLoopFits, CanonicalFits, NextRecordFits, MigrateHubFits DEF Retiring, Syncing

LEMMA StepFits ==
  ASSUME Stores, Ops, NEW i \in Proc, OpStep(i) \/ Fault(i)
  PROVE  OpFits(i, op'[i]) /\ (i \in Slot => Same(op[i], op'[i]))
BY OnboardingFits, RetiringFits, FaultFits DEF OpStep, Onward, Retires

\* The Local markers a loop relies on stay.
LEMMA FitsStay ==
  ASSUME Stores, NEW i \in Proc, NEW o, OpFits(i, o), MarkersStay
  PROVE  /\ AskShape(o) /\ WhoFits(i, o) /\ KindFits(o) /\ RegFits(o) /\ RetireFits(o) /\ EditFits(o)
              /\ SnapFits(o)
         /\ o.pc = "snapshot" => o.phase = "hub"
         /\ o.kind = "sync" /\ o.pc \in RetirePcs \cup {"next", "canonical"} =>
              /\ o.phase \in {"hub", "local", "publish"} /\ o.todo \subseteq Project
              /\ o.phase # "local" => o.seen \in [Project -> OrNone(Markers)]
                   /\ \A p \in o.todo : o.seen[p] # None
              /\ o.phase = "local" => \A p \in o.todo : local'[o.h].marker[p] # None
<1>1. o.kind = "sync" => o.h \in Host
  BY SlotOrHost DEF OpFits, WhoFits
<1>2. /\ o.pc = "snapshot" => o.phase = "hub"
      /\ o.kind = "sync" /\ o.pc \in RetirePcs \cup {"next", "canonical"} =>
           /\ o.phase \in {"hub", "local", "publish"} /\ o.todo \subseteq Project
           /\ o.phase # "local" => o.seen \in [Project -> OrNone(Markers)]
                /\ \A p \in o.todo : o.seen[p] # None
           /\ o.phase = "local" => \A p \in o.todo : local[o.h].marker[p] # None
  BY DEF OpFits, LoopFits
<1>3. o.kind = "sync" /\ o.pc \in RetirePcs \cup {"next", "canonical"} /\ o.phase = "local" =>
        \A p \in o.todo : local'[o.h].marker[p] # None
  BY <1>1, <1>2 DEF MarkersStay
<1>4. AskShape(o) /\ WhoFits(i, o) /\ KindFits(o) /\ RegFits(o) /\ RetireFits(o) /\ EditFits(o) /\ SnapFits(o)
  BY DEF OpFits
<1> QED BY <1>2, <1>3, <1>4

LEMMA OpsMove ==
  ASSUME Stores, MarkersStay, op' = [i \in Proc |-> op'[i]], \A i \in Proc : OpFits(i, op'[i])
  PROVE  Ops'
<1>1. ASSUME NEW i \in Proc PROVE OpFits(i, op[i])'
  <2>1. OpFits(i, op'[i])
    OBVIOUS
  <2>2. AskShape(op'[i]) /\ WhoFits(i, op'[i]) /\ KindFits(op'[i]) /\ RegFits(op'[i]) /\ RetireFits(op'[i])
        /\ EditFits(op'[i]) /\ SnapFits(op'[i])
    BY <2>1, FitsStay
  <2>3. LoopFits(op[i])'
    BY <2>1, FitsStay DEF LoopFits
  <2>4. (AskShape(op[i]) /\ WhoFits(i, op[i]) /\ KindFits(op[i]) /\ RegFits(op[i]) /\ RetireFits(op[i])
        /\ EditFits(op[i]) /\ SnapFits(op[i]))'
    BY <2>2 DEF AskShape, WhoFits, KindFits, RegFits, RetireFits, EditFits, SnapFits
  <2> QED BY <2>3, <2>4 DEF OpFits
<1> QED BY <1>1 DEF Ops

\* A step of the worker, of a Session or of the environment moves no request.
LEMMA OpMoves ==
  ASSUME Stores, Ops, ProjectNext
  PROVE  \/ \E i \in Proc : (OpStep(i) \/ Fault(i)) /\ MovesOp(i)
         \/ \E h \in Host : Crash(h)
         \/ UNCHANGED op
<1>1. ASSUME NEW i \in Proc, OpStep(i) \/ Fault(i) PROVE MovesOp(i)
  BY <1>1, StepMovesOp
<1>2. ASSUME NEW h \in Host, WorkerStep(h) PROVE UNCHANGED op
  BY <1>2, Zenon DEF WorkerStep, WorkerStarts, PublishConfiguration, PublishRetirement, PublishEntity
<1>3. ASSUME NEW h \in Host, NEW p \in Project, EndSession(h, p) PROVE UNCHANGED op
  BY <1>3 DEF EndSession
<1> QED BY <1>1, <1>2, <1>3 DEF ProjectNext

LEMMA OpsNext ==
  ASSUME Stores, Ops, ProjectNext
  PROVE  Ops'
<1>1. MarkersStay
  BY LocalNext
<1>2. ASSUME NEW i \in Proc, OpStep(i) \/ Fault(i), MovesOp(i)
      PROVE  op' = [j \in Proc |-> op'[j]] /\ \A j \in Proc : OpFits(j, op'[j])
  <2>1. OpFits(i, op'[i])
    BY <1>2, StepFits
  <2>2. \A j \in Proc : j # i => op'[j] = op[j]
    BY <1>2, MovesOpIs
  <2>3. op' = [j \in Proc |-> op'[j]]
    BY <1>2 DEF MovesOp, Ops
  <2> QED BY <2>1, <2>2, <2>3, OpsFit
<1>3. ASSUME NEW h \in Host, Crash(h)
      PROVE  op' = [j \in Proc |-> op'[j]] /\ \A j \in Proc : OpFits(j, op'[j])
  BY <1>3, CrashFits
<1>4. ASSUME UNCHANGED op
      PROVE  op' = [j \in Proc |-> op'[j]] /\ \A j \in Proc : OpFits(j, op'[j])
  BY <1>4 DEF Ops
<1> QED BY <1>1, <1>2, <1>3, <1>4, OpMoves, OpsMove

-----------------------------------------------------------------------------
(* The kinds of request.                                                   *)

LEMMA OnboardingKinds ==
  ASSUME Stores, Ops, NEW i \in Proc, Onboarding(i) \/ EnsureAdminWorker(i) \/ Editing(i)
  PROVE  op[i].kind \notin {"retire", "sync"}
<1>1. ASSUME AdminRepository(i) PROVE op[i].kind \notin {"retire", "sync"}
  BY <1>1, AdminRepositoryFits DEF Onboards, BatchPcs
<1>2. ASSUME Discover(i) PROVE op[i].kind \notin {"retire", "sync"}
  BY <1>2, DiscoverFits DEF Onboards, BatchPcs
<1>3. ASSUME ReadHubOnboardProject(i) PROVE op[i].kind \notin {"retire", "sync"}
  BY <1>3, ReadHubFits DEF Onboards, BatchPcs
<1>4. ASSUME HubRevision(i) PROVE op[i].kind \notin {"retire", "sync"}
  BY <1>4, HubRevisionFits DEF Onboards, BatchPcs
<1>5. ASSUME ProjectRegister(i) PROVE op[i].kind \notin {"retire", "sync"}
  BY <1>5, ProjectRegisterFits DEF Onboards, BatchPcs
<1>6. ASSUME ProjectIdentifiersAdopt(i) PROVE op[i].kind \notin {"retire", "sync"}
  BY <1>6, AdoptFits DEF Onboards, BatchPcs
<1>7. ASSUME RollbackOnboardHub(i) PROVE op[i].kind \notin {"retire", "sync"}
  BY <1>7, RollbackOnboardHubFits DEF Onboards, BatchPcs
<1>8. ASSUME PublishRegistry(i) PROVE op[i].kind \notin {"retire", "sync"}
  BY <1>8, RegistryFits DEF Onboards, BatchPcs
<1>9. ASSUME AdoptHub(i) PROVE op[i].kind \notin {"retire", "sync"}
  BY <1>9, RegistryFits DEF Onboards, BatchPcs
<1>10. ASSUME ReconcileReads(i) PROVE op[i].kind \notin {"retire", "sync"}
  BY <1>10, ReconcileReadsFits DEF Onboards, BatchPcs
<1>11. ASSUME BootstrapChecks(i) PROVE op[i].kind \notin {"retire", "sync"}
  BY <1>11, BootstrapChecksFits, BatchFacts DEF Onboards, BatchPcs
<1>12. ASSUME BootstrapBatch(i) PROVE op[i].kind \notin {"retire", "sync"}
  BY <1>12, BootstrapBatchFits, BatchFacts DEF Onboards, BatchPcs
<1>13. ASSUME RestoreSnapshot(i) PROVE op[i].kind \notin {"retire", "sync"}
  BY <1>13, RestoreSnapshotFits DEF Onboards, BatchPcs
<1>14. ASSUME RestoreEntity(i) PROVE op[i].kind \notin {"retire", "sync"}
  BY <1>14, RestoreEntityFits DEF Onboards, BatchPcs
<1>15. ASSUME RestorePut(i) PROVE op[i].kind \notin {"retire", "sync"}
  BY <1>15, RestorePutFits DEF Onboards, BatchPcs
<1>16. ASSUME RestoreEvidence(i) PROVE op[i].kind \notin {"retire", "sync"}
  BY <1>16, RestoreEvidenceFits DEF Onboards, BatchPcs
<1>17. ASSUME EnsureEvidence(i) PROVE op[i].kind \notin {"retire", "sync"}
  BY <1>17, EnsureEvidenceFits DEF Onboards, BatchPcs
<1>18. ASSUME RestoreSequences(i) PROVE op[i].kind \notin {"retire", "sync"}
  BY <1>18, RestoreSequencesFits DEF Onboards, BatchPcs
<1>19. ASSUME Verify(i) PROVE op[i].kind \notin {"retire", "sync"}
  BY <1>19, AnswerFits DEF Onboards, BatchPcs
<1>20. ASSUME EnsureDetached(i) PROVE op[i].kind \notin {"retire", "sync"}
  BY <1>20, AnswerFits DEF Onboards, BatchPcs
<1>21. ASSUME EnsureAdminWorker(i) PROVE op[i].kind \notin {"retire", "sync"}
  BY <1>21, AnswerFits DEF Onboards, BatchPcs
<1>22. ASSUME Preflight(i) PROVE op[i].kind \notin {"retire", "sync"}
  BY <1>22, PreflightFits DEF Onboards, BatchPcs
<1>23. ASSUME UpdateProjectCode(i) PROVE op[i].kind \notin {"retire", "sync"}
  BY <1>23, UpdateProjectCodeFits DEF Onboards, BatchPcs
<1>24. ASSUME HubCode(i) PROVE op[i].kind \notin {"retire", "sync"}
  BY <1>24, HubCodeFits, Zenon DEF Onboards, BatchPcs
<1>25. ASSUME RollbackProjectCode(i) PROVE op[i].kind \notin {"retire", "sync"}
  BY <1>25, RollbackProjectCodeFits DEF Onboards, BatchPcs
<1>26. ASSUME RestoreConf(i) PROVE op[i].kind \notin {"retire", "sync"}
  BY <1>26, RestoreConfFits DEF Onboards, BatchPcs
<1>27. ASSUME ConfigurationReads(i) PROVE op[i].kind \notin {"retire", "sync"}
  BY <1>27, ConfigurationReadsFits DEF Onboards, BatchPcs
<1>28. ASSUME MutateProjectConfiguration(i) PROVE op[i].kind \notin {"retire", "sync"}
  BY <1>28, EditingFits DEF Onboards, BatchPcs
<1>29. ASSUME EditEntity(i) PROVE op[i].kind \notin {"retire", "sync"}
  BY <1>29, EditingFits DEF Onboards, BatchPcs
<1> QED BY <1>1, <1>2, <1>3, <1>4, <1>5, <1>6, <1>7, <1>8, <1>9, <1>10, <1>11, <1>12, <1>13, <1>14,
   <1>15, <1>16, <1>17, <1>18, <1>19, <1>20, <1>21, <1>22, <1>23, <1>24, <1>25, <1>26, <1>27, <1>28,
   <1>29 DEF Onboarding, Editing

-----------------------------------------------------------------------------
(* What no step takes back.                                                *)

\* On the Hub a marker is put once, and nothing of a retired project returns.
Finishes ==
  \A p \in Project :
    /\ hub'.marker[p] # None => ~hub'.project[p] /\ hub'.code[p] = None
    /\ hub.marker[p] # None => hub'.marker[p] = hub.marker[p]

LEMMA HubKeepsFinishes ==
  ASSUME Stores, RetiredIsGone, hub'.marker = hub.marker,
         \A p \in Project : hub.marker[p] # None => ~hub'.project[p] /\ hub'.code[p] = None
  PROVE  Finishes
BY DEF Finishes

LEMMA RetirementFinishes ==
  ASSUME Stores, Ops, RetiredIsGone, ProjectNext
  PROVE  Finishes
<1>1. ASSUME UNCHANGED hub PROVE Finishes
  BY <1>1 DEF Finishes, RetiredIsGone
<1>2. ASSUME hub'.marker = hub.marker, hub'.project = hub.project, hub'.code = hub.code PROVE Finishes
  BY <1>2 DEF Finishes, RetiredIsGone
<1>3. ASSUME NEW i \in Proc, Registers(i) PROVE Finishes
  <2>1. CASE KeepsMarkers /\ MayRegister(op[i].h, op[i].p) /\ hub'.code = hub.code
             /\ hub'.project = [hub.project EXCEPT ![op[i].p] = TRUE]
    <3>1. \A p \in Project : hub.marker[p] # None => p # op[i].p
      BY <2>1 DEF MayRegister
    <3> QED BY <2>1, <3>1, HubTyped DEF Finishes, RetiredIsGone, KeepsMarkers
  <2> QED BY <1>1, <1>3, <2>1, ProjectRegisterHub
<1>4. ASSUME NEW i \in Proc, Adopts(i) PROVE Finishes
  <2>1. CASE KeepsMarkers /\ ProjectRead(op[i].h, op[i].p) /\ hub'.project = hub.project
             /\ hub'.code = [hub.code EXCEPT ![op[i].p] = op[i].code]
    <3>1. \A p \in Project : hub.marker[p] # None => p # op[i].p
      BY <2>1 DEF ProjectRead, RetiredAnywhere
    <3> QED BY <2>1, <3>1, HubTyped DEF Finishes, RetiredIsGone, KeepsMarkers, Codes
  <2> QED BY <1>1, <1>4, <2>1, AdoptHubWrites
<1>5. ASSUME NEW i \in Proc, Unregisters(i) PROVE Finishes
  <2>1. CASE KeepsMarkers /\ hub'.project = [hub.project EXCEPT ![op[i].p] = FALSE]
             /\ hub'.code = [hub.code EXCEPT ![op[i].p] = None]
    BY <2>1, HubTyped DEF Finishes, RetiredIsGone, KeepsMarkers, Codes
  <2> QED BY <1>1, <1>5, <2>1, RollbackOnboardHubWrites
<1>6. ASSUME NEW i \in Proc, NEW code, KeepsMarkers, hub'.project = hub.project, hub.code[op[i].p] # None,
             hub'.code = [hub.code EXCEPT ![op[i].p] = code]
      PROVE  Finishes
  <2>1. \A p \in Project : hub.marker[p] # None => p # op[i].p
    BY <1>6 DEF RetiredIsGone
  <2> QED BY <1>6, <2>1, HubTyped DEF Finishes, RetiredIsGone, KeepsMarkers, Codes
<1>7. ASSUME NEW i \in Proc, ChangesCode(i) PROVE Finishes
  <2>1. op[i].seen.old # None
    BY <1>7, UpdateFacts, NoneApart DEF ChangesCode, OpAt, OpFits, EditFits, ChangePcs
  <2> QED BY <1>1, <1>6, <1>7, <2>1, HubCodeWrites
<1>8. ASSUME NEW i \in Proc, RevertsCode(i) PROVE Finishes
  BY <1>1, <1>6, <1>8, RollbackCodeWrites
<1>9. ASSUME HubRetiresOne PROVE Finishes
  <2>1. PICK p \in Project, rec \in OrNone(Markers) :
          /\ MayRetire(p, rec) /\ hub'.marker = [hub.marker EXCEPT ![p] = rec]
          /\ hub'.project = [hub.project EXCEPT ![p] = FALSE] /\ hub'.code = [hub.code EXCEPT ![p] = None]
    BY <1>9 DEF HubRetiresOne
  <2> QED BY <2>1, HubTyped DEF Finishes, RetiredIsGone, MayRetire, Codes
<1>10. ASSUME NEW h \in Host, NEW p \in Project, PublishEntity(h, p) PROVE Finishes
  BY <1>2, <1>10, EntityHubWrites
<1>11. KeepsMarkers => hub'.marker = hub.marker
  BY DEF KeepsMarkers
<1> QED BY <1>1, <1>2, <1>3, <1>4, <1>5, <1>7, <1>8, <1>9, <1>10, <1>11, HubSteps DEF WritesCode

LEMMA RetiredIsGoneNext ==
  ASSUME Stores, Ops, RetiredIsGone, ProjectNext
  PROVE  /\ RetiredIsGone'
         /\ \A p \in Project : hub.marker[p] # None =>
              /\ hub'.marker[p] = hub.marker[p]
              /\ (hub'.project[p] => hub.project[p]) /\ (hub'.code[p] # None => hub'.code[p] = hub.code[p])
BY RetirementFinishes DEF Finishes, RetiredIsGone

\* What a registry write has read was an entry of another kind.
LEMMA RegistryOne ==
  ASSUME Stores, Ops, ProjectNext, NEW g \in Host, reg'[g] # reg[g]
  PROVE  /\ reg'[g].rev = reg[g].rev + 1
         /\ Cardinality({p \in Project : reg'[g].entry[p] # reg[g].entry[p]}) = 1
<1>1. RegistryMoves
  BY RegistrySteps
<1>2. PICK i \in Proc, code \in OrNone(Code) : MovesOne(i, code)
  BY <1>1 DEF RegistryMoves
<1> DEFINE h == op[i].h  q == op[i].p
<1>3. g = h /\ g \in Host /\ q \in Project /\ reg'[h].entry = [reg[h].entry EXCEPT ![q] = code]
      /\ reg'[h].rev = reg[h].rev + 1
  BY <1>2 DEF MovesOne
<1>4. RegFits(op[i])
  BY OpsFit DEF OpFits
<1>5. code # reg[h].entry[q]
  <2>1. CASE op[i].pc = "registry"
    BY <1>2, <1>4, <2>1, NoneApart DEF MovesOne, RegFits, RegisterPcs
  <2>2. CASE op[i].pc = "unregisterWrite"
    BY <1>2, <1>4, <2>2 DEF MovesOne, RegFits
  <2> QED BY <1>2, <2>1, <2>2 DEF MovesOne
<1>6. {p \in Project : reg'[g].entry[p] # reg[g].entry[p]} = {q}
  BY <1>3, <1>5, RegTyped DEF Codes
<1>7. Cardinality({q}) = 1
  BY FS_Singleton
<1> QED BY <1>3, <1>6, <1>7

\* A synchronisation or a retirement goes on with the project it has marked.
LEMMA MarkedStep ==
  ASSUME Stores, Ops, MarkedFirst, NEW i \in Proc, OpStep(i) \/ Fault(i), MarkersStay
  PROVE  op'[i].pc \in PublishedPcs => local'[op'[i].h].marker[op'[i].p] # None
<1>1. ASSUME Retires(i), op'[i].pc \in PublishedPcs, op[i].pc # "beginLocal"
      PROVE  local'[op'[i].h].marker[op'[i].p] # None
  <2>1. op[i].pc \in RetirePcs /\ op'[i].h = op[i].h /\ op'[i].p = op[i].p
    BY <1>1 DEF Retires
  <2>2. op[i].h \in Host /\ op[i].p \in Project
    BY <2>1, RetireFacts
  <2>3. local[op[i].h].marker[op[i].p] # None
    BY <1>1, <2>1 DEF MarkedFirst, PublishedPcs
  <2> QED BY <2>1, <2>2, <2>3 DEF MarkersStay
<1>2. ASSUME Retires(i), op'[i].pc \in PublishedPcs, BeginLocalProjectRetirement(i)
      PROVE  local'[op'[i].h].marker[op'[i].p] # None
  <2>1. op'[i].h = op[i].h /\ op'[i].p = op[i].p
    BY <1>2 DEF Retires
  <2> QED BY <1>2, <2>1, BeginLocalWrites
<1>3. ASSUME Onboarding(i) \/ EnsureAdminWorker(i) \/ Editing(i) PROVE op'[i].pc \notin PublishedPcs
  <2>1. op[i].kind \notin {"retire", "sync"} /\ Onward(i)
    BY <1>3, OnboardingKinds, OnboardingFits
  <2> QED BY <2>1 DEF Onward, OpFits, KindFits, PublishedPcs, Same
<1>4. ASSUME Fault(i) PROVE op'[i].pc \notin PublishedPcs
  BY <1>4, FaultFits DEF PublishedPcs, RetirePcs
<1>5. ASSUME Retiring(i) \/ Syncing(i) PROVE Retires(i)
  BY <1>5, RetiringFits
<1>6. ASSUME Retiring(i) \/ Syncing(i), op[i].pc = "beginLocal" PROVE BeginLocalProjectRetirement(i)
  BY <1>6 DEF Retiring, Syncing, OpAt, RetireReads, DebugRetireProject, RetireSharedReads,
     RetireSharedProject, ImportReads, ImportSharedProjectRetirement, PublishHubProjectRetirement,
         MarkOutboxPublished, RegistryLoads, RemoveManagedProject, HubSnapshot, NextLoop, NextRecord,
     MigrateProjectConfiguration, MigrateHub, PublishesMarker, MigratesHub
<1> QED BY <1>1, <1>2, <1>3, <1>4, <1>5, <1>6 DEF OpStep

LEMMA MarkedFirstNext ==
  ASSUME Stores, Ops, MarkedFirst, ProjectNext
  PROVE  MarkedFirst'
<1>1. MarkersStay
  BY LocalNext
<1>2. ASSUME NEW i \in Proc, op'[i] = op[i], op'[i].pc \in PublishedPcs
      PROVE  local'[op'[i].h].marker[op'[i].p] # None
  <2>1. op[i].h \in Host /\ op[i].p \in Project
    BY <1>2, RetireFacts DEF PublishedPcs
  <2> QED BY <1>1, <1>2, <2>1 DEF MarkedFirst, MarkersStay
<1>3. ASSUME NEW i \in Proc, OpStep(i) \/ Fault(i), MovesOp(i)
      PROVE  MarkedFirst'
  BY <1>1, <1>2, <1>3, MarkedStep, MovesOpIs DEF MarkedFirst
<1>4. ASSUME NEW h \in Host, Crash(h) PROVE MarkedFirst'
  BY <1>2, <1>4, CrashFits DEF MarkedFirst, PublishedPcs, RetirePcs
<1>5. ASSUME UNCHANGED op PROVE MarkedFirst'
  BY <1>2, <1>5 DEF MarkedFirst
<1> QED BY <1>3, <1>4, <1>5, OpMoves

-----------------------------------------------------------------------------
(* Entities, their evidence and their numbers.                             *)

Quiet == \A g \in Host : /\ shared'[g].ent = shared[g].ent /\ shared'[g].evid = shared[g].evid
                         /\ shared'[g].seq = shared[g].seq

LEMMA KnownQuiet ==
  ASSUME NEW h \in Host, UNCHANGED shared \/ (SharedMoves(h) /\ KeepsKnown(h))
  PROVE  Quiet
BY DEF Quiet, SharedMoves, KeepsKnown

LEMMA SharedSteps ==
  ASSUME Stores, Ops, ProjectNext
  PROVE  Quiet \/ \E i \in Proc : RestorePut(i) \/ EnsureEvidence(i) \/ RestoreSequences(i) \/ EditEntity(i)
<1>0. UNCHANGED shared => Quiet
  BY DEF Quiet
<1>1. ASSUME NEW i \in Proc, BootstrapBatch(i) PROVE Quiet
  <2>1. op[i].h \in Host
    BY <1>1, BootstrapBatchFits, BatchFacts DEF BatchPcs
  <2> QED BY <1>0, <1>1, <2>1, BootstrapWrites, KnownQuiet
<1>2. ASSUME NEW i \in Proc, MutateProjectConfiguration(i) PROVE Quiet
  <2>1. op[i].h \in Host
    BY <1>2, EditingFits, AskedFacts
  <2> QED BY <1>0, <1>2, <2>1, ConfigurationWrites, KnownQuiet
<1>3. ASSUME NEW i \in Proc, RetireSharedProject(i) PROVE Quiet
  <2>1. op[i].h \in Host
    BY <1>3, RetireSharedProjectFits
  <2> QED BY <1>0, <1>3, <2>1, RetireSharedWrites, KnownQuiet
<1>4. ASSUME NEW i \in Proc, ImportSharedProjectRetirement(i) PROVE Quiet
  <2>1. op[i].h \in Host
    BY <1>4, ImportFits
  <2> QED BY <1>0, <1>4, <2>1, ImportWrites, KnownQuiet
<1>5. ASSUME NEW i \in Proc, MarkOutboxPublished(i) PROVE Quiet
  <2>1. op[i].h \in Host
    BY <1>5, PublishFits
  <2> QED BY <1>0, <1>5, <2>1, MarkWrites, KnownQuiet
<1>6. ASSUME NEW h \in Host, NEW p \in Project, PublishConfiguration(h, p) PROVE Quiet
  BY <1>0, <1>6, PublishConfigurationWrites, KnownQuiet
<1>7. ASSUME NEW h \in Host, NEW p \in Project, PublishRetirement(h, p) PROVE Quiet
  BY <1>0, <1>7, PublishRetirementWrites, KnownQuiet
<1> QED BY <1>0, <1>1, <1>2, <1>3, <1>4, <1>5, <1>6, <1>7, SharedWriters

\* What a step changes of the entities, it changes for one project of one host.
OnlyAt(h, p) ==
  \A g \in Host, q \in Project : ~(g = h /\ q = p) =>
    /\ shared'[g].ent[q] = shared[g].ent[q] /\ shared'[g].evid[q] = shared[g].evid[q]
    /\ shared'[g].seq[q] = shared[g].seq[q]

LEMMA EntitiesNumbered ==
  ASSUME Stores, NEW h \in Host, NEW p \in Project
  PROVE  /\ shared[h].seq[p] \in Nat /\ shared[h].evid[p] \subseteq Evidence
         /\ \A n \in Num : shared[h].ent[p][n] \in Versions /\ shared[h].ent[p][n].rev \in Nat
BY SharedTyped DEF Versions

\* Writing the entity of one number leaves every other entity of the host as it was.
OneWritten(h, p, n, new) == shared'[h].ent = [shared[h].ent EXCEPT ![p][n] = new]
RestKept(h, p, n, new) ==
  /\ shared'[h].ent[p][n] = new /\ \A k \in Num : k # n => shared'[h].ent[p][k] = shared[h].ent[p][k]
  /\ \A q \in Project : q # p => shared'[h].ent[q] = shared[h].ent[q]

LEMMA OneEntity ==
  ASSUME Stores, NEW h \in Host, NEW p \in Project, NEW n \in Num, NEW new, OneWritten(h, p, n, new)
  PROVE  RestKept(h, p, n, new)
<1>1. shared[h].ent \in [Project -> [Num -> Versions]]
  BY SharedTyped, Zenon
<1> QED BY <1>1 DEF OneWritten, RestKept

LEMMA RestorePutAt ==
  ASSUME Stores, Ops, NEW i \in Proc, RestorePut(i)
  PROVE  LET h == op[i].h  p == op[i].p IN
         /\ h \in Host /\ p \in Project /\ OnlyAt(h, p)
         /\ shared'[h].evid[p] = shared[h].evid[p] /\ shared'[h].seq[p] = shared[h].seq[p]
         /\ \E n \in Num :
              /\ op[i].plan = {n}
              /\ \A k \in Num : k # n => shared'[h].ent[p][k] = shared[h].ent[p][k]
              /\ shared'[h].ent[p][n].rev >= shared[h].ent[p][n].rev
              /\ shared'[h].ent[p][n].rev >= op[i].seen.ent[n].rev
<1> DEFINE h == op[i].h  p == op[i].p
<1>1. h \in Host /\ p \in Project /\ op[i].seen \in Snapshots
  BY RestorePutFits, OnboardFacts, SMTT(30) DEF OpFits, SnapFits, RestorePcs
<1>2. /\ SharedMoves(h) /\ shared'[h].evid = shared[h].evid /\ shared'[h].seq = shared[h].seq
  BY RestorePutWrites, SMTT(30)
<1>3. PICK n \in Num :
        /\ op[i].plan = {n}
        /\ LET ours == shared[h].ent[p][n]  theirs == op[i].seen.ent[n] IN
           shared'[h].ent = [shared[h].ent EXCEPT ![p][n] = IF theirs.rev >= ours.rev THEN theirs ELSE ours]
  BY RestorePutWrites
<1>4. op[i].seen.ent[n].rev \in Nat /\ shared[h].ent[p][n].rev \in Nat
  BY <1>1, EntitiesNumbered, SMTT(30) DEF Snapshots, Versions
<1> DEFINE new == IF op[i].seen.ent[n].rev >= shared[h].ent[p][n].rev THEN op[i].seen.ent[n]
           ELSE shared[h].ent[p][n]
<1>5. new.rev >= op[i].seen.ent[n].rev /\ new.rev >= shared[h].ent[p][n].rev
  BY <1>4, SMTT(30)
<1>6. shared'[h].ent = [shared[h].ent EXCEPT ![p][n] = new]
  BY <1>3, SMTT(30)
<1> HIDE DEF new
<1>7. /\ shared'[h].ent[p][n] = new /\ \A k \in Num : k # n => shared'[h].ent[p][k] = shared[h].ent[p][k]
      /\ \A q \in Project : q # p => shared'[h].ent[q] = shared[h].ent[q]
  <2>1. OneWritten(h, p, n, new)
    BY <1>6, Zenon DEF OneWritten
  <2>2. RestKept(h, p, n, new)
    BY <1>1, <2>1, OneEntity, ZenonT(30)
  <2> QED BY <2>2, Zenon DEF RestKept
<1>8. OnlyAt(h, p)
  BY <1>2, <1>7, SMTT(30) DEF OnlyAt, SharedMoves
<1> QED BY <1>1, <1>2, <1>3, <1>5, <1>7, <1>8, Zenon

LEMMA EnsureEvidenceAt ==
  ASSUME Stores, Ops, NEW i \in Proc, EnsureEvidence(i)
  PROVE  LET h == op[i].h  p == op[i].p IN
         \/ Quiet /\ op'[i].pc = "failed"
         \/ /\ h \in Host /\ p \in Project /\ OnlyAt(h, p)
            /\ shared'[h].ent[p] = shared[h].ent[p] /\ shared'[h].seq[p] = shared[h].seq[p]
            /\ op'[i].pc = "evidence" /\ op'[i].seen = op[i].seen
            /\ \E e \in Evidence :
                 /\ ~Ahead(shared[h], p, e)
                 /\ shared'[h].evid[p] = shared[h].evid[p] \cup {e}
                 /\ op'[i].todo = op[i].todo \ {e}
<1> DEFINE h == op[i].h  p == op[i].p
<1>1. h \in Host /\ p \in Project /\ op[i].seen.evid \subseteq Evidence
  BY EnsureEvidenceFits, OnboardFacts DEF OpFits, SnapFits, RestorePcs, Snapshots
<1>2. CASE op'[i].pc = "failed" /\ UNCHANGED shared
  BY <1>2 DEF Quiet
<1>3. CASE /\ SharedMoves(h) /\ shared'[h].ent = shared[h].ent /\ shared'[h].seq = shared[h].seq
           /\ \E e \in op[i].seen.evid :
                 /\ ~ExceedsCurrent(h, p, e)
                 /\ shared'[h].evid = [shared[h].evid EXCEPT ![p] = shared[h].evid[p] \cup {e}]
                 /\ op'[i].pc = "evidence" /\ op'[i].seen = op[i].seen /\ op'[i].todo = op[i].todo \ {e}
  <2>1. PICK e \in op[i].seen.evid :
          /\ ~ExceedsCurrent(h, p, e)
          /\ shared'[h].evid = [shared[h].evid EXCEPT ![p] = shared[h].evid[p] \cup {e}]
          /\ op'[i].pc = "evidence" /\ op'[i].seen = op[i].seen /\ op'[i].todo = op[i].todo \ {e}
    BY <1>3, ZenonT(30)
  <2>2. /\ shared'[h].evid[p] = shared[h].evid[p] \cup {e}
        /\ \A q \in Project : q # p => shared'[h].evid[q] = shared[h].evid[q]
    BY <1>1, <2>1, SharedTyped, SMTT(30)
  <2>3. OnlyAt(h, p)
    BY <1>3, <2>2 DEF OnlyAt, SharedMoves
  <2>4. e \in Evidence /\ ~Ahead(shared[h], p, e)
    BY <1>1, <2>1 DEF ExceedsCurrent
  <2> QED BY <1>1, <1>3, <2>1, <2>2, <2>3, <2>4, ZenonT(30)
<1> QED BY <1>2, <1>3, EnsureEvidenceWrites

LEMMA SequencesAt ==
  ASSUME Stores, Ops, NEW i \in Proc, RestoreSequences(i)
  PROVE  LET h == op[i].h  p == op[i].p IN
         /\ h \in Host /\ p \in Project /\ OnlyAt(h, p)
         /\ shared'[h].ent[p] = shared[h].ent[p] /\ shared'[h].evid[p] = shared[h].evid[p]
         /\ shared'[h].seq[p] >= shared[h].seq[p]
         /\ \A n \in Num : shared[h].ent[p][n] # NoEnt => n < shared'[h].seq[p]
<1> DEFINE h == op[i].h  p == op[i].p
<1>1. h \in Host /\ p \in Project
  BY RestoreSequencesFits, OnboardFacts
<1>2. SharedMoves(h) /\ shared'[h].ent = shared[h].ent /\ shared'[h].evid = shared[h].evid
  BY SequencesWrites
<1>3. PICK next \in Nat : /\ shared'[h].seq = [shared[h].seq EXCEPT ![p] = next] /\ next >= shared[h].seq[p]
                          /\ \A n \in Num : shared[h].ent[p][n] # NoEnt => n < next
  BY SequencesWrites
<1>4. shared'[h].seq[p] = next /\ \A q \in Project : q # p => shared'[h].seq[q] = shared[h].seq[q]
  BY <1>1, <1>3, SharedTyped
<1>5. OnlyAt(h, p)
  BY <1>2, <1>4 DEF OnlyAt, SharedMoves
<1> QED BY <1>1, <1>2, <1>3, <1>4, <1>5

LEMMA EditEntityAt ==
  ASSUME Stores, Ops, NEW i \in Proc, EditEntity(i)
  PROVE  LET h == op[i].h  p == op[i].p IN
         \/ Quiet
         \/ /\ h \in Host /\ p \in Project /\ OnlyAt(h, p)
            /\ \E n \in Num, e \in Evidence :
                 /\ \A k \in Num : k # n => shared'[h].ent[p][k] = shared[h].ent[p][k]
                 /\ shared'[h].ent[p][n].rev = shared[h].ent[p][n].rev + 1
                 /\ shared'[h].evid[p] = shared[h].evid[p] \cup {e}
                 /\ e.n = n /\ e.rev = shared'[h].ent[p][n].rev
                 /\ shared[h].ent[p][n] = NoEnt => n = shared[h].seq[p] /\ shared'[h].seq[p] = n + 1
                 /\ shared[h].ent[p][n] # NoEnt => shared'[h].seq[p] = shared[h].seq[p]
<1> DEFINE h == op[i].h  p == op[i].p
<1>1. h \in Host /\ p \in Project
  BY EditingFits, AskedFacts
<1>2. CASE UNCHANGED shared
  BY <1>2 DEF Quiet
<1>3. CASE /\ SharedMoves(h)
           /\ \E n \in Num, next \in Nat, new \in Versions, e \in Evidence :
                LET was == shared[h].ent[p][n] IN
                 /\ shared'[h].ent = [shared[h].ent EXCEPT ![p][n] = new] /\ new.rev = was.rev + 1
                 /\ shared'[h].evid = [shared[h].evid EXCEPT ![p] = shared[h].evid[p] \cup {e}]
                 /\ e.n = n /\ e.rev = new.rev
                 /\ shared'[h].seq = [shared[h].seq EXCEPT ![p] = next]
                 /\ IF was = NoEnt THEN n = shared[h].seq[p] /\ next = n + 1 ELSE next = shared[h].seq[p]
  <2>1. PICK n \in Num, next \in Nat, new \in Versions, e \in Evidence :
                 /\ shared'[h].ent = [shared[h].ent EXCEPT ![p][n] = new]
                      /\ new.rev = shared[h].ent[p][n].rev + 1
                 /\ shared'[h].evid = [shared[h].evid EXCEPT ![p] = shared[h].evid[p] \cup {e}]
                 /\ e.n = n /\ e.rev = new.rev
                 /\ shared'[h].seq = [shared[h].seq EXCEPT ![p] = next]
                 /\ IF shared[h].ent[p][n] = NoEnt THEN n = shared[h].seq[p] /\ next = n + 1
                                                   ELSE next = shared[h].seq[p]
    BY <1>3, Zenon
  <2>2. /\ shared'[h].ent[p][n] = new /\ \A k \in Num : k # n => shared'[h].ent[p][k] = shared[h].ent[p][k]
        /\ \A q \in Project : q # p => shared'[h].ent[q] = shared[h].ent[q]
    <3>1. shared'[h].ent = [shared[h].ent EXCEPT ![p][n] = new] /\ n \in Num
      BY <2>1, Zenon
    <3>2. OneWritten(h, p, n, new)
      BY <3>1, Zenon DEF OneWritten
    <3>3. RestKept(h, p, n, new)
      BY <1>1, <3>1, <3>2, OneEntity, ZenonT(30)
    <3> QED BY <3>3, Zenon DEF RestKept
  <2>3. /\ shared'[h].evid[p] = shared[h].evid[p] \cup {e} /\ shared'[h].seq[p] = next
        /\ \A q \in Project : q # p => shared'[h].evid[q] = shared[h].evid[q]
             /\ shared'[h].seq[q] = shared[h].seq[q]
    <3>1. /\ shared'[h].evid = [shared[h].evid EXCEPT ![p] = shared[h].evid[p] \cup {e}]
          /\ shared'[h].seq = [shared[h].seq EXCEPT ![p] = next]
      BY <2>1, Zenon
    <3>2. /\ shared[h].evid \in [Project -> SUBSET Evidence] /\ shared[h].seq \in [Project -> Nat]
          /\ p \in Project
      BY <1>1, SharedTyped
    <3> QED BY <3>1, <3>2
  <2>4. OnlyAt(h, p)
    BY <1>3, <2>2, <2>3, Zenon DEF OnlyAt, SharedMoves
  <2> QED BY <1>1, <2>1, <2>2, <2>3, <2>4, ZenonT(30)
<1> QED BY <1>2, <1>3, EditEntityWrites, Zenon

\* No step takes an entity back, drops evidence or gives a number out again.
GrowsAt(h, p) ==
  /\ \A n \in Num : shared'[h].ent[p][n].rev >= shared[h].ent[p][n].rev
  /\ shared[h].evid[p] \subseteq shared'[h].evid[p]
  /\ shared'[h].seq[p] >= shared[h].seq[p]
Grows == \A h \in Host, p \in Project : GrowsAt(h, p)

LEMMA OnlyGrows ==
  ASSUME Stores, NEW h \in Host, NEW p \in Project, OnlyAt(h, p), GrowsAt(h, p)
  PROVE  Grows
BY EntitiesNumbered DEF OnlyAt, GrowsAt, Grows

LEMMA NextAbove == \A a \in Nat : \A b : b \in {a, a + 1} => b >= a
OBVIOUS

LEMMA GrowsOne ==
  ASSUME Stores, NEW h \in Host, NEW p \in Project, NEW n \in Num,
         \A k \in Num : k # n => shared'[h].ent[p][k] = shared[h].ent[p][k],
         shared'[h].ent[p][n].rev >= shared[h].ent[p][n].rev,
         shared[h].evid[p] \subseteq shared'[h].evid[p], shared'[h].seq[p] >= shared[h].seq[p]
  PROVE  GrowsAt(h, p)
<1>1. ASSUME NEW k \in Num PROVE shared'[h].ent[p][k].rev >= shared[h].ent[p][k].rev
  <2>1. shared[h].ent[p][k].rev \in Nat
    BY EntitiesNumbered
  <2> QED BY <2>1
<1> QED BY <1>1 DEF GrowsAt

LEMMA GrowsNone ==
  ASSUME Stores, NEW h \in Host, NEW p \in Project, shared'[h].ent[p] = shared[h].ent[p],
         shared[h].evid[p] \subseteq shared'[h].evid[p], shared'[h].seq[p] >= shared[h].seq[p]
  PROVE  GrowsAt(h, p)
<1>1. ASSUME NEW k \in Num PROVE shared'[h].ent[p][k].rev >= shared[h].ent[p][k].rev
  <2>1. shared[h].ent[p][k].rev \in Nat
    BY EntitiesNumbered
  <2> QED BY <2>1
<1> QED BY <1>1 DEF GrowsAt

LEMMA SharedGrows ==
  ASSUME Stores, Ops, ProjectNext
  PROVE  Grows
<1>1. Quiet => Grows
  BY EntitiesNumbered DEF Quiet, Grows, GrowsAt
<1>2. ASSUME NEW i \in Proc, RestorePut(i) PROVE Grows
  <2>1. op[i].h \in Host /\ op[i].p \in Project /\ OnlyAt(op[i].h, op[i].p)
    BY <1>2, RestorePutAt
  <2>2. GrowsAt(op[i].h, op[i].p)
    <3> DEFINE h == op[i].h  p == op[i].p
    <3>1. PICK n \in Num : /\ \A k \in Num : k # n => shared'[h].ent[p][k] = shared[h].ent[p][k]
                           /\ shared'[h].ent[p][n].rev >= shared[h].ent[p][n].rev
      BY <1>2, RestorePutAt, SMTT(30)
    <3>2. shared'[h].evid[p] = shared[h].evid[p] /\ shared'[h].seq[p] = shared[h].seq[p]
      BY <1>2, RestorePutAt, SMTT(30)
    <3>4. shared[h].seq[p] \in Nat
      BY <2>1, EntitiesNumbered
    <3>5. shared[h].evid[p] \subseteq shared'[h].evid[p] /\ shared'[h].seq[p] >= shared[h].seq[p]
      BY <3>2, <3>4
    <3> QED BY <2>1, <3>1, <3>5, GrowsOne, Zenon
  <2> QED BY <2>1, <2>2, OnlyGrows, SMTT(30)
<1>3. ASSUME NEW i \in Proc, EnsureEvidence(i) PROVE Grows
  <2>1. CASE Quiet
    BY <1>1, <2>1
  <2>2. CASE ~Quiet
    <3>1. op[i].h \in Host /\ op[i].p \in Project /\ OnlyAt(op[i].h, op[i].p)
      BY <1>3, <2>2, EnsureEvidenceAt, SMTT(30)
    <3>2. GrowsAt(op[i].h, op[i].p)
      <4> DEFINE h == op[i].h  p == op[i].p
      <4>1. PICK e \in Evidence : shared'[h].evid[p] = shared[h].evid[p] \cup {e}
        BY <1>3, <2>2, EnsureEvidenceAt
      <4>2. shared'[h].ent[p] = shared[h].ent[p] /\ shared'[h].seq[p] = shared[h].seq[p]
        BY <1>3, <2>2, EnsureEvidenceAt
      <4>4. shared[h].seq[p] \in Nat
        BY <3>1, EntitiesNumbered, SMTT(30)
      <4>5. shared[h].evid[p] \subseteq shared'[h].evid[p] /\ shared'[h].seq[p] >= shared[h].seq[p]
        BY <4>1, <4>2, <4>4
      <4> QED BY <3>1, <4>2, <4>5, GrowsNone
    <3> QED BY <3>1, <3>2, OnlyGrows
  <2> QED BY <2>1, <2>2
<1>4. ASSUME NEW i \in Proc, RestoreSequences(i) PROVE Grows
  <2>1. op[i].h \in Host /\ op[i].p \in Project /\ OnlyAt(op[i].h, op[i].p)
    BY <1>4, SequencesAt, SMTT(30)
  <2>2. GrowsAt(op[i].h, op[i].p)
    BY <1>4, <2>1, SequencesAt, EntitiesNumbered, SMTT(30) DEF GrowsAt
  <2> QED BY <2>1, <2>2, OnlyGrows
<1>5. ASSUME NEW i \in Proc, EditEntity(i) PROVE Grows
  <2>1. CASE Quiet
    BY <1>1, <2>1
  <2>2. CASE ~Quiet
    <3>1. op[i].h \in Host /\ op[i].p \in Project /\ OnlyAt(op[i].h, op[i].p)
      BY <1>5, <2>2, EditEntityAt
    <3>2. GrowsAt(op[i].h, op[i].p)
      <4> DEFINE h == op[i].h  p == op[i].p
      <4>1. PICK n \in Num, e \in Evidence :
                 /\ \A k \in Num : k # n => shared'[h].ent[p][k] = shared[h].ent[p][k]
                 /\ shared'[h].ent[p][n].rev = shared[h].ent[p][n].rev + 1
                 /\ shared'[h].evid[p] = shared[h].evid[p] \cup {e}
                 /\ shared[h].ent[p][n] = NoEnt => n = shared[h].seq[p] /\ shared'[h].seq[p] = n + 1
                 /\ shared[h].ent[p][n] # NoEnt => shared'[h].seq[p] = shared[h].seq[p]
        BY <1>5, <2>2, EditEntityAt, Zenon
      <4>3. \A k \in Num : shared[h].ent[p][k].rev \in Nat
        BY <3>1, EntitiesNumbered
      <4>4. shared[h].seq[p] \in Nat
        BY <3>1, EntitiesNumbered, SMTT(30)
      <4>5. shared'[h].ent[p][n].rev >= shared[h].ent[p][n].rev
        <5>1. shared[h].ent[p][n].rev \in Nat
          BY <4>3
        <5>2. shared'[h].ent[p][n].rev = shared[h].ent[p][n].rev + 1
          BY <4>1, ZenonT(30)
        <5> QED BY <5>1, <5>2, NextAbove
      <4>6. shared'[h].seq[p] >= shared[h].seq[p]
        <5>1. shared'[h].seq[p] \in {shared[h].seq[p], shared[h].seq[p] + 1}
          BY <4>1, Zenon
        <5> QED BY <4>4, <5>1, NextAbove
      <4>7. shared[h].evid[p] \subseteq shared'[h].evid[p]
        BY <4>1, Zenon
      <4> QED BY <3>1, <4>1, <4>5, <4>6, <4>7, GrowsOne, ZenonT(30)
    <3> QED BY <3>1, <3>2, OnlyGrows
  <2> QED BY <2>1, <2>2
<1> QED BY <1>1, <1>2, <1>3, <1>4, <1>5, SharedSteps

-----------------------------------------------------------------------------
(* What is known of the entities is kept by every step.                    *)

StalledPcs == {"family", "put", "evidence", "failed", "crashed"}

\* A restore that is under way, or was cut short, only ends with its sequences.
LEMMA StalledSteps ==
  ASSUME NEW i \in Proc, OpStep(i), op[i].pc \in StalledPcs
  PROVE  RestoreEntity(i) \/ RestorePut(i) \/ RestoreEvidence(i) \/ EnsureEvidence(i) \/ RestoreSequences(i)
<1>1. ASSUME Onboarding(i)
      PROVE  RestoreEntity(i) \/ RestorePut(i) \/ RestoreEvidence(i) \/ EnsureEvidence(i)
               \/ RestoreSequences(i)
  BY <1>1, Zenon DEF Onboarding, StalledPcs, OpAt, AdminRepository, Discover, ReadHubOnboardProject,
     HubRevision,
     ProjectRegister, Registers, ProjectIdentifiersAdopt, Adopts, RollbackOnboardHub, Unregisters,
     PublishRegistry, AdoptHub, ReconcileReads, Canonicalizes,
     BootstrapChecks, BootstrapBatch, RestoreSnapshot, Verify, EnsureDetached
<1>2. ~Editing(i)
  BY Zenon DEF Editing, StalledPcs, OpAt, Preflight, UpdateProjectCode, HubCode, ChangesCode,
     RollbackProjectCode, RevertsCode, RestoreConf, ConfigurationReads, MutateProjectConfiguration, EditEntity
<1>3. ~Retiring(i)
  BY Zenon DEF Retiring, StalledPcs, OpAt, RetireReads, DebugRetireProject, BeginLocalProjectRetirement,
     RetireSharedReads,
     RetireSharedProject, ImportReads, ImportSharedProjectRetirement, PublishHubProjectRetirement,
     PublishesMarker, MarkOutboxPublished, RegistryLoads, RemoveManagedProject
<1>4. ~Syncing(i) /\ ~EnsureAdminWorker(i)
  BY Zenon DEF Syncing, StalledPcs, OpAt, HubSnapshot, NextLoop, NextRecord,
     MigrateProjectConfiguration, MigrateHub, MigratesHub, EnsureAdminWorker
<1> QED BY <1>1, <1>2, <1>3, <1>4 DEF OpStep

LEMMA UnrestoredStays ==
  ASSUME Stores, Ops, ProjectNext, NEW h \in Host, NEW p \in Project, Unrestored(h, p)
  PROVE  Unrestored(h, p)' \/ \E i \in Proc : RestoreSequences(i) /\ op[i].h = h /\ op[i].p = p
<1>1. PICK j \in Slot : /\ op[j].kind \in {"onboard", "admin"} /\ op[j].h = h /\ op[j].p = p
                        /\ op[j].pc \in StalledPcs
  BY DEF Unrestored, StalledPcs
<1>2. j \in Proc
  BY DEF Proc
<1>3. ASSUME Same(op[j], op'[j]), op'[j].pc \in StalledPcs PROVE Unrestored(h, p)'
  BY <1>1, <1>3 DEF Unrestored, StalledPcs, Same
<1>4. ASSUME op'[j] = op[j] PROVE Unrestored(h, p)'
  BY <1>1, <1>4 DEF Unrestored, StalledPcs
<1>5. ASSUME OpStep(j) \/ Fault(j) PROVE Unrestored(h, p)' \/ RestoreSequences(j)
  <2>1. ~Fault(j)
    BY <1>1 DEF Fault, HubFails, LocalFails, RestoreFails, MigrationFails, OpAt, StalledPcs
  <2>2. Same(op[j], op'[j])
    BY <1>2, <1>5, StepFits, SMTT(30)
  <2>3. RestoreEntity(j) \/ RestorePut(j) \/ RestoreEvidence(j) \/ EnsureEvidence(j)
          => op'[j].pc \in StalledPcs
    BY <1>2, RestoreEntityFits, RestorePutFits, RestoreEvidenceFits, EnsureEvidenceFits DEF
       StalledPcs
  <2> QED BY <1>1, <1>2, <1>3, <1>5, <2>1, <2>2, <2>3, StalledSteps
<1>6. ASSUME NEW i \in Proc, OpStep(i) \/ Fault(i), MovesOp(i)
      PROVE  Unrestored(h, p)' \/ (RestoreSequences(j) /\ j = i)
  BY <1>2, <1>4, <1>5, <1>6, MovesOpIs
<1>7. ASSUME NEW g \in Host, Crash(g) PROVE Unrestored(h, p)'
  <2>1. op'[j] = op[j] \/ (op'[j].pc = "crashed" /\ Same(op[j], op'[j]))
    BY <1>2, <1>7, CrashFits
  <2> QED BY <1>3, <1>4, <2>1 DEF StalledPcs
<1>8. ASSUME UNCHANGED op PROVE Unrestored(h, p)'
  BY <1>4, <1>8
<1> QED BY <1>1, <1>2, <1>6, <1>7, <1>8, OpMoves

\* The Hub learns of an entity from a Shared row that is ahead of it.
LEMMA HubEntSteps ==
  ASSUME Stores, Ops, ProjectNext
  PROVE  hub'.ent = hub.ent \/ \E h \in Host, p \in Project : PublishEntity(h, p)
<1>1. KeepsMarkers => hub'.ent = hub.ent
  BY DEF KeepsMarkers, KeepsEntities
<1>2. HubRetiresOne => hub'.ent = hub.ent
  BY DEF HubRetiresOne, KeepsEntities
<1>3. ASSUME NEW i \in Proc, Registers(i) PROVE hub'.ent = hub.ent
  BY <1>1, <1>3, ProjectRegisterHub
<1>4. ASSUME NEW i \in Proc, Adopts(i) PROVE hub'.ent = hub.ent
  BY <1>1, <1>4, AdoptHubWrites
<1>5. ASSUME NEW i \in Proc, Unregisters(i) PROVE hub'.ent = hub.ent
  BY <1>1, <1>5, RollbackOnboardHubWrites
<1>6. ASSUME NEW i \in Proc, ChangesCode(i) PROVE hub'.ent = hub.ent
  BY <1>1, <1>6, HubCodeWrites
<1>7. ASSUME NEW i \in Proc, RevertsCode(i) PROVE hub'.ent = hub.ent
  BY <1>1, <1>7, RollbackCodeWrites
<1> QED BY <1>1, <1>2, <1>3, <1>4, <1>5, <1>6, <1>7, HubSteps DEF WritesCode

HubNumbered == \A p \in Project, n \in Num : hub.ent[p][n] # NoEnt => hub.ent[p][n].rev > 0

LEMMA HubNumberedNext ==
  ASSUME Stores, Ops, ProjectNext, HubNumbered
  PROVE  HubNumbered'
<1>1. ASSUME NEW h \in Host, NEW p \in Project, PublishEntity(h, p) PROVE HubNumbered'
  <2>1. PICK n \in Num : /\ hub.ent[p][n].rev < shared[h].ent[p][n].rev
                         /\ hub'.ent = [hub.ent EXCEPT ![p][n] = shared[h].ent[p][n]]
    BY <1>1, EntityHubWrites
  <2>2. hub.ent[p][n].rev \in Nat /\ shared[h].ent[p][n].rev \in Nat
    BY HubTyped, EntitiesNumbered DEF Versions
  <2>3. shared[h].ent[p][n].rev > 0
    BY <2>1, <2>2
  <2>4. /\ hub'.ent[p][n] = shared[h].ent[p][n]
        /\ \A q \in Project, k \in Num : ~(q = p /\ k = n) => hub'.ent[q][k] = hub.ent[q][k]
    BY <2>1, HubTyped
  <2> QED BY <2>3, <2>4 DEF HubNumbered
<1>2. ASSUME hub'.ent = hub.ent PROVE HubNumbered'
  BY <1>2 DEF HubNumbered
<1> QED BY <1>1, <1>2, HubEntSteps

EvidenceKnown == \A h \in Host, p \in Project : \A e \in shared[h].evid[p] : ~Ahead(shared[h], p, e)

LEMMA EvidenceKnownNext ==
  ASSUME Stores, Ops, ProjectNext, EvidenceKnown
  PROVE  EvidenceKnown'
<1>0. Grows
  BY SharedGrows
<1>1. ASSUME NEW h \in Host, NEW p \in Project, NEW e \in Evidence, ~Ahead(shared[h], p, e)
      PROVE  ~Ahead(shared'[h], p, e)
  <2>1. CASE e.kind = "relation"
    BY <2>1 DEF Ahead
  <2>2. CASE e.kind # "relation"
    <3>1. e.n \in Num /\ e.rev \in Nat
      BY DEF Evidence
    <3>2. shared[h].ent[p][e.n].rev \in Nat /\ ~(shared[h].ent[p][e.n].rev < e.rev)
      BY <1>1, <2>2, <3>1, EntitiesNumbered DEF Ahead
    <3>3. shared'[h].ent[p][e.n].rev >= shared[h].ent[p][e.n].rev /\ shared'[h].ent[p][e.n].rev \in Nat
      <4>1. shared'[h] \in SharedStore
        BY SharedNext
      <4>2. shared'[h].ent[p][e.n].rev \in Nat
        BY <3>1, <4>1 DEF SharedStore, Versions
      <4> QED BY <1>0, <3>1, <4>2 DEF Grows, GrowsAt
    <3>4. ~(shared'[h].ent[p][e.n].rev < e.rev)
      BY <3>1, <3>2, <3>3
    <3> QED BY <3>4 DEF Ahead
  <2> QED BY <2>1, <2>2
<1>2. ASSUME NEW h \in Host, NEW p \in Project, shared'[h].evid[p] = shared[h].evid[p]
      PROVE  \A e \in shared'[h].evid[p] : ~Ahead(shared'[h], p, e)
  BY <1>1, <1>2, EntitiesNumbered DEF EvidenceKnown
<1>3. ASSUME NEW h \in Host, NEW p \in Project, NEW d \in Evidence, ~Ahead(shared'[h], p, d),
             shared'[h].evid[p] = shared[h].evid[p] \cup {d}
      PROVE  \A e \in shared'[h].evid[p] : ~Ahead(shared'[h], p, e)
  BY <1>1, <1>3, EntitiesNumbered DEF EvidenceKnown
<1>4. ASSUME NEW h \in Host, NEW p \in Project, OnlyAt(h, p),
             \A e \in shared'[h].evid[p] : ~Ahead(shared'[h], p, e)
      PROVE  EvidenceKnown'
  BY <1>2, <1>4 DEF OnlyAt, EvidenceKnown
<1>5. Quiet => EvidenceKnown'
  BY <1>2 DEF Quiet, EvidenceKnown
<1>6. ASSUME NEW i \in Proc, RestorePut(i) PROVE EvidenceKnown'
  <2>1. op[i].h \in Host /\ op[i].p \in Project /\ OnlyAt(op[i].h, op[i].p)
        /\ shared'[op[i].h].evid[op[i].p] = shared[op[i].h].evid[op[i].p]
    BY <1>6, RestorePutAt
  <2> QED BY <1>2, <1>4, <2>1, SMTT(30)
<1>7. ASSUME NEW i \in Proc, RestoreSequences(i) PROVE EvidenceKnown'
  <2>1. op[i].h \in Host /\ op[i].p \in Project /\ OnlyAt(op[i].h, op[i].p)
        /\ shared'[op[i].h].evid[op[i].p] = shared[op[i].h].evid[op[i].p]
    BY <1>7, SequencesAt
  <2> QED BY <1>2, <1>4, <2>1
<1>8. ASSUME NEW i \in Proc, EnsureEvidence(i), ~Quiet PROVE EvidenceKnown'
  <2>1. op[i].h \in Host /\ op[i].p \in Project /\ OnlyAt(op[i].h, op[i].p)
    BY <1>8, EnsureEvidenceAt
  <2>2. PICK e \in Evidence : /\ ~Ahead(shared[op[i].h], op[i].p, e)
                              /\ shared'[op[i].h].evid[op[i].p] = shared[op[i].h].evid[op[i].p] \cup {e}
    BY <1>8, EnsureEvidenceAt
  <2> QED BY <1>1, <1>3, <1>4, <2>1, <2>2
<1>9. ASSUME NEW i \in Proc, EditEntity(i), ~Quiet PROVE EvidenceKnown'
  <2>1. op[i].h \in Host /\ op[i].p \in Project /\ OnlyAt(op[i].h, op[i].p)
    BY <1>9, EditEntityAt, SMTT(30)
  <2>2. PICK n \in Num, e \in Evidence :
          /\ shared'[op[i].h].evid[op[i].p] = shared[op[i].h].evid[op[i].p] \cup {e}
          /\ e.n = n /\ e.rev = shared'[op[i].h].ent[op[i].p][n].rev
    BY <1>9, EditEntityAt, SMTT(30)
  <2>3. e.rev \in Nat
    BY DEF Evidence
  <2>4. ~Ahead(shared'[op[i].h], op[i].p, e)
    BY <2>2, <2>3 DEF Ahead
  <2> QED BY <1>3, <1>4, <2>1, <2>2, <2>4, SMTT(30)
<1> QED BY <1>5, <1>6, <1>7, <1>8, <1>9, SharedSteps

NumberedBelow(h, p) == \A n \in Num : shared[h].ent[p][n] # NoEnt => n < shared[h].seq[p]

LEMMA NumberedBelowNext ==
  ASSUME Stores, Ops, ProjectNext, NEW h \in Host, NEW p \in Project,
         \/ NumberedBelow(h, p) /\ ~\E i \in Proc : RestorePut(i) /\ op[i].h = h /\ op[i].p = p
         \/ \E i \in Proc : RestoreSequences(i) /\ op[i].h = h /\ op[i].p = p
  PROVE  NumberedBelow(h, p)'
<1>0. shared[h].seq[p] \in Nat /\ Num \subseteq Nat
  BY EntitiesNumbered, ProjectLifecycleAssumption
<1>1. ASSUME NEW i \in Proc, RestoreSequences(i), op[i].h = h, op[i].p = p PROVE NumberedBelow(h, p)'
  BY <1>1, SequencesAt DEF NumberedBelow
<1>2. ASSUME NumberedBelow(h, p), shared'[h].ent[p] = shared[h].ent[p], shared'[h].seq[p] = shared[h].seq[p]
      PROVE  NumberedBelow(h, p)'
  BY <1>2 DEF NumberedBelow
<1>3. ASSUME NumberedBelow(h, p), Quiet PROVE NumberedBelow(h, p)'
  BY <1>2, <1>3 DEF Quiet
<1>4. ASSUME NumberedBelow(h, p), NEW g \in Host, NEW q \in Project, OnlyAt(g, q), ~(g = h /\ q = p)
      PROVE  NumberedBelow(h, p)'
  <2>1. shared'[h].ent[p] = shared[h].ent[p] /\ shared'[h].seq[p] = shared[h].seq[p]
    BY <1>4 DEF OnlyAt
  <2> QED BY <1>2, <1>4, <2>1
<1>5. ASSUME NumberedBelow(h, p), NEW i \in Proc, EnsureEvidence(i) PROVE NumberedBelow(h, p)'
  BY <1>2, <1>3, <1>4, <1>5, EnsureEvidenceAt
<1>6. ASSUME NumberedBelow(h, p), NEW i \in Proc, RestoreSequences(i) PROVE NumberedBelow(h, p)'
  BY <1>1, <1>4, <1>6, SequencesAt, SMTT(30)
<1>7. ASSUME NumberedBelow(h, p), NEW i \in Proc, RestorePut(i), ~(op[i].h = h /\ op[i].p = p)
      PROVE  NumberedBelow(h, p)'
  BY <1>4, <1>7, RestorePutAt
<1>8. ASSUME NumberedBelow(h, p), NEW i \in Proc, EditEntity(i) PROVE NumberedBelow(h, p)'
  <2>1. CASE Quiet
    BY <1>3, <1>8, <2>1, SMTT(30)
  <2>2. CASE ~(op[i].h = h /\ op[i].p = p) /\ ~Quiet
    BY <1>4, <1>8, <2>2, EditEntityAt
  <2>3. CASE op[i].h = h /\ op[i].p = p /\ ~Quiet
    <3>1. PICK n \in Num, e \in Evidence :
                 /\ \A k \in Num : k # n => shared'[h].ent[p][k] = shared[h].ent[p][k]
                 /\ shared[h].ent[p][n] = NoEnt => n = shared[h].seq[p] /\ shared'[h].seq[p] = n + 1
                 /\ shared[h].ent[p][n] # NoEnt => shared'[h].seq[p] = shared[h].seq[p]
      BY <1>8, <2>3, EditEntityAt, ZenonT(30)
    <3>2. CASE shared[h].ent[p][n] = NoEnt
      <4>1. n = shared[h].seq[p] /\ shared'[h].seq[p] = n + 1 /\ n \in Nat
        BY <1>0, <3>1, <3>2
      <4>2. ASSUME NEW k \in Num, shared'[h].ent[p][k] # NoEnt PROVE k < shared'[h].seq[p]
        <5>1. CASE k = n
          BY <4>1, <5>1
        <5>2. CASE k # n
          <6>1. k < shared[h].seq[p] /\ k \in Nat
            BY <1>0, <1>8, <3>1, <4>2, <5>2 DEF NumberedBelow
          <6> QED BY <4>1, <6>1
        <5> QED BY <5>1, <5>2
      <4> QED BY <4>2 DEF NumberedBelow
    <3>3. CASE shared[h].ent[p][n] # NoEnt
      <4>1. shared'[h].seq[p] = shared[h].seq[p]
        BY <3>1, <3>3
      <4>2. ASSUME NEW k \in Num, shared'[h].ent[p][k] # NoEnt PROVE shared[h].ent[p][k] # NoEnt
        BY <3>1, <3>3, <4>2
      <4> QED BY <1>8, <4>1, <4>2 DEF NumberedBelow
    <3> QED BY <3>2, <3>3, SMTT(30)
  <2> QED BY <2>1, <2>2, <2>3
<1> QED BY <1>1, <1>3, <1>5, <1>6, <1>7, <1>8, SharedSteps

LEMMA NumbersKnownNext ==
  ASSUME Stores, Ops, ProjectNext, NumbersKnown
  PROVE  NumbersKnown'
<1>1. HubNumbered' /\ EvidenceKnown'
  BY HubNumberedNext, EvidenceKnownNext DEF NumbersKnown, HubNumbered, EvidenceKnown
<1>2. ASSUME NEW h \in Host, NEW p \in Project
      PROVE  Unrestored(h, p)' \/ NumberedBelow(h, p)'
  <2>1. Unrestored(h, p) \/ NumberedBelow(h, p)
    BY DEF NumbersKnown, NumberedBelow
  <2>2. ASSUME NEW i \in Proc, RestorePut(i), op[i].h = h, op[i].p = p PROVE Unrestored(h, p)
    <3>1. i \in Slot /\ op[i].kind \in {"onboard", "admin"} /\ op[i].pc = "put"
      BY <2>2, RestorePutFits, OnboardFacts DEF Onboards
    <3> QED BY <2>2, <3>1 DEF Unrestored
  <2>3. ASSUME Unrestored(h, p) PROVE Unrestored(h, p)' \/ NumberedBelow(h, p)'
    BY <2>3, UnrestoredStays, NumberedBelowNext
  <2> QED BY <2>1, <2>2, <2>3, NumberedBelowNext
<1> QED BY <1>1, <1>2 DEF NumbersKnown, NumberedBelow, HubNumbered, EvidenceKnown

LEMMA EditingNotOnboards ==
  ASSUME Stores, Ops, NEW i \in Proc, Editing(i)
  PROVE  op[i].kind \notin Onboards
BY PreflightFits, UpdateProjectCodeFits, HubCodeFits, RollbackProjectCodeFits, RestoreConfFits,
   ConfigurationReadsFits,
   EditingFits, ZenonT(30) DEF Editing, Onboards

-----------------------------------------------------------------------------
(* What a restore has done stays done.                                     *)

\* What has been restored in the next state.
ReachedNext(i, n) ==
  op'[i].seen.ent[n] # NoEnt => /\ op'[i].seen.ent[n].rev > 0
                                /\ shared'[op'[i].h].ent[op'[i].p][n].rev >= op'[i].seen.ent[n].rev

LEMMA SeenNumbered ==
  ASSUME Ops, NEW i \in Slot, op[i].kind \in Onboards, NEW n \in Num,
         op[i].pc \in RestorePcs \/ (op[i].pc \in AnswerPcs /\ op[i].seen # None)
  PROVE  /\ op[i].h \in Host /\ op[i].p \in Project /\ op[i].seen \in Snapshots
         /\ op[i].seen.ent[n].rev \in Nat
<1>1. i \in Proc
  BY DEF Proc
<1>2. op[i].seen \in Snapshots
  BY <1>1, OpsFit DEF OpFits, SnapFits, OrNone
<1> QED BY <1>1, <1>2, OnboardFacts DEF Snapshots, Versions

\* What a request has reached it keeps, whatever the others do.
LEMMA RestoredToStays ==
  ASSUME Stores, Ops, Grows, shared' \in [Host -> SharedStore], NEW i \in Slot, NEW n \in Num,
      op[i].kind \in Onboards,
         op[i].pc \in RestorePcs, op'[i].h = op[i].h, op'[i].p = op[i].p, op'[i].seen = op[i].seen,
             RestoredTo(op[i], n)
  PROVE  ReachedNext(i, n)
<1> DEFINE h == op[i].h  p == op[i].p  r == op[i].seen.ent[n].rev
<1>1. h \in Host /\ p \in Project /\ r \in Nat
  BY SeenNumbered
<1>2. /\ shared[h].ent[p][n].rev \in Nat /\ shared'[h].ent[p][n].rev \in Nat
      /\ shared'[h].ent[p][n].rev >= shared[h].ent[p][n].rev
  BY <1>1, EntitiesNumbered DEF Grows, GrowsAt, SharedStore, Versions
<1>3. op[i].seen.ent[n] # NoEnt => r > 0 /\ shared[h].ent[p][n].rev >= r
  BY SMTT(30) DEF RestoredTo
<1>4. op[i].seen.ent[n] # NoEnt => r > 0 /\ shared'[h].ent[p][n].rev >= r
  BY <1>1, <1>2, <1>3, SMTT(30)
<1> QED BY <1>4 DEF ReachedNext

\* The progress of a request in the next state.
ProgressNext(i) ==
  LET o == op'[i] IN
  /\ o.pc \in RestorePcs => \A n \in Num : o.seen.ent[n] # NoEnt => o.seen.ent[n].rev > 0
  /\ o.pc \in {"family", "put"} =>
       \A n \in Num : n \notin o.todo /\ (o.pc = "put" => n \notin o.plan) => ReachedNext(i, n)
  /\ o.pc = "evidence" =>
       /\ \A n \in Num : ReachedNext(i, n)
       /\ \A e \in o.seen.evid : e \notin o.todo => e \in shared'[o.h].evid[o.p]
  /\ o.pc \in AnswerPcs /\ o.kind \in Onboards /\ o.seen # None =>
       /\ o.seen.evid \subseteq shared'[o.h].evid[o.p]
       /\ \A n \in Num : o.seen.ent[n] # NoEnt => shared'[o.h].ent[o.p][n].rev >= o.seen.ent[n].rev
                                                 /\ n < shared'[o.h].seq[o.p]

LEMMA ProgressIs ==
  ASSUME \A i \in Slot : ProgressNext(i) PROVE Progress'
BY DEF ProgressNext, ReachedNext, Progress, ProgressOf, RestoredTo

LEMMA AboveAbove == \A a, b, c \in Nat : (a >= b /\ b >= c => a >= c) /\ (c < b /\ a >= b => c < a)
BY SMTT(30)

\* A request that goes on with its answer, or waits.
LEMMA AnswerStays ==
  ASSUME Stores, Ops, Progress, Grows, shared' \in [Host -> SharedStore], NEW i \in Slot,
         op[i].kind \in Onboards, op[i].pc \in AnswerPcs, Same(op[i], op'[i]), op'[i].seen = op[i].seen,
         op'[i].pc \in AnswerPcs
  PROVE  ProgressNext(i)
<1> DEFINE o == op[i]  h == o.h  p == o.p
<1>1. op'[i].h = h /\ op'[i].p = p /\ op'[i].pc \notin RestorePcs
  BY DEF Same, AnswerPcs, RestorePcs
<1>2. ASSUME o.seen # None
      PROVE  /\ o.seen.evid \subseteq shared'[h].evid[p]
             /\ \A n \in Num : o.seen.ent[n] # NoEnt => shared'[h].ent[p][n].rev >= o.seen.ent[n].rev
                                                       /\ n < shared'[h].seq[p]
  <2>1. /\ o.seen.evid \subseteq shared[h].evid[p]
        /\ \A n \in Num : o.seen.ent[n] # NoEnt => shared[h].ent[p][n].rev >= o.seen.ent[n].rev
                                                  /\ n < shared[h].seq[p]
    BY <1>2 DEF Progress, ProgressOf
  <2>2. h \in Host /\ p \in Project
    BY OnboardFacts DEF Proc
  <2>3. shared[h].evid[p] \subseteq shared'[h].evid[p] /\ shared'[h].seq[p] >= shared[h].seq[p]
        /\ shared'[h].seq[p] \in Nat /\ shared[h].seq[p] \in Nat
    BY <2>2, EntitiesNumbered DEF Grows, GrowsAt, SharedStore
  <2>4. ASSUME NEW n \in Num, o.seen.ent[n] # NoEnt
        PROVE  shared'[h].ent[p][n].rev >= o.seen.ent[n].rev /\ n < shared'[h].seq[p]
    <3>1. shared[h].ent[p][n].rev >= o.seen.ent[n].rev /\ n < shared[h].seq[p]
      BY <2>1, <2>4
    <3>2. o.seen.ent[n].rev \in Nat /\ n \in Nat
      BY <1>2, SeenNumbered, ProjectLifecycleAssumption, SMTT(30)
    <3>3. shared[h].ent[p][n].rev \in Nat /\ shared'[h].ent[p][n].rev \in Nat
          /\ shared'[h].ent[p][n].rev >= shared[h].ent[p][n].rev
      BY <2>2, EntitiesNumbered, SMTT(30) DEF Grows, GrowsAt, SharedStore, Versions
    <3>4. shared'[h].ent[p][n].rev >= o.seen.ent[n].rev
      BY <3>1, <3>2, <3>3, AboveAbove, SMTT(30)
    <3>5. n < shared'[h].seq[p]
      BY <2>3, <3>1, <3>2, AboveAbove
    <3> QED BY <3>4, <3>5
  <2> QED BY <2>1, <2>3, <2>4, ZenonT(30)
<1>3. op'[i].pc \notin {"family", "put"} /\ op'[i].pc # "evidence"
  BY <1>1 DEF RestorePcs
<1> QED BY <1>1, <1>2, <1>3 DEF ProgressNext

\* A request that does not restore, and has not.
LEMMA NoProgress ==
  ASSUME NEW i \in Slot, op'[i].pc \notin RestorePcs,
         op'[i].pc \notin AnswerPcs \/ op'[i].kind \notin Onboards \/ op'[i].seen = None
  PROVE  ProgressNext(i)
BY DEF ProgressNext, RestorePcs

LEMMA Waits ==
  ASSUME Stores, Ops, Progress, Grows, shared' \in [Host -> SharedStore], NEW i \in Slot, op'[i] = op[i]
  PROVE  ProgressNext(i)
<1>1. i \in Proc /\ KindFits(op[i])
  BY OpsFit DEF Proc, OpFits
<1>2. CASE op[i].pc \in AnswerPcs /\ op[i].kind \in Onboards
  BY <1>2, AnswerStays DEF Same
<1>3. CASE op[i].pc \notin RestorePcs /\ ~(op[i].pc \in AnswerPcs /\ op[i].kind \in Onboards)
  BY <1>3, NoProgress, SMTT(30)
<1>4. CASE op[i].pc \in RestorePcs
  <2>1. op[i].kind \in Onboards /\ op[i].h \in Host /\ op[i].p \in Project /\ op[i].pc \notin AnswerPcs
    BY <1>1, <1>4, OnboardFacts DEF KindFits, RestorePcs, AnswerPcs
  <2>2. \A n \in Num : RestoredTo(op[i], n) => ReachedNext(i, n)
    BY <1>4, <2>1, RestoredToStays
  <2>3. shared[op[i].h].evid[op[i].p] \subseteq shared'[op[i].h].evid[op[i].p]
    BY <2>1 DEF Grows, GrowsAt
  <2>4. ProgressOf(op[i])
    BY DEF Progress
  <2> QED BY <1>4, <2>1, <2>2, <2>3, <2>4 DEF ProgressNext, ProgressOf
<1> QED BY <1>2, <1>3, <1>4

LEMMA SnapshotProgress ==
  ASSUME Stores, Ops, HubNumbered, NEW i \in Slot, RestoreSnapshot(i)
  PROVE  ProgressNext(i)
<1>1. i \in Proc /\ op[i].p \in Project
  BY RestoreSnapshotFits, OnboardFacts DEF Proc
<1>2. CASE op'[i].pc = "verify" /\ op'[i].seen = None
  BY <1>2, NoProgress DEF RestorePcs
<1>3. CASE /\ op'[i].pc = "family"
           /\ op'[i].seen = [ent |-> hub.ent[op[i].p], evid |-> hub.evid[op[i].p], next |-> hub.next[op[i].p]]
           /\ op'[i].todo = {n \in Num : hub.ent[op[i].p][n] # NoEnt}
  <2>1. op'[i].seen.ent = hub.ent[op[i].p]
    BY <1>3
  <2>2. \A n \in Num : op'[i].seen.ent[n] # NoEnt => op'[i].seen.ent[n].rev > 0
    BY <1>1, <2>1 DEF HubNumbered
  <2>3. \A n \in Num : n \notin op'[i].todo => ReachedNext(i, n)
    BY <1>3, <2>1, SMTT(30) DEF ReachedNext
  <2> QED BY <1>3, <2>2, <2>3 DEF ProgressNext, AnswerPcs
<1> QED BY <1>1, <1>2, <1>3, RestoreSnapshotFits

LEMMA EntityProgress ==
  ASSUME Stores, Ops, Progress, Grows, shared' \in [Host -> SharedStore], NEW i \in Slot, RestoreEntity(i)
  PROVE  ProgressNext(i)
<1> DEFINE o == op[i]  m == Min(o.todo)
<1>0. i \in Proc
  BY DEF Proc
<1>1. o.pc = "family" /\ o.kind \in Onboards /\ Same(o, op'[i]) /\ m \in o.todo /\ o.todo \subseteq Num
  BY <1>0, RestoreEntityFits DEF Onward
<1>2. \A n \in Num : o.seen.ent[n] # NoEnt => o.seen.ent[n].rev > 0
  BY <1>1 DEF Progress, ProgressOf, RestorePcs
<1>3. \A n \in Num : n \notin o.todo => RestoredTo(o, n)
  BY <1>1 DEF Progress, ProgressOf
<1>4. ASSUME op'[i].seen = o.seen PROVE \A n \in Num : RestoredTo(o, n) => ReachedNext(i, n)
  BY <1>1, <1>4, RestoredToStays DEF Same, RestorePcs
<1> HIDE DEF m
<1>5. CASE op'[i].pc = "failed"
  BY <1>5, NoProgress DEF RestorePcs, AnswerPcs
<1>6. CASE op'[i].pc = "put" /\ op'[i].seen = o.seen /\ op'[i].todo = o.todo \ {m} /\ op'[i].plan = {m}
  BY <1>1, <1>2, <1>3, <1>4, <1>6 DEF ProgressNext, AnswerPcs
<1>7. CASE /\ op'[i].pc = "family" /\ op'[i].seen = o.seen /\ op'[i].todo = o.todo \ {m}
           /\ LET theirs == o.seen.ent[m]  ours == shared[o.h].ent[o.p][m] IN theirs.rev < ours.rev
                \/ theirs = ours
  <2>1. RestoredTo(o, m)
    <3>1. o.h \in Host /\ o.p \in Project /\ o.seen.ent[m].rev \in Nat /\ m \in Num
      BY <1>1, SeenNumbered DEF RestorePcs
    <3>2. shared[o.h].ent[o.p][m].rev \in Nat
      BY <3>1, EntitiesNumbered
    <3>3. shared[o.h].ent[o.p][m].rev >= o.seen.ent[m].rev
      BY <1>7, <3>1, <3>2, SMTT(30)
    <3> QED BY <1>2, <3>1, <3>3 DEF RestoredTo
  <2> QED BY <1>1, <1>2, <1>3, <1>4, <1>7, <2>1, Zenon DEF ProgressNext, AnswerPcs
<1> QED BY <1>0, <1>5, <1>6, <1>7, RestoreEntityFits DEF m

LEMMA PutProgress ==
  ASSUME Stores, Ops, Progress, Grows, shared' \in [Host -> SharedStore], NEW i \in Slot, RestorePut(i)
  PROVE  ProgressNext(i)
<1> DEFINE o == op[i]
<1>0. i \in Proc
  BY DEF Proc
<1>1. /\ o.pc = "put" /\ o.kind \in Onboards /\ Same(o, op'[i]) /\ op'[i].pc = "family"
      /\ op'[i].seen = o.seen /\ op'[i].todo = o.todo
  BY <1>0, RestorePutFits DEF Onward
<1>2. \A n \in Num : o.seen.ent[n] # NoEnt => o.seen.ent[n].rev > 0
  BY <1>1 DEF Progress, ProgressOf, RestorePcs
<1>3. \A n \in Num : n \notin o.todo /\ n \notin o.plan => RestoredTo(o, n)
  BY <1>1 DEF Progress, ProgressOf
<1>4. \A n \in Num : RestoredTo(o, n) => ReachedNext(i, n)
  BY <1>1, RestoredToStays, SMTT(30) DEF Same, RestorePcs
<1>5. PICK n \in Num : o.plan = {n} /\ shared'[o.h].ent[o.p][n].rev >= o.seen.ent[n].rev
  BY <1>0, RestorePutAt
<1>6. ReachedNext(i, n)
  BY <1>1, <1>2, <1>5 DEF ReachedNext, Same
<1> QED BY <1>1, <1>2, <1>3, <1>4, <1>5, <1>6 DEF ProgressNext, AnswerPcs

LEMMA EvidenceProgress ==
  ASSUME Stores, Ops, Progress, Grows, shared' \in [Host -> SharedStore], NEW i \in Slot,
         RestoreEvidence(i) \/ EnsureEvidence(i)
  PROVE  ProgressNext(i)
<1> DEFINE o == op[i]
<1>0. i \in Proc
  BY DEF Proc
<1>1. CASE RestoreEvidence(i)
  <2>1. /\ o.pc = "family" /\ o.kind \in Onboards /\ Same(o, op'[i]) /\ op'[i].pc = "evidence"
        /\ o.todo = {} /\ op'[i].seen = o.seen /\ op'[i].todo = o.seen.evid
    BY <1>0, <1>1, RestoreEvidenceFits DEF Onward
  <2>2. \A n \in Num : o.seen.ent[n] # NoEnt => o.seen.ent[n].rev > 0
    BY <2>1 DEF Progress, ProgressOf, RestorePcs
  <2>3. \A n \in Num : RestoredTo(o, n)
    BY <2>1 DEF Progress, ProgressOf
  <2>4. \A n \in Num : RestoredTo(o, n) => ReachedNext(i, n)
    BY <2>1, RestoredToStays DEF Same, RestorePcs
  <2> QED BY <2>1, <2>2, <2>3, <2>4 DEF ProgressNext, AnswerPcs
<1>2. CASE EnsureEvidence(i) /\ op'[i].pc = "failed"
  BY <1>2, NoProgress DEF RestorePcs, AnswerPcs
<1>3. CASE EnsureEvidence(i) /\ op'[i].pc # "failed"
  <2>1. o.pc = "evidence" /\ o.kind \in Onboards /\ Same(o, op'[i])
    BY <1>0, <1>3, EnsureEvidenceFits DEF Onward
  <2>2. o.h \in Host /\ o.p \in Project /\ op'[i].pc = "evidence" /\ op'[i].seen = o.seen
    BY <1>0, <1>3, EnsureEvidenceAt
  <2>3. PICK e \in Evidence : /\ shared'[o.h].evid[o.p] = shared[o.h].evid[o.p] \cup {e}
                              /\ op'[i].todo = o.todo \ {e}
    BY <1>0, <1>3, EnsureEvidenceAt
  <2>4. \A n \in Num : o.seen.ent[n] # NoEnt => o.seen.ent[n].rev > 0
    BY <2>1 DEF Progress, ProgressOf, RestorePcs
  <2>5. (\A n \in Num : RestoredTo(o, n)) /\ \A d \in o.seen.evid : d \notin o.todo
          => d \in shared[o.h].evid[o.p]
    BY <2>1 DEF Progress, ProgressOf
  <2>6. \A n \in Num : RestoredTo(o, n) => ReachedNext(i, n)
    BY <2>1, <2>2, RestoredToStays DEF Same, RestorePcs
  <2>7. \A d \in o.seen.evid : d \notin op'[i].todo => d \in shared'[o.h].evid[o.p]
    BY <2>3, <2>5
  <2> QED BY <2>1, <2>2, <2>4, <2>5, <2>6, <2>7 DEF ProgressNext, AnswerPcs, Same
<1> QED BY <1>1, <1>2, <1>3

LEMMA SequencesProgress ==
  ASSUME Stores, Ops, Progress, NEW i \in Slot, RestoreSequences(i)
  PROVE  ProgressNext(i)
<1> DEFINE o == op[i]
<1>0. i \in Proc
  BY DEF Proc
<1>1. /\ o.pc = "evidence" /\ o.kind \in Onboards /\ Same(o, op'[i]) /\ op'[i].pc = "verify"
      /\ o.todo = {} /\ op'[i].seen = o.seen
  BY <1>0, RestoreSequencesFits DEF Onward
<1>2. (\A n \in Num : RestoredTo(o, n)) /\ \A d \in o.seen.evid : d \in shared[o.h].evid[o.p]
  BY <1>1 DEF Progress, ProgressOf
<1>3. /\ shared'[o.h].ent[o.p] = shared[o.h].ent[o.p] /\ shared'[o.h].evid[o.p] = shared[o.h].evid[o.p]
      /\ \A n \in Num : shared[o.h].ent[o.p][n] # NoEnt => n < shared'[o.h].seq[o.p]
  BY <1>0, SequencesAt
<1>4. ASSUME NEW n \in Num, o.seen.ent[n] # NoEnt
      PROVE  shared'[o.h].ent[o.p][n].rev >= o.seen.ent[n].rev /\ n < shared'[o.h].seq[o.p]
  <2>1. o.seen.ent[n].rev > 0 /\ shared[o.h].ent[o.p][n].rev >= o.seen.ent[n].rev
    BY <1>2, <1>4 DEF RestoredTo
  <2>2. o.h \in Host /\ o.p \in Project /\ o.seen.ent[n].rev \in Nat
    BY <1>1, SeenNumbered DEF RestorePcs
  <2>3. shared[o.h].ent[o.p][n].rev \in Nat
    BY <2>2, EntitiesNumbered
  <2>4. shared[o.h].ent[o.p][n].rev # 0
    BY <2>1, <2>2, <2>3
  <2>5. shared[o.h].ent[o.p][n] # NoEnt
    BY <2>4, NoEntIs
  <2> QED BY <1>3, <2>1, <2>5, Zenon
<1> QED BY <1>1, <1>2, <1>3, <1>4, Zenon DEF ProgressNext, RestorePcs, Same

\* The other steps of a request leave nothing restored behind.
LEMMA PlainProgress ==
  ASSUME Stores, Ops, NEW i \in Slot, OpStep(i) \/ Fault(i),
         ~RestoreSnapshot(i), ~RestoreEntity(i), ~RestorePut(i), ~RestoreEvidence(i), ~EnsureEvidence(i),
         ~RestoreSequences(i), ~Verify(i), ~EnsureDetached(i), ~EnsureAdminWorker(i)
  PROVE  ProgressNext(i)
<1>0. i \in Proc
  BY DEF Proc
<1>1. ASSUME Editing(i) \/ Retiring(i) \/ Syncing(i) PROVE op'[i].kind \notin Onboards
  <2>1. op[i].kind \notin Onboards
    BY <1>0, <1>1, EditingNotOnboards, RetiringFits DEF Retires, Onboards
  <2>2. Same(op[i], op'[i])
    BY <1>0, <1>1, OnboardingFits, RetiringFits DEF Onward, Retires
  <2> QED BY <2>1, <2>2 DEF Same
<1>2. ASSUME Fault(i) PROVE op'[i].pc \notin RestorePcs \cup AnswerPcs
  BY <1>0, <1>2, FaultFits DEF RestorePcs, AnswerPcs
<1>3. ASSUME Onboarding(i) PROVE op'[i].pc \notin RestorePcs
        /\ (op'[i].pc \notin AnswerPcs \/ op'[i].kind \notin Onboards)
  <2>1. ASSUME BootstrapChecks(i) \/ BootstrapBatch(i)
        PROVE  op'[i].pc \notin RestorePcs /\ (op'[i].pc \notin AnswerPcs \/ op'[i].kind \notin Onboards)
    <3>1. Same(op[i], op'[i])
      BY <1>0, <1>3, OnboardingFits DEF Onward
    <3>2. \/ op'[i].pc \in {"bootstrapBatch", "rollbackCode", "failed", "restore"}
          \/ op[i].kind = "update" /\ op'[i].pc = "ok"
      BY <1>0, <2>1, BootstrapChecksFits, BootstrapBatchFits, BootstrapFailedFits DEF BatchPcs
    <3> QED BY <3>1, <3>2 DEF RestorePcs, AnswerPcs, Same, Onboards
  <2> QED BY <1>0, <1>3, <2>1, AdminRepositoryFits, DiscoverFits, ReadHubFits, HubRevisionFits,
     ProjectRegisterFits,
             AdoptFits, RollbackOnboardHubFits, RegistryFits, ReconcileReadsFits
                 DEF Onboarding, RestorePcs, AnswerPcs
<1>4. ASSUME op'[i].kind \notin Onboards PROVE op'[i].pc \notin RestorePcs
  BY <1>0, <1>4, StepFits DEF OpFits, KindFits
<1> QED BY <1>1, <1>2, <1>3, <1>4, NoProgress DEF OpStep

LEMMA ProgressStep ==
  ASSUME Stores, Ops, NumbersKnown, Progress, ProjectNext, NEW i \in Slot, OpStep(i) \/ Fault(i)
  PROVE  ProgressNext(i)
<1>1. Grows /\ shared' \in [Host -> SharedStore] /\ HubNumbered
  BY SharedGrows, SharedNext DEF NumbersKnown, HubNumbered
<1>2. ASSUME Verify(i) \/ EnsureDetached(i) \/ EnsureAdminWorker(i) PROVE ProgressNext(i)
  <2>1. /\ op[i].pc \in AnswerPcs /\ op[i].kind \in Onboards /\ Same(op[i], op'[i])
        /\ op'[i].pc = "failed" \/ (op'[i].pc \in AnswerPcs /\ op'[i].seen = op[i].seen)
    BY <1>2, AnswerFits DEF Proc, AnswerPcs, Onward
  <2>2. CASE op'[i].pc = "failed"
    BY <2>2, NoProgress DEF RestorePcs, AnswerPcs
  <2>3. CASE op'[i].pc \in AnswerPcs /\ op'[i].seen = op[i].seen
    BY <1>1, <2>1, <2>3, AnswerStays
  <2> QED BY <2>1, <2>2, <2>3
<1> QED BY <1>1, <1>2, SnapshotProgress, EntityProgress, PutProgress, EvidenceProgress,
   SequencesProgress, PlainProgress

LEMMA ProgressStays ==
  ASSUME Stores, Ops, NumbersKnown, Progress, ProjectNext
  PROVE  Progress'
<1>1. Grows /\ shared' \in [Host -> SharedStore]
  BY SharedGrows, SharedNext
<1>2. ASSUME NEW i \in Slot, op'[i] = op[i] PROVE ProgressNext(i)
  BY <1>1, <1>2, Waits
<1>3. ASSUME NEW j \in Proc, OpStep(j) \/ Fault(j), MovesOp(j), NEW i \in Slot PROVE ProgressNext(i)
  <2>1. CASE i = j
    BY <1>3, <2>1, ProgressStep
  <2>2. CASE i # j
    BY <1>2, <1>3, <2>2, MovesOpIs DEF Proc
  <2> QED BY <2>1, <2>2
<1>4. ASSUME NEW h \in Host, Crash(h), NEW i \in Slot PROVE ProgressNext(i)
  <2>1. op'[i] = op[i] \/ op'[i].pc = "crashed"
    BY <1>4, CrashFits DEF Proc
  <2>2. CASE op'[i].pc = "crashed"
    BY <2>2, NoProgress DEF RestorePcs, AnswerPcs
  <2> QED BY <1>2, <2>1, <2>2
<1>5. ASSUME UNCHANGED op, NEW i \in Slot PROVE ProgressNext(i)
  BY <1>2, <1>5, SMTT(30)
<1> QED BY <1>3, <1>4, <1>5, OpMoves, ProgressIs

\* An onboarding that has answered has restored the whole project.
LEMMA RestoredIsKept ==
  ASSUME Stores, Ops, NumbersKnown, Progress
  PROVE  RestoredIsWhole
<1> SUFFICES ASSUME NEW i \in Slot, op[i].kind \in {"onboard", "admin"}, op[i].pc = "ok", op[i].seen # None
             PROVE  LET o == op[i]  s == shared[o.h] IN
                    /\ o.seen.evid \subseteq s.evid[o.p]
                    /\ \A e \in s.evid[o.p] : ~ExceedsCurrent(o.h, o.p, e)
                    /\ \A n \in Num : o.seen.ent[n] # NoEnt =>
                                        s.ent[o.p][n].rev >= o.seen.ent[n].rev /\ n < s.seq[o.p]
                    /\ ~Unrestored(o.h, o.p) => \A n \in Num : s.ent[o.p][n] # NoEnt => n < s.seq[o.p]
  BY DEF RestoredIsWhole
<1>1. op[i].h \in Host /\ op[i].p \in Project
  BY OnboardFacts DEF Onboards, Proc
<1>2. ProgressOf(op[i])
  BY DEF Progress
<1> QED BY <1>1, <1>2 DEF ProgressOf, NumbersKnown, ExceedsCurrent, AnswerPcs, Onboards

-----------------------------------------------------------------------------
(* The code of a configured project: its onboardings and its updates.      *)

LEMMA StaticProjects == ASSUME Stores, NEW p \in mix.static PROVE p \in Project
BY ProjectLifecycleAssumption DEF Stores, IsMix

\* What may happen to one request in a step.
LEMMA EachMoves ==
  ASSUME Stores, Ops, ProjectNext, NEW i \in Slot
  PROVE  /\ Same(op[i], op'[i])
         /\ op'[i] = op[i] \/ op'[i].pc = "crashed" \/ OpStep(i) \/ Fault(i)
<1>0. i \in Proc
  BY DEF Proc
<1>1. op'[i] = op[i] => Same(op[i], op'[i])
  BY DEF Same
<1>2. ASSUME NEW j \in Proc, OpStep(j) \/ Fault(j), MovesOp(j)
      PROVE  /\ Same(op[i], op'[i])
             /\ op'[i] = op[i] \/ OpStep(i) \/ Fault(i)
  BY <1>0, <1>1, <1>2, StepFits, MovesOpIs
<1>3. ASSUME NEW h \in Host, Crash(h)
      PROVE  Same(op[i], op'[i]) /\ (op'[i] = op[i] \/ op'[i].pc = "crashed")
  BY <1>0, <1>3, CrashFits
<1>4. UNCHANGED op => op'[i] = op[i]
  OBVIOUS
<1> QED BY <1>1, <1>2, <1>3, <1>4, OpMoves

LEMMA RetirementKinds ==
  ASSUME Stores, Ops, NEW i \in Proc, Retiring(i) \/ Syncing(i)
  PROVE  op[i].kind \in {"retire", "sync"}
BY RetiringFits DEF Retires

\* The steps of an onboarding that count for a configured project.
LEMMA OnboardEntry ==
  ASSUME Stores, Ops, NEW i \in Slot, OpStep(i) \/ Fault(i), op[i].kind \in Onboards,
         op[i].p \in mix.static, op[i].pc \notin RegisterPcs
  PROVE  /\ op'[i].pc \notin RegisterPcs
         /\ op'[i].pc = "reconcile" => reg[op[i].h].entry[op[i].p] # None
         /\ op'[i].pc \in BatchPcs => \/ op[i].pc \in BatchPcs
                                      \/ op[i].pc = "reconcile" /\ hub.code[op[i].p] = op[i].code
<1>0. i \in Proc
  BY DEF Proc
<1>1. CASE Fault(i)
  BY <1>0, <1>1, FaultFits DEF RegisterPcs, BatchPcs
<1>2. CASE OpStep(i)
  <2>1. Onboarding(i) \/ EnsureAdminWorker(i)
    BY <1>0, <1>2, EditingNotOnboards, RetirementKinds DEF OpStep, Onboards
  <2>2. ASSUME EnsureAdminWorker(i) \/ Verify(i) \/ EnsureDetached(i)
        PROVE  op'[i].pc \notin RegisterPcs /\ op'[i].pc # "reconcile" /\ op'[i].pc \notin BatchPcs
    BY <1>0, <2>2, AnswerFits DEF RegisterPcs, BatchPcs, AnswerPcs
  <2>3. ASSUME RestoreSnapshot(i) \/ RestoreEntity(i) \/ RestorePut(i) \/ RestoreEvidence(i)
          \/ EnsureEvidence(i)
               \/ RestoreSequences(i)
        PROVE  op'[i].pc \notin RegisterPcs /\ op'[i].pc # "reconcile" /\ op'[i].pc \notin BatchPcs
    BY <1>0, <2>3, RestoreSnapshotFits, RestoreEntityFits, RestorePutFits, RestoreEvidenceFits,
       EnsureEvidenceFits,
       RestoreSequencesFits, ZenonT(30) DEF RegisterPcs, BatchPcs
  <2>4. ASSUME BootstrapChecks(i) \/ BootstrapBatch(i)
        PROVE  op[i].pc \in BatchPcs /\ op'[i].pc
                 \in {"bootstrapBatch", "failed", "rollbackCode", "ok", "restore"}
    BY <1>0, <2>4, BootstrapChecksFits, BootstrapBatchFits, BootstrapFailedFits DEF BatchPcs
  <2>5. ASSUME ReconcileReads(i)
        PROVE  /\ op[i].pc = "reconcile" /\ op'[i].pc \in {"failed", "bootstrap"}
               /\ op'[i].pc = "bootstrap" => hub.code[op[i].p] = op[i].code
    BY <1>0, <2>5, ReconcileReadsFits
  <2>6. ASSUME Discover(i)
        PROVE  /\ op'[i].pc \in {"failed", "reconcile", "hub"}
               /\ op'[i].pc = "reconcile" => reg[op[i].h].entry[op[i].p] # None
               /\ op'[i].pc # "hub"
    BY <1>0, <2>6, DiscoverFits
  <2>7. ASSUME AdminRepository(i) PROVE op'[i].pc \in {"failed", "discover"}
    BY <1>0, <2>7, AdminRepositoryFits
  <2>8. ~(ReadHubOnboardProject(i) \/ HubRevision(i) \/ ProjectRegister(i) \/ ProjectIdentifiersAdopt(i)
          \/ RollbackOnboardHub(i) \/ PublishRegistry(i) \/ AdoptHub(i))
    BY <1>0, ReadHubFits, HubRevisionFits, ProjectRegisterFits, AdoptFits, RollbackOnboardHubFits,
       RegistryFits
       DEF RegisterPcs
  <2> QED BY <2>1, <2>2, <2>3, <2>4, <2>5, <2>6, <2>7, <2>8 DEF Onboarding, RegisterPcs, BatchPcs
<1> QED BY <1>1, <1>2

\* The steps of an update.
LEMMA UpdateSteps ==
  ASSUME Stores, Ops, NEW i \in Slot, OpStep(i), op[i].kind = "update"
  PROVE  \/ Preflight(i) \/ UpdateProjectCode(i) \/ HubCode(i) \/ BootstrapChecks(i) \/ BootstrapBatch(i)
         \/ RollbackProjectCode(i) \/ RestoreConf(i)
<1>0. i \in Proc
  BY DEF Proc
<1>1. ~(Retiring(i) \/ Syncing(i))
  BY <1>0, RetirementKinds
<1>2. ~(EnsureAdminWorker(i) \/ Verify(i) \/ EnsureDetached(i) \/ RestoreSnapshot(i) \/ RestoreEntity(i)
        \/ RestorePut(i)
        \/ RestoreEvidence(i) \/ EnsureEvidence(i) \/ RestoreSequences(i))
  BY <1>0, AnswerFits, RestoreSnapshotFits, RestoreEntityFits, RestorePutFits, RestoreEvidenceFits,
     EnsureEvidenceFits, RestoreSequencesFits DEF Onboards
<1>3. ~(AdminRepository(i) \/ Discover(i) \/ ReadHubOnboardProject(i) \/ HubRevision(i) \/ ProjectRegister(i)
        \/ ProjectIdentifiersAdopt(i) \/ RollbackOnboardHub(i) \/ PublishRegistry(i) \/ AdoptHub(i)
             \/ ReconcileReads(i))
  BY <1>0, AdminRepositoryFits, DiscoverFits, ReadHubFits, HubRevisionFits, ProjectRegisterFits,
     AdoptFits,
     RollbackOnboardHubFits, RegistryFits, ReconcileReadsFits DEF Onboards
<1>4. ~(ConfigurationReads(i) \/ MutateProjectConfiguration(i) \/ EditEntity(i))
  BY <1>0, ConfigurationReadsFits, EditingFits
<1> QED BY <1>1, <1>2, <1>3, <1>4 DEF OpStep, Onboarding, Editing

BatchMoves(i) ==
  /\ op'[i].seen = op[i].seen /\ op'[i].rec = op[i].rec
  /\ op'[i].pc \in {"bootstrapBatch", "rollbackCode"}

\* An update whose batch did not run keeps what it has read.
LEMMA UpdateBatch ==
  ASSUME Stores, Ops, NEW i \in Slot, op[i].kind = "update", BootstrapChecks(i) \/ BootstrapBatch(i)
  PROVE  /\ op[i].pc \in BatchPcs
         /\ BootstrapChecks(i) => BatchMoves(i)
         /\ BootstrapBatch(i) => op'[i].pc = "ok" \/ (BatchMoves(i) /\ UNCHANGED shared)
<1>0. i \in Proc
  BY DEF Proc
<1>1. op[i].pc \in BatchPcs
  BY <1>0, BootstrapChecksFits, BootstrapBatchFits DEF BatchPcs
<1>2. ASSUME BootstrapFailed(i) PROVE BatchMoves(i)
  <2>1. op'[i] = [op[i] EXCEPT !.pc = "rollbackCode"] /\ op'[i].pc = "rollbackCode"
    BY <1>0, <1>1, <1>2, BootstrapFailedFits
  <2>2. AskShape(op[i])
    BY <1>0, OpsFit DEF OpFits
  <2> QED BY <2>1, <2>2 DEF BatchMoves, AskShape, AskFields
<1>3. BootstrapChecks(i) => BatchMoves(i)
  BY <1>0, <1>2, BootstrapChecksFits DEF BatchMoves
<1>4. BootstrapBatch(i) => op'[i].pc = "ok" \/ (BatchMoves(i) /\ UNCHANGED shared)
  BY <1>0, <1>2, BootstrapBatchFits
<1> QED BY <1>1, <1>3, <1>4

LEMMA UpdateEntry ==
  ASSUME Stores, Ops, NEW i \in Slot, OpStep(i) \/ Fault(i), op[i].kind = "update",
         op'[i].pc \in ChangePcs \cup {"conf"}
  PROVE  \/ op[i].pc \in ChangePcs \cup {"conf"} /\ op'[i].seen = op[i].seen
         \/ /\ op[i].pc = "preflight" /\ op'[i].seen.old = EffectiveCode(op[i].h, op[i].p)
            /\ EffectiveCode(op[i].h, op[i].p) # None
<1>0. i \in Proc
  BY DEF Proc
<1>1. CASE Fault(i)
  BY <1>0, <1>1, FaultFits DEF ChangePcs
<1>2. CASE Preflight(i)
  BY <1>0, <1>2, PreflightFits DEF ChangePcs
<1>3. CASE UpdateProjectCode(i)
  BY <1>0, <1>3, UpdateProjectCodeFits DEF ChangePcs
<1>4. CASE HubCode(i) \/ RollbackProjectCode(i)
  BY <1>0, <1>4, HubCodeFits, RollbackProjectCodeFits, Zenon DEF ChangePcs
<1>5. CASE BootstrapChecks(i) \/ BootstrapBatch(i)
  BY <1>0, <1>5, UpdateBatch DEF ChangePcs, BatchPcs, BatchMoves
<1>6. CASE RestoreConf(i)
  BY <1>0, <1>6, RestoreConfFits DEF ChangePcs
<1> QED BY <1>1, <1>2, <1>3, <1>4, <1>5, <1>6, UpdateSteps

\* A retirement stays known to the host.
LEMMA RetiredStays ==
  ASSUME Stores, Ops, ProjectNext, NEW h \in Host, NEW p \in Project, IsProjectRetired(h, p)
  PROVE  IsProjectRetired(h, p)'
<1>1. local[h].marker[p] # None => local'[h].marker[p] # None
  BY LocalNext DEF MarkersStay
<1>0. ASSUME shared'[h].marker = shared[h].marker PROVE shared'[h].marker[p] = shared[h].marker[p]
  BY <1>0
<1>2. ASSUME NEW i \in Proc, SharedMoves(op[i].h), op[i].h \in Host, shared[op[i].h].marker[op[i].p] = None,
             shared'[op[i].h].marker = [shared[op[i].h].marker EXCEPT ![op[i].p] = op[i].rec]
      PROVE  shared[h].marker[p] # None => shared'[h].marker[p] = shared[h].marker[p]
  BY <1>2, SharedTyped DEF SharedMoves
<1>3. ASSUME NEW g \in Host, SharedMoves(g), shared'[g].marker = shared[g].marker
      PROVE  shared'[h].marker[p] = shared[h].marker[p]
  BY <1>3 DEF SharedMoves
<1>4. ASSUME UNCHANGED shared PROVE shared'[h].marker[p] = shared[h].marker[p]
  BY <1>4
<1>5. ASSUME NEW i \in Proc, BootstrapBatch(i) PROVE shared'[h].marker[p] = shared[h].marker[p]
  BY <1>3, <1>4, <1>5, BootstrapWrites, BootstrapBatchFits, BatchFacts DEF BatchPcs
<1>6. ASSUME NEW i \in Proc, RestorePut(i) PROVE shared'[h].marker[p] = shared[h].marker[p]
  BY <1>3, <1>6, RestorePutWrites, RestorePutFits, OnboardFacts, SMTT(30)
<1>7. ASSUME NEW i \in Proc, EnsureEvidence(i) PROVE shared'[h].marker[p] = shared[h].marker[p]
  BY <1>3, <1>4, <1>7, EnsureEvidenceWrites, EnsureEvidenceFits, OnboardFacts
<1>8. ASSUME NEW i \in Proc, RestoreSequences(i) PROVE shared'[h].marker[p] = shared[h].marker[p]
  BY <1>3, <1>8, SequencesWrites, RestoreSequencesFits, OnboardFacts
<1>9. ASSUME NEW i \in Proc, MutateProjectConfiguration(i) PROVE shared'[h].marker[p] = shared[h].marker[p]
  BY <1>3, <1>4, <1>9, ConfigurationWrites, EditingFits, AskedFacts
<1>10. ASSUME NEW i \in Proc, EditEntity(i) PROVE shared'[h].marker[p] = shared[h].marker[p]
  BY <1>3, <1>4, <1>10, EditEntityWrites, EditingFits, AskedFacts, ZenonT(30)
<1>11. ASSUME NEW i \in Proc, RetireSharedProject(i)
       PROVE  shared[h].marker[p] # None => shared'[h].marker[p] = shared[h].marker[p]
  BY <1>2, <1>4, <1>11, RetireSharedWrites, RetireSharedProjectFits
<1>12. ASSUME NEW i \in Proc, ImportSharedProjectRetirement(i)
       PROVE  shared[h].marker[p] # None => shared'[h].marker[p] = shared[h].marker[p]
  BY <1>2, <1>4, <1>12, ImportWrites, ImportFits
<1>13. ASSUME NEW i \in Proc, MarkOutboxPublished(i) PROVE shared'[h].marker[p] = shared[h].marker[p]
  BY <1>3, <1>4, <1>13, MarkWrites, PublishFits
<1>14. ASSUME NEW g \in Host, NEW q \in Project, PublishConfiguration(g, q)
       PROVE  shared'[h].marker[p] = shared[h].marker[p]
  BY <1>3, <1>4, <1>14, PublishConfigurationWrites
<1>15. ASSUME NEW g \in Host, NEW q \in Project, PublishRetirement(g, q)
       PROVE  shared'[h].marker[p] = shared[h].marker[p]
  BY <1>3, <1>4, <1>15, PublishRetirementWrites
<1>16. shared[h].marker[p] # None => shared'[h].marker[p] = shared[h].marker[p]
  BY <1>4, <1>5, <1>6, <1>7, <1>8, <1>9, <1>10, <1>11, <1>12, <1>13, <1>14, <1>15, SharedWriters
<1> QED BY <1>1, <1>16 DEF IsProjectRetired, ReadLocalProjectRetirement, ReadSharedProjectRetirement

\* The registry entry of a configured project is only removed, by its retirement.
LEMMA RegStays ==
  ASSUME Stores, Ops, MarkedFirst, Apart, ProjectNext, NEW h \in Host, NEW p \in mix.static
  PROVE  \/ reg'[h].entry[p] = reg[h].entry[p]
         \/ reg'[h].entry[p] = None /\ IsProjectRetired(h, p)
<1>0. p \in Project
  BY StaticProjects
<1>1. ASSUME NEW i \in Proc, NEW code \in OrNone(Code), MovesOne(i, code)
      PROVE  \/ reg'[h].entry[p] = reg[h].entry[p]
             \/ reg'[h].entry[p] = None /\ IsProjectRetired(h, p)
  <2>1. CASE op[i].h # h \/ op[i].p # p
    BY <1>0, <1>1, <2>1, RegTyped DEF MovesOne, Codes
  <2>2. CASE op[i].h = h /\ op[i].p = p
    <3>1. op[i].pc # "registry"
      <4> SUFFICES ASSUME op[i].pc = "registry" PROVE FALSE
        OBVIOUS
      <4>1. op[i].kind \in Onboards
        BY OpsFit DEF OpFits, KindFits, RegisterPcs
      <4>2. i \in Slot
        BY <4>1, OnboardFacts
      <4> QED BY <2>2, <4>1, <4>2 DEF Apart, RegisterPcs
    <3>2. op[i].pc = "unregisterWrite" /\ code = None
      BY <1>1, <3>1 DEF MovesOne
    <3>3. local[h].marker[p] # None
      BY <2>2, <3>2 DEF MarkedFirst, PublishedPcs, RetirePcs
    <3>4. reg'[h].entry[p] = None
      BY <1>0, <1>1, <2>2, <3>2, RegTyped DEF MovesOne, Codes
    <3> QED BY <3>3, <3>4 DEF IsProjectRetired, ReadLocalProjectRetirement
  <2> QED BY <2>1, <2>2
<1> QED BY <1>1, RegistrySteps DEF RegistryMoves

-----------------------------------------------------------------------------
(* What leaves the code of a configured project as it is.                  *)

LEMMA MemStays ==
  ASSUME Stores, Ops, ProjectNext, NEW h \in Host
  PROVE  conf'[h].mem = conf[h].mem \/ Crash(h)
<1>1. ASSUME NEW i \in Proc, UpdateProjectCode(i) PROVE conf'[h].mem = conf[h].mem
  <2>1. CASE UNCHANGED conf
    BY <2>1
  <2>2. CASE op'[i].pc # "failed"
    BY <1>1, <2>2, UpdateConfWrites
  <2> QED BY <1>1, <2>1, <2>2, UpdateProjectCodeFits
<1>2. ASSUME NEW i \in Proc, RestoreConf(i) PROVE conf'[h].mem = conf[h].mem
  BY <1>2, RestoreConfWrites
<1>3. ASSUME NEW g \in Host, Crash(g) PROVE conf'[h].mem = conf[h].mem \/ Crash(h)
  BY <1>3, CrashConfWrites
<1> QED BY <1>1, <1>2, <1>3, ConfigurationWriters

\* The updates of other projects are those of other hosts.
LEMMA ConfStays ==
  ASSUME Stores, Ops, ProjectNext, NEW h \in Host, NEW p \in Project, Alone(h, p),
         \A i \in Slot : Updates(i, h, p) => (UpdateProjectCode(i) => op'[i].pc = "failed") /\ ~RestoreConf(i)
  PROVE  conf'[h].file[p] = conf[h].file[p]
<1>1. ASSUME NEW i \in Slot, op[i].kind = "update", (UpdateProjectCode(i) /\ op'[i].pc # "failed")
        \/ RestoreConf(i)
      PROVE  op[i].h # h
  BY <1>1 DEF Alone, Updates
<1>2. ASSUME NEW i \in Proc, UpdateProjectCode(i) PROVE conf'[h] = conf[h]
  <2>1. CASE UNCHANGED conf
    BY <2>1
  <2>2. CASE op'[i].pc # "failed"
    <3>1. op[i].kind = "update" /\ i \in Slot
      BY <1>2, UpdateProjectCodeFits, UpdateFacts
    <3> QED BY <1>1, <1>2, <2>2, <3>1, UpdateConfWrites
  <2> QED BY <1>2, <2>1, <2>2, UpdateProjectCodeFits
<1>3. ASSUME NEW i \in Proc, RestoreConf(i) PROVE conf'[h] = conf[h]
  <2>1. op[i].kind = "update" /\ i \in Slot
    BY <1>3, RestoreConfFits, UpdateFacts
  <2> QED BY <1>1, <1>3, <2>1, RestoreConfWrites
<1>4. ASSUME NEW g \in Host, Crash(g) PROVE conf'[h].file = conf[h].file
  BY <1>4, CrashConfWrites
<1> QED BY <1>2, <1>3, <1>4, ConfigurationWriters

LEMMA NotRegistered ==
  ASSUME Ops, Apart, NEW p \in mix.static, NEW i \in Proc, op[i].pc \in RegisterPcs
  PROVE  op[i].p # p
<1>1. op[i].kind \in Onboards
  BY OpsFit DEF OpFits, KindFits
<1>2. i \in Slot
  BY <1>1, OnboardFacts
<1> QED BY <1>1, <1>2 DEF Apart

LEMMA HubCodeStays ==
  ASSUME Stores, Ops, Apart, ProjectNext, NEW h \in Host, NEW p \in mix.static, Alone(h, p), hub'.project[p],
         \A i \in Slot : Updates(i, h, p) => ~WritesCode(i)
  PROVE  hub.project[p] /\ hub'.code[p] = hub.code[p]
<1>0. p \in Project
  BY StaticProjects
<1>1. ASSUME NEW q, q # p, NEW to, hub'.project = hub.project, hub'.code = [hub.code EXCEPT ![q] = to]
      PROVE  hub.project[p] /\ hub'.code[p] = hub.code[p]
  BY <1>0, <1>1, HubTyped DEF Codes
<1>2. ASSUME NEW i \in Proc, Registers(i) PROVE hub.project[p] /\ hub'.code[p] = hub.code[p]
  <2>1. op[i].p # p
    BY <1>2, NotRegistered DEF Registers, OpAt, RegisterPcs
  <2>2. CASE hub'.project = [hub.project EXCEPT ![op[i].p] = TRUE] /\ hub'.code = hub.code
    BY <1>0, <2>1, <2>2, HubTyped
  <2> QED BY <1>2, <2>2, ProjectRegisterHub
<1>3. ASSUME NEW i \in Proc, Adopts(i) PROVE hub.project[p] /\ hub'.code[p] = hub.code[p]
  <2>1. op[i].p # p
    BY <1>3, NotRegistered DEF Adopts, OpAt, RegisterPcs
  <2> QED BY <1>1, <1>3, <2>1, AdoptHubWrites
<1>4. ASSUME NEW i \in Proc, Unregisters(i) PROVE hub.project[p] /\ hub'.code[p] = hub.code[p]
  <2>1. op[i].p # p
    BY <1>4, NotRegistered, Zenon DEF Unregisters, OpAt, RegisterPcs
  <2>2. CASE hub'.project = [hub.project EXCEPT ![op[i].p] = FALSE]
               /\ hub'.code = [hub.code EXCEPT ![op[i].p] = None]
    BY <1>0, <2>1, <2>2, HubTyped DEF Codes
  <2> QED BY <1>4, <2>2, RollbackOnboardHubWrites
<1>5. ASSUME NEW i \in Proc, WritesCode(i) PROVE op[i].p # p
  <2>1. op[i].kind = "update" /\ i \in Slot
    BY <1>5, UpdateFacts DEF WritesCode, ChangesCode, RevertsCode, OpAt
  <2> QED BY <1>5, <2>1 DEF Alone, Updates
<1>6. ASSUME NEW i \in Proc, WritesCode(i) PROVE hub.project[p] /\ hub'.code[p] = hub.code[p]
  BY <1>1, <1>5, <1>6, HubCodeWrites, RollbackCodeWrites DEF WritesCode
<1>8. ASSUME HubRetiresOne PROVE hub.project[p] /\ hub'.code[p] = hub.code[p]
  <2>1. PICK q \in Project, rec \in OrNone(Markers) :
          /\ hub'.project = [hub.project EXCEPT ![q] = FALSE] /\ hub'.code = [hub.code EXCEPT ![q] = None]
    BY <1>8 DEF HubRetiresOne
  <2>2. q # p
    BY <1>0, <2>1, HubTyped
  <2> QED BY <1>0, <2>1, <2>2, HubTyped DEF Codes
<1>9. ASSUME NEW g \in Host, NEW q \in Project, PublishEntity(g, q)
      PROVE  hub.project[p] /\ hub'.code[p] = hub.code[p]
  BY <1>9, EntityHubWrites
<1> QED BY <1>2, <1>3, <1>4, <1>6, <1>8, <1>9, HubSteps

\* Only a bootstrap batch writes the identifiers of Shared.
LEMMA SharedCodeStays ==
  ASSUME Stores, Ops, ProjectNext, NEW h \in Host, NEW p \in Project,
         \A i \in Slot : op[i].h = h /\ op[i].p = p => ~BootstrapBatch(i)
  PROVE  shared'[h].code[p] = shared[h].code[p]
<1>1. ASSUME NEW g \in Host, SharedMoves(g), shared'[g].code = shared[g].code
      PROVE  shared'[h].code[p] = shared[h].code[p]
  BY <1>1 DEF SharedMoves
<1>2. ASSUME UNCHANGED shared PROVE shared'[h].code[p] = shared[h].code[p]
  BY <1>2
<1>3. ASSUME NEW i \in Proc, BootstrapBatch(i) PROVE shared'[h].code[p] = shared[h].code[p]
  <2>1. i \in Slot /\ op[i].h \in Host /\ op[i].p \in Project
    BY <1>3, BootstrapBatchFits, BatchFacts DEF BatchPcs
  <2>2. op[i].h # h \/ op[i].p # p
    BY <1>3, <2>1
  <2>3. CASE /\ SharedMoves(op[i].h)
             /\ \E read \in op[i].plan :
                  shared'[op[i].h].code = [shared[op[i].h].code EXCEPT ![op[i].p] = BatchCode(i, read)]
    BY <2>1, <2>2, <2>3, SharedTyped, SMTT(30) DEF SharedMoves, Codes
  <2> QED BY <1>2, <1>3, <2>3, BootstrapWrites
<1>4. ASSUME NEW i \in Proc, RestorePut(i) PROVE shared'[h].code[p] = shared[h].code[p]
  BY <1>1, <1>4, RestorePutWrites, RestorePutFits, OnboardFacts
<1>5. ASSUME NEW i \in Proc, EnsureEvidence(i) PROVE shared'[h].code[p] = shared[h].code[p]
  BY <1>1, <1>2, <1>5, EnsureEvidenceWrites, EnsureEvidenceFits, OnboardFacts
<1>6. ASSUME NEW i \in Proc, RestoreSequences(i) PROVE shared'[h].code[p] = shared[h].code[p]
  BY <1>1, <1>6, SequencesWrites, RestoreSequencesFits, OnboardFacts
<1>7. ASSUME NEW i \in Proc, MutateProjectConfiguration(i) PROVE shared'[h].code[p] = shared[h].code[p]
  BY <1>1, <1>2, <1>7, ConfigurationWrites, EditingFits, AskedFacts, SMTT(30)
<1>8. ASSUME NEW i \in Proc, EditEntity(i) PROVE shared'[h].code[p] = shared[h].code[p]
  BY <1>1, <1>2, <1>8, EditEntityWrites, EditingFits, AskedFacts, ZenonT(30)
<1>9. ASSUME NEW i \in Proc, RetireSharedProject(i) PROVE shared'[h].code[p] = shared[h].code[p]
  BY <1>1, <1>2, <1>9, RetireSharedWrites, RetireSharedProjectFits
<1>10. ASSUME NEW i \in Proc, ImportSharedProjectRetirement(i) PROVE shared'[h].code[p] = shared[h].code[p]
  BY <1>1, <1>2, <1>10, ImportWrites, ImportFits
<1>11. ASSUME NEW i \in Proc, MarkOutboxPublished(i) PROVE shared'[h].code[p] = shared[h].code[p]
  BY <1>1, <1>11, MarkWrites, PublishFits
<1>12. ASSUME NEW g \in Host, NEW q \in Project, PublishConfiguration(g, q)
       PROVE  shared'[h].code[p] = shared[h].code[p]
  BY <1>1, <1>12, PublishConfigurationWrites
<1>13. ASSUME NEW g \in Host, NEW q \in Project, PublishRetirement(g, q)
       PROVE  shared'[h].code[p] = shared[h].code[p]
  BY <1>1, <1>13, PublishRetirementWrites
<1> QED BY <1>2, <1>3, <1>4, <1>5, <1>6, <1>7, <1>8, <1>9, <1>10, <1>11, <1>12, <1>13, SharedWriters

LEMMA AskedStays ==
  ASSUME Stores, Ops, ProjectNext, NEW h, NEW p
  PROVE  /\ Alone(h, p)' = Alone(h, p)
         /\ \A i \in Slot : Updates(i, h, p)' = Updates(i, h, p)
BY EachMoves DEF Alone, Updates, Same

LEMMA EffectiveIs ==
  ASSUME NEW h, NEW p \in mix.static, EffectiveCode(h, p) # None
  PROVE  reg[h].entry[p] = None /\ ~IsProjectRetired(h, p) /\ EffectiveCode(h, p) = conf[h].mem[p]
BY DEF EffectiveCode

\* An onboarding that has found the project in the registry keeps its updates out.
LEMMA AdoptingNext ==
  ASSUME Stores, Ops, MarkedFirst, Apart, ProjectNext, NEW h, NEW p \in mix.static, NEW i \in Slot,
         op[i].h = h, op[i].p = p, op[i].kind \in Onboards, op'[i].pc \in BatchPcs \cup {"reconcile"}
  PROVE  /\ reg'[h].entry[p] # None \/ IsProjectRetired(h, p)'
         /\ \A j \in Slot : Updates(j, h, p) => op'[j].pc \notin ChangePcs \cup {"conf"}
         /\ op'[i].pc \in BatchPcs /\ Alone(h, p) /\ hub'.project[p] => hub'.code[p] = op[i].code
<1>0. i \in Proc /\ h \in Host /\ p \in Project
  BY OnboardFacts DEF Proc
<1>1. op[i].pc \notin RegisterPcs
  BY DEF Apart
<1>2. /\ op'[i].pc = "reconcile" => op[i].pc = "reconcile" \/ reg[h].entry[p] # None
      /\ op'[i].pc \in BatchPcs => \/ op[i].pc \in BatchPcs
                                   \/ op[i].pc = "reconcile" /\ hub.code[p] = op[i].code
  BY <1>1, EachMoves, OnboardEntry DEF BatchPcs
<1>3. ASSUME op[i].pc \in BatchPcs \cup {"reconcile"}
      PROVE  /\ reg[h].entry[p] # None \/ IsProjectRetired(h, p)
             /\ \A j \in Slot : Updates(j, h, p) => op[j].pc \notin ChangePcs \cup {"conf"}
             /\ op[i].pc \in BatchPcs /\ Alone(h, p) /\ hub.project[p] => hub.code[p] = op[i].code
  BY <1>3 DEF Apart, Adopting
<1>4. reg[h].entry[p] # None \/ IsProjectRetired(h, p)
  BY <1>2, <1>3
<1>5. \A j \in Slot : Updates(j, h, p) => op[j].pc \notin ChangePcs \cup {"conf"}
  <2>1. CASE op[i].pc \in BatchPcs \cup {"reconcile"}
    BY <1>3, <2>1
  <2>2. CASE reg[h].entry[p] # None
    BY <2>2 DEF Apart, Updates
  <2> QED BY <1>2, <2>1, <2>2
<1>6. EffectiveCode(h, p) = None
  BY <1>4, EffectiveIs
<1>7. reg'[h].entry[p] # None \/ IsProjectRetired(h, p)'
  BY <1>0, <1>4, RegStays, RetiredStays
<1>8. ASSUME NEW j \in Slot, Updates(j, h, p) PROVE op'[j].pc \notin ChangePcs \cup {"conf"}
  <2>1. op[j].kind = "update" /\ op[j].h = h /\ op[j].p = p
    BY <1>8 DEF Updates
  <2>2. ASSUME OpStep(j) \/ Fault(j) PROVE op'[j].pc \notin ChangePcs \cup {"conf"}
    BY <1>5, <1>6, <1>8, <2>1, <2>2, UpdateEntry
  <2> QED BY <1>5, <1>8, <2>2, EachMoves DEF ChangePcs
<1>9. ASSUME op'[i].pc \in BatchPcs, Alone(h, p), hub'.project[p] PROVE hub'.code[p] = op[i].code
  <2>1. \A j \in Slot : Updates(j, h, p) => ~WritesCode(j)
    BY <1>5 DEF WritesCode, ChangesCode, RevertsCode, OpAt, ChangePcs
  <2>2. hub.project[p] /\ hub'.code[p] = hub.code[p]
    BY <1>0, <1>9, <2>1, HubCodeStays
  <2> QED BY <1>2, <1>3, <1>9, <2>2
<1> QED BY <1>7, <1>8, <1>9

LEMMA ChangingNext ==
  ASSUME Stores, Ops, MarkedFirst, Apart, ProjectNext, NEW i \in Slot, op[i].p \in mix.static,
         op[i].kind = "update", op'[i].pc \in ChangePcs \cup {"conf"}
  PROVE  reg'[op[i].h].entry[op[i].p] = None /\ op'[i].seen.old = conf'[op[i].h].mem[op[i].p]
<1> DEFINE h == op[i].h  p == op[i].p
<1>0. i \in Proc /\ h \in Host /\ p \in Project
  BY AskedFacts DEF Proc
<1>1. \/ op[i].pc \in ChangePcs \cup {"conf"} /\ op'[i].seen = op[i].seen
      \/ op[i].pc = "preflight" /\ op'[i].seen.old = EffectiveCode(h, p) /\ EffectiveCode(h, p) # None
  BY EachMoves, UpdateEntry DEF ChangePcs
<1>2. reg[h].entry[p] = None /\ op'[i].seen.old = conf[h].mem[p]
  BY <1>1, EffectiveIs DEF Apart
<1>3. op[i].pc \notin Ended
  BY <1>1 DEF Ended, ChangePcs
<1>4. ~Crash(h)
  BY <1>0, <1>3, CrashFits DEF ChangePcs
<1>5. conf'[h].mem = conf[h].mem
  BY <1>0, <1>4, MemStays
<1> QED BY <1>0, <1>2, <1>5, RegStays

LEMMA ApartNext ==
  ASSUME Stores, Ops, MarkedFirst, Apart, ProjectNext
  PROVE  Apart'
<1>1. ASSUME NEW i \in Slot PROVE Same(op[i], op'[i])
  BY EachMoves
<1>2. mix' = mix
  BY MixStays
<1>3. ASSUME NEW i \in Slot, op[i].p \in mix.static, op[i].kind \in Onboards
      PROVE  op'[i].pc \notin RegisterPcs
  BY <1>3, EachMoves, OnboardEntry DEF Apart, RegisterPcs
<1>4. ASSUME NEW h, NEW p \in mix.static, NEW i \in Slot, Adopting(i, h, p)'
      PROVE  /\ reg'[h].entry[p] # None \/ IsProjectRetired(h, p)'
             /\ \A j \in Slot : Updates(j, h, p)' => op'[j].pc \notin ChangePcs \cup {"conf"}
             /\ op'[i].pc \in BatchPcs /\ Alone(h, p)' /\ hub'.project[p] => hub'.code[p] = op'[i].code
  <2>1. op[i].h = h /\ op[i].p = p /\ op[i].kind \in Onboards /\ op'[i].code = op[i].code
    BY <1>1, <1>4 DEF Adopting, Same
  <2>2. op'[i].pc \in BatchPcs \cup {"reconcile"}
    BY <1>4 DEF Adopting
  <2> QED BY <2>1, <2>2, AdoptingNext, AskedStays
<1>5. ASSUME NEW i \in Slot, op[i].p \in mix.static, op[i].kind = "update",
        op'[i].pc \in ChangePcs \cup {"conf"}
      PROVE  reg'[op[i].h].entry[op[i].p] = None /\ op'[i].seen.old = conf'[op[i].h].mem[op[i].p]
  BY <1>5, ChangingNext
<1> SUFFICES ASSUME NEW i \in Slot, op'[i].p \in mix.static, NEW h, NEW p, h = op'[i].h, p = op'[i].p
             PROVE  /\ op'[i].kind \in Onboards => op'[i].pc \notin RegisterPcs
                    /\ Adopting(i, h, p)' =>
                         /\ reg'[h].entry[p] # None \/ IsProjectRetired(h, p)'
                         /\ \A j \in Slot : Updates(j, h, p)' => op'[j].pc \notin ChangePcs \cup {"conf"}
                         /\ op'[i].pc \in BatchPcs /\ Alone(h, p)' /\ hub'.project[p]
                              => hub'.code[p] = op'[i].code
                    /\ op'[i].kind = "update" /\ op'[i].pc \in ChangePcs \cup {"conf"} =>
                         reg'[h].entry[p] = None /\ op'[i].seen.old = conf'[h].mem[p]
  BY <1>2 DEF Apart
<1>6. op[i].p = p /\ op[i].h = h /\ op[i].kind = op'[i].kind /\ p \in mix.static
  BY <1>1, <1>2 DEF Same
<1>7. op'[i].kind \in Onboards => op'[i].pc \notin RegisterPcs
  BY <1>3, <1>6
<1>8. Adopting(i, h, p)' =>
        /\ reg'[h].entry[p] # None \/ IsProjectRetired(h, p)'
        /\ \A j \in Slot : Updates(j, h, p)' => op'[j].pc \notin ChangePcs \cup {"conf"}
        /\ op'[i].pc \in BatchPcs /\ Alone(h, p)' /\ hub'.project[p] => hub'.code[p] = op'[i].code
  BY <1>4, <1>6
<1>9. op'[i].kind = "update" /\ op'[i].pc \in ChangePcs \cup {"conf"} =>
        reg'[h].entry[p] = None /\ op'[i].seen.old = conf'[h].mem[p]
  BY <1>5, <1>6
<1> QED BY <1>7, <1>8, <1>9

-----------------------------------------------------------------------------
(* One configured project of one host, whose updates are on its own.       *)

LEMMA ChangeFacts ==
  ASSUME Ops, NEW h, NEW p, NEW i \in Slot, Updates(i, h, p), op[i].pc \in ChangePcs \cup {"conf"}
  PROVE  /\ i \in Proc /\ op[i].kind = "update" /\ op[i].h = h /\ op[i].p = p /\ op[i].code \in Code
         /\ op[i].seen.old \in Code /\ op[i].seen.old # op[i].code
         /\ op[i].seen.old # None /\ op[i].code # None
         /\ op[i].pc \in ChangePcs => op[i].rec \in Codes
<1>1. i \in Proc /\ op[i].kind = "update" /\ op[i].h = h /\ op[i].p = p
  BY DEF Updates, Proc
<1>2. OpFits(i, op[i]) /\ op[i].code \in Code
  BY <1>1, AskedFacts
<1> QED BY <1>1, <1>2, NoneApart DEF OpFits, EditFits

\* What an update spoiled stays so.
LEMMA SpoiledStays ==
  ASSUME Stores, Ops, ProjectNext, NEW h, NEW p, Spoiled(h, p)
  PROVE  Spoiled(h, p)'
<1>1. PICK i \in Slot : /\ Updates(i, h, p)
                        /\ \/ op[i].pc \in {"mixed", "crashed"}
                           \/ op[i].pc = "restoreConf" /\ op[i].work \in {"mixed", "pushed"}
                           \/ op[i].pc = "failed" /\ op[i].work \in {"pushed", "kept"}
  BY DEF Spoiled
<1>2. Updates(i, h, p)' /\ i \in Proc /\ op[i].kind = "update"
  BY <1>1, AskedStays DEF Updates, Proc
<1>3. ASSUME OpStep(i) PROVE op'[i].pc = "mixed" \/ (op'[i].pc = "failed" /\ op'[i].work = "pushed")
  <2>1. RestoreConf(i)
    BY <1>1, <1>2, <1>3, UpdateSteps, Zenon DEF Preflight, UpdateProjectCode, HubCode, BootstrapChecks,
       BootstrapBatch, RollbackProjectCode, ChangesCode, RevertsCode, OpAt
  <2> QED BY <1>1, <1>2, <2>1, RestoreConfFits
<1>4. ASSUME Fault(i) PROVE op'[i].pc = "mixed" \/ (op'[i].pc = "failed" /\ op'[i].work = "kept")
  <2>1. op[i].pc = "restoreConf"
    BY <1>1, <1>4 DEF Fault, HubFails, LocalFails, RestoreFails, MigrationFails, OpAt
  <2> QED BY <1>2, <1>4, <2>1, FaultFits
<1>5. \/ op'[i] = op[i] \/ op'[i].pc \in {"mixed", "crashed"}
      \/ op'[i].pc = "failed" /\ op'[i].work \in {"pushed", "kept"}
  BY <1>3, <1>4, EachMoves
<1> QED BY <1>1, <1>2, <1>5 DEF Spoiled

\* An update that does not change the project in this step.
Stays(j) ==
  op'[j] = op[j] \/ op'[j].pc = "crashed" \/ (op[j].pc \notin ChangePcs /\ op'[j].pc \notin ChangePcs)

\* One that writes the code on the Hub goes on.
LEMMA WritesMoves ==
  ASSUME Stores, Ops, NEW i \in Slot, op[i].kind = "update", WritesCode(i)
  PROVE  /\ op[i].pc \in {"hubCode", "rollbackCode"}
         /\ op'[i].pc \notin {"hubCode", "rollbackCode", "crashed"}
<1>0. i \in Proc
  BY DEF Proc
<1>1. op[i].pc \in {"hubCode", "rollbackCode"}
  BY DEF WritesCode, ChangesCode, RevertsCode, OpAt
<1>2. CASE Fault(i)
  BY <1>0, <1>1, <1>2, FaultFits
<1>3. CASE OpStep(i)
  <2>1. HubCode(i) \/ RollbackProjectCode(i)
    BY <1>1, <1>3, UpdateSteps, Zenon DEF Preflight, UpdateProjectCode, BootstrapChecks, BootstrapBatch,
       RestoreConf, OpAt
  <2> QED BY <1>0, <1>1, <2>1, HubCodeFits, RollbackProjectCodeFits
<1> QED BY <1>1, <1>2, <1>3 DEF WritesCode

LEMMA WaitingLeaves ==
  ASSUME Stores, Ops, Apart, ProjectNext, NEW h \in Host, NEW p \in mix.static, Alone(h, p),
         \A j \in Slot : Updates(j, h, p) => Stays(j)
  PROVE  /\ conf'[h].file[p] = conf[h].file[p]
         /\ hub'.project[p] => hub.project[p] /\ hub'.code[p] = hub.code[p]
         /\ \A j \in Slot : Updates(j, h, p) => ~BootstrapBatch(j)
<1>1. ASSUME NEW j \in Slot, Updates(j, h, p)
      PROVE  /\ UpdateProjectCode(j) => op'[j].pc = "failed"
             /\ ~RestoreConf(j) /\ ~WritesCode(j) /\ ~BootstrapBatch(j)
  <2>1. j \in Proc /\ op[j].kind = "update" /\ Stays(j)
    BY <1>1 DEF Proc, Updates
  <2>2. UpdateProjectCode(j) => op'[j].pc = "failed"
    BY <2>1, UpdateProjectCodeFits DEF Stays, ChangePcs
  <2>3. ~RestoreConf(j) /\ ~WritesCode(j)
    BY <2>1, RestoreConfFits, WritesMoves DEF Stays, ChangePcs
  <2>4. ~BootstrapBatch(j)
    <3>1. SUFFICES ASSUME BootstrapBatch(j) PROVE FALSE
      OBVIOUS
    <3>2. op[j].pc = "bootstrapBatch" /\ op'[j].pc \in {"ok", "rollbackCode"}
      BY <2>1, <3>1, BootstrapBatchFits, BootstrapFailedFits DEF BatchPcs
    <3> QED BY <2>1, <3>2 DEF Stays, ChangePcs
  <2> QED BY <2>2, <2>3, <2>4
<1>2. p \in Project
  BY StaticProjects
<1> QED BY <1>1, <1>2, ConfStays, HubCodeStays

\* A step in which all its updates wait.
LEMMA KeptWaiting ==
  ASSUME Stores, Ops, ProjectNext, NEW h \in Host, NEW p \in mix.static, AlternateAt(h, p), KeptAt(h, p),
         \A j \in Slot : Updates(j, h, p) => Stays(j),
         conf'[h].file[p] = conf[h].file[p],
         hub'.project[p] => hub.project[p] /\ hub'.code[p] = hub.code[p],
         \/ shared'[h].code[p] = shared[h].code[p]
         \/ (\A j \in Slot : ~Changing(j, h, p)) /\ (hub.project[p] => shared'[h].code[p] = hub.code[p])
  PROVE  AlternateAt(h, p)' /\ KeptAt(h, p)'
<1>1. ASSUME NEW j \in Slot, Changing(j, h, p)' PROVE Changing(j, h, p) /\ op'[j] = op[j]
  <2>1. Updates(j, h, p) /\ op'[j].pc \in ChangePcs
    BY <1>1, AskedStays DEF Changing
  <2>2. op'[j] = op[j]
    BY <2>1 DEF Stays, ChangePcs
  <2> QED BY <2>1, <2>2 DEF Changing
<1>2. AlternateAt(h, p)'
  BY <1>1 DEF AlternateAt
<1>3. ASSUME hub'.project[p], conf'[h].file[p] # None PROVE Spoiled(h, p)' \/ Agree(h, p)'
  <2>1. CASE Spoiled(h, p)
    BY <2>1, SpoiledStays
  <2>2. CASE \E j \in Slot : Updates(j, h, p) /\ op'[j].pc = "crashed"
    BY <2>2, AskedStays DEF Spoiled
  <2>3. CASE Agree(h, p) /\ \A j \in Slot : Updates(j, h, p) => op'[j].pc # "crashed"
    <3>1. ASSUME NEW j \in Slot, Changing(j, h, p) PROVE Changing(j, h, p)'
      <4>1. Updates(j, h, p) /\ op[j].pc \in ChangePcs /\ Updates(j, h, p)'
        BY <3>1, AskedStays DEF Changing
      <4>2. op'[j] = op[j]
        BY <2>3, <4>1 DEF Stays
      <4> QED BY <4>1, <4>2 DEF Changing
    <3>2. hub.project[p] /\ hub'.code[p] = hub.code[p]
      BY <1>3
    <3> QED BY <1>1, <2>3, <3>1, <3>2 DEF Agree
  <2> QED BY <1>3, <2>1, <2>2, <2>3 DEF KeptAt
<1> QED BY <1>2, <1>3 DEF KeptAt

\* What is known while an update changes the project.
LEMMA ChangingIs ==
  ASSUME Ops, NEW h, NEW p, AlternateAt(h, p), KeptAt(h, p), NEW i \in Slot, Changing(i, h, p), hub.project[p]
  PROVE  \/ Spoiled(h, p)
         \/ /\ shared[h].code[p] \in {None, op[i].seen.old}
            /\ hub.code[p] = IF op[i].pc \in {"hubCode", "restoreConf"} THEN op[i].seen.old ELSE op[i].code
            /\ op[i].pc = "bootstrapBatch" => \A r \in op[i].plan : r.code # op[i].code
<1>1. conf[h].file[p] # None
  BY ChangeFacts DEF AlternateAt, Changing
<1> QED BY <1>1 DEF KeptAt, Agree

\* A step of the update that changes the project, after which it still does.
LEMMA KeptChanging ==
  ASSUME Stores, Ops, ProjectNext, NEW h, NEW p, AlternateAt(h, p), NEW i \in Slot, Changing(i, h, p),
         \A j \in Slot : j # i => op'[j] = op[j],
         op'[i].pc \in ChangePcs, op'[i].seen = op[i].seen, op'[i].rec = op[i].rec,
         conf'[h].file[p] = conf[h].file[p],
         hub'.project[p] => \/ Spoiled(h, p)'
                            \/ /\ shared'[h].code[p] \in {None, op[i].seen.old}
                               /\ hub'.code[p] = IF op'[i].pc \in {"hubCode", "restoreConf"}
                                    THEN op[i].seen.old
                                                 ELSE op[i].code
                               /\ op'[i].pc = "bootstrapBatch" => \A r \in op'[i].plan : r.code # op[i].code
  PROVE  AlternateAt(h, p)' /\ KeptAt(h, p)'
<1>1. op'[i].code = op[i].code
  BY EachMoves DEF Same
<1>2. Changing(i, h, p)'
  BY AskedStays DEF Changing
<1>3. ASSUME NEW j \in Slot, Changing(j, h, p)' PROVE i = j
  <2>1. j # i => Changing(j, h, p)
    BY <1>3, AskedStays DEF Changing
  <2> QED BY <2>1 DEF AlternateAt
<1>4. conf[h].file[p] = op[i].code /\ op[i].rec[p] = op[i].seen.old
  BY DEF AlternateAt
<1>5. AlternateAt(h, p)'
  BY <1>1, <1>3, <1>4 DEF AlternateAt
<1>6. ASSUME hub'.project[p], ~Spoiled(h, p)' PROVE Agree(h, p)'
  BY <1>1, <1>2, <1>3, <1>6 DEF Agree
<1> QED BY <1>5, <1>6 DEF KeptAt

\* Its last step.
LEMMA KeptDone ==
  ASSUME Stores, Ops, ProjectNext, NEW h, NEW p, AlternateAt(h, p), NEW i \in Slot, Changing(i, h, p),
         \A j \in Slot : j # i => op'[j] = op[j],
         op'[i].pc \notin ChangePcs,
         hub'.project[p] => \/ Spoiled(h, p)'
                            \/ conf'[h].file[p] = hub'.code[p] /\ shared'[h].code[p] \in {None, hub'.code[p]}
  PROVE  AlternateAt(h, p)' /\ KeptAt(h, p)'
<1>1. ASSUME NEW j \in Slot, Changing(j, h, p)' PROVE FALSE
  <2>1. j # i /\ Changing(j, h, p)
    BY <1>1, AskedStays DEF Changing
  <2> QED BY <2>1 DEF AlternateAt
<1>2. AlternateAt(h, p)'
  BY <1>1 DEF AlternateAt
<1>3. ASSUME hub'.project[p], ~Spoiled(h, p)' PROVE Agree(h, p)'
  BY <1>1, <1>3 DEF Agree
<1> QED BY <1>2, <1>3 DEF KeptAt

\* The first step of an update: no other is past the configuration file.
LEMMA ConfKept ==
  ASSUME Stores, Ops, Apart, ProjectNext, NEW h \in Host, NEW p \in mix.static, AlternateAt(h, p),
      KeptAt(h, p),
         NEW i \in Slot, Updates(i, h, p), \A j \in Slot : j # i => op'[j] = op[j],
         UpdateProjectCode(i), op'[i].pc # "failed"
  PROVE  AlternateAt(h, p)' /\ KeptAt(h, p)'
<1>1. i \in Proc /\ op[i].kind = "update" /\ op[i].h = h /\ op[i].p = p /\ p \in Project
  BY StaticProjects DEF Updates, Proc
<1>2. /\ op[i].pc = "conf" /\ op'[i].pc = "hubCode" /\ op'[i].rec = conf[h].file /\ op'[i].seen = op[i].seen
      /\ conf[h].file[p] = op[i].seen.old
  BY <1>1, UpdateProjectCodeFits
<1>3. conf'[h].file = [conf[h].file EXCEPT ![p] = op[i].code]
  BY <1>1, UpdateConfWrites
<1>4. conf'[h].file[p] = op[i].code
  BY <1>1, <1>3, ConfTyped DEF Codes
<1>5. hub' = hub /\ shared' = shared
  BY DEF UpdateProjectCode
<1>6. op[i].seen.old = conf[h].mem[p] /\ op[i].seen.old # None
  BY <1>1, <1>2, ChangeFacts DEF Apart
<1>7. op'[i].code = op[i].code /\ Updates(i, h, p)'
  BY EachMoves, AskedStays, ZenonT(30) DEF Same
<1>8. ASSUME NEW j \in Slot, Changing(j, h, p) PROVE FALSE
  <2>1. Updates(j, h, p) /\ op[j].pc \in ChangePcs /\ conf[h].file[p] = op[j].code
    BY <1>8 DEF Changing, AlternateAt
  <2>2. op[j].seen.old # op[j].code /\ op[j].kind = "update" /\ op[j].h = h /\ op[j].p = p
    BY <2>1, ChangeFacts
  <2>3. op[j].seen.old = conf[h].mem[p]
    BY <2>1, <2>2 DEF Apart
  <2> QED BY <1>2, <1>6, <2>1, <2>2, <2>3
<1>9. ASSUME NEW j \in Slot, Changing(j, h, p)' PROVE i = j
  <2>1. j # i => Changing(j, h, p)
    BY <1>9, AskedStays DEF Changing
  <2> QED BY <1>8, <2>1
<1>10. AlternateAt(h, p)'
  BY <1>2, <1>4, <1>7, <1>9 DEF AlternateAt
<1>11. ASSUME hub'.project[p] PROVE Spoiled(h, p)' \/ Agree(h, p)'
  <2>1. CASE Spoiled(h, p)
    BY <2>1, SpoiledStays
  <2>2. CASE Agree(h, p)
    <3>1. hub.code[p] = op[i].seen.old /\ shared[h].code[p] \in {None, op[i].seen.old}
      BY <1>2, <1>8, <2>2 DEF Agree
    <3>2. Changing(i, h, p)'
      BY <1>2, <1>7 DEF Changing, ChangePcs
    <3> QED BY <1>2, <1>5, <1>7, <1>9, <3>1, <3>2 DEF Agree
  <2>3. hub.project[p] /\ conf[h].file[p] # None
    BY <1>2, <1>5, <1>6, <1>11
  <2> QED BY <2>1, <2>2, <2>3 DEF KeptAt
<1> QED BY <1>10, <1>11 DEF KeptAt

\* The other steps of an update.
LEMMA ChangeKept ==
  ASSUME Stores, Ops, Apart, ProjectNext, NEW h \in Host, NEW p \in mix.static, AlternateAt(h, p),
      KeptAt(h, p),
         NEW i \in Slot, Changing(i, h, p), \A j \in Slot : j # i => op'[j] = op[j],
         OpStep(i) \/ Fault(i)
  PROVE  AlternateAt(h, p)' /\ KeptAt(h, p)'
<1>1. /\ i \in Proc /\ op[i].kind = "update" /\ op[i].h = h /\ op[i].p = p /\ p \in Project
      /\ op[i].pc \in ChangePcs /\ Updates(i, h, p) /\ Updates(i, h, p)'
  BY StaticProjects, AskedStays DEF Changing, Updates, Proc
<1>2. /\ op[i].rec \in Codes /\ op[i].seen.old # None /\ op[i].code # None
      /\ conf[h].file[p] = op[i].code /\ op[i].rec[p] = op[i].seen.old
  BY <1>1, ChangeFacts DEF AlternateAt
<1>3. ASSUME hub.project[p], ~Spoiled(h, p)'
      PROVE  /\ shared[h].code[p] \in {None, op[i].seen.old}
             /\ hub.code[p] = IF op[i].pc \in {"hubCode", "restoreConf"} THEN op[i].seen.old ELSE op[i].code
             /\ op[i].pc = "bootstrapBatch" => \A r \in op[i].plan : r.code # op[i].code
  BY <1>3, ChangingIs, SpoiledStays
<1>4. ASSUME HubCode(i) PROVE AlternateAt(h, p)' /\ KeptAt(h, p)'
  <2>1. op[i].pc = "hubCode" /\ op'[i].seen = op[i].seen /\ op'[i].rec = op[i].rec
    BY <1>1, <1>4, HubCodeFits, Zenon
  <2>2. conf' = conf /\ shared' = shared
    BY <1>4 DEF HubCode
  <2>3. \/ op'[i].pc = "bootstrap" /\ hub'.project = hub.project
             /\ hub'.code = [hub.code EXCEPT ![p] = op[i].code]
        \/ op'[i].pc = "restoreConf" /\ hub' = hub
    BY <1>1, <1>4, HubCodeFits, HubCodeWrites, Zenon
  <2>4. CASE op'[i].pc = "bootstrap" /\ hub'.project = hub.project
               /\ hub'.code = [hub.code EXCEPT ![p] = op[i].code]
    <3>1. hub'.code[p] = op[i].code
      BY <1>1, <2>4, HubTyped DEF Codes
    <3> QED BY <1>3, <2>1, <2>2, <2>4, <3>1, KeptChanging DEF ChangePcs
  <2>5. CASE op'[i].pc = "restoreConf" /\ hub' = hub
    BY <1>3, <2>1, <2>2, <2>5, KeptChanging DEF ChangePcs
  <2> QED BY <2>3, <2>4, <2>5
<1>5. ASSUME BootstrapChecks(i) \/ (BootstrapBatch(i) /\ op'[i].pc # "ok")
      PROVE  AlternateAt(h, p)' /\ KeptAt(h, p)'
  <2>1. op[i].pc \in BatchPcs /\ BatchMoves(i) /\ (BootstrapBatch(i) => shared' = shared)
    <3>1. CASE BootstrapChecks(i)
      <4>1. op[i].pc \in BatchPcs /\ BatchMoves(i)
        BY <1>1, <3>1, UpdateBatch
      <4>2. ~BootstrapBatch(i)
        BY <3>1 DEF BootstrapChecks, BootstrapBatch, OpAt
      <4> QED BY <4>1, <4>2
    <3>2. CASE BootstrapBatch(i) /\ op'[i].pc # "ok"
      BY <1>1, <3>2, UpdateBatch
    <3> QED BY <1>5, <3>1, <3>2
  <2>2. conf' = conf /\ hub' = hub /\ shared' = shared
    BY <1>5, <2>1 DEF BootstrapChecks, BootstrapBatch, stores
  <2>3. op'[i].pc = "bootstrapBatch" => op'[i].plan = {BootstrapRow(h, p)}
    <3>1. ASSUME BootstrapFailed(i) PROVE op'[i].pc = "rollbackCode"
      BY <1>1, <2>1, <3>1, BootstrapFailedFits
    <3>2. CASE BootstrapChecks(i)
      BY <1>1, <3>1, <3>2, BootstrapChecksFits
    <3>3. CASE BootstrapBatch(i) /\ op'[i].pc # "ok"
      BY <1>1, <3>1, <3>3, BootstrapBatchFits
    <3> QED BY <1>5, <3>2, <3>3
  <2>4. ASSUME hub.project[p], ~Spoiled(h, p)', op'[i].pc = "bootstrapBatch"
        PROVE  \A r \in op'[i].plan : r.code # op[i].code
    <3>1. shared[h].code[p] # op[i].code
      BY <1>1, <1>2, <1>3, <2>4, ChangeFacts
    <3> QED BY <2>3, <2>4, <3>1 DEF BootstrapRow
  <2> QED BY <1>3, <2>1, <2>2, <2>4, KeptChanging DEF ChangePcs, BatchPcs, BatchMoves
<1>6. ASSUME BootstrapBatch(i), op'[i].pc = "ok" PROVE AlternateAt(h, p)' /\ KeptAt(h, p)'
  <2>1. op[i].pc = "bootstrapBatch" /\ conf' = conf /\ hub' = hub
    BY <1>1, <1>6, BootstrapBatchFits DEF BootstrapBatch
  <2>2. ~BootstrapFailed(i)
    BY <1>1, <1>6, <2>1, BootstrapFailedFits DEF BatchPcs
  <2>3. PICK read \in op[i].plan : shared'[h].code = [shared[h].code EXCEPT ![p] = BatchCode(i, read)]
    BY <1>1, <1>6, <2>2, BootstrapWrites
  <2>4. ASSUME hub.project[p], ~Spoiled(h, p)' PROVE shared'[h].code[p] = op[i].code
    <3>1. read.code # op[i].code
      BY <1>3, <2>1, <2>4
    <3> QED BY <1>1, <2>3, <3>1, SharedTyped DEF Codes, BatchCode
  <2> QED BY <1>2, <1>3, <1>6, <2>1, <2>4, KeptDone DEF ChangePcs
<1>7. ASSUME RollbackProjectCode(i) PROVE AlternateAt(h, p)' /\ KeptAt(h, p)'
  <2>1. op[i].pc = "rollbackCode" /\ op'[i].pc = "restoreConf" /\ op'[i].seen = op[i].seen
          /\ op'[i].rec = op[i].rec
    BY <1>1, <1>7, RollbackProjectCodeFits
  <2>2. conf' = conf /\ shared' = shared
    BY <1>7 DEF RollbackProjectCode
  <2>3. CASE op'[i].work = "mixed"
    BY <1>1, <2>1, <2>2, <2>3, KeptChanging DEF Spoiled, ChangePcs
  <2>4. CASE op'[i].work # "mixed"
    <3>1. RevertsCode(i)
      BY <1>1, <1>7, <2>4, RollbackProjectCodeFits
    <3>2. hub'.project = hub.project /\ hub'.code = [hub.code EXCEPT ![p] = op[i].seen.old]
      BY <1>1, <3>1, RollbackCodeWrites
    <3>3. hub'.code[p] = op[i].seen.old
      BY <1>1, <3>2, HubTyped DEF Codes
    <3> QED BY <1>3, <2>1, <2>2, <3>2, <3>3, KeptChanging DEF ChangePcs
  <2> QED BY <2>3, <2>4
<1>8. ASSUME RestoreConf(i) PROVE AlternateAt(h, p)' /\ KeptAt(h, p)'
  <2>1. op[i].pc = "restoreConf" /\ op'[i].pc = IF op[i].work = "mixed" THEN "mixed" ELSE "failed"
    BY <1>1, <1>8, RestoreConfFits
  <2>2. hub' = hub /\ shared' = shared /\ conf'[h].file[p] = op[i].seen.old
    BY <1>1, <1>2, <1>8, RestoreConfWrites DEF RestoreConf
  <2>3. op'[i].pc \notin ChangePcs
    BY <2>1 DEF ChangePcs
  <2> QED BY <1>3, <2>1, <2>2, <2>3, KeptDone
<1>9. ASSUME Fault(i) PROVE AlternateAt(h, p)' /\ KeptAt(h, p)'
  <2>1. conf' = conf /\ shared' = shared
    BY <1>9 DEF Fault
  <2>2. op[i].pc \in {"hubCode", "rollbackCode", "restoreConf"}
    BY <1>1, <1>9 DEF Fault, HubFails, LocalFails, RestoreFails, MigrationFails, OpAt, ChangePcs
  <2>3. CASE op[i].pc = "restoreConf"
    <3>1. op'[i].pc = "mixed" \/ (op'[i].pc = "failed" /\ op'[i].work = "kept")
      BY <1>1, <1>9, <2>3, FaultFits
    <3>2. Spoiled(h, p)' /\ op'[i].pc \notin ChangePcs
      BY <1>1, <3>1 DEF Spoiled, ChangePcs
    <3> QED BY <3>2, KeptDone
  <2>4. ASSUME op[i].pc \in {"hubCode", "rollbackCode"}
        PROVE  /\ op'[i].pc = "restoreConf" /\ op'[i].seen = op[i].seen /\ op'[i].rec = op[i].rec
               /\ op'[i].work \in {"mixed", "pushed"} \/ (op[i].pc = "hubCode" /\ hub' = hub)
    <3>1. op'[i].kind = "update"
      BY <1>1, EachMoves DEF Same
    <3>2. op'[i].pc \notin {"snapshot", "degraded"}
      BY <1>1, <1>9, <3>1, FaultFits DEF OpFits, KindFits
    <3> QED BY <1>1, <1>9, <2>4, <3>2, FaultFits
  <2>5. CASE op[i].pc \in {"hubCode", "rollbackCode"} /\ op'[i].work \in {"mixed", "pushed"}
    <3>1. Spoiled(h, p)'
      BY <1>1, <2>4, <2>5 DEF Spoiled
    <3> QED BY <2>1, <2>4, <2>5, <3>1, KeptChanging DEF ChangePcs
  <2>6. CASE op[i].pc = "hubCode" /\ hub' = hub
    BY <1>3, <2>1, <2>4, <2>6, KeptChanging DEF ChangePcs
  <2> QED BY <2>2, <2>3, <2>4, <2>5, <2>6
<1>10. ~Preflight(i) /\ ~UpdateProjectCode(i)
  BY <1>1 DEF Preflight, UpdateProjectCode, OpAt, ChangePcs
<1> QED BY <1>1, <1>4, <1>5, <1>6, <1>7, <1>8, <1>9, <1>10, UpdateSteps

\* The bootstrap of an onboarding brings the identifiers the Hub has.
LEMMA BootstrapBrings ==
  ASSUME Stores, Ops, Apart, ProjectNext, NEW h \in Host, NEW p \in mix.static, Alone(h, p),
         \A j \in Slot : Updates(j, h, p) => ~BootstrapBatch(j)
  PROVE  \/ shared'[h].code[p] = shared[h].code[p]
         \/ (\A j \in Slot : ~Changing(j, h, p)) /\ (hub.project[p] => shared'[h].code[p] = hub.code[p])
<1>0. p \in Project
  BY StaticProjects
<1>1. CASE \A i \in Slot : op[i].h = h /\ op[i].p = p => ~BootstrapBatch(i)
  BY <1>0, <1>1, SharedCodeStays
<1>2. ASSUME NEW i \in Slot, op[i].h = h, op[i].p = p, BootstrapBatch(i)
      PROVE  \/ shared'[h].code[p] = shared[h].code[p]
             \/ (\A j \in Slot : ~Changing(j, h, p)) /\ (hub.project[p] => shared'[h].code[p] = hub.code[p])
  <2>1. i \in Proc /\ op[i].pc \in BatchPcs
    BY <1>2, BootstrapBatchFits DEF Proc, BatchPcs
  <2>2. op[i].kind \in Onboards
    BY <1>2, <2>1, BatchFacts DEF Updates
  <2>3. Adopting(i, h, p)
    BY <1>2, <2>1, <2>2 DEF Adopting
  <2>4. /\ \A j \in Slot : Updates(j, h, p) => op[j].pc \notin ChangePcs \cup {"conf"}
        /\ hub.project[p] => hub.code[p] = op[i].code
    BY <1>2, <2>1, <2>3 DEF Apart
  <2>5. \/ UNCHANGED shared
        \/ \E to \in {shared[h].code[p], op[i].code} : shared'[h].code = [shared[h].code EXCEPT ![p] = to]
    BY <1>2, <2>1, BootstrapWrites DEF BatchCode
  <2>6. shared'[h].code[p] = shared[h].code[p] \/ shared'[h].code[p] = op[i].code
    BY <1>0, <2>5, SharedTyped DEF Codes
  <2> QED BY <2>4, <2>6 DEF Changing
<1> QED BY <1>1, <1>2

LEMMA KeptNext ==
  ASSUME Stores, Ops, Apart, Alternate, Kept, ProjectNext
  PROVE  Alternate' /\ Kept'
<1> SUFFICES ASSUME NEW h \in Host, NEW p \in mix.static, Alone(h, p)
             PROVE  AlternateAt(h, p)' /\ KeptAt(h, p)'
  <2>1. mix' = mix
    BY MixStays
  <2> QED BY <2>1, AskedStays DEF Alternate, Kept
<1>1. AlternateAt(h, p) /\ KeptAt(h, p)
  BY DEF Alternate, Kept
<1>2. ASSUME \A j \in Slot : Updates(j, h, p) => Stays(j) PROVE AlternateAt(h, p)' /\ KeptAt(h, p)'
  <2>1. /\ conf'[h].file[p] = conf[h].file[p]
        /\ hub'.project[p] => hub.project[p] /\ hub'.code[p] = hub.code[p]
        /\ \A j \in Slot : Updates(j, h, p) => ~BootstrapBatch(j)
    BY <1>2, WaitingLeaves
  <2>2. \/ shared'[h].code[p] = shared[h].code[p]
        \/ (\A j \in Slot : ~Changing(j, h, p)) /\ (hub.project[p] => shared'[h].code[p] = hub.code[p])
    BY <2>1, BootstrapBrings
  <2> QED BY <1>1, <1>2, <2>1, <2>2, KeptWaiting
<1>3. ASSUME NEW i \in Slot, OpStep(i) \/ Fault(i), MovesOp(i), Updates(i, h, p)
      PROVE  AlternateAt(h, p)' /\ KeptAt(h, p)'
  <2>1. i \in Proc /\ op[i].kind = "update" /\ \A j \in Slot : j # i => op'[j] = op[j]
    BY <1>3, MovesOpIs DEF Proc, Updates
  <2>2. CASE op[i].pc \in ChangePcs
    BY <1>1, <1>3, <2>1, <2>2, ChangeKept DEF Changing
  <2>3. CASE UpdateProjectCode(i) /\ op'[i].pc # "failed"
    BY <1>1, <1>3, <2>1, <2>3, ConfKept
  <2>4. CASE op[i].pc \notin ChangePcs /\ (UpdateProjectCode(i) => op'[i].pc = "failed")
    <3>1. ~HubCode(i) /\ ~BootstrapChecks(i) /\ ~BootstrapBatch(i) /\ ~RollbackProjectCode(i)
            /\ ~RestoreConf(i)
      BY <2>4, Zenon DEF HubCode, ChangesCode, BootstrapChecks, BootstrapBatch, RollbackProjectCode, RevertsCode,
         RestoreConf, OpAt, ChangePcs
    <3>2. ASSUME Fault(i) PROVE op'[i].pc \notin ChangePcs
      <4>1. op'[i].pc \in {"rollback", "restoreConf", "failed", "mixed", "snapshot", "degraded"}
            /\ (op'[i].pc = "restoreConf" => op[i].pc \in {"hubCode", "rollbackCode"})
        BY <2>1, <3>2, FaultFits
      <4> QED BY <2>4, <4>1 DEF ChangePcs
    <3>3. ASSUME OpStep(i) PROVE op'[i].pc \notin ChangePcs
      BY <1>3, <2>1, <2>4, <3>1, <3>3, UpdateSteps, PreflightFits DEF ChangePcs
    <3>4. Stays(i)
      BY <1>3, <2>4, <3>2, <3>3 DEF Stays
    <3> QED BY <1>2, <2>1, <3>4 DEF Stays
  <2> QED BY <2>2, <2>3, <2>4
<1>4. ASSUME NEW i \in Proc, MovesOp(i), ~(i \in Slot /\ Updates(i, h, p))
      PROVE  \A j \in Slot : Updates(j, h, p) => Stays(j)
  BY <1>4, MovesOpIs DEF Proc, Stays
<1>5. ASSUME NEW g \in Host, Crash(g) PROVE \A j \in Slot : Updates(j, h, p) => Stays(j)
  BY <1>5, CrashFits DEF Proc, Stays
<1>6. UNCHANGED op => \A j \in Slot : Updates(j, h, p) => Stays(j)
  BY DEF Stays
<1> QED BY <1>2, <1>3, <1>4, <1>5, <1>6, OpMoves

-----------------------------------------------------------------------------
(* The inductive invariant.                                                *)

StartPcs == {"idle", "clone", "discover", "preflight", "config", "retire", "edit", "ready", "snapshot"}

LEMMA StartFits ==
  ASSUME ProjectInit, mix.asks \in [Slot -> OrNone(Asks)], NEW i \in Proc
  PROVE  OpFits(i, op[i]) /\ op[i].pc \in StartPcs
<1>1. CASE i \in Host
  <2> DEFINE pc == IF i \in mix.up THEN "ready" ELSE "snapshot"
  <2>1. op[i] = NewOp("sync", i, None, None, None, pc)
    BY <1>1 DEF ProjectInit
  <2>2. pc \in {"ready", "snapshot"}
    OBVIOUS
  <2> HIDE DEF pc
  <2>3. /\ AskShape(op[i]) /\ op[i].kind = "sync" /\ op[i].h = i /\ op[i].pc = pc /\ op[i].reg = None
        /\ op[i].phase = "hub"
    BY <2>1 DEF NewOp, AskShape, AskFields
  <2>4. WhoFits(i, op[i]) /\ KindFits(op[i])
    BY <1>1, <2>2, <2>3, SlotOrHost DEF WhoFits, KindFits, RegisterPcs, RestorePcs, BatchPcs,
       RetirePcs
  <2> QED BY <2>2, <2>3, <2>4, PlainFits DEF PlainPcs, StartPcs
<1>2. CASE i \in Slot
  <2>1. op[i] = Asked(mix.asks[i])
    BY <1>2, SlotOrHost DEF ProjectInit
  <2>2. CASE mix.asks[i] = None
    <3>1. op[i] = NewOp("none", None, None, None, None, "idle")
      BY <2>1, <2>2 DEF Asked
    <3>2. AskShape(op[i]) /\ op[i].kind = "none" /\ op[i].pc = "idle" /\ op[i].reg = None
      BY <3>1 DEF NewOp, AskShape, AskFields
    <3>3. WhoFits(i, op[i]) /\ KindFits(op[i])
      BY <1>2, <3>2, SlotOrHost DEF WhoFits, KindFits, RegisterPcs, RestorePcs, BatchPcs, RetirePcs
    <3> QED BY <3>2, <3>3, PlainFits DEF PlainPcs, StartPcs
  <2>3. CASE mix.asks[i] # None
    <3> DEFINE a == mix.asks[i]
    <3>1. a \in Asks
      BY <1>2, <2>3 DEF OrNone
    <3>2. op[i] = NewOp(a.kind, a.h, a.p, a.code, a.reason, FirstStep(a.kind))
      BY <2>1, <2>3 DEF Asked
    <3> HIDE DEF a
    <3>3. /\ a.kind \in {"admin", "onboard", "update", "config", "retire", "edit", "create"}
          /\ a.h \in Host /\ a.p \in Project /\ a.code \in Code /\ a.reason \in STRING
      BY <3>1 DEF Asks
    <3>4. /\ AskShape(op[i]) /\ op[i].kind = a.kind /\ op[i].h = a.h /\ op[i].p = a.p /\ op[i].code = a.code
          /\ op[i].reason = a.reason /\ op[i].pc = FirstStep(a.kind) /\ op[i].reg = None
      BY <3>2 DEF NewOp, AskShape, AskFields
    <3>5. /\ a.kind = "admin" => FirstStep(a.kind) = "clone"
          /\ a.kind = "onboard" => FirstStep(a.kind) = "discover"
          /\ a.kind = "update" => FirstStep(a.kind) = "preflight"
          /\ a.kind = "config" => FirstStep(a.kind) = "config"
          /\ a.kind = "retire" => FirstStep(a.kind) = "retire"
          /\ a.kind \in {"edit", "create"} => FirstStep(a.kind) = "edit"
      BY DEF FirstStep
    <3>6. WhoFits(i, op[i])
      BY <1>2, <3>3, <3>4, SlotOrHost DEF WhoFits
    <3>7. KindFits(op[i]) /\ op[i].pc \in StartPcs /\ op[i].pc # "snapshot"
      BY <3>3, <3>4, <3>5 DEF KindFits, RegisterPcs, RestorePcs, BatchPcs, RetirePcs, Onboards,
         StartPcs
    <3> QED BY <3>4, <3>6, <3>7, PlainFits DEF PlainPcs, StartPcs
  <2> QED BY <2>2, <2>3
<1> QED BY <1>1, <1>2 DEF Proc

LEMMA InitProjectIInv == ProjectInit => ProjectIInv
<1> SUFFICES ASSUME ProjectInit PROVE ProjectIInv
  OBVIOUS
<1>1. mix \in Mixes /\ IsMix(mix)
  BY ProjectLifecycleAssumption DEF ProjectInit
<1>2. /\ hub = mix.hub /\ reg = mix.reg /\ conf = mix.conf /\ shared = mix.shared /\ local = mix.local
      /\ worker = mix.up
  BY DEF ProjectInit
<1>3. Stores
  BY <1>1, <1>2 DEF Stores, IsMix
<1>4. \A i \in Proc : OpFits(i, op[i]) /\ op[i].pc \in StartPcs
  BY <1>1, StartFits DEF IsMix
<1>5. op = [i \in Proc |-> op[i]]
  BY DEF ProjectInit
<1>6. Ops
  BY <1>4, <1>5 DEF Ops
<1>7. /\ \A p \in Project : hub.marker[p] # None => ~hub.project[p] /\ hub.code[p] = None
      /\ \A p \in Project, n \in Num : hub.ent[p][n] # NoEnt => hub.ent[p][n].rev > 0
      /\ \A h \in Host, p \in mix.static :
           hub.project[p] /\ conf[h].file[p] # None =>
              conf[h].file[p] = hub.code[p] /\ shared[h].code[p] \in {None, hub.code[p]}
      /\ \A h \in Host, p \in Project :
           /\ \A e \in shared[h].evid[p] : ~Ahead(shared[h], p, e)
           /\ \A n \in Num : shared[h].ent[p][n] # NoEnt => n < shared[h].seq[p]
  BY <1>1, <1>2 DEF IsMix, Settled
<1>8. RetiredIsGone /\ NumbersKnown
  BY <1>7 DEF RetiredIsGone, NumbersKnown
<1>9. MarkedFirst
  BY <1>4 DEF MarkedFirst, PublishedPcs, RetirePcs, StartPcs
<1>10. ASSUME NEW i \in Slot PROVE op[i].pc \in StartPcs
  BY <1>4 DEF Proc
<1>11. Progress
  BY <1>10 DEF Progress, ProgressOf, RestorePcs, AnswerPcs, StartPcs
<1>12. Apart
  BY <1>10 DEF Apart, Adopting, RegisterPcs, BatchPcs, ChangePcs, StartPcs
<1>13. \A h, p : \A i \in Slot : ~Changing(i, h, p)
  BY <1>10 DEF Changing, ChangePcs, StartPcs
<1>14. Alternate
  BY <1>13 DEF Alternate, AlternateAt
<1>15. Kept
  BY <1>7, <1>13 DEF Kept, KeptAt, Agree
<1> QED BY <1>3, <1>6, <1>8, <1>9, <1>11, <1>12, <1>14, <1>15 DEF ProjectIInv

LEMMA StutterProjectIInv ==
  ASSUME ProjectIInv, UNCHANGED projectVars
  PROVE  ProjectIInv'
<1>1. /\ hub' = hub /\ reg' = reg /\ conf' = conf /\ shared' = shared /\ local' = local
      /\ op' = op /\ worker' = worker /\ mix' = mix
  BY DEF projectVars
<1>2. Stores'
  BY <1>1 DEF ProjectIInv, Stores
<1>3. \A i, o : OpFits(i, o)' <=> OpFits(i, o)
  BY <1>1 DEF OpFits, AskShape, WhoFits, KindFits, RegFits, RetireFits, LoopFits, EditFits, SnapFits
<1>4. Ops'
  BY <1>1, <1>3 DEF ProjectIInv, Ops
<1>5. RetiredIsGone' /\ MarkedFirst'
  BY <1>1 DEF ProjectIInv, RetiredIsGone, MarkedFirst
<1>6. \A h, p : Unrestored(h, p)' <=> Unrestored(h, p)
  BY <1>1 DEF Unrestored
<1>7. NumbersKnown'
  BY <1>1, <1>6 DEF ProjectIInv, NumbersKnown
<1>8. \A o : ProgressOf(o)' <=> ProgressOf(o)
  BY <1>1 DEF ProgressOf, RestoredTo
<1>9. Progress'
  BY <1>1, <1>8 DEF ProjectIInv, Progress
<1>10. /\ \A h, p : Alone(h, p)' <=> Alone(h, p)
       /\ \A i, h, p : Updates(i, h, p)' <=> Updates(i, h, p)
       /\ \A i, h, p : Adopting(i, h, p)' <=> Adopting(i, h, p)
       /\ \A i, h, p : Changing(i, h, p)' <=> Changing(i, h, p)
       /\ \A h, p : IsProjectRetired(h, p)' <=> IsProjectRetired(h, p)
  BY <1>1 DEF Alone, Updates, Adopting, Changing, IsProjectRetired, ReadLocalProjectRetirement,
     ReadSharedProjectRetirement
<1>11. Apart'
  BY <1>1, <1>10 DEF ProjectIInv, Apart
<1>12. \A h, p : AlternateAt(h, p) => AlternateAt(h, p)'
  BY <1>1, <1>10 DEF AlternateAt
<1>13. Alternate'
  BY <1>1, <1>10, <1>12 DEF ProjectIInv, Alternate
<1>14. \A h, p : Spoiled(h, p) => Spoiled(h, p)'
  BY <1>1, <1>10 DEF Spoiled
<1>15. \A h, p : Agree(h, p) => Agree(h, p)'
  BY <1>1, <1>10 DEF Agree
<1>16. \A h, p : KeptAt(h, p) => KeptAt(h, p)'
  BY <1>1, <1>14, <1>15 DEF KeptAt
<1>17. Kept'
  BY <1>1, <1>10, <1>16 DEF ProjectIInv, Kept
<1> QED BY <1>2, <1>4, <1>5, <1>7, <1>9, <1>11, <1>13, <1>17 DEF ProjectIInv

LEMMA NextProjectIInv == ProjectIInv /\ [ProjectNext]_projectVars => ProjectIInv'
<1>1. ASSUME ProjectIInv, ProjectNext PROVE ProjectIInv'
  BY <1>1, StoresNext, OpsNext, RetiredIsGoneNext, MarkedFirstNext, NumbersKnownNext, ProgressStays,
     ApartNext, KeptNext
     DEF ProjectIInv
<1> QED BY <1>1, StutterProjectIInv

-----------------------------------------------------------------------------
(* What holds of every behaviour.                                          *)

\* Every store holds one value of its kind per project, and a request that has
\* answered holds no digest of the registry.
THEOREM ProjectTypeCorrect == ProjectSpec => []ProjectTypeOK
<1>1. ProjectIInv => ProjectTypeOK
  <2> SUFFICES ASSUME ProjectIInv PROVE ProjectTypeOK
    OBVIOUS
  <2>1. DOMAIN op = Proc
    BY DEF ProjectIInv, Ops
  <2>2. ASSUME NEW i \in Slot, op[i].pc \in Ended PROVE op[i].reg = None
    <3>1. RegFits(op[i])
      BY OpsFit DEF ProjectIInv, OpFits, Proc
    <3> QED BY <2>2, <3>1 DEF RegFits, RegisterPcs, Ended
  <2> QED BY <2>1, <2>2 DEF ProjectIInv, Stores, ProjectTypeOK
<1> QED BY <1>1, InitProjectIInv, NextProjectIInv, PTL DEF ProjectSpec

\* No request takes back what another has written since it read: a write of the
\* registry changes one entry, a retirement on the Hub is final, and a restore
\* never brings an entity back to an earlier revision, on every host and
\* whatever is interleaved.
THEOREM NothingIsTakenBack == ProjectSpec => NothingTakenBack
<1>1. ProjectIInv /\ [ProjectNext]_projectVars =>
        [\A h \in Host : reg'[h] # reg[h] =>
           /\ reg'[h].rev = reg[h].rev + 1
           /\ Cardinality({p \in Project : reg'[h].entry[p] # reg[h].entry[p]}) = 1]_projectVars
  BY RegistryOne DEF ProjectIInv
<1>2. ProjectIInv /\ [ProjectNext]_projectVars =>
        [\A p \in Project : hub.marker[p] # None =>
           /\ hub'.marker[p] = hub.marker[p]
           /\ (hub'.project[p] => hub.project[p])
                /\ (hub'.code[p] # None => hub'.code[p] = hub.code[p])]_projectVars
  BY RetiredIsGoneNext DEF ProjectIInv
<1>3. ProjectIInv /\ [ProjectNext]_projectVars =>
        [\A h \in Host, p \in Project,
            n \in Num : shared'[h].ent[p][n].rev >= shared[h].ent[p][n].rev]_projectVars
  BY SharedGrows DEF ProjectIInv, Grows, GrowsAt
<1>4. ProjectSpec => RegistryComposes
  BY <1>1, InitProjectIInv, NextProjectIInv, PTL DEF ProjectSpec, RegistryComposes
<1>5. ProjectSpec => RetirementIsFinal
  BY <1>2, InitProjectIInv, NextProjectIInv, PTL DEF ProjectSpec, RetirementIsFinal
<1>6. ProjectSpec => RestoreKeepsNewer
  BY <1>3, InitProjectIInv, NextProjectIInv, PTL DEF ProjectSpec, RestoreKeepsNewer
<1> QED BY <1>4, <1>5, <1>6 DEF NothingTakenBack

LEMMA CodesAreKept == ASSUME Stores, Kept PROVE CodesAgree
<1> SUFFICES ASSUME NEW h \in Host, NEW p \in mix.static,
                    Alone(h, p), hub.project[p], conf[h].file[p] # None, ~Unsettled(h, p),
                    ~Misreported(h, p)
             PROVE  conf[h].file[p] = hub.code[p] /\ shared[h].code[p] \in {None, hub.code[p]}
  BY DEF CodesAgree
<1>1. \A i \in Slot : Updates(i, h, p) => op[i].pc \in {"ok", "failed"}
        /\ ~(op[i].pc = "failed" /\ op[i].work \in {"pushed", "kept"})
  BY DEF Unsettled, Misreported, Updates
<1>2. ~Spoiled(h, p) /\ \A i \in Slot : ~Changing(i, h, p)
  BY <1>1 DEF Spoiled, Changing, ChangePcs
<1> QED BY <1>2 DEF Kept, KeptAt, Agree

\* Whatever onboardings, retirements and updates of a project are interleaved,
\* crash or fail, before or after the push to the Hub: once its updates have
\* answered without saying that they left a mixed state, and none of them is one
\* of the two failures that hide it (Misreported), configuration file, Hub and
\* Shared agree on its code, and once an onboarding has answered, Shared holds
\* what it saw of the project on the Hub.
THEOREM StoresStayAgreed == ProjectSpec => []StoresAgree
<1>1. ProjectIInv => StoresAgree
  BY CodesAreKept, RestoredIsKept DEF ProjectIInv, StoresAgree
<1> QED BY <1>1, InitProjectIInv, NextProjectIInv, PTL DEF ProjectSpec
=============================================================================
