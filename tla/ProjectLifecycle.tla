-------------------------- MODULE ProjectLifecycle --------------------------
(***************************************************************************)
(* The life of a project across the stores that know about it: the Hub,    *)
(* which all hosts share, and on each host the managed registry file, the  *)
(* host configuration, the Shared and the Local database.  Onboarding, the *)
(* change of a project code, configuration edits and debug retirement run  *)
(* as concurrent requests of the gateway; every start of a gateway runs    *)
(* the synchronisation of retirements until it succeeds or meets a         *)
(* conflict, and only then starts the outbox worker.                       *)
(*                                                                         *)
(* Each access to one store is a step.  Hub transactions are serialised by *)
(* the Hub (HubOutbox models them); a retirement of the Local database is  *)
(* one guarded batch (LocalAuthority models what it guards against).       *)
(***************************************************************************)
EXTENDS Integers, FiniteSets, FiniteSetsExt

CONSTANTS
    Host,       \* gateways, each with its own stores
    Project,    \* project identifiers
    Code,       \* project codes
    None,       \* "no value"
    Num,        \* bound: entity numbers, 1 to a maximum
    Slot,       \* bound: requests a behaviour contains
    MaxCfg,     \* bound: configuration revisions
    Mixes       \* bound: requests, initial stores and budgets; see IsMix

Proc == Slot \cup Host
OrNone(S) == S \cup {None}
NoEnt == [rev |-> 0, by |-> None]

(***************************************************************************)
(* What the stores hold                                                    *)
(***************************************************************************)
\* A configuration and an entity are known by their revision and author.
Revs == 0 .. MaxCfg + Cardinality(Slot)
Ents == [rev : Revs, by : OrNone(Proc)]
Versions == [rev : Nat, by : OrNone(Proc)]
Evidence == [kind : {"revision", "event", "relation"}, n : Num, rev : Nat, by : OrNone(Proc)]
Markers == [at : Slot, reason : STRING, cfg : Revs, cancelled : SUBSET Ents, legacy : BOOLEAN]
LocalMarkers == [at : Slot, reason : STRING]
Codes == [Project -> OrNone(Code)]
Flags == [Project -> BOOLEAN]

HubStore == [rev : Nat, project : Flags, code : Codes, cfg : [Project -> Ents], old : Flags,
             marker : [Project -> OrNone(Markers)], ent : [Project -> [Num -> Versions]],
             evid : [Project -> SUBSET Evidence], next : [Project -> Nat]]
RegStore == [rev : Nat, entry : Codes]
ConfStore == [file : Codes, mem : Codes]
SharedStore == [code : Codes, cfg : [Project -> Ents], hist : [Project -> Revs],
                pend : [Project -> SUBSET Ents], rules : Flags,
                marker : [Project -> OrNone(Markers)], mpend : Flags, ent : [Project -> [Num -> Versions]],
                evid : [Project -> SUBSET Evidence], seq : [Project -> Nat]]
LocalStore == [marker : [Project -> OrNone(LocalMarkers)], busy : Flags, legacy : Flags]
Asks == [kind : {"admin", "onboard", "update", "config", "retire", "edit", "create"},
         h : Host, p : Project, code : Code, reason : STRING]

Ahead(s, p, e) == e.kind # "relation" /\ s.ent[p][e.n].rev < e.rev

\* The stores of a start are such as earlier requests leave them: a retired
\* project is gone from the Hub, the codes of a configured project agree, no
\* evidence is ahead of its entity and every number in use is below the next.
Settled(m) ==
    /\ \A p \in Project : m.hub.marker[p] # None => ~m.hub.project[p] /\ m.hub.code[p] = None
    /\ \A p \in Project, n \in Num : m.hub.ent[p][n] # NoEnt => m.hub.ent[p][n].rev > 0
    /\ \A h \in Host, p \in m.static :
         m.hub.project[p] /\ m.conf[h].file[p] # None =>
            m.conf[h].file[p] = m.hub.code[p] /\ m.shared[h].code[p] \in {None, m.hub.code[p]}
    /\ \A h \in Host, p \in Project :
         /\ \A e \in m.shared[h].evid[p] : ~Ahead(m.shared[h], p, e)
         /\ \A n \in Num : m.shared[h].ent[p][n] # NoEnt => n < m.shared[h].seq[p]

\* asks: the request of each Slot, or None; hub, reg, shared, local, conf: the
\* stores at the start; debug: hosts that run with Debug.Enabled, the only ones
\* with a retirement request; canon: those of them whose Shared configurations
\* are migrated; left: how many crashes and failures may happen.
IsMix(m) ==
    /\ m.asks \in [Slot -> OrNone(Asks)]
    /\ m.hub \in HubStore /\ m.reg \in [Host -> RegStore] /\ m.conf \in [Host -> ConfStore]
    /\ m.shared \in [Host -> SharedStore] /\ m.local \in [Host -> LocalStore]
    /\ m.left \in [crashes : Nat, faults : Nat, ends : Nat]
    /\ m.static \subseteq Project /\ m.up \subseteq Host
    /\ m.canon \subseteq m.debug /\ m.debug \subseteq Host
    /\ \A i \in Slot : m.asks[i] # None /\ m.asks[i].kind = "retire" => m.asks[i].h \in m.debug
    /\ Settled(m)

\* Requests and gateways have different names, and None is none of the values.
ASSUME ProjectLifecycleAssumption ==
    /\ MaxCfg \in Nat /\ Num \subseteq Nat \ {0}
    /\ IsFiniteSet(Num) /\ IsFiniteSet(Slot) /\ Slot \cap Host = {}
    /\ None \notin {"import", "batch"} \cup Code \cup Asks \cup LocalMarkers
    /\ \A m \in Mixes : IsMix(m)

VARIABLES
    hub,      \* [rev, project, code, cfg, old, marker, ent, evid, next]: the files of every project
    reg,      \* Host -> managed-projects.json: [rev, entry]
    conf,     \* Host -> [file, mem]: codes of the configured projects, on disk and loaded
    shared,   \* Host -> Shared rows: [code, cfg, hist, pend, rules, marker, mpend, ent, evid, seq]
    local,    \* Host -> Local rows: [marker, busy, legacy]
    repo,     \* Host -> Project -> repository below the onboarding root
    relay,    \* Host -> Project -> detached Worker runtime
    op,       \* Slot \cup Host -> a request, or the start-up synchronisation of a host
    worker,   \* hosts whose outbox worker runs
    left,     \* remaining budgets
    mix       \* the chosen member of Mixes

stores == <<hub, reg, conf, shared, local>>
world == <<repo, relay>>
projectVars == <<hub, reg, conf, shared, local, repo, relay, op, worker, left, mix>>

Ended == {"ok", "failed", "mixed", "partial", "crashed", "idle"}

(***************************************************************************)
(* Registry, resolution and retirement queries                             *)
(***************************************************************************)
\* A registry digest covers the revision and every entry.
Digest(r) == r

WriteManagedProjectRegistry(h, digest, p, code) ==
    /\ Digest(reg[h]) = digest
    /\ reg' = [reg EXCEPT ![h] = [rev |-> @.rev + 1, entry |-> [@.entry EXCEPT ![p] = code]]]

ReadSharedProjectRetirement(h, p) == shared[h].marker[p]
ReadLocalProjectRetirement(h, p) == local[h].marker[p]
IsProjectRetired(h, p) == ReadLocalProjectRetirement(h, p) # None \/ ReadSharedProjectRetirement(h, p) # None

\* resolveProjects: static and managed entries, minus what this host retired;
\* the same identifier in both is refused.
EffectiveCode(h, p) ==
    IF IsProjectRetired(h, p) \/ (p \in mix.static /\ reg[h].entry[p] # None) THEN None
    ELSE IF p \in mix.static THEN conf[h].mem[p] ELSE reg[h].entry[p]

RetiredAnywhere(h, p) == IsProjectRetired(h, p) \/ hub.marker[p] # None

ReadSharedProjectIdentifiers(h, p) == shared[h].code[p]

\* ProjectIdentifiersRead: the Hub code, unless the project is retired.
ProjectIdentifiersRead(h, p) == IF RetiredAnywhere(h, p) THEN None ELSE hub.code[p]

\* ProjectConfigurationRead: the Shared row, unless the project is retired.
ProjectConfigurationRead(h, p) == IF RetiredAnywhere(h, p) THEN NoEnt ELSE shared[h].cfg[p]

\* ProjectRead.
ProjectRead(h, p) == ~RetiredAnywhere(h, p) /\ hub.project[p]

(***************************************************************************)
(* Steps and their outcome                                                 *)
(***************************************************************************)
\* The synchronisation is retried, unless its error is a retirement conflict.
postReadyHubSyncRetryable(err) == err # "conflict"

Retry(o) == [o EXCEPT !.pc = "snapshot", !.phase = "hub", !.todo = {}, !.p = None, !.work = None,
                      !.rec = None, !.seen = None, !.plan = {}, !.try = 0]

Stop(o, err) ==
    IF o.kind = "sync"
    THEN IF postReadyHubSyncRetryable(err) THEN Retry(o) ELSE [Retry(o) EXCEPT !.pc = "degraded"]
    ELSE [o EXCEPT !.pc = "failed", !.reg = None, !.rec = None, !.seen = None, !.todo = {}, !.plan = {}]

\* What a retirement does after each of its steps, for a request and for the
\* three loops of the synchronisation; work is what Shared still needs.
Follow(o, step) ==
    CASE step = "beginLocal" /\ o.phase = "publish" -> "unregister"
      [] step = "beginLocal" /\ o.phase # "publish" /\ o.work # None -> o.work
      [] step \in {"beginLocal", "shared"} /\ o.phase = "retire" -> "publish"
      [] step \in {"beginLocal", "shared"} /\ o.phase = "hub" -> "unregister"
      [] step = "shared" /\ o.phase = "local" -> "next"
      [] step = "publish" -> "mark"
      [] step = "mark" -> IF o.phase = "retire" THEN "unregister" ELSE "next"
      [] step = "unregister" -> (CASE o.phase = "retire" -> "ok" [] o.phase = "hub" -> "next" [] OTHER -> "publish")

Go(i, o) == op' = [op EXCEPT ![i] = o]
Proceed(i, pc) == Go(i, [op[i] EXCEPT !.pc = pc])
OpAt(i, pc) == op[i].pc = pc

(***************************************************************************)
(* ProjectOnboard and AdminProjectOnboard                                  *)
(***************************************************************************)
\* ensureAdminRepository: clone or validate, and give an empty repository its
\* first commit.
AdminRepository(i) ==
    LET o == op[i] IN
    /\ OpAt(i, "clone")
    /\ repo' = [repo EXCEPT ![o.h][o.p] = IF @ \in {"absent", "empty"} THEN "clean" ELSE @]
    /\ Go(i, IF repo[o.h][o.p] = "unsafe" THEN Stop(o, "unsafe") ELSE [o EXCEPT !.pc = "discover"])
    /\ UNCHANGED <<stores, relay>>

\* discoverOnboardProject and the decision between the three branches.
Discover(i) ==
    LET o == op[i]  e == reg[o.h].entry[o.p] IN
    /\ OpAt(i, "discover")
    /\ Go(i, IF e # None
             THEN IF e = o.code THEN [o EXCEPT !.pc = "reconcile", !.phase = "registered"]
                                ELSE Stop(o, "code")
             ELSE IF o.p \in mix.static THEN Stop(o, "static")
             ELSE [o EXCEPT !.pc = "hub", !.reg = Digest(reg[o.h])])
    /\ UNCHANGED <<stores, world>>

ReadHubOnboardProject(i) ==
    LET o == op[i] IN
    /\ OpAt(i, "hub")
    /\ Go(i, IF ~hub.project[o.p] THEN [o EXCEPT !.pc = "revision", !.phase = "new"]
             ELSE IF ProjectIdentifiersRead(o.h, o.p) = o.code
                  THEN [o EXCEPT !.pc = "registry", !.phase = "adopt"]
                  ELSE Stop(o, "adopt"))
    /\ UNCHANGED <<stores, world>>

\* The Hub revision the registration expects, and the check before it.
HubRevision(i) ==
    LET o == op[i] IN
    /\ OpAt(i, "revision")
    /\ Go(i, IF IsProjectRetired(o.h, o.p) THEN Stop(o, "retired")
                                           ELSE [o EXCEPT !.pc = "register", !.rev = hub.rev])
    /\ UNCHANGED <<stores, world>>

\* A Hub transaction has its checks and what it commits when they hold; the
\* second part stands alone because it may happen although the caller is told
\* of an error (HubFails).
Commit(new) == hub' = [new EXCEPT !.rev = hub.rev + 1]

\* Mutant: the registration does not look for a retirement marker.
ForgetsMarker(h, p) == ~hub.project[p] /\ hub.cfg[p] = NoEnt

\* What projectRegister checks inside its transaction.
MayRegister(h, p) ==
    /\ hub.marker[p] = None /\ shared[h].marker[p] = None
    /\ ~hub.project[p] /\ hub.cfg[p] = NoEnt

Registrable(o) == hub.rev = o.rev /\ MayRegister(o.h, o.p)

Registers(i) ==
    LET o == op[i] IN
    /\ OpAt(i, "register") /\ Registrable(o)
    /\ Commit([hub EXCEPT !.project[o.p] = TRUE, !.cfg[o.p] = [rev |-> 1, by |-> o.h]])

ProjectRegister(i) ==
    LET o == op[i] IN
    /\ \/ Registers(i) /\ Go(i, [o EXCEPT !.pc = "identifiers", !.rev = hub.rev + 1])
       \/ OpAt(i, "register") /\ ~Registrable(o) /\ Go(i, Stop(o, "register")) /\ UNCHANGED hub
    /\ UNCHANGED <<reg, conf, shared, local, world>>

\* ProjectIdentifiersAdopt: the code is new to the Hub and the project has none.
Adoptable(o) ==
    /\ ProjectRead(o.h, o.p) /\ hub.rev = o.rev
    /\ hub.code[o.p] = None /\ \A q \in Project : hub.code[q] # o.code

Adopts(i) ==
    /\ OpAt(i, "identifiers") /\ Adoptable(op[i])
    /\ Commit([hub EXCEPT !.code[op[i].p] = op[i].code])

ProjectIdentifiersAdopt(i) ==
    /\ \/ Adopts(i) /\ Go(i, [op[i] EXCEPT !.pc = "registry", !.rev = hub.rev + 1])
       \/ OpAt(i, "identifiers") /\ ~Adoptable(op[i]) /\ Proceed(i, "rollback") /\ UNCHANGED hub
    /\ UNCHANGED <<reg, conf, shared, local, world>>

\* rollbackOnboardHub: nothing is removed when the Hub has moved on, and the
\* error is dropped.
Unregisters(i) ==
    LET o == op[i] IN
    /\ OpAt(i, "rollback") /\ hub.rev = o.rev
    /\ Commit([hub EXCEPT !.project[o.p] = FALSE, !.cfg[o.p] = NoEnt, !.code[o.p] = None])

RollbackOnboardHub(i) ==
    /\ \/ Unregisters(i)
       \/ OpAt(i, "rollback") /\ hub.rev # op[i].rev /\ UNCHANGED hub
    /\ Go(i, Stop(op[i], "rolled back"))
    /\ UNCHANGED <<reg, conf, shared, local, world>>

\* The registry entry of a new project; a lost race undoes it on the Hub.
PublishRegistry(i) ==
    LET o == op[i] IN
    /\ OpAt(i, "registry") /\ o.phase = "new"
    /\ \/ /\ WriteManagedProjectRegistry(o.h, o.reg, o.p, o.code)
          /\ Go(i, [o EXCEPT !.pc = "reconcile", !.reg = None])
       \/ reg[o.h] # o.reg /\ Proceed(i, "rollback") /\ UNCHANGED reg
    /\ UNCHANGED <<hub, conf, shared, local, world>>

\* projectOnboardAdoptHub: the registry entry of a project the Hub has.
AdoptHub(i) ==
    LET o == op[i] IN
    /\ OpAt(i, "registry") /\ o.phase = "adopt"
    /\ \/ /\ WriteManagedProjectRegistry(o.h, o.reg, o.p, o.code)
          /\ Go(i, [o EXCEPT !.pc = "reconcile", !.reg = None])
       \/ reg[o.h] # o.reg /\ Go(i, Stop(o, "digest")) /\ UNCHANGED reg
    /\ UNCHANGED <<hub, conf, shared, local, world>>

\* reconcileOnboardedProjectShared: identifiers and configuration as the Hub
\* has them, its configuration brought to the canonical form.
Reconcilable(o) == ProjectIdentifiersRead(o.h, o.p) = o.code /\ hub.cfg[o.p] # NoEnt

Canonicalizes(i) ==
    /\ OpAt(i, "reconcile") /\ Reconcilable(op[i]) /\ hub.old[op[i].p]
    /\ Commit([hub EXCEPT !.old[op[i].p] = FALSE])

ReconcileReads(i) ==
    LET o == op[i] IN
    /\ OpAt(i, "reconcile")
    /\ \/ Canonicalizes(i)
       \/ ~(Reconcilable(o) /\ hub.old[o.p]) /\ UNCHANGED hub
    /\ Go(i, IF Reconcilable(o) THEN [o EXCEPT !.pc = "bootstrap", !.seen = [cfg |-> hub.cfg[o.p], old |-> o.code]]
                                ELSE Stop(o, "identifiers"))
    /\ UNCHANGED <<reg, conf, shared, local, world>>

\* ReconcileProjectBootstrap: one batch, after checks that are not part of it.
BootstrapAllowed(h, p, from, to, cfg) ==
    /\ ~IsProjectRetired(h, p)
    /\ shared[h].code[p] \in {None, from, to}
    /\ shared[h].cfg[p] \in {NoEnt, cfg}

BootstrapFailed(i) ==
    Go(i, IF op[i].kind = "update" THEN [op[i] EXCEPT !.pc = "rollbackCode"] ELSE Stop(op[i], "shared"))

BootstrapRow(h, p) == [code |-> shared[h].code[p], cfg |-> shared[h].cfg[p], rules |-> shared[h].rules[p]]

\* The rows that were read are kept in plan.
BootstrapChecks(i) ==
    LET o == op[i] IN
    /\ OpAt(i, "bootstrap")
    /\ IF BootstrapAllowed(o.h, o.p, o.seen.old, o.code, o.seen.cfg)
       THEN Go(i, [o EXCEPT !.pc = "bootstrapBatch", !.plan = {BootstrapRow(o.h, o.p)}])
       ELSE BootstrapFailed(i)
    /\ UNCHANGED <<stores, world>>

\* What the batch inserts must still be absent; a code it changes must be the
\* one that was read.  The rows it does not write are not looked at again.
BatchHolds(read, row, code) ==
    /\ read.code # code => row.code = read.code
    /\ read.cfg = NoEnt => row.cfg = NoEnt
    /\ ~read.rules => ~row.rules

BootstrapRows(h, p, read, to, cfg) ==
    [shared EXCEPT ![h].code[p] = IF read.code = to THEN @ ELSE to,
                   ![h].rules[p] = TRUE,
                   ![h].cfg[p] = IF read.cfg = NoEnt THEN cfg ELSE @]

BootstrapBatch(i) ==
    LET o == op[i] IN
    /\ OpAt(i, "bootstrapBatch")
    /\ \E read \in o.plan :
         IF BatchHolds(read, BootstrapRow(o.h, o.p), o.code)
         THEN /\ shared' = BootstrapRows(o.h, o.p, read, o.code, o.seen.cfg)
              /\ Proceed(i, IF o.kind = "update" THEN "ok" ELSE "restore")
         ELSE BootstrapFailed(i) /\ UNCHANGED shared
    /\ UNCHANGED <<hub, reg, conf, local, world>>

\* restoreHubProjectSemantics: one Hub snapshot for all families.
RestoreSnapshot(i) ==
    LET o == op[i]
        snap == [ent |-> hub.ent[o.p], evid |-> hub.evid[o.p], next |-> hub.next[o.p]]
    IN
    /\ OpAt(i, "restore")
    /\ Go(i, IF RetiredAnywhere(o.h, o.p) THEN [o EXCEPT !.pc = "verify", !.seen = None]
             ELSE [o EXCEPT !.pc = "family", !.seen = snap, !.todo = {n \in Num : snap.ent[n] # NoEnt}])
    /\ UNCHANGED <<stores, world>>

\* restoreHubEntityFamily: an entity of the snapshot that is newer than the
\* Shared one is put; equal revisions must agree.
RestoreEntity(i) ==
    LET o == op[i] IN
    /\ OpAt(i, "family") /\ o.todo # {}
    /\ LET n == Min(o.todo)  theirs == o.seen.ent[n]  ours == shared[o.h].ent[o.p][n] IN
         Go(i, IF theirs.rev < ours.rev \/ theirs = ours THEN [o EXCEPT !.todo = @ \ {n}]
               ELSE IF theirs.rev = ours.rev THEN Stop(o, "entity")
               ELSE [o EXCEPT !.pc = "put", !.todo = @ \ {n}, !.plan = {n}])
    /\ UNCHANGED <<stores, world>>

\* PutSharedProjection never replaces a newer revision.
PutSharedProjection(h, p, n, ent) ==
    shared' = [shared EXCEPT ![h].ent[p][n] = IF ent.rev >= @.rev THEN ent ELSE @]

RestorePut(i) ==
    LET o == op[i]  n == CHOOSE x \in o.plan : TRUE IN
    /\ OpAt(i, "put")
    /\ PutSharedProjection(o.h, o.p, n, o.seen.ent[n])
    /\ Go(i, [o EXCEPT !.pc = "family", !.plan = {}])
    /\ UNCHANGED <<hub, reg, conf, local, world>>

RestoreEvidence(i) ==
    LET o == op[i] IN
    /\ OpAt(i, "family") /\ o.todo = {}
    /\ Go(i, [o EXCEPT !.pc = "evidence", !.todo = o.seen.evid])
    /\ UNCHANGED <<stores, world>>

SameKey(d, e) == d.kind = e.kind /\ d.n = e.n /\ d.rev = e.rev

\* A revision or an event never runs ahead of its entity.
ExceedsCurrent(h, p, e) == Ahead(shared[h], p, e)

\* EnsureSharedLifecycleHistory, EnsureSharedLifecycleEvent, EnsureSharedRelation:
\* a record is inserted, or must be the one that is there.
EnsureEvidence(i) ==
    LET o == op[i] IN
    /\ OpAt(i, "evidence") /\ o.todo # {}
    /\ LET e == CHOOSE x \in o.todo : TRUE IN
         IF ExceedsCurrent(o.h, o.p, e) \/ \E d \in shared[o.h].evid[o.p] : SameKey(d, e) /\ d # e
         THEN Go(i, Stop(o, "evidence")) /\ UNCHANGED shared
         ELSE /\ shared' = [shared EXCEPT ![o.h].evid[o.p] = @ \cup {e}]
              /\ Go(i, [o EXCEPT !.todo = @ \ {e}])
    /\ UNCHANGED <<hub, reg, conf, local, world>>

\* Mutant: the sequence follows the counter of the Hub only.
OnlyCounter(h, p, next) == Max({shared[h].seq[p], next})

\* restoreHubCanonicalSequences and ReconstructSharedEntitySequences.
ReconstructedSequence(h, p, next) ==
    Max({shared[h].seq[p], next} \cup {n + 1 : n \in {k \in Num : shared[h].ent[p][k] # NoEnt}})

RestoreSequences(i) ==
    LET o == op[i] IN
    /\ OpAt(i, "evidence") /\ o.todo = {}
    /\ shared' = [shared EXCEPT ![o.h].seq[o.p] = ReconstructedSequence(o.h, o.p, o.seen.next)]
    /\ Proceed(i, "verify")
    /\ UNCHANGED <<hub, reg, conf, local, world>>

\* verifyOnboardedProject; a new project is not verified.
Verify(i) ==
    LET o == op[i] IN
    /\ OpAt(i, "verify")
    /\ Go(i, IF \/ o.phase = "new"
                \/ /\ ProjectRead(o.h, o.p) /\ ProjectIdentifiersRead(o.h, o.p) = o.code
                   /\ EffectiveCode(o.h, o.p) # None /\ ReadSharedProjectIdentifiers(o.h, o.p) = o.code
                   /\ ProjectConfigurationRead(o.h, o.p) # NoEnt
             THEN [o EXCEPT !.pc = IF o.kind = "admin" THEN "ensure" ELSE "ok"]
             ELSE Stop(o, "verify"))
    /\ UNCHANGED <<stores, world>>

\* EnsureDetached: reuse a reachable runtime, start one where there is none.
EnsureDetached(i) ==
    LET o == op[i]  r == relay[o.h][o.p] IN
    /\ OpAt(i, "ensure")
    /\ relay' = [relay EXCEPT ![o.h][o.p] = IF r = "none" THEN "healthy" ELSE r]
    /\ Go(i, IF r = "unreachable" THEN [o EXCEPT !.pc = "partial"]
             ELSE [o EXCEPT !.pc = "bind", !.work = IF r = "none" THEN "started" ELSE None])
    /\ UNCHANGED <<stores, repo>>

\* ensureAdminWorker: bind the Worker and check it, or stop the one it started.
EnsureAdminWorker(i) ==
    LET o == op[i] IN
    /\ OpAt(i, "bind")
    /\ \/ EffectiveCode(o.h, o.p) # None /\ Proceed(i, "ok") /\ UNCHANGED <<relay, left>>
       \/ /\ EffectiveCode(o.h, o.p) = None \/ left.faults > 0
          /\ left' = [left EXCEPT !.faults = IF EffectiveCode(o.h, o.p) = None THEN @ ELSE @ - 1]
          /\ relay' = [relay EXCEPT ![o.h][o.p] = IF o.work = None THEN @ ELSE "none"]
          /\ Proceed(i, "partial")
    /\ UNCHANGED <<stores, repo>>

(***************************************************************************)
(* ProjectUpdate: the code in the host configuration, on the Hub, in Shared *)
(***************************************************************************)
\* One Hub snapshot; a project with Sessions, entities or Rules is refused.
Preflight(i) ==
    LET o == op[i]  old == EffectiveCode(o.h, o.p) IN
    /\ OpAt(i, "preflight")
    /\ Go(i, IF /\ old \notin {None, o.code} /\ ProjectRead(o.h, o.p)
                /\ ProjectIdentifiersRead(o.h, o.p) = old /\ hub.cfg[o.p] # NoEnt
                /\ \A n \in Num : hub.ent[o.p][n] = NoEnt /\ shared[o.h].ent[o.p][n] = NoEnt
                /\ ~shared[o.h].rules[o.p]
                /\ ~local[o.h].busy[o.p]
                /\ \A q \in Project \ {o.p} : hub.code[q] # o.code
             THEN [o EXCEPT !.pc = "conf", !.rev = hub.rev, !.seen = [cfg |-> hub.cfg[o.p], old |-> old]]
             ELSE Stop(o, "preflight"))
    /\ UNCHANGED <<stores, world>>

\* config.UpdateProjectCode; the whole original file is kept for Restore.
UpdateProjectCode(i) ==
    LET o == op[i]  f == conf[o.h].file IN
    /\ OpAt(i, "conf")
    /\ IF f[o.p] = o.seen.old /\ \A q \in Project \ {o.p} : f[q] # o.code
       THEN /\ conf' = [conf EXCEPT ![o.h].file[o.p] = o.code]
            /\ Go(i, [o EXCEPT !.pc = "hubCode", !.rec = f])
       ELSE Go(i, Stop(o, "conf")) /\ UNCHANGED conf
    /\ UNCHANGED <<hub, reg, shared, local, world>>

\* config.Restore: the bytes that were read, whatever was written since.
Restore(h, p, f) == conf' = [conf EXCEPT ![h].file = f]

Changeable(o) == hub.rev = o.rev /\ hub.code[o.p] = o.seen.old

ChangesCode(i) ==
    LET o == op[i] IN
    /\ OpAt(i, "hubCode") /\ Changeable(o)
    /\ Commit([hub EXCEPT !.code[o.p] = o.code, !.cfg[o.p] = o.seen.cfg])

HubCode(i) ==
    /\ \/ ChangesCode(i) /\ Go(i, [op[i] EXCEPT !.pc = "bootstrap", !.rev = hub.rev + 1])
       \/ OpAt(i, "hubCode") /\ ~Changeable(op[i]) /\ Proceed(i, "restoreConf") /\ UNCHANGED hub
    /\ UNCHANGED <<reg, conf, shared, local, world>>

\* rollbackProjectCode, refused when the Hub has moved on; the configuration
\* file is restored either way.  work says what is left of the update.
Revertible(o) == hub.rev = o.rev /\ hub.code[o.p] # None

RevertsCode(i) ==
    /\ OpAt(i, "rollbackCode") /\ Revertible(op[i])
    /\ Commit([hub EXCEPT !.code[op[i].p] = op[i].seen.old])

RollbackProjectCode(i) ==
    LET o == op[i] IN
    /\ \/ RevertsCode(i) /\ Go(i, [o EXCEPT !.pc = "restoreConf", !.work = "undone"])
       \/ /\ OpAt(i, "rollbackCode") /\ ~Revertible(o)
          /\ Go(i, [o EXCEPT !.pc = "restoreConf", !.work = "mixed"]) /\ UNCHANGED hub
    /\ UNCHANGED <<reg, conf, shared, local, world>>

RestoreConf(i) ==
    LET o == op[i] IN
    /\ OpAt(i, "restoreConf")
    /\ Restore(o.h, o.p, o.rec)
    /\ Go(i, [Stop(o, "update") EXCEPT !.pc = IF o.work = "mixed" THEN "mixed" ELSE "failed"])
    /\ UNCHANGED <<hub, reg, shared, local, world>>

\* The file cannot be written.  After the rollback on the Hub the answer says
\* that the state is mixed; after a failure on the Hub the error is dropped.
RestoreFails(i) ==
    LET o == op[i] IN
    /\ OpAt(i, "restoreConf")
    /\ Go(i, IF o.work \in {"undone", "mixed"} THEN [Stop(o, "update") EXCEPT !.pc = "mixed"]
             ELSE [Stop(o, "update") EXCEPT !.work = "kept"])

(***************************************************************************)
(* Configuration edits                                                     *)
(***************************************************************************)
ConfigurationReads(i) ==
    LET o == op[i]  c == ProjectConfigurationRead(o.h, o.p) IN
    /\ OpAt(i, "config")
    /\ Go(i, IF c # NoEnt /\ c.rev < MaxCfg THEN [o EXCEPT !.pc = "commitConfig", !.seen = c] ELSE Stop(o, "config"))
    /\ UNCHANGED <<stores, world>>

\* CommitSharedLifecycleRevision: row, history and outbox in one batch.
MutateProjectConfiguration(i) ==
    LET o == op[i]  new == [rev |-> o.seen.rev + 1, by |-> i] IN
    /\ OpAt(i, "commitConfig")
    /\ IF shared[o.h].cfg[o.p].rev = o.seen.rev
       THEN /\ shared' = [shared EXCEPT ![o.h].cfg[o.p] = new, ![o.h].hist[o.p] = new.rev,
                                        ![o.h].pend[o.p] = @ \cup {new}]
            /\ Proceed(i, "ok")
       ELSE Go(i, Stop(o, "conflict")) /\ UNCHANGED shared
    /\ UNCHANGED <<hub, reg, conf, local, world>>

\* Authoring requests on the entities of the project (SharedLifecycle): an
\* edit of the first entity, or the creation of the next one.
EditEntity(i) ==
    LET o == op[i]
        n == IF o.kind = "create" THEN shared[o.h].seq[o.p] ELSE 1
        cur == shared[o.h].ent[o.p][n]
        new == [rev |-> cur.rev + 1, by |-> i]
    IN
    /\ OpAt(i, "edit")
    /\ IF ~IsProjectRetired(o.h, o.p) /\ n \in Num /\ (o.kind = "create") = (cur = NoEnt)
       THEN /\ shared' = [shared EXCEPT ![o.h].ent[o.p][n] = new,
                                        ![o.h].evid[o.p] = @ \cup {[kind |-> "revision", n |-> n, rev |-> new.rev, by |-> i]},
                                        ![o.h].seq[o.p] = IF o.kind = "create" THEN @ + 1 ELSE @]
            /\ Proceed(i, "ok")
       ELSE Go(i, Stop(o, "edit")) /\ UNCHANGED shared
    /\ UNCHANGED <<hub, reg, conf, local, world>>

(***************************************************************************)
(* Retirement, by a request and by the synchronisation                     *)
(***************************************************************************)
NewRecord(at, reason, legacy) ==
    [at |-> at, reason |-> reason, cfg |-> 0, cancelled |-> {}, legacy |-> legacy]

\* projectRetirementSourceExists.
SourceExists(h, p) ==
    \/ p \in mix.static \/ reg[h].entry[p] # None
    \/ hub.project[p] \/ hub.cfg[p] # NoEnt
    \/ shared[h].cfg[p] # NoEnt \/ shared[h].hist[p] > 0 \/ shared[h].pend[p] # {}

\* DebugRetireProject reads its own markers, then the one of the Hub.
RetireReads(i) ==
    LET o == op[i]  s == ReadSharedProjectRetirement(o.h, o.p)  l == ReadLocalProjectRetirement(o.h, o.p) IN
    /\ OpAt(i, "retire")
    /\ Go(i, IF (l # None => l.reason = o.reason) /\ (s # None => s.reason = o.reason)
             THEN [o EXCEPT !.pc = "retireHub", !.seen = [shared |-> s, local |-> l]]
             ELSE Stop(o, "conflict"))
    /\ UNCHANGED <<stores, world>>

DebugRetireProject(i) ==
    LET o == op[i]  s == o.seen.shared  l == o.seen.local  g == hub.marker[o.p]
        begin(rec, work) == [o EXCEPT !.pc = "beginLocal", !.phase = "retire", !.rec = rec,
                                      !.work = work, !.seen = None]
    IN
    /\ OpAt(i, "retireHub")
    /\ Go(i, CASE s # None /\ g # None /\ g # s -> Stop(o, "conflict")
               [] s # None /\ (g # None => g = s) -> begin(s, None)
               [] s = None /\ g # None -> IF g.reason = o.reason THEN begin(g, "import") ELSE Stop(o, "conflict")
               [] s = None /\ g = None ->
                    IF l = None /\ ~SourceExists(o.h, o.p) THEN Stop(o, "source")
                    ELSE begin(NewRecord(IF l = None THEN i ELSE l.at, o.reason, local[o.h].legacy[o.p]), "batch"))
    /\ UNCHANGED <<stores, world>>

\* Old callback epochs block, unless the record carries evidence of them.
LocalBlocked(h, p, allowLegacy) ==
    local[h].busy[p] \/ (local[h].legacy[p] /\ ~allowLegacy)

\* beginLocalProjectRetirement: a marker that is there must carry the same
\* reason and may be replayed; a new one is inserted by a guarded batch.
BeginLocalProjectRetirement(i) ==
    LET o == op[i]  l == local[o.h].marker[o.p]
        proven == o.rec.legacy = local[o.h].legacy[o.p]
        debug == o.kind = "retire" /\ o.work = "batch"
    IN
    /\ OpAt(i, "beginLocal")
    /\ IF \/ debug /\ ~proven
          \/ l # None /\ l.reason # o.rec.reason
       THEN Go(i, Stop(o, "conflict")) /\ UNCHANGED local
       ELSE IF LocalBlocked(o.h, o.p, proven /\ (l # None \/ debug))
       THEN Go(i, Stop(o, "unsafe")) /\ UNCHANGED local
       ELSE /\ local' = [local EXCEPT ![o.h].marker[o.p] =
                            IF l = None THEN [at |-> o.rec.at, reason |-> o.rec.reason] ELSE l]
            /\ Proceed(i, Follow(o, "beginLocal"))
    /\ UNCHANGED <<hub, reg, conf, shared, world>>

\* retireSharedProject: the marker to write, from the row, the history and
\* the pending publications.
RetireSharedReads(i) ==
    LET o == op[i]  s == shared[o.h]  m == s.marker[o.p]
        revs == {s.cfg[o.p].rev, s.hist[o.p]} \cup {c.rev : c \in s.pend[o.p]}
    IN
    /\ OpAt(i, "batch")
    /\ Go(i, IF m # None
             THEN IF m.reason = o.reason /\ m.legacy = o.rec.legacy
                  THEN [o EXCEPT !.pc = Follow(o, "shared"), !.rec = m]
                  ELSE Stop(o, "conflict")
             ELSE [o EXCEPT !.pc = "batchWrite", !.rec = [@ EXCEPT !.cfg = Max(revs), !.cancelled = s.pend[o.p]]])
    /\ UNCHANGED <<stores, world>>

RetiredRows(s, p, rec) == [s EXCEPT !.marker[p] = rec, !.cfg[p] = NoEnt, !.pend[p] = {}]

\* One batch that requires as many pending rows as were read; three attempts.
RetireSharedProject(i) ==
    LET o == op[i]  s == shared[o.h]  m == s.marker[o.p] IN
    /\ OpAt(i, "batchWrite")
    /\ IF m = None /\ Cardinality(s.pend[o.p]) = Cardinality(o.rec.cancelled)
       THEN /\ shared' = [shared EXCEPT ![o.h] = [RetiredRows(s, o.p, o.rec) EXCEPT !.mpend[o.p] = TRUE]]
            /\ Proceed(i, Follow(o, "shared"))
       ELSE /\ UNCHANGED shared
            /\ Go(i, IF m # None
                     THEN IF m.reason = o.reason THEN [o EXCEPT !.pc = Follow(o, "shared"), !.rec = m]
                                                 ELSE Stop(o, "conflict")
                     ELSE IF o.try < 2 THEN [o EXCEPT !.pc = "batch", !.try = @ + 1] ELSE Stop(o, "batch"))
    /\ UNCHANGED <<hub, reg, conf, local, world>>

\* ImportSharedProjectRetirement: a record of the Hub never discards a newer
\* configuration; the same publications must have been cancelled.
ImportReads(i) ==
    LET o == op[i]  s == shared[o.h]  m == s.marker[o.p]  pend == s.pend[o.p] IN
    /\ OpAt(i, "import")
    /\ Go(i, IF m # None
             THEN IF m = o.rec THEN [o EXCEPT !.pc = Follow(o, "shared")] ELSE Stop(o, "conflict")
             ELSE IF \/ s.cfg[o.p].rev > o.rec.cfg \/ s.hist[o.p] > o.rec.cfg
                     \/ \E c \in pend : c.rev > o.rec.cfg
                     \/ pend \notin {{}, o.rec.cancelled}
             THEN Stop(o, "conflict")
             ELSE [o EXCEPT !.pc = "importWrite", !.try = Cardinality(pend)])
    /\ UNCHANGED <<stores, world>>

ImportSharedProjectRetirement(i) ==
    LET o == op[i]  s == shared[o.h]  m == s.marker[o.p] IN
    /\ OpAt(i, "importWrite")
    /\ IF m = None /\ Cardinality(s.pend[o.p]) = o.try
       THEN /\ shared' = [shared EXCEPT ![o.h] = RetiredRows(s, o.p, o.rec)]
            /\ Proceed(i, Follow(o, "shared"))
       ELSE /\ UNCHANGED shared
            /\ Go(i, IF m = o.rec THEN [o EXCEPT !.pc = Follow(o, "shared")] ELSE Stop(o, "import"))
    /\ UNCHANGED <<hub, reg, conf, local, world>>

\* What publishHubProjectRetirement accepts inside its transaction.
MayRetire(p, rec) == hub.marker[p] \in {None, rec}

HubRetires(p, rec) ==
    IF hub.marker[p] = rec /\ ~hub.project[p] /\ hub.code[p] = None /\ hub.cfg[p] = NoEnt
    THEN UNCHANGED hub
    ELSE Commit([hub EXCEPT !.marker[p] = rec, !.project[p] = FALSE, !.code[p] = None,
                            !.cfg[p] = NoEnt, !.old[p] = FALSE])

PublishesMarker(i) ==
    OpAt(i, "publish") /\ MayRetire(op[i].p, op[i].rec) /\ HubRetires(op[i].p, op[i].rec)

\* An error is a success when the Hub, read again, has the marker and nothing else.
PublishHubProjectRetirement(i) ==
    LET o == op[i] IN
    /\ \/ PublishesMarker(i) /\ Proceed(i, Follow(o, "publish"))
       \/ OpAt(i, "publish") /\ ~MayRetire(o.p, o.rec) /\ Go(i, Stop(o, "conflict")) /\ UNCHANGED hub
    /\ UNCHANGED <<reg, conf, shared, local, world>>

MarkOutboxPublished(i) ==
    LET o == op[i] IN
    /\ OpAt(i, "mark")
    /\ shared' = [shared EXCEPT ![o.h].mpend[o.p] = FALSE]
    /\ Proceed(i, Follow(o, "mark"))
    /\ UNCHANGED <<hub, reg, conf, local, world>>

\* removeManagedProject reads the registry and writes it under its digest.
RegistryLoads(i) ==
    LET o == op[i] IN
    /\ OpAt(i, "unregister")
    /\ Go(i, IF reg[o.h].entry[o.p] = None THEN [o EXCEPT !.pc = Follow(o, "unregister")]
             ELSE [o EXCEPT !.pc = "unregisterWrite", !.reg = Digest(reg[o.h])])
    /\ UNCHANGED <<stores, world>>

RemoveManagedProject(i) ==
    LET o == op[i] IN
    /\ OpAt(i, "unregisterWrite")
    /\ \/ /\ WriteManagedProjectRegistry(o.h, o.reg, o.p, None)
          /\ Go(i, [o EXCEPT !.pc = Follow(o, "unregister"), !.reg = None])
       \/ /\ reg[o.h] # o.reg
          /\ Go(i, [Stop(o, "digest") EXCEPT !.reg = None])
          /\ UNCHANGED reg
    /\ UNCHANGED <<hub, conf, shared, local, world>>

(***************************************************************************)
(* The synchronisation of a starting gateway                               *)
(***************************************************************************)
listHubProjectRetirements == {p \in Project : hub.marker[p] # None}

\* One Hub snapshot serves the collection and the migration plan.
HubSnapshot(i) ==
    LET o == op[i]
        live == {p \in Project : ProjectRead(o.h, p) /\ hub.cfg[p] # NoEnt}
    IN
    /\ OpAt(i, "snapshot")
    /\ Go(i, [o EXCEPT !.pc = "next", !.seen = hub.marker, !.todo = listHubProjectRetirements,
                       !.plan = IF \E p \in live : hub.old[p] THEN live ELSE {}])
    /\ UNCHANGED <<stores, world>>

ListLocalProjectRetirements(h) == {p \in Project : ReadLocalProjectRetirement(h, p) # None}
ListSharedProjectRetirements(h) == {p \in Project : ReadSharedProjectRetirement(h, p) # None}

\* Mutant: what only the Local database knows to be retired is not collected.
OnlyHubRecords(h, phase) == IF phase = "local" THEN {} ELSE ListSharedProjectRetirements(h)

\* The records of the next loop, listed when the loop starts.
Listed(h, phase) ==
    IF phase = "local" THEN ListLocalProjectRetirements(h) ELSE ListSharedProjectRetirements(h)

NextLoop(i) ==
    LET o == op[i] IN
    /\ OpAt(i, "next") /\ o.todo = {}
    /\ Go(i, CASE o.phase = "hub" -> [o EXCEPT !.phase = "local", !.seen = None, !.todo = Listed(o.h, "local")]
               [] o.phase = "local" -> [o EXCEPT !.pc = "canonical", !.phase = "publish", !.seen = shared[o.h].marker,
                                                 !.todo = Listed(o.h, "publish")]
               [] o.phase = "publish" -> [o EXCEPT !.pc = "migrate", !.seen = None])
    /\ UNCHANGED <<stores, world>>

ProjectConfigurationMigrationComplete(h) == h \in mix.canon

\* Between the collection and the publication: a gateway migrates its Shared
\* configurations when that has not been done; a debug gateway leaves this to
\* its operator and gives up the attempt.
ShouldDefer(h) == h \in mix.debug /\ ~ProjectConfigurationMigrationComplete(h)

MigrateProjectConfiguration(i) ==
    LET o == op[i] IN
    /\ OpAt(i, "canonical")
    /\ Go(i, IF ShouldDefer(o.h) THEN Stop(o, "deferred") ELSE [o EXCEPT !.pc = "next"])
    /\ UNCHANGED <<stores, world>>

MigrationFails(i) == OpAt(i, "canonical") /\ Go(i, Stop(op[i], "migration"))

\* One record of CollectSyncedProjectRetirements or PublishSyncedProjectRetirements.
NextRecord(i) ==
    LET o == op[i] IN
    /\ OpAt(i, "next")
    /\ \E p \in o.todo :
         LET s == shared[o.h].marker[p]  l == local[o.h].marker[p]
             begin(rec, work) == [o EXCEPT !.pc = "beginLocal", !.p = p, !.todo = @ \ {p}, !.rec = rec,
                                           !.reason = rec.reason, !.work = work, !.try = 0]
             skip == [o EXCEPT !.todo = @ \ {p}]
         IN Go(i, CASE o.phase = "hub" -> IF s \in {None, o.seen[p]}
                                          THEN begin(o.seen[p], IF s = None THEN "import" ELSE None)
                                          ELSE Stop(o, "conflict")
                    [] o.phase = "local" -> IF s = None
                                            THEN begin(NewRecord(l.at, l.reason, local[o.h].legacy[p]), "batch")
                                            ELSE IF s.reason = l.reason THEN skip ELSE Stop(o, "conflict")
                    [] o.phase = "publish" -> begin(o.seen[p], None))
    /\ UNCHANGED <<stores, world>>

\* ApplyHubProjectConfigurationMigration re-reads every planned file.
MigratesHub(i) ==
    LET still == {p \in op[i].plan : hub.cfg[p] # NoEnt /\ hub.old[p]} IN
    /\ OpAt(i, "migrate")
    /\ IF still = {} THEN UNCHANGED hub
       ELSE Commit([hub EXCEPT !.old = [p \in Project |-> @[p] /\ p \notin still]])

MigrateHub(i) ==
    /\ MigratesHub(i)
    /\ Go(i, [Retry(op[i]) EXCEPT !.pc = "ready"])
    /\ UNCHANGED <<reg, conf, shared, local, world>>

(***************************************************************************)
(* The outbox worker of a host whose synchronisation succeeded             *)
(***************************************************************************)
WorkerStarts(h) ==
    /\ op[h].pc = "ready" /\ h \notin worker
    /\ worker' = worker \cup {h}
    /\ UNCHANGED <<stores, world, op, left, mix>>

\* publishSharedProjectConfiguration asks the Shared marker, not the one of
\* the Hub; a newer or different configuration on the Hub is an error.
PublishConfiguration(h, p) ==
    LET first == CHOOSE c \in shared[h].pend[p] : \A d \in shared[h].pend[p] : c.rev <= d.rev IN
    /\ h \in worker /\ shared[h].pend[p] # {}
    /\ hub.cfg[p].rev < first.rev \/ hub.cfg[p] = first
    /\ IF hub.cfg[p] = first THEN UNCHANGED hub
       ELSE Commit([hub EXCEPT !.cfg[p] = first, !.old[p] = FALSE])
    /\ shared' = [shared EXCEPT ![h].pend[p] = @ \ {first}]
    /\ UNCHANGED <<reg, conf, local, world, op, worker, left, mix>>

PublishRetirement(h, p) ==
    /\ h \in worker /\ shared[h].mpend[p]
    /\ MayRetire(p, shared[h].marker[p])
    /\ HubRetires(p, shared[h].marker[p])
    /\ shared' = [shared EXCEPT ![h].mpend[p] = FALSE]
    /\ UNCHANGED <<reg, conf, local, world, op, worker, left, mix>>

\* Publication of an entity and its evidence (HubOutbox).
PublishEntity(h, p) ==
    \E n \in Num :
       /\ h \in worker /\ hub.ent[p][n].rev < shared[h].ent[p][n].rev
       /\ Commit([hub EXCEPT !.ent[p][n] = shared[h].ent[p][n],
                             !.evid[p] = @ \cup {e \in shared[h].evid[p] : e.n = n}])
       /\ UNCHANGED <<reg, conf, shared, local, world, op, worker, left, mix>>

(***************************************************************************)
(* Environment                                                             *)
(***************************************************************************)
\* The Sessions, Operations and executions of a project end.
EndSession(h, p) ==
    /\ local[h].busy[p] /\ left.ends > 0
    /\ local' = [local EXCEPT ![h].busy[p] = FALSE]
    /\ left' = [left EXCEPT !.ends = @ - 1]
    /\ UNCHANGED <<hub, reg, conf, shared, world, op, worker, mix>>

\* The Hub transaction a request is at, as far as its push.
Pushes(i) ==
    \/ Registers(i) \/ Adopts(i) \/ Unregisters(i) \/ Canonicalizes(i)
    \/ ChangesCode(i) \/ RevertsCode(i) \/ PublishesMarker(i) \/ MigratesHub(i)

\* Where a request continues when its Hub transaction reports an error, before
\* or after the push.
OnFailure(o, pushed) ==
    CASE o.pc = "identifiers" -> [o EXCEPT !.pc = "rollback"]
      [] o.pc = "hubCode" -> [o EXCEPT !.pc = "restoreConf", !.work = IF pushed THEN "pushed" ELSE None]
      [] o.pc = "rollbackCode" -> [o EXCEPT !.pc = "restoreConf", !.work = "mixed"]
      [] o.pc \in {"register", "rollback", "reconcile", "publish", "migrate"} -> Stop(o, "hub")

HubFails(i) ==
    /\ op[i].pc \in {"register", "identifiers", "rollback", "reconcile", "hubCode", "rollbackCode", "publish", "migrate"}
    /\ \/ Pushes(i) /\ Go(i, OnFailure(op[i], TRUE))
       \/ UNCHANGED hub /\ Go(i, OnFailure(op[i], FALSE))

LocalFails(i) == (RestoreFails(i) \/ MigrationFails(i)) /\ UNCHANGED hub

Fault(i) ==
    /\ left.faults > 0
    /\ left' = [left EXCEPT !.faults = @ - 1]
    /\ HubFails(i) \/ LocalFails(i)
    /\ UNCHANGED <<reg, conf, shared, local, world, worker, mix>>

\* The gateway of a host dies and starts again: its requests are gone and the
\* configuration is loaded anew.
Crash(h) ==
    /\ left.crashes > 0
    /\ left' = [left EXCEPT !.crashes = @ - 1]
    /\ op' = [i \in Proc |-> IF i = h THEN [Retry(op[h]) EXCEPT !.reg = None]
                             ELSE IF op[i].h = h /\ op[i].pc \notin Ended
                             THEN [Stop(op[i], "crash") EXCEPT !.pc = "crashed"]
                             ELSE op[i]]
    /\ worker' = worker \ {h}
    /\ conf' = [conf EXCEPT ![h].mem = conf[h].file]
    /\ UNCHANGED <<hub, reg, shared, local, world, mix>>

(***************************************************************************)
(* Specification                                                           *)
(***************************************************************************)
FirstStep(kind) ==
    CASE kind = "admin" -> "clone" [] kind = "onboard" -> "discover" [] kind = "update" -> "preflight"
      [] kind = "config" -> "config" [] kind = "retire" -> "retire" [] kind \in {"edit", "create"} -> "edit"

NewOp(kind, h, p, code, reason, pc) ==
    [kind |-> kind, h |-> h, p |-> p, code |-> code, reason |-> reason, pc |-> pc, reg |-> None, rev |-> 0,
     rec |-> None, seen |-> None, todo |-> {}, phase |-> "hub", plan |-> {}, work |-> None, try |-> 0]

Asked(a) == IF a = None THEN NewOp("none", None, None, None, None, "idle")
            ELSE NewOp(a.kind, a.h, a.p, a.code, a.reason, FirstStep(a.kind))

ProjectInit ==
    /\ mix \in Mixes
    /\ hub = mix.hub /\ reg = mix.reg /\ conf = mix.conf
    /\ shared = mix.shared /\ local = mix.local
    /\ repo = mix.repo /\ relay = mix.relay
    /\ op = [i \in Proc |-> IF i \in Host THEN NewOp("sync", i, None, None, None, IF i \in mix.up THEN "ready" ELSE "snapshot")
                                          ELSE Asked(mix.asks[i])]
    /\ worker = mix.up
    /\ left = mix.left

Onboarding(i) ==
    \/ AdminRepository(i) \/ Discover(i) \/ ReadHubOnboardProject(i) \/ HubRevision(i)
    \/ ProjectRegister(i) \/ ProjectIdentifiersAdopt(i) \/ RollbackOnboardHub(i) \/ PublishRegistry(i) \/ AdoptHub(i)
    \/ ReconcileReads(i) \/ BootstrapChecks(i) \/ BootstrapBatch(i)
    \/ RestoreSnapshot(i) \/ RestoreEntity(i) \/ RestorePut(i) \/ RestoreEvidence(i) \/ EnsureEvidence(i)
    \/ RestoreSequences(i) \/ Verify(i) \/ EnsureDetached(i)

Editing(i) ==
    \/ Preflight(i) \/ UpdateProjectCode(i) \/ HubCode(i) \/ RollbackProjectCode(i) \/ RestoreConf(i)
    \/ ConfigurationReads(i) \/ MutateProjectConfiguration(i) \/ EditEntity(i)

Retiring(i) ==
    \/ RetireReads(i) \/ DebugRetireProject(i) \/ BeginLocalProjectRetirement(i)
    \/ RetireSharedReads(i) \/ RetireSharedProject(i) \/ ImportReads(i) \/ ImportSharedProjectRetirement(i)
    \/ PublishHubProjectRetirement(i) \/ MarkOutboxPublished(i) \/ RegistryLoads(i) \/ RemoveManagedProject(i)

Syncing(i) == HubSnapshot(i) \/ NextLoop(i) \/ MigrateProjectConfiguration(i) \/ NextRecord(i) \/ MigrateHub(i)

OpStep(i) ==
    \/ (Onboarding(i) \/ Editing(i) \/ Retiring(i) \/ Syncing(i)) /\ UNCHANGED <<worker, left, mix>>
    \/ EnsureAdminWorker(i) /\ UNCHANGED <<worker, mix>>

WorkerStep(h) ==
    \/ WorkerStarts(h)
    \/ \E p \in Project : PublishConfiguration(h, p) \/ PublishRetirement(h, p) \/ PublishEntity(h, p)

ProjectNext ==
    \/ \E i \in Proc : OpStep(i) \/ Fault(i)
    \/ \E h \in Host : WorkerStep(h) \/ Crash(h) \/ \E p \in Project : EndSession(h, p)

\* Requests, the synchronisation and the worker are goroutines that keep
\* running; failures, crashes and the end of a Session need not happen.
Fairness ==
    /\ \A i \in Proc : WF_projectVars(OpStep(i))
    /\ \A h \in Host : WF_projectVars(WorkerStep(h))

ProjectSpec == ProjectInit /\ [][ProjectNext]_projectVars /\ Fairness

(***************************************************************************)
(* Properties                                                              *)
(***************************************************************************)
\* Every store holds one value of its kind per project, and a request or a
\* synchronisation is at one of its steps.
ProjectTypeOK ==
    /\ hub \in HubStore /\ reg \in [Host -> RegStore] /\ conf \in [Host -> ConfStore]
    /\ shared \in [Host -> SharedStore] /\ local \in [Host -> LocalStore]
    /\ worker \subseteq Host
    /\ DOMAIN op = Proc
    /\ \A i \in Slot : op[i].pc \in Ended => op[i].reg = None

\* A registry write changes the entry of one project and moves the revision by
\* one: what another request registered meanwhile is never lost
\* (WriteManagedProjectRegistry and its digest).
RegistryComposes ==
    [][\A h \in Host : reg'[h] # reg[h] =>
         /\ reg'[h].rev = reg[h].rev + 1
         /\ Cardinality({p \in Project : reg'[h].entry[p] # reg[h].entry[p]}) = 1]_projectVars

\* A retirement marker on the Hub is never replaced, and the project and its
\* identifiers never come back, whichever request read the Hub before
\* (publishHubProjectRetirement, projectRegister, ProjectIdentifiersAdopt).
RetirementIsFinal ==
    [][\A p \in Project : hub.marker[p] # None =>
         /\ hub'.marker[p] = hub.marker[p]
         /\ (hub'.project[p] => hub.project[p]) /\ (hub'.code[p] # None => hub'.code[p] = hub.code[p])]_projectVars

Unsettled(h, p) == \E i \in Slot : /\ op[i].kind = "update" /\ op[i].h = h /\ op[i].p = p
                                   /\ op[i].pc \notin {"ok", "failed"}

\* config.Restore puts the whole file back, and each host has a file of its own:
\* the codes are only kept together while the updates of the host and those of
\* the project are the same.
Alone(h, p) == \A i \in Slot : op[i].kind = "update" => (op[i].h = h <=> op[i].p = p)

\* An update that answers with the error of the Hub alone, although the Hub had
\* the new code (the push was made) or the configuration file kept it (it could
\* not be restored): ProjectUpdate looks at neither.
Misreported(h, p) == \E i \in Slot : /\ op[i].kind = "update" /\ op[i].h = h /\ op[i].p = p
                                     /\ op[i].pc = "failed" /\ op[i].work \in {"pushed", "kept"}

\* Once an update has answered, and did not say that it left a mixed state, the
\* host configuration, the Hub and Shared agree on the project code, whatever
\* onboardings, retirements and other updates of the project run beside it and
\* whichever step failed; the two answers that hide a mixed state are excepted
\* (ProjectUpdate and its two compensations).
CodesAgree ==
    \A h \in Host, p \in mix.static :
       Alone(h, p) /\ hub.project[p] /\ conf[h].file[p] # None /\ ~Unsettled(h, p) /\ ~Misreported(h, p) =>
          /\ conf[h].file[p] = hub.code[p]
          /\ shared[h].code[p] \in {None, hub.code[p]}

\* Restoring a project from the Hub never takes an entity of this host back to
\* an earlier revision, even when it is edited after the comparison
\* (restoreHubEntityFamily, PutSharedProjection).
RestoreKeepsNewer ==
    [][\A h \in Host, p \in Project, n \in Num : shared'[h].ent[p][n].rev >= shared[h].ent[p][n].rev]_projectVars

\* A restore of the project that has begun to put entities and did not get to
\* their sequences, or gave up.
Unrestored(h, p) ==
    \E i \in Slot : /\ op[i].kind \in {"onboard", "admin"} /\ op[i].h = h /\ op[i].p = p
                    /\ op[i].pc \in {"family", "put", "evidence", "failed", "crashed"}

\* When an onboarding has restored a project, all the evidence of the snapshot
\* is in Shared, none of it ahead of its entity, no entity is behind the
\* snapshot, and the next number is above every entity of the snapshot; it is
\* above every entity there is, so that no identifier is given out twice,
\* unless another restore of the project was cut short
\* (restoreHubProjectSemantics, ReconstructSharedEntitySequences).
RestoredIsWhole ==
    \A i \in Slot :
       op[i].kind \in {"onboard", "admin"} /\ op[i].pc = "ok" /\ op[i].seen # None =>
          LET o == op[i]  s == shared[o.h] IN
          /\ o.seen.evid \subseteq s.evid[o.p]
          /\ \A e \in s.evid[o.p] : ~ExceedsCurrent(o.h, o.p, e)
          /\ \A n \in Num : o.seen.ent[n] # NoEnt =>
                              s.ent[o.p][n].rev >= o.seen.ent[n].rev /\ n < s.seq[o.p]
          /\ ~Unrestored(o.h, o.p) => \A n \in Num : s.ent[o.p][n] # NoEnt => n < s.seq[o.p]

\* The stores that hold a project agree once the request that changes them has
\* answered, an update as well as a restore.
StoresAgree == CodesAgree /\ RestoredIsWhole

\* No request takes back what another has written since it read: a registration,
\* a retirement or a newer revision of an entity.
NothingTakenBack == RegistryComposes /\ RetirementIsFinal /\ RestoreKeepsNewer

PendingRetirement(h, p) == op[h].pc = "snapshot" /\ local[h].marker[p] # None

\* A debug gateway whose configurations are not migrated only gets to Shared.
Converged(h, p) ==
    \/ /\ shared[h].marker[p] # None
       /\ ShouldDefer(h) \/ (hub.marker[p] # None /\ reg[h].entry[p] = None)
    \/ op[h].pc = "degraded"
    \/ \E q \in Project : local[h].busy[q] \/ local[h].legacy[q]

\* A gateway that starts with a retirement only its Local database knows of
\* carries it to Shared, to the Hub and out of the registry, whatever failed
\* before, unless live work blocks it, it reports a conflict, or it is a debug
\* gateway that waits for its migration and stops after Shared
\* (CollectSyncedProjectRetirements, ProjectConfigurationMigrationComplete,
\* PublishSyncedProjectRetirements).
RestartConverges == \A h \in Host, p \in Project : PendingRetirement(h, p) ~> Converged(h, p)

=============================================================================
