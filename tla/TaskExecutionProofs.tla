------------------------ MODULE TaskExecutionProofs ------------------------
(***************************************************************************)
(* Proofs about the execution lifecycle of Tasks, for any number of Tasks, *)
(* Workers and task/integrate Operations, any bounds and any interleaving  *)
(* of handlers, crashes, faults and pushes.  One inductive invariant says  *)
(* what the rows, the branch, the Operations' captures and the holder of   *)
(* taskExecutionMu can rely on between any two steps; each action keeps it.*)
(* The second part, from "The canonical branch" on, shows that they        *)
(* implement CanonicalBranch.                                              *)
(***************************************************************************)
EXTENDS TaskExecution, FiniteSetTheorems, SequenceTheorems, WellFoundedInduction, TLAPS

-----------------------------------------------------------------------------
(* What holds of the rows, the branch and the Operations between any two   *)
(* steps.                                                                  *)

Fits(c, bound) == c.base <= Canonical /\ c.n <= bound

RowsFit ==
  \A t \in Tasks : st[t] # None =>
    /\ Fits(st[t].head, load.work)
    /\ st[t].status = "resetting" => \E p \in Evidence(t) : p.kind = "reset_start"
LanesFit == \A t \in Tasks : lane[t] # None => Fits(lane[t].head, load.work)

\* A parked status is one that a Task can be resumed to.
Parkable == {"dispatched", "in_progress", "changes_requested"}
BlocksFit ==
  \A t \in Tasks : \A p \in Evidence(t) : p.kind = "block" => p.dec \in Parkable

\* An accepted review of exactly this candidate, not later than rev.
HasReview(t, c, rev) ==
  \E p \in Evidence(t) : p.kind = "review" /\ p.dec = "accept" /\ p.head = c /\ p.rev <= rev
ReceiptsFit ==
  \A t \in Tasks : \A i \in DOMAIN rcpt[t] :
    LET r == rcpt[t][i] IN
    /\ st[t] # None
    /\ r.base <= Canonical /\ Fits(r.head, load.work)
    /\ HasReview(t, r.head, r.attempt)

\* A Task is recorded as integrated once, and where it landed is no rumour.
IntegrationsFit ==
  \A t \in Tasks : \A p \in IntegrationPhases(t) :
    /\ st[t] # None /\ st[t].status \in {"integrated", "done"}
    /\ p.head \in LandingRecord /\ p.head.task = t /\ OnCanonical(p.head)
    /\ \A q \in IntegrationPhases(t) : p = q

BranchFits == \A i \in DOMAIN canon : canon[i].base = i - 1

\* A capture was taken under a receipt; it binds the row only while the Task
\* is being integrated.
Receipted(t, b, c) == \E i \in DOMAIN rcpt[t] : rcpt[t][i].base = b /\ rcpt[t][i].head = c
CaptureFits(o, t, cap) ==
  /\ st[t] # None
  /\ cap.rev > 0 /\ cap.rev <= st[t].rev
  /\ cap.rev = st[t].rev => st[t].status = "integrating"
  /\ Receipted(t, cap.base, cap.head)
  /\ cap.commit # None => cap.commit = Landing(t, cap.head, cap.base, cap.rev)
CapturesFit ==
  \A o \in Ops : iop[o].cap # None =>
    iop[o].status # "idle" /\ CaptureFits(o, OpTask[o], iop[o].cap)

OwnersFit == \A i \in DOMAIN canon : canon[i].rev > 0 => canon[i].task \in Tasks

-----------------------------------------------------------------------------
(* What the holder of the mutex can rely on.                               *)

Status(t) == st[t].status
NothingLanded(t) ==
  \A i \in DOMAIN canon : canon[i].rev > 0 /\ canon[i].task = t => RequestedTwice(t)

DispatchFits ==
  /\ mu.t \in Tasks /\ mu.x.agent \in Agents /\ mu.x.base \in 0..Canonical
  /\ st[mu.t] # None => Status(mu.t) = "abandoned"
  /\ Slot(mu.x.agent, mu.t)
SubmitFits ==
  /\ Status(mu.t) \in {"dispatched", "changes_requested"}
  /\ mu.x \in CommitRecord /\ Fits(mu.x, load.work)
RefreshFits == Status(mu.t) \in {"dispatched", "in_progress", "blocked"} /\ mu.x \in 0..Canonical
ResetFits == Status(mu.t) = "resetting"
VerifyFits ==
  /\ Status(mu.t) \in {"verifying", "verified"}
  /\ mu.x.profile \in Nat
  /\ HasReview(mu.t, st[mu.t].head, st[mu.t].rev)
ReconcileFits ==
  /\ Status(mu.t) \in {"ready_for_verification", "verifying", "verified"}
  /\ mu.pc \in {"lane", "moved", "failed"}
  /\ mu.pc = "lane" => mu.x \in 0..Canonical
  /\ mu.pc # "lane" => mu.x \in CommitRecord /\ Fits(mu.x, load.work)
  /\ lane[mu.t] # None
Prepared == {"prepared", "publishing", "sent", "unknown", "stale", "landed"}
IntegrateFits ==
  /\ Status(mu.t) = "integrating"
  /\ mu.x \in Ops /\ OpTask[mu.x] = mu.t /\ iop[mu.x].status = "accepted"
  /\ mu.pc \in {"claimed", "captured"} \cup Prepared
  /\ mu.pc = "claimed" =>
       Receipted(mu.t, st[mu.t].base, st[mu.t].head) /\ NothingLanded(mu.t)
  /\ mu.pc # "claimed" => Binds(iop[mu.x].cap, mu.t)
  /\ mu.pc = "captured" => iop[mu.x].cap.commit = None
  /\ mu.pc \in Prepared => iop[mu.x].cap.commit # None
  /\ mu.pc = "landed" => OnCanonical(iop[mu.x].cap.commit)
HistoricalFits ==
  /\ Status(mu.t) \in {"ready_for_verification", "verified", "dispatched", "blocked"}
  /\ mu.x.commit \in LandingRecord /\ mu.x.commit.task = mu.t /\ OnCanonical(mu.x.commit)
PreExecutionFits ==
  /\ Status(mu.t) = "integrated" /\ contract[mu.t] = None
  /\ IntegrationPhases(mu.t) # {}

HolderFits ==
  /\ mu.h \in {"free", "dispatch", "submit", "refresh", "reset", "verify", "reconcile",
               "integrate", "historical", "pre_execution"}
  /\ mu.h \notin {"free", "dispatch"} => mu.t \in Tasks /\ st[mu.t] # None
  /\ mu.h = "dispatch" => DispatchFits
  /\ mu.h = "submit" => SubmitFits
  /\ mu.h = "refresh" => RefreshFits
  /\ mu.h = "reset" => ResetFits
  /\ mu.h = "verify" => VerifyFits
  /\ mu.h = "reconcile" => ReconcileFits
  /\ mu.h = "integrate" => IntegrateFits
  /\ mu.h = "historical" => HistoricalFits
  /\ mu.h = "pre_execution" => PreExecutionFits

Core ==
  /\ RowsFit /\ LanesFit /\ BlocksFit /\ ReceiptsFit /\ IntegrationsFit /\ BranchFits
  /\ CapturesFit /\ OwnersFit /\ LandingRecoverable /\ SecondTaskOnlyByRebase

IInv == TypeOK /\ Core /\ HolderFits

-----------------------------------------------------------------------------
(* The newest of some rows.                                                *)

LEMMA Least == ASSUME NEW S \in SUBSET Nat, S # {} PROVE \E i \in S : \A j \in S : i <= j
<1> DEFINE R == {ss \in Nat \X Nat : ss[1] < ss[2]}
<1>1. IsWellFoundedOn(R, Nat)
  BY NatLessThanWellFounded DEF OpToRel
<1>2. \A i, j \in Nat : <<j, i>> \notin R => i <= j
  OBVIOUS
<1> HIDE DEF R
<1>3. PICK i \in S : \A j \in S : <<j, i>> \notin R
  BY <1>1, WFMin, Zenon
<1>4. \A j \in S : i <= j
  BY <1>2, <1>3
<1> QED BY <1>4

\* Every set of row numbers up to n that is not empty has a largest one.
LEMMA Largest ==
  ASSUME NEW n \in Nat, NEW S \in SUBSET (1..n), S # {}
  PROVE  Max(S) \in S /\ \A j \in S : j <= Max(S)
<1> DEFINE D == {n - i : i \in S}
<1>0. \A i \in S : n - i \in Nat
  OBVIOUS
<1>1. D \in SUBSET Nat /\ D # {}
  BY <1>0
<1>2. PICK d \in D : \A e \in D : d <= e
  BY <1>1, Least
<1>3. PICK i \in S : d = n - i
  BY <1>2
<1>4. \A j \in S : i >= j
  BY <1>2, <1>3
<1> DEFINE P(x) == \A j \in S : x >= j
<1>5. (CHOOSE x \in S : P(x)) \in S /\ P(CHOOSE x \in S : P(x))
  BY <1>4, Zenon
<1>6. Max(S) = CHOOSE x \in S : P(x)
  BY DEF Max
<1> QED BY <1>5, <1>6

LEMMA Newest ==
  ASSUME NEW t \in Tasks, ph[t] \in Seq(PhaseRecord), NEW rows \in SUBSET DOMAIN ph[t]
  PROVE  /\ rows = {} => LatestOf(t, rows) = None
         /\ rows # {} => \E i \in rows : LatestOf(t, rows) = ph[t][i] /\ \A j \in rows : j <= i
<1>1. DOMAIN ph[t] = 1..Len(ph[t]) /\ Len(ph[t]) \in Nat
  OBVIOUS
<1>2. CASE rows = {}
  BY <1>2 DEF LatestOf
<1>3. CASE rows # {}
  <2>1. Max(rows) \in rows /\ \A j \in rows : j <= Max(rows)
    BY <1>1, <1>3, Largest
  <2>2. LatestOf(t, rows) = ph[t][Max(rows)]
    BY <1>3 DEF LatestOf
  <2> QED BY <1>3, <2>1, <2>2
<1> QED BY <1>2, <1>3

LEMMA EvidenceTyped ==
  ASSUME TypeOK, NEW t \in Tasks, NEW p \in Evidence(t)
  PROVE  p \in PhaseRecord /\ p # None
BY ShapeAssumption DEF TypeOK, Evidence

LEMMA LatestKindIn ==
  ASSUME TypeOK, NEW t \in Tasks, NEW kinds
  PROVE  /\ LatestKind(t, kinds) # None =>
              LatestKind(t, kinds) \in Evidence(t) /\ LatestKind(t, kinds).kind \in kinds
         /\ (\E p \in Evidence(t) : p.kind \in kinds) => LatestKind(t, kinds) # None
<1> DEFINE rows == {i \in DOMAIN ph[t] : ph[t][i].kind \in kinds}
<1>1. ph[t] \in Seq(PhaseRecord) /\ rows \in SUBSET DOMAIN ph[t]
  BY DEF TypeOK
<1>2. LatestKind(t, kinds) = LatestOf(t, rows)
  BY DEF LatestKind
<1>3. ASSUME rows # {}
      PROVE  /\ LatestKind(t, kinds) \in Evidence(t) /\ LatestKind(t, kinds).kind \in kinds
             /\ LatestKind(t, kinds) # None
  <2>1. PICK i \in rows : LatestOf(t, rows) = ph[t][i]
    BY <1>1, <1>3, Newest
  <2>2. ph[t][i] \in Evidence(t)
    BY DEF Evidence
  <2> QED BY <1>2, <2>1, <2>2, EvidenceTyped
<1>4. (\E p \in Evidence(t) : p.kind \in kinds) => rows # {}
  BY DEF Evidence
<1>5. rows = {} => LatestKind(t, kinds) = None
  BY <1>1, <1>2, Newest
<1> QED BY <1>3, <1>4, <1>5

LEMMA LatestAcceptedIn ==
  ASSUME TypeOK, NEW t \in Tasks, NEW stage, LatestAccepted(t, stage) # None
  PROVE  /\ LatestAccepted(t, stage) \in Evidence(t)
         /\ Accepts(LatestAccepted(t, stage), stage)
<1> DEFINE rows == {i \in DOMAIN ph[t] : Accepts(ph[t][i], stage)}
<1>1. ph[t] \in Seq(PhaseRecord) /\ rows \in SUBSET DOMAIN ph[t]
  BY DEF TypeOK
<1>2. LatestAccepted(t, stage) = LatestOf(t, rows)
  BY DEF LatestAccepted
<1>3. rows # {}
  BY <1>1, <1>2, Newest
<1>4. PICK i \in rows : LatestOf(t, rows) = ph[t][i]
  BY <1>1, <1>3, Newest
<1> QED BY <1>2, <1>4 DEF Evidence

-----------------------------------------------------------------------------
(* Frames of the tables.                                                   *)

LEMMA EvidenceKept == ASSUME NEW t, ph' = ph PROVE Evidence(t)' = Evidence(t)
BY DEF Evidence

LEMMA EvidenceAppended ==
  ASSUME TypeOK, NEW t \in Tasks, NEW p \in PhaseRecord, ph' = [ph EXCEPT ![t] = Append(@, p)]
  PROVE  /\ Evidence(t)' = Evidence(t) \cup {p}
         /\ \A u \in Tasks \ {t} : Evidence(u)' = Evidence(u)
         /\ ph' \in [Tasks -> Seq(PhaseRecord)]
<1>1. ph \in [Tasks -> Seq(PhaseRecord)]
  BY DEF TypeOK
<1>2. ph'[t] = Append(ph[t], p) /\ \A u \in Tasks \ {t} : ph'[u] = ph[u]
  BY <1>1
<1>3. ph' \in [Tasks -> Seq(PhaseRecord)]
  BY <1>1
<1> DEFINE s == ph[t]
<1>4. s \in Seq(PhaseRecord)
  BY <1>1
<1> HIDE DEF s
<1> DEFINE q == Append(s, p)
<1>5. /\ DOMAIN q = 1..(Len(s) + 1) /\ DOMAIN s = 1..Len(s) /\ Len(s) \in Nat
      /\ q[Len(s) + 1] = p /\ \A i \in 1..Len(s) : q[i] = s[i]
  BY <1>4
<1> HIDE DEF q
<1>6. {q[i] : i \in DOMAIN q} = {s[i] : i \in DOMAIN s} \cup {p}
  BY <1>5
<1>7. Evidence(t)' = Evidence(t) \cup {p}
  BY <1>2, <1>6 DEF Evidence, q, s
<1> QED BY <1>2, <1>3, <1>7 DEF Evidence

-----------------------------------------------------------------------------
(* A handler writes the row of one Task, with or without a phase.          *)

\* The captures stay, and a request that was made stays made.
SameCaptures ==
  \A o \in Ops : /\ iop'[o].cap = iop[o].cap
                 /\ iop[o].status # "idle" => iop'[o].status # "idle"

\* The phase rows P are added to those of t.
Adds(t, P) ==
  /\ Evidence(t)' = Evidence(t) \cup P
  /\ \A u \in Tasks \ {t} : Evidence(u)' = Evidence(u)

\* Nothing about a landing is recorded, or where the Task has landed.
Records(t, s, P) ==
  \/ /\ \A p \in P : p.stage # "integration"
     /\ IntegrationPhases(t) = {} \/ s.status = "done"
  \/ /\ IntegrationPhases(t) = {} /\ s.status = "integrated"
     /\ \E p : P = {p} /\ p.head \in LandingRecord /\ p.head.task = t /\ OnCanonical(p.head)

\* A Task that stops being integrated leaves no landing without a record.
Settled(t, P) ==
  \A i \in DOMAIN canon : canon[i].rev > 0 /\ canon[i].task = t =>
    RequestedTwice(t) \/ \E p \in P : p.stage = "integration" /\ p.head = canon[i]

\* The receipts stay, or one is added of the row the step replaces.
Attempted(t) ==
  \/ rcpt' = rcpt
  \/ /\ st[t] # None /\ HasReview(t, st[t].head, st[t].rev)
     /\ \E n \in Nat : rcpt' = [rcpt EXCEPT ![t] =
          Append(@, [base |-> st[t].base, head |-> st[t].head, profile |-> n,
                     attempt |-> st[t].rev])]

\* What a row may become.
RowTo(t, s, P) ==
  /\ s \in StateRecord /\ P \in SUBSET PhaseRecord
  /\ st[t] # None => s.rev = st[t].rev + 1
  /\ s.base <= Canonical /\ Fits(s.head, load.work)
  /\ \A p \in P : p.rev = s.rev
  /\ \A p \in P : p.kind = "block" => p.dec \in Parkable
  /\ Records(t, s, P)
  /\ st[t] # None /\ st[t].status = "integrating" => Settled(t, P)
  /\ s.status = "resetting" => \E p \in Evidence(t) \cup P : p.kind = "reset_start"
  /\ Actionable(s) =>
       \/ Slot(s.agent, t)
       \/ Actionable(st[t]) /\ st[t].agent = s.agent
       \/ \E p \in P : p.note = "reconcile"

RowWrite(t, s, P) ==
  /\ RowTo(t, s, P) /\ Adds(t, P)
  /\ st' = [st EXCEPT ![t] = s]
  /\ Attempted(t) /\ SameCaptures
  /\ UNCHANGED <<load, canon, lane>>

LEMMA Written ==
  ASSUME TypeOK, NEW t \in Tasks, NEW s, NEW P, RowWrite(t, s, P)
  PROVE  /\ st'[t] = s /\ s # None
         /\ \A u \in Tasks \ {t} : st'[u] = st[u]
         /\ \A u \in Tasks : st[u] # None => st'[u] # None /\ st'[u].rev >= st[u].rev
<1>1. st \in [Tasks -> {None} \cup StateRecord] /\ st' = [st EXCEPT ![t] = s]
      /\ s \in StateRecord /\ (st[t] # None => s.rev = st[t].rev + 1)
  BY DEF TypeOK, RowWrite, RowTo
<1>2. s # None
  BY <1>1, ShapeAssumption
<1>3. \A u \in Tasks : st[u] # None => st[u].rev \in Nat
  BY <1>1 DEF StateRecord
<1> QED BY <1>1, <1>2, <1>3

LEMMA WriteRows ==
  ASSUME TypeOK, Core, NEW t \in Tasks, NEW s, NEW P, RowWrite(t, s, P)
  PROVE  RowsFit' /\ LanesFit' /\ BlocksFit' /\ BranchFits' /\ OwnersFit'
<1>1. /\ st'[t] = s /\ s # None
      /\ \A u \in Tasks \ {t} : st'[u] = st[u]
  BY Written
<1>2. /\ Fits(s.head, load.work) /\ Adds(t, P)
      /\ s.status = "resetting" => \E p \in Evidence(t) \cup P : p.kind = "reset_start"
      /\ \A p \in P : p.kind = "block" => p.dec \in Parkable
      /\ load' = load /\ canon' = canon /\ lane' = lane
  BY DEF RowWrite, RowTo
<1>3. RowsFit'
  BY <1>1, <1>2 DEF Core, RowsFit, Adds, Fits, Canonical
<1>4. BlocksFit'
  BY <1>2 DEF Core, BlocksFit, Adds
<1>5. LanesFit' /\ BranchFits' /\ OwnersFit'
  BY <1>2 DEF Core, LanesFit, BranchFits, OwnersFit, Fits, Canonical
<1> QED BY <1>3, <1>4, <1>5

LEMMA ReceiptsAdded ==
  ASSUME TypeOK, Core, NEW t \in Tasks, Attempted(t)
  PROVE  /\ rcpt' \in [Tasks -> Seq(ReceiptRecord)]
         /\ \A u \in Tasks : \A i \in DOMAIN rcpt[u] : i \in DOMAIN rcpt'[u] /\ rcpt'[u][i] = rcpt[u][i]
         /\ \A u \in Tasks : \A i \in DOMAIN rcpt'[u] :
              \/ i \in DOMAIN rcpt[u] /\ rcpt'[u][i] = rcpt[u][i]
              \/ /\ u = t /\ st[t] # None /\ HasReview(t, st[t].head, st[t].rev)
                 /\ rcpt'[u][i].base = st[t].base /\ rcpt'[u][i].head = st[t].head
                 /\ rcpt'[u][i].attempt = st[t].rev
<1>1. rcpt \in [Tasks -> Seq(ReceiptRecord)]
  BY DEF TypeOK
<1>2. CASE rcpt' = rcpt
  BY <1>1, <1>2
<1>3. ASSUME st[t] # None, HasReview(t, st[t].head, st[t].rev), NEW n \in Nat,
             rcpt' = [rcpt EXCEPT ![t] = Append(@, [base |-> st[t].base, head |-> st[t].head,
                                                    profile |-> n, attempt |-> st[t].rev])]
      PROVE  /\ rcpt' \in [Tasks -> Seq(ReceiptRecord)]
             /\ \A u \in Tasks : \A i \in DOMAIN rcpt[u] :
                  i \in DOMAIN rcpt'[u] /\ rcpt'[u][i] = rcpt[u][i]
             /\ \A u \in Tasks : \A i \in DOMAIN rcpt'[u] :
                  \/ i \in DOMAIN rcpt[u] /\ rcpt'[u][i] = rcpt[u][i]
                  \/ /\ u = t /\ rcpt'[u][i].base = st[t].base /\ rcpt'[u][i].head = st[t].head
                     /\ rcpt'[u][i].attempt = st[t].rev
  <2> DEFINE r == [base |-> st[t].base, head |-> st[t].head, profile |-> n, attempt |-> st[t].rev]
  <2>1. /\ r \in ReceiptRecord
        /\ r.base = st[t].base /\ r.head = st[t].head /\ r.attempt = st[t].rev
    BY <1>3 DEF TypeOK, StateRecord, ReceiptRecord
  <2>2. rcpt' = [rcpt EXCEPT ![t] = Append(@, r)]
    BY <1>3
  <2> HIDE DEF r
  <2>3. /\ rcpt' \in [Tasks -> Seq(ReceiptRecord)]
        /\ rcpt'[t] = Append(rcpt[t], r) /\ \A u \in Tasks \ {t} : rcpt'[u] = rcpt[u]
    BY <1>1, <2>1, <2>2
  <2> DEFINE q == rcpt[t]
  <2>4. q \in Seq(ReceiptRecord)
    BY <1>1
  <2>5. rcpt'[t] = Append(q, r)
    BY <2>3
  <2>6. /\ \A i \in DOMAIN q : i \in DOMAIN rcpt'[t] /\ rcpt'[t][i] = q[i]
        /\ \A i \in DOMAIN rcpt'[t] : (i \in DOMAIN q /\ rcpt'[t][i] = q[i]) \/ rcpt'[t][i] = r
    <3> HIDE DEF q
    <3> QED BY <2>4, <2>5
  <2>7. \A u \in Tasks : \A i \in DOMAIN rcpt[u] : i \in DOMAIN rcpt'[u] /\ rcpt'[u][i] = rcpt[u][i]
    BY <2>3, <2>6
  <2>8. ASSUME NEW u \in Tasks, NEW i \in DOMAIN rcpt'[u]
        PROVE  (i \in DOMAIN rcpt[u] /\ rcpt'[u][i] = rcpt[u][i]) \/ (u = t /\ rcpt'[u][i] = r)
    BY <2>3, <2>6
  <2> QED BY <2>1, <2>3, <2>7, <2>8
<1> QED BY <1>2, <1>3 DEF Attempted

LEMMA WriteReceipts ==
  ASSUME TypeOK, Core, NEW t \in Tasks, NEW s, NEW P, RowWrite(t, s, P)
  PROVE  ReceiptsFit'
<1>1. /\ Adds(t, P) /\ load' = load /\ canon' = canon
      /\ \A u \in Tasks : st[u] # None => st'[u] # None
  BY Written DEF RowWrite
<1>2. \A u \in Tasks : Evidence(u) \subseteq Evidence(u)'
  BY <1>1 DEF Adds
<1>3. ASSUME NEW u \in Tasks, NEW c, NEW r, HasReview(u, c, r) PROVE HasReview(u, c, r)'
  BY <1>2, <1>3 DEF HasReview
<1> SUFFICES ASSUME NEW u \in Tasks, NEW i \in DOMAIN rcpt'[u], NEW r, r = rcpt'[u][i]
             PROVE  /\ st'[u] # None
                    /\ r.base <= Canonical /\ Fits(r.head, load.work)
                    /\ HasReview(u, r.head, r.attempt)'
  BY <1>1 DEF ReceiptsFit, Fits, Canonical
<1>4. CASE i \in DOMAIN rcpt[u] /\ r = rcpt[u][i]
  BY <1>1, <1>3, <1>4 DEF Core, ReceiptsFit
<1>5. CASE /\ u = t /\ st[t] # None /\ HasReview(t, st[t].head, st[t].rev)
           /\ r.base = st[t].base /\ r.head = st[t].head /\ r.attempt = st[t].rev
  <2>1. st[t].base <= Canonical /\ Fits(st[t].head, load.work)
    BY <1>5 DEF TypeOK, Core, RowsFit
  <2> QED BY <1>1, <1>3, <1>5, <2>1
<1>6. Attempted(t)
  BY DEF RowWrite
<1> QED BY <1>4, <1>5, <1>6, ReceiptsAdded

LEMMA WriteIntegrations ==
  ASSUME TypeOK, Core, NEW t \in Tasks, NEW s, NEW P, RowWrite(t, s, P)
  PROVE  IntegrationsFit' /\ \A u \in Tasks : IntegrationPhases(u) \subseteq IntegrationPhases(u)'
<1>1. /\ st'[t] = s /\ s # None
      /\ \A u \in Tasks \ {t} : st'[u] = st[u]
  BY Written
<1>2. Adds(t, P) /\ canon' = canon /\ Records(t, s, P)
  BY DEF RowWrite, RowTo
<1>3. /\ \A u \in Tasks \ {t} : IntegrationPhases(u)' = IntegrationPhases(u)
      /\ IntegrationPhases(t)' = IntegrationPhases(t) \cup {p \in P : p.stage = "integration"}
  BY <1>2 DEF Adds, IntegrationPhases
<1>4. \A c : OnCanonical(c)' = OnCanonical(c)
  BY <1>2 DEF OnCanonical, Canonical
<1> DEFINE Proper(u) ==
      \A p \in IntegrationPhases(u)' :
        /\ st'[u] # None /\ st'[u].status \in {"integrated", "done"}
        /\ p.head \in LandingRecord /\ p.head.task = u /\ OnCanonical(p.head)
        /\ \A q \in IntegrationPhases(u)' : p = q
<1>5. \A u \in Tasks \ {t} : Proper(u)
  BY <1>1, <1>3 DEF Core, IntegrationsFit
<1>6. Proper(t)
  <2>1. CASE (\A p \in P : p.stage # "integration") /\ IntegrationPhases(t) = {}
    BY <1>3, <2>1
  <2>2. CASE (\A p \in P : p.stage # "integration") /\ s.status = "done"
    <3>1. IntegrationPhases(t)' = IntegrationPhases(t)
      BY <1>3, <2>2
    <3> QED BY <1>1, <2>2, <3>1 DEF Core, IntegrationsFit
  <2>3. ASSUME IntegrationPhases(t) = {}, s.status = "integrated", NEW p, P = {p},
               p.head \in LandingRecord, p.head.task = t, OnCanonical(p.head)
        PROVE  Proper(t)
    <3>1. IntegrationPhases(t)' \subseteq {p}
      BY <1>3, <2>3
    <3> QED BY <1>1, <2>3, <3>1
  <2> QED BY <1>2, <2>1, <2>2, <2>3 DEF Records
<1>7. IntegrationsFit'
  <2>1. \A u \in Tasks : Proper(u)
    BY <1>5, <1>6
  <2> QED BY <1>4, <2>1 DEF IntegrationsFit
<1> QED BY <1>3, <1>7

LEMMA WriteCaptures ==
  ASSUME TypeOK, Core, NEW t \in Tasks, NEW s, NEW P, RowWrite(t, s, P)
  PROVE  CapturesFit'
<1>1. /\ st'[t] = s /\ s # None
      /\ \A u \in Tasks \ {t} : st'[u] = st[u]
  BY Written
<1>2. /\ SameCaptures /\ Attempted(t)
      /\ st[t] # None => s.rev = st[t].rev + 1
  BY DEF RowWrite, RowTo
<1> SUFFICES ASSUME NEW o \in Ops, iop'[o].cap # None
             PROVE  iop'[o].status # "idle" /\ CaptureFits(o, OpTask[o], iop[o].cap)'
  BY DEF CapturesFit
<1> DEFINE u == OpTask[o]
           cap == iop[o].cap
<1>3. u \in Tasks
  BY OpTaskAssumption
<1>4. iop'[o].cap = cap /\ iop'[o].status # "idle" /\ CaptureFits(o, u, cap) /\ cap \in CaptureRecord
  BY <1>2 DEF SameCaptures, Core, CapturesFit, TypeOK, OpRecord
<1>5. st[u] \in StateRecord
  BY <1>3, <1>4 DEF CaptureFits, TypeOK
<1>6. cap.rev \in Nat /\ st[u].rev \in Nat
  BY <1>4, <1>5 DEF CaptureRecord, StateRecord
<1>7. /\ st'[u] # None
      /\ cap.rev > 0 /\ cap.rev <= st'[u].rev
      /\ cap.rev = st'[u].rev => st'[u].status = "integrating"
  BY <1>1, <1>2, <1>3, <1>4, <1>5, <1>6 DEF CaptureFits
<1>8. Receipted(u, cap.base, cap.head)'
  <2>1. PICK i \in DOMAIN rcpt[u] : rcpt[u][i].base = cap.base /\ rcpt[u][i].head = cap.head
    BY <1>4 DEF CaptureFits, Receipted
  <2>2. i \in DOMAIN rcpt'[u] /\ rcpt'[u][i] = rcpt[u][i]
    BY <1>2, <1>3, ReceiptsAdded
  <2> QED BY <1>4, <2>1, <2>2 DEF Receipted
<1>9. cap.commit # None => cap.commit = Landing(u, cap.head, cap.base, cap.rev)
  BY <1>4 DEF CaptureFits
<1> QED BY <1>4, <1>7, <1>8, <1>9 DEF CaptureFits

LEMMA TwiceStays ==
  ASSUME SameCaptures, NEW t, RequestedTwice(t) PROVE RequestedTwice(t)'
BY DEF SameCaptures, RequestedTwice

LEMMA WriteLandings ==
  ASSUME TypeOK, Core, NEW t \in Tasks, NEW s, NEW P, RowWrite(t, s, P)
  PROVE  LandingRecoverable'
<1>1. \A u \in Tasks \ {t} : st'[u] = st[u]
  BY Written
<1>2. /\ SameCaptures /\ canon' = canon
      /\ st[t] # None /\ st[t].status = "integrating" => Settled(t, P)
      /\ Adds(t, P)
  BY DEF RowWrite, RowTo
<1>3. \A u \in Tasks : IntegrationPhases(u) \subseteq IntegrationPhases(u)'
  BY WriteIntegrations
<1> SUFFICES ASSUME NEW l, NEW i \in DOMAIN canon, l = canon[i], l.rev > 0
             PROVE  \/ \E p \in IntegrationPhases(l.task)' : p.head = l
                    \/ \E o \in Ops : /\ OpTask[o] = l.task
                                      /\ iop'[o].cap # None
                                      /\ iop'[o].cap.commit = l
                                      /\ Binds(iop[o].cap, l.task)'
                    \/ RequestedTwice(l.task)'
  BY <1>2 DEF LandingRecoverable
<1>4. l.task \in Tasks
  BY DEF Core, OwnersFit
<1>5. CASE \E p \in IntegrationPhases(l.task) : p.head = l
  BY <1>3, <1>4, <1>5
<1>6. CASE RequestedTwice(l.task)
  BY <1>2, <1>6, TwiceStays
<1>7. ASSUME NEW o \in Ops, OpTask[o] = l.task, iop[o].cap # None, iop[o].cap.commit = l,
             Binds(iop[o].cap, l.task)
      PROVE  \/ \E p \in IntegrationPhases(l.task)' : p.head = l
             \/ \E p \in Ops : /\ OpTask[p] = l.task
                               /\ iop'[p].cap # None
                               /\ iop'[p].cap.commit = l
                               /\ Binds(iop[p].cap, l.task)'
             \/ RequestedTwice(l.task)'
  <2>1. iop'[o].cap = iop[o].cap
    BY <1>2 DEF SameCaptures
  <2>2. CASE l.task # t
    <3>1. Binds(iop[o].cap, l.task)'
      BY <1>1, <1>4, <1>7, <2>1, <2>2 DEF Binds
    <3> QED BY <1>7, <2>1, <3>1
  <2>3. CASE l.task = t
    <3>1. st[t] # None /\ st[t].status = "integrating"
      BY <1>7, <2>3 DEF Core, CapturesFit, CaptureFits, Binds
    <3>2. RequestedTwice(t) \/ \E p \in P : p.stage = "integration" /\ p.head = l
      BY <1>2, <2>3, <3>1 DEF Settled
    <3>3. ASSUME NEW p \in P, p.stage = "integration" PROVE p \in IntegrationPhases(t)'
      BY <1>2, <3>3 DEF Adds, IntegrationPhases
    <3> QED BY <1>2, <2>3, <3>2, <3>3, TwiceStays
  <2> QED BY <2>2, <2>3
<1> QED BY <1>5, <1>6, <1>7 DEF Core, LandingRecoverable

LEMMA WriteSlots ==
  ASSUME TypeOK, Core, NEW t \in Tasks, NEW s, NEW P, RowWrite(t, s, P)
  PROVE  SecondTaskOnlyByRebase'
<1>1. /\ st'[t] = s /\ s # None
      /\ \A u \in Tasks \ {t} : st'[u] = st[u]
  BY Written
<1>2. /\ Adds(t, P)
      /\ Actionable(s) =>
            \/ Slot(s.agent, t)
            \/ Actionable(st[t]) /\ st[t].agent = s.agent
            \/ \E p \in P : p.note = "reconcile"
  BY DEF RowWrite, RowTo
<1>3. ASSUME NEW u \in Tasks, OpenedByRebase(u) PROVE OpenedByRebase(u)'
  BY <1>2, <1>3 DEF Adds, OpenedByRebase
<1>4. (\E p \in P : p.note = "reconcile") => OpenedByRebase(t)'
  BY <1>2 DEF Adds, OpenedByRebase
<1>5. ASSUME NEW u \in Tasks, u # t, Actionable(s), Actionable(st[u]), st[u].agent = s.agent
      PROVE  OpenedByRebase(t)' \/ OpenedByRebase(u)'
  <2>1. CASE Slot(s.agent, t)
    BY <1>5, <2>1 DEF Slot
  <2>2. CASE Actionable(st[t]) /\ st[t].agent = s.agent
    BY <1>3, <1>5, <2>2 DEF Core, SecondTaskOnlyByRebase
  <2> QED BY <1>2, <1>4, <1>5, <2>1, <2>2
<1>6. ASSUME NEW u \in Tasks, NEW v \in Tasks, u # v, u # t, v # t, Actionable(st[u]),
             Actionable(st[v]), st[u].agent = st[v].agent
      PROVE  OpenedByRebase(u)' \/ OpenedByRebase(v)'
  BY <1>3, <1>6 DEF Core, SecondTaskOnlyByRebase
<1>7. \A u \in Tasks : Actionable(st[u])' = IF u = t THEN Actionable(s) ELSE Actionable(st[u])
  BY <1>1 DEF Actionable
<1> SUFFICES ASSUME NEW u \in Tasks, NEW v \in Tasks, u # v, Actionable(st[u])',
                    Actionable(st[v])', st'[u].agent = st'[v].agent
             PROVE  OpenedByRebase(u)' \/ OpenedByRebase(v)'
  BY DEF SecondTaskOnlyByRebase
<1>8. CASE u = t
  BY <1>1, <1>5, <1>7, <1>8
<1>9. CASE v = t
  BY <1>1, <1>5, <1>7, <1>9
<1>10. CASE u # t /\ v # t
  BY <1>1, <1>6, <1>7, <1>10
<1> QED BY <1>8, <1>9, <1>10

LEMMA RowWriteCore ==
  ASSUME TypeOK, Core, NEW t \in Tasks, NEW s, NEW P, RowWrite(t, s, P) PROVE Core'
BY WriteRows, WriteReceipts, WriteIntegrations, WriteCaptures, WriteLandings, WriteSlots DEF Core

LEMMA RowWriteTyped ==
  ASSUME TypeOK, Core, NEW t \in Tasks, NEW s, NEW P, RowWrite(t, s, P),
         ph' \in [Tasks -> Seq(PhaseRecord)],
         authoring' \in [Tasks -> {"planned", "done"}],
         contract' \in [Tasks -> {None} \cup CompletionRecord],
         iop' \in [Ops -> OpRecord], mu'.t \in Tasks \cup {None},
         UNCHANGED <<journal, profile>>
  PROVE  TypeOK'
<1>1. /\ st'[t] = s /\ s # None /\ s \in StateRecord
      /\ \A u \in Tasks \ {t} : st'[u] = st[u]
      /\ \A u \in Tasks : st[u] # None => st'[u] # None /\ st'[u].rev >= st[u].rev
  <2>1. s \in StateRecord
    BY DEF RowWrite, RowTo
  <2> QED BY <2>1, Written
<1>2. /\ Adds(t, P) /\ s.base <= Canonical
      /\ st' = [st EXCEPT ![t] = s]
      /\ load' = load /\ Attempted(t) /\ canon' = canon /\ lane' = lane
      /\ \A p \in P : p.rev = s.rev
      /\ P \in SUBSET PhaseRecord
  BY DEF RowWrite, RowTo
<1>3. st' \in [Tasks -> {None} \cup StateRecord]
  BY <1>1, <1>2 DEF TypeOK
<1>4. /\ load' \in Loads
      /\ journal' \in [Tasks -> Nat] /\ canon' \in Seq(LandingRecord)
      /\ lane' \in [Tasks -> {None} \cup LaneRecord] /\ profile' \in Nat
  BY <1>2 DEF TypeOK
<1>10. rcpt' \in [Tasks -> Seq(ReceiptRecord)]
  BY <1>2, ReceiptsAdded
<1> SUFFICES ASSUME NEW u \in Tasks
             PROVE  /\ st'[u] # None => st'[u].base <= Canonical'
                    /\ \A p \in Evidence(u)' : st'[u] # None /\ p.rev <= st'[u].rev
                    /\ \A i \in DOMAIN rcpt'[u] : rcpt'[u][i].attempt < st'[u].rev
                    /\ lane[u] # None => lane[u].head.base <= Canonical'
  BY <1>2, <1>3, <1>4, <1>10 DEF TypeOK
<1>5. /\ Canonical' = Canonical
      /\ st[u] # None => st[u] \in StateRecord
      /\ \A p \in Evidence(u) : p \in PhaseRecord
  BY <1>2, EvidenceTyped DEF Canonical, TypeOK
<1>6. \A p \in Evidence(u)' : st'[u] # None /\ p.rev <= st'[u].rev
  <2>1. ASSUME NEW p \in Evidence(u) PROVE st'[u] # None /\ p.rev <= st'[u].rev
    <3>1. st[u] # None /\ p.rev <= st[u].rev /\ p.rev \in Nat
      BY <1>5, <2>1 DEF TypeOK, PhaseRecord
    <3>2. st'[u] # None /\ st'[u].rev >= st[u].rev /\ st'[u] \in StateRecord
      BY <1>1, <1>3, <3>1
    <3> QED BY <1>5, <3>1, <3>2 DEF StateRecord
  <2>2. CASE u = t
    <3>1. \A p \in P : st'[u] # None /\ p.rev <= st'[u].rev
      BY <1>1, <1>2, <2>2 DEF StateRecord
    <3> QED BY <1>2, <2>1, <2>2, <3>1 DEF Adds
  <2>3. CASE u # t
    BY <1>2, <2>1, <2>3 DEF Adds
  <2> QED BY <2>2, <2>3
<1>7. \A i \in DOMAIN rcpt'[u] : rcpt'[u][i].attempt < st'[u].rev
  <2> SUFFICES ASSUME NEW i \in DOMAIN rcpt'[u] PROVE rcpt'[u][i].attempt < st'[u].rev
    OBVIOUS
  <2>1. CASE i \in DOMAIN rcpt[u] /\ rcpt'[u][i] = rcpt[u][i]
    <3>1. rcpt[u][i] \in ReceiptRecord
      BY <2>1 DEF TypeOK
    <3>2. st[u] # None /\ rcpt[u][i].attempt < st[u].rev
      BY <2>1 DEF Core, ReceiptsFit, TypeOK
    <3>3. st'[u].rev >= st[u].rev /\ st'[u] \in StateRecord
      BY <1>1, <1>3, <3>2
    <3> QED BY <1>5, <2>1, <3>1, <3>2, <3>3 DEF StateRecord, ReceiptRecord
  <2>2. CASE u = t /\ st[t] # None /\ rcpt'[u][i].attempt = st[t].rev
    <3>1. s.rev = st[t].rev + 1
      BY <2>2 DEF RowWrite, RowTo
    <3>2. st[t].rev \in Nat
      BY <1>5, <2>2 DEF StateRecord
    <3> QED BY <1>1, <2>2, <3>1, <3>2
  <2> QED BY <1>2, <2>1, <2>2, ReceiptsAdded
<1>8. st'[u] # None => st'[u].base <= Canonical'
  BY <1>1, <1>2, <1>5 DEF TypeOK
<1>9. lane[u] # None => lane[u].head.base <= Canonical'
  BY <1>5 DEF TypeOK
<1> QED BY <1>6, <1>7, <1>8, <1>9

\* TransitionTaskExecutionState: the row with one phase.
LEMMA PhaseWrite ==
  ASSUME TypeOK, Core, NEW t \in Tasks, NEW s, NEW p, RowTo(t, s, {p}),
         st' = [st EXCEPT ![t] = s], ph' = [ph EXCEPT ![t] = Append(@, p)],
         SameCaptures, iop' \in [Ops -> OpRecord], mu'.t \in Tasks \cup {None},
         UNCHANGED <<load, rcpt, canon, lane, authoring, contract, journal, profile>>
  PROVE  TypeOK' /\ Core'
<1>1. p \in PhaseRecord
  BY DEF RowTo
<1>2. Adds(t, {p}) /\ ph' \in [Tasks -> Seq(PhaseRecord)]
  BY <1>1, EvidenceAppended DEF Adds
<1>3. RowWrite(t, s, {p})
  BY <1>2 DEF RowWrite, Attempted
<1>4. Core'
  BY <1>3, RowWriteCore
<1>5. authoring' \in [Tasks -> {"planned", "done"}] /\ contract' \in [Tasks -> {None} \cup CompletionRecord]
  BY DEF TypeOK
<1> QED BY <1>2, <1>3, <1>4, <1>5, RowWriteTyped

\* FinishTaskExecutionVerification: the row and a receipt.
LEMMA ReceiptWrite ==
  ASSUME TypeOK, Core, NEW t \in Tasks, NEW s, RowTo(t, s, {}),
         st' = [st EXCEPT ![t] = s], ph' = ph, Attempted(t),
         SameCaptures, iop' \in [Ops -> OpRecord], mu'.t \in Tasks \cup {None},
         authoring' \in [Tasks -> {"planned", "done"}],
         contract' \in [Tasks -> {None} \cup CompletionRecord],
         UNCHANGED <<load, canon, lane, journal, profile>>
  PROVE  TypeOK' /\ Core'
<1>1. Adds(t, {})
  BY DEF Adds, Evidence
<1>2. ph' \in [Tasks -> Seq(PhaseRecord)]
  BY DEF TypeOK
<1>3. RowWrite(t, s, {})
  BY <1>1 DEF RowWrite
<1>4. Core'
  BY <1>3, RowWriteCore
<1> QED BY <1>2, <1>3, <1>4, RowWriteTyped

\* UpdateTaskExecutionState: the row alone.
LEMMA StateWrite ==
  ASSUME TypeOK, Core, NEW t \in Tasks, NEW s, RowTo(t, s, {}),
         st' = [st EXCEPT ![t] = s], ph' = ph,
         SameCaptures, iop' \in [Ops -> OpRecord], mu'.t \in Tasks \cup {None},
         authoring' \in [Tasks -> {"planned", "done"}],
         contract' \in [Tasks -> {None} \cup CompletionRecord],
         UNCHANGED <<load, rcpt, canon, lane, journal, profile>>
  PROVE  TypeOK' /\ Core'
<1>1. Attempted(t)
  BY DEF Attempted
<1> QED BY <1>1, ReceiptWrite

LEMMA OpsKept == ASSUME TypeOK, iop' = iop PROVE SameCaptures /\ iop' \in [Ops -> OpRecord]
BY DEF SameCaptures, TypeOK

LEMMA OpEnded ==
  ASSUME TypeOK, NEW o \in Ops, NEW status \in {"accepted", "completed", "failed"}, EndOp(o, status)
  PROVE  SameCaptures /\ iop' \in [Ops -> OpRecord]
<1>1. iop \in [Ops -> OpRecord] /\ iop' = [iop EXCEPT ![o].status = status]
  BY DEF TypeOK, EndOp
<1>2. iop' \in [Ops -> OpRecord]
  BY <1>1 DEF OpRecord
<1>3. \A p \in Ops : iop'[p].cap = iop[p].cap /\ iop'[p].status = IF p = o THEN status ELSE iop[p].status
  BY <1>1 DEF OpRecord
<1> QED BY <1>2, <1>3 DEF SameCaptures

LEMMA Released == ASSUME mu' = Free PROVE HolderFits' /\ mu'.t \in Tasks \cup {None}
BY DEF Free, HolderFits

LEMMA StillFree == ASSUME mu = Free, mu' = mu PROVE HolderFits' /\ mu'.t \in Tasks \cup {None}
BY DEF Free, HolderFits

\* The row of a Task that has one, after a status change.
LEMMA Stepped ==
  ASSUME TypeOK, Core, NEW t \in Tasks, st[t] # None, NEW status \in Statuses
  PROVE  /\ Step(t, status) = [status |-> status, stage |-> st[t].stage, base |-> st[t].base,
                               head |-> st[t].head, agent |-> st[t].agent, rev |-> st[t].rev + 1]
         /\ Step(t, status) \in StateRecord
         /\ st[t] \in StateRecord
         /\ st[t].base <= Canonical /\ Fits(st[t].head, load.work)
<1>1. st[t] \in StateRecord /\ st[t].base <= Canonical
  BY DEF TypeOK
<1>2. Fits(st[t].head, load.work)
  BY DEF Core, RowsFit
<1>3. Step(t, status) = [status |-> status, stage |-> st[t].stage, base |-> st[t].base,
                         head |-> st[t].head, agent |-> st[t].agent, rev |-> st[t].rev + 1]
  <2>1. ASSUME NEW r \in StateRecord
        PROVE  [r EXCEPT !.status = status, !.rev = @ + 1]
                 = [status |-> status, stage |-> r.stage, base |-> r.base, head |-> r.head,
                    agent |-> r.agent, rev |-> r.rev + 1]
    <3> DEFINE q == [status |-> status, stage |-> r.stage, base |-> r.base, head |-> r.head,
                     agent |-> r.agent, rev |-> r.rev]
    <3>1. [r EXCEPT !.status = status] = q
      BY <2>1 DEF StateRecord
    <3>2. [q EXCEPT !.rev = r.rev + 1]
            = [status |-> status, stage |-> r.stage, base |-> r.base, head |-> r.head,
               agent |-> r.agent, rev |-> r.rev + 1]
      OBVIOUS
    <3> QED BY <3>1, <3>2
  <2> QED BY <1>1, <2>1 DEF Step
<1>4. Step(t, status) \in StateRecord
  BY <1>1, <1>3 DEF StateRecord
<1> QED BY <1>1, <1>2, <1>3, <1>4

\* Only a Task that has landed has an integration phase.
LEMMA NotIntegrated ==
  ASSUME Core, NEW t \in Tasks, st[t] = None \/ st[t].status \notin {"integrated", "done"}
  PROVE  IntegrationPhases(t) = {}
BY DEF Core, IntegrationsFit

LEMMA StatusNames ==
  /\ Statuses = {"dispatched", "in_progress", "awaiting_review", "changes_requested",
                 "ready_for_verification", "verifying", "verified", "integrating", "integrated",
                 "blocked", "resetting", "done", "failed", "abandoned"}
  /\ Stages = {"code", "tests", "rebase"}
  /\ Stages \cup {"integration"} = {"code", "tests", "rebase", "integration"}
BY DEF Statuses, Stages, Terminal

Kinds == {"submission", "review", "rework", "block", "resume", "refresh", "reset_start", "reset"}
Decisions == Statuses \cup {"", "accept", "reject"}
Notes == {"", "reconcile"}
Open(t) == t \in Tasks /\ st[t] # None /\ st[t].status \notin {"integrated", "done", "integrating"}

LEMMA PhaseTyped ==
  ASSUME NEW s \in StateRecord, NEW kind \in Kinds, NEW dec \in Decisions, NEW note \in Notes
  PROVE  /\ Phase(s, kind, dec, note) \in PhaseRecord
         /\ Phase(s, kind, dec, note).rev = s.rev
         /\ Phase(s, kind, dec, note).stage # "integration"
         /\ Phase(s, kind, dec, note).kind = kind
         /\ Phase(s, kind, dec, note).dec = dec
         /\ Phase(s, kind, dec, note).note = note
<1>1. /\ s.stage \in Stages /\ s.head \in CommitRecord /\ s.rev \in Nat /\ s.stage # "integration"
  BY DEF StateRecord, Stages
<1>2. kind \in {"submission", "review", "rework", "block", "resume", "refresh", "reset_start",
                "reset", "integration"}
  BY DEF Kinds
<1>3. dec \in Statuses \cup {"", "accept", "reject"} /\ note \in {"", "reconcile", "historical"}
  BY DEF Decisions, Notes
<1> QED BY <1>1, <1>2, <1>3 DEF Phase, PhaseRecord

\* A handler that stores a row of its own Task and a phase.
LEMMA Transitioned ==
  ASSUME TypeOK, Core, NEW t, Open(t),
         NEW s \in StateRecord, s.rev = st[t].rev + 1, s.base <= Canonical, Fits(s.head, load.work),
         NEW kind \in Kinds, NEW dec \in Decisions,
         NEW note \in Notes, kind = "block" => dec \in Parkable,
         s.status = "resetting" => kind = "reset_start",
         Actionable(s) => \/ Slot(s.agent, t)
                          \/ Actionable(st[t]) /\ st[t].agent = s.agent
                          \/ note = "reconcile",
         TransitionWith(t, s, Phase(s, kind, dec, note)),
         mu'.t \in Tasks \cup {None},
         UNCHANGED <<load, rcpt, authoring, contract, journal, git, profile, iop>>
  PROVE  TypeOK' /\ Core'
<1> DEFINE p == Phase(s, kind, dec, note)
<1>1. /\ p \in PhaseRecord /\ p.rev = s.rev /\ p.stage # "integration"
      /\ p.kind = kind /\ p.dec = dec /\ p.note = note
  BY PhaseTyped
<1>2. IntegrationPhases(t) = {}
  BY NotIntegrated DEF Open
<1>3. t \in Tasks /\ st[t].status # "integrating"
  BY DEF Open
<1>4. SameCaptures /\ iop' \in [Ops -> OpRecord]
  BY OpsKept
<1>5. st' = [st EXCEPT ![t] = s] /\ ph' = [ph EXCEPT ![t] = Append(@, p)]
      /\ canon' = canon /\ lane' = lane
  BY DEF TransitionWith, UpdateState, git
<1> HIDE DEF p
<1>6. RowTo(t, s, {p})
  BY <1>1, <1>2, <1>3 DEF RowTo, Records
<1> QED BY <1>3, <1>4, <1>5, <1>6, PhaseWrite

\* The same with Step, where only the status changes.
LEMMA StatusTransitioned ==
  ASSUME TypeOK, Core, NEW t, Open(t), NEW status \in Statuses,
         NEW kind \in Kinds, NEW dec \in Decisions,
         kind = "block" => dec \in Parkable,
         status = "resetting" => kind = "reset_start",
         Actionable(Step(t, status)) => Slot(st[t].agent, t) \/ Actionable(st[t]),
         Transition(t, Step(t, status), kind, dec),
         mu'.t \in Tasks \cup {None},
         UNCHANGED <<load, rcpt, authoring, contract, journal, git, profile, iop>>
  PROVE  TypeOK' /\ Core'
<1> DEFINE s == Step(t, status)
<1>1. /\ s \in StateRecord /\ s.rev = st[t].rev + 1 /\ s.base <= Canonical /\ Fits(s.head, load.work)
      /\ s.agent = st[t].agent /\ s.status = status
  <2>1. t \in Tasks /\ st[t] # None
    BY DEF Open
  <2>2. st[t] \in StateRecord /\ st[t].base <= Canonical /\ Fits(st[t].head, load.work)
        /\ s \in StateRecord
    BY <2>1, Stepped
  <2>3. s = [status |-> status, stage |-> st[t].stage, base |-> st[t].base,
             head |-> st[t].head, agent |-> st[t].agent, rev |-> st[t].rev + 1]
    BY <2>1, Stepped
  <2> HIDE DEF s
  <2> QED BY <2>2, <2>3
<1>4. "" \in Notes
  BY DEF Notes
<1>2. TransitionWith(t, s, Phase(s, kind, dec, ""))
  BY DEF Transition
<1>3. Actionable(s) => Slot(s.agent, t) \/ (Actionable(st[t]) /\ st[t].agent = s.agent)
  BY <1>1
<1> HIDE DEF s
<1> QED BY <1>1, <1>2, <1>3, <1>4, Transitioned

\* A step that leaves the rows, their evidence, the lanes and the branch alone.
LEMMA Quiet ==
  ASSUME TypeOK, Core, UNCHANGED <<load, st, ph, rcpt, canon, lane>>,
         SameCaptures, iop' \in [Ops -> OpRecord],
         authoring' \in [Tasks -> {"planned", "done"}],
         contract' \in [Tasks -> {None} \cup CompletionRecord],
         journal' \in [Tasks -> Nat], profile' \in Nat, mu'.t \in Tasks \cup {None}
  PROVE  TypeOK' /\ Core'
<1>1. TypeOK'
  BY DEF TypeOK, Evidence, Canonical
<1>2. \A t : Evidence(t)' = Evidence(t)
  BY DEF Evidence
<1>3. RowsFit' /\ LanesFit' /\ BlocksFit' /\ BranchFits' /\ OwnersFit'
  BY <1>2 DEF Core, RowsFit, LanesFit, BlocksFit, BranchFits, OwnersFit, Fits, Canonical
<1>4. ReceiptsFit' /\ IntegrationsFit'
  BY <1>2 DEF Core, ReceiptsFit, IntegrationsFit, Fits, Canonical, HasReview,
     IntegrationPhases, OnCanonical
<1>5. CapturesFit'
  BY DEF Core, CapturesFit, CaptureFits, Receipted, SameCaptures
<1>6. LandingRecoverable'
  <2>1. \A t : RequestedTwice(t) => RequestedTwice(t)'
    BY TwiceStays
  <2> QED BY <1>2, <2>1 DEF Core, LandingRecoverable, IntegrationPhases, Binds, SameCaptures
<1>7. SecondTaskOnlyByRebase'
  BY <1>2 DEF Core, SecondTaskOnlyByRebase, OpenedByRebase, Actionable
<1> QED BY <1>1, <1>3, <1>4, <1>5, <1>6, <1>7 DEF Core

LEMMA Idle ==
  ASSUME TypeOK, Core, UNCHANGED <<load, tables, canon, lane, profile, iop>>,
         mu'.t \in Tasks \cup {None}
  PROVE  TypeOK' /\ Core'
<1>1. SameCaptures /\ iop' \in [Ops -> OpRecord]
  BY OpsKept
<1>2. /\ UNCHANGED <<load, st, ph, rcpt, canon, lane>>
      /\ authoring' \in [Tasks -> {"planned", "done"}]
      /\ contract' \in [Tasks -> {None} \cup CompletionRecord]
      /\ journal' \in [Tasks -> Nat] /\ profile' \in Nat
  BY DEF tables, TypeOK
<1> QED BY <1>1, <1>2, Quiet

\* A lane changes and nothing else that these facts are about.
LEMMA LaneChange ==
  ASSUME TypeOK, Core, NEW t \in Tasks, NEW l \in {None} \cup LaneRecord,
         l # None => Fits(l.head, load.work),
         lane' = [lane EXCEPT ![t] = l],
         UNCHANGED <<load, tables, canon, profile, iop>>, mu'.t \in Tasks \cup {None}
  PROVE  TypeOK' /\ Core'
<1>0. lane' \in [Tasks -> {None} \cup LaneRecord]
      /\ \A u \in Tasks : lane'[u] = IF u = t THEN l ELSE lane[u]
  BY DEF TypeOK
<1>1. TypeOK'
  BY <1>0 DEF TypeOK, tables, Evidence, Canonical, Fits
<1>2. \A u : Evidence(u)' = Evidence(u)
  BY DEF tables, Evidence
<1>3. LanesFit'
  BY <1>0 DEF Core, LanesFit, Fits, Canonical
<1>8. RowsFit' /\ BlocksFit' /\ BranchFits' /\ OwnersFit'
  BY <1>2 DEF Core, RowsFit, BlocksFit, BranchFits, OwnersFit, tables, Fits, Canonical
<1>4. ReceiptsFit' /\ IntegrationsFit'
  BY <1>2 DEF Core, ReceiptsFit, IntegrationsFit, tables, Fits, Canonical, HasReview,
     IntegrationPhases, OnCanonical
<1>5. CapturesFit'
  BY DEF Core, CapturesFit, CaptureFits, Receipted, tables
<1>6. LandingRecoverable'
  BY <1>2 DEF Core, LandingRecoverable, IntegrationPhases, Binds, RequestedTwice, tables
<1>7. SecondTaskOnlyByRebase'
  BY <1>2 DEF Core, SecondTaskOnlyByRebase, OpenedByRebase, Actionable, tables
<1> QED BY <1>1, <1>3, <1>4, <1>5, <1>6, <1>7, <1>8 DEF Core

-----------------------------------------------------------------------------
(* The holder of the mutex, while others take their steps.                 *)

LEMMA OnCanonicalStays ==
  ASSUME NEW c \in LandingRecord, NEW l \in LandingRecord, canon \in Seq(LandingRecord),
         canon' = Append(canon, l), OnCanonical(c)
  PROVE  OnCanonical(c)'
<1>1. c.base \in Nat /\ Len(canon) \in Nat
  BY DEF LandingRecord
<1>2. Len(canon') = Len(canon) + 1 /\ \A i \in 1..Len(canon) : canon'[i] = canon[i]
  OBVIOUS
<1>3. c.base < Len(canon) /\ canon[c.base + 1] = c
  BY DEF OnCanonical, Canonical
<1>4. c.base + 1 \in 1..Len(canon) /\ c.base < Len(canon')
  BY <1>1, <1>2, <1>3
<1> QED BY <1>2, <1>3, <1>4 DEF OnCanonical, Canonical

\* A step that is not the holder's: the world's push is nobody's landing.
Aside ==
  /\ mu' = mu /\ UNCHANGED <<load, st, ph, rcpt, contract>>
  /\ \A u \in Tasks : lane[u] # None => lane'[u] # None
  /\ SameCaptures
  /\ \A o \in Ops : iop[o].status = "accepted" => iop'[o].status = "accepted"
  /\ \/ canon' = canon
     \/ \E l \in LandingRecord : l.rev = 0 /\ canon' = Append(canon, l)

LEMMA HolderStays ==
  ASSUME TypeOK, Core, HolderFits, Aside
  PROVE  HolderFits'
<1>1. /\ mu' = mu /\ st' = st /\ ph' = ph /\ rcpt' = rcpt /\ contract' = contract /\ load' = load
      /\ SameCaptures
  BY DEF Aside
<1>2. \A t : /\ Evidence(t)' = Evidence(t) /\ IntegrationPhases(t)' = IntegrationPhases(t)
             /\ \A c, r : HasReview(t, c, r)' = HasReview(t, c, r)
             /\ \A b, c : Receipted(t, b, c)' = Receipted(t, b, c)
             /\ \A a : Slot(a, t)' = Slot(a, t)
  BY <1>1 DEF Evidence, IntegrationPhases, HasReview, Receipted, Slot, Actionable
<1>3. Canonical \in Nat /\ Canonical' \in Nat /\ Canonical <= Canonical'
  BY DEF Aside, Canonical, TypeOK
<1>4. \A c \in CommitRecord : Fits(c, load.work) => Fits(c, load.work)'
  BY <1>1, <1>3 DEF Fits, CommitRecord
<1>5. \A c \in LandingRecord : OnCanonical(c) => OnCanonical(c)'
  <2> SUFFICES ASSUME NEW c \in LandingRecord, OnCanonical(c) PROVE OnCanonical(c)'
    OBVIOUS
  <2>1. CASE canon' = canon
    BY <2>1 DEF OnCanonical, Canonical
  <2>2. ASSUME NEW l \in LandingRecord, canon' = Append(canon, l) PROVE OnCanonical(c)'
    BY <2>2, OnCanonicalStays DEF TypeOK
  <2> QED BY <2>1, <2>2 DEF Aside
<1>6. \A t \in Tasks : NothingLanded(t) => NothingLanded(t)'
  <2> SUFFICES ASSUME NEW t \in Tasks, NothingLanded(t), NEW i \in DOMAIN canon',
                      canon'[i].rev > 0, canon'[i].task = t
               PROVE  RequestedTwice(t)'
    BY DEF NothingLanded
  <2>1. CASE canon' = canon
    BY <1>1, <2>1, TwiceStays DEF NothingLanded
  <2>2. ASSUME NEW l \in LandingRecord, l.rev = 0, canon' = Append(canon, l)
        PROVE  RequestedTwice(t)'
    <3>1. canon \in Seq(LandingRecord)
      BY DEF TypeOK
    <3>2. i \in 1..(Len(canon) + 1) /\ canon'[Len(canon) + 1] = l
          /\ \A j \in 1..Len(canon) : canon'[j] = canon[j]
      BY <2>2, <3>1
    <3>3. i \in DOMAIN canon /\ canon'[i] = canon[i]
      BY <2>2, <3>1, <3>2
    <3> QED BY <1>1, <3>3, TwiceStays DEF NothingLanded
  <2> QED BY <2>1, <2>2 DEF Aside
<1>7. mu.h = "dispatch" => DispatchFits'
  BY <1>1, <1>2, <1>3 DEF HolderFits, DispatchFits, Status
<1>8. mu.h = "submit" => SubmitFits'
  BY <1>1, <1>4 DEF HolderFits, SubmitFits, Status
<1>9. mu.h = "refresh" => RefreshFits'
  BY <1>1, <1>3 DEF HolderFits, RefreshFits, Status
<1>10. mu.h = "reset" => ResetFits'
  BY <1>1 DEF HolderFits, ResetFits, Status
<1>11. mu.h = "verify" => VerifyFits'
  BY <1>1, <1>2 DEF HolderFits, VerifyFits, Status
<1>12. mu.h = "reconcile" => ReconcileFits'
  BY <1>1, <1>3, <1>4 DEF HolderFits, ReconcileFits, Status, Aside
<1>13. mu.h = "integrate" => IntegrateFits'
  <2> SUFFICES ASSUME mu.h = "integrate" PROVE IntegrateFits'
    OBVIOUS
  <2> DEFINE o == mu.x
  <2>1. IntegrateFits /\ mu.t \in Tasks
    BY DEF HolderFits
  <2>2. /\ o \in Ops /\ OpTask[o] = mu.t /\ iop'[o].status = "accepted" /\ iop'[o].cap = iop[o].cap
    BY <1>1, <2>1 DEF IntegrateFits, Aside, SameCaptures
  <2>3. mu.pc = "claimed" =>
          Receipted(mu.t, st[mu.t].base, st[mu.t].head)' /\ NothingLanded(mu.t)'
    BY <1>1, <1>2, <1>6, <2>1 DEF IntegrateFits
  <2>4. mu.pc # "claimed" => Binds(iop[o].cap, mu.t)'
    BY <1>1, <2>1, <2>2 DEF IntegrateFits, Binds
  <2>5. mu.pc = "landed" => OnCanonical(iop[o].cap.commit)'
    <3> SUFFICES ASSUME mu.pc = "landed" PROVE OnCanonical(iop[o].cap.commit)'
      OBVIOUS
    <3>1. iop[o].cap # None /\ iop[o].cap.commit # None /\ OnCanonical(iop[o].cap.commit)
      BY <2>1 DEF IntegrateFits, Binds, Prepared
    <3>2. iop[o].cap.commit \in LandingRecord
      BY <2>2, <3>1 DEF TypeOK, OpRecord, CaptureRecord
    <3> DEFINE c == iop[o].cap.commit
    <3>3. PICK d \in LandingRecord : d = c /\ d = iop'[o].cap.commit
      BY <2>2, <3>2
    <3>4. OnCanonical(d)'
      BY <1>5, <3>1, <3>3
    <3> QED BY <1>1, <3>3, <3>4
  <2> QED BY <1>1, <2>1, <2>2, <2>3, <2>4, <2>5 DEF IntegrateFits, Status
<1>14. mu.h = "historical" => HistoricalFits'
  BY <1>1, <1>5 DEF HolderFits, HistoricalFits, Status
<1>15. mu.h = "pre_execution" => PreExecutionFits'
  BY <1>1, <1>2 DEF HolderFits, PreExecutionFits, Status
<1> QED BY <1>1, <1>7, <1>8, <1>9, <1>10, <1>11, <1>12, <1>13, <1>14, <1>15 DEF HolderFits

-----------------------------------------------------------------------------
(* Dispatch, submission, review, rework, parking, refresh and reset.       *)

LEMMA StringsTyped ==
  /\ {"submission", "review", "rework", "block", "resume", "refresh", "reset_start", "reset"} = Kinds
  /\ "" \in Decisions /\ "accept" \in Decisions /\ "reject" \in Decisions
  /\ Statuses \subseteq Decisions /\ "" \in Notes /\ "reconcile" \in Notes
BY DEF Kinds, Decisions, Notes

LEMMA DispatchLaneKeeps ==
  ASSUME IInv, NEW t \in Tasks, NEW a \in Agents, DispatchLane(t, a) PROVE IInv'
<1>1. /\ lane' = [lane EXCEPT ![t] = NewLane(Canonical)]
      /\ mu' = [h |-> "dispatch", t |-> t, pc |-> "created", x |-> [agent |-> a, base |-> Canonical]]
      /\ UNCHANGED <<load, tables, canon, rlane, profile, iop, top, ver, spent>>
      /\ Slot(a, t) /\ (st[t] # None => st[t].status = "abandoned")
  BY DEF DispatchLane, Hold
<1>2. Canonical \in Nat /\ load.work \in Nat
  BY ShapeAssumption DEF Canonical, IInv, TypeOK
<1>3. NewLane(Canonical) \in LaneRecord /\ Fits(NewLane(Canonical).head, load.work)
  BY <1>2 DEF NewLane, Commit, LaneRecord, CommitRecord, Fits
<1>4. TypeOK' /\ Core'
  <2>1. mu'.t \in Tasks \cup {None}
    BY <1>1
  <2> QED BY <1>1, <1>3, <2>1, LaneChange DEF IInv
<1>5. DispatchFits'
  BY <1>1, <1>2 DEF DispatchFits, Status, Slot, Actionable, tables, Canonical
<1> QED BY <1>1, <1>4, <1>5 DEF IInv, HolderFits

LEMMA DispatchRecordKeeps == ASSUME IInv, DispatchRecord PROVE IInv'
<1> DEFINE t == mu.t
           s == [status |-> "dispatched", stage |-> "code", base |-> mu.x.base,
                 head |-> Commit(mu.x.base, 0), agent |-> mu.x.agent,
                 rev |-> IF st[t] = None THEN 1 ELSE st[t].rev + 1]
<1>1. /\ st' = [st EXCEPT ![t] = s] /\ mu' = Free
      /\ UNCHANGED <<load, ph, rcpt, authoring, contract, journal, git, profile, iop>>
      /\ DispatchFits
  BY DEF DispatchRecord, UpdateState, Release, IInv, HolderFits
<1>2. /\ t \in Tasks /\ mu.x.agent \in Agents /\ mu.x.base \in 0..Canonical
      /\ st[t] # None => st[t].status = "abandoned"
      /\ Slot(mu.x.agent, t)
  BY <1>1 DEF DispatchFits, Status
<1>3. load.work \in Nat /\ Canonical \in Nat
  BY ShapeAssumption DEF IInv, TypeOK, Canonical
<1>4. st[t] # None => st[t].rev \in Nat
  BY <1>2 DEF IInv, TypeOK, StateRecord
<1>5. /\ s \in StateRecord /\ (st[t] # None => s.rev = st[t].rev + 1)
      /\ s.base <= Canonical /\ Fits(s.head, load.work)
      /\ s.status = "dispatched" /\ s.agent = mu.x.agent
  BY <1>2, <1>3, <1>4, StatusNames DEF StateRecord, CommitRecord, Commit, Fits
<1> HIDE DEF s
<1>6. IntegrationPhases(t) = {}
  BY <1>2, NotIntegrated DEF IInv
<1>7. RowTo(t, s, {})
  BY <1>2, <1>5, <1>6 DEF RowTo, Records
<1>8. SameCaptures /\ iop' \in [Ops -> OpRecord] /\ HolderFits' /\ mu'.t \in Tasks \cup {None}
  BY <1>1, OpsKept, Released DEF IInv
<1>9. /\ authoring' \in [Tasks -> {"planned", "done"}] /\ contract' \in [Tasks -> {None} \cup CompletionRecord]
      /\ UNCHANGED <<load, rcpt, canon, lane, journal, profile>> /\ ph' = ph
  BY <1>1 DEF IInv, TypeOK, git
<1>10. TypeOK' /\ Core'
  BY <1>1, <1>2, <1>7, <1>8, <1>9, StateWrite DEF IInv
<1> QED BY <1>8, <1>10 DEF IInv

LEMMA DispatchUndoKeeps == ASSUME IInv, DispatchUndo PROVE IInv'
<1> DEFINE t == mu.t
           l == IF lane[t] = NewLane(mu.x.base) THEN None ELSE lane[t]
<1>1. /\ lane' = [lane EXCEPT ![t] = l] /\ mu' = Free
      /\ UNCHANGED <<load, tables, canon, profile, iop>>
      /\ t \in Tasks
  BY DEF DispatchUndo, Release, IInv, HolderFits, DispatchFits
<1>2. l \in {None} \cup LaneRecord /\ (l # None => Fits(l.head, load.work))
  BY <1>1 DEF IInv, TypeOK, Core, LanesFit
<1>3. HolderFits' /\ mu'.t \in Tasks \cup {None}
  BY <1>1, Released
<1> HIDE DEF l
<1>4. TypeOK' /\ Core'
  BY <1>1, <1>2, <1>3, LaneChange DEF IInv
<1> QED BY <1>3, <1>4 DEF IInv

LEMMA SubmitKeeps ==
  ASSUME IInv, NEW t \in Tasks, SubmitPublish(t) PROVE IInv'
<1>1. /\ st[t] # None /\ st[t].status \in {"dispatched", "changes_requested"}
      /\ lane[t] # None
      /\ mu' = [h |-> "submit", t |-> t, pc |-> "published", x |-> lane[t].head]
      /\ UNCHANGED <<load, tables, canon, lane, profile, iop, top, ver, spent>>
  BY DEF SubmitPublish, Hold
<1>2. lane[t].head \in CommitRecord /\ Fits(lane[t].head, load.work)
  BY <1>1 DEF IInv, TypeOK, LaneRecord, Core, LanesFit
<1>3. TypeOK' /\ Core'
  <2>1. mu'.t \in Tasks \cup {None}
    BY <1>1
  <2> QED BY <1>1, <2>1, Idle DEF IInv
<1>4. SubmitFits'
  BY <1>1, <1>2 DEF SubmitFits, Status, tables, Fits, Canonical
<1> QED BY <1>1, <1>3, <1>4 DEF IInv, HolderFits, tables

LEMMA SubmitRecordKeeps == ASSUME IInv, SubmitRecord PROVE IInv'
<1> DEFINE t == mu.t
           s == [Step(t, "awaiting_review") EXCEPT !.head = mu.x]
<1>1. /\ TransitionWith(t, s, Phase(s, "submission", "", "")) /\ mu' = Free
      /\ UNCHANGED <<load, rcpt, authoring, contract, journal, git, profile, iop>>
      /\ t \in Tasks /\ st[t] # None
      /\ st[t].status \in {"dispatched", "changes_requested"}
      /\ mu.x \in CommitRecord /\ Fits(mu.x, load.work)
  BY DEF SubmitRecord, Transition, Release, IInv, HolderFits, SubmitFits, Status
<1>2. s = [status |-> "awaiting_review", stage |-> st[t].stage, base |-> st[t].base,
           head |-> mu.x, agent |-> st[t].agent, rev |-> st[t].rev + 1]
      /\ st[t] \in StateRecord /\ st[t].base <= Canonical
  <2>1. Step(t, "awaiting_review")
          = [status |-> "awaiting_review", stage |-> st[t].stage, base |-> st[t].base,
             head |-> st[t].head, agent |-> st[t].agent, rev |-> st[t].rev + 1]
        /\ st[t] \in StateRecord /\ st[t].base <= Canonical
    BY <1>1, Stepped, StatusNames DEF IInv
  <2> QED BY <2>1
<1>3. /\ s \in StateRecord /\ s.rev = st[t].rev + 1
      /\ s.base <= Canonical /\ Fits(s.head, load.work) /\ s.status = "awaiting_review"
  <2>1. mu.x \in CommitRecord /\ Fits(mu.x, load.work)
    BY <1>1
  <2> HIDE DEF s
  <2> QED BY <1>2, <2>1, StatusNames DEF StateRecord
<1> HIDE DEF s
<1>4. HolderFits' /\ mu'.t \in Tasks \cup {None}
  BY <1>1, Released
<1>5. TypeOK' /\ Core'
  BY <1>1, <1>3, <1>4, Transitioned, StringsTyped DEF IInv, Actionable, Open
<1> QED BY <1>4, <1>5 DEF IInv

\* A call that needs no step in between.
LEMMA CallKeeps ==
  ASSUME IInv, mu = Free, mu' = mu, NEW t, Open(t), NEW status \in Statuses,
         NEW kind \in Kinds, NEW dec \in Decisions,
         kind = "block" => dec \in Parkable, status # "resetting",
         Actionable(Step(t, status)) => Slot(st[t].agent, t) \/ Actionable(st[t]),
         Transition(t, Step(t, status), kind, dec),
         UNCHANGED <<load, rcpt, authoring, contract, journal, git, profile, iop>>
  PROVE  IInv'
<1>1. HolderFits' /\ mu'.t \in Tasks \cup {None}
  BY StillFree
<1>2. TypeOK' /\ Core'
  BY <1>1, StatusTransitioned DEF IInv
<1> QED BY <1>1, <1>2 DEF IInv

LEMMA ReviewKeeps ==
  ASSUME IInv, NEW t \in Tasks, NEW dec, dec = "accept" \/ dec = "reject", TaskExecutionReviewDecide(t, dec)
  PROVE  IInv'
<1> DEFINE status == IF dec = "accept" THEN "ready_for_verification" ELSE "changes_requested"
<1>1. /\ mu = Free /\ mu' = mu /\ Open(t)
      /\ dec = "reject" => Slot(st[t].agent, t)
      /\ Transition(t, Step(t, status), "review", dec)
      /\ UNCHANGED <<load, rcpt, authoring, contract, journal, git, profile, iop>>
  BY DEF TaskExecutionReviewDecide, Open
<1>2. status \in Statuses /\ status # "resetting" /\ (dec = "accept" => ~Actionable(Step(t, status)))
  BY <1>1, Stepped, StatusNames DEF Actionable, IInv, Open
<1>3. dec \in Decisions /\ "review" \in Kinds
  BY StringsTyped
<1> HIDE DEF status
<1> QED BY <1>1, <1>2, <1>3, CallKeeps

LEMMA ReworkKeeps ==
  ASSUME IInv, NEW t \in Tasks, NEW stage \in Stages, TaskExecutionRework(t, stage) PROVE IInv'
<1> DEFINE s == [Step(t, "changes_requested") EXCEPT !.stage = stage]
<1>1. /\ mu = Free /\ mu' = mu /\ Open(t) /\ st[t] # None
      /\ Slot(st[t].agent, t)
      /\ TransitionWith(t, s, Phase(s, "rework", "", ""))
      /\ UNCHANGED <<load, rcpt, authoring, contract, journal, git, profile, iop>>
  BY DEF TaskExecutionRework, Open, Transition, Reworkable
<1>2. s = [status |-> "changes_requested", stage |-> stage, base |-> st[t].base,
           head |-> st[t].head, agent |-> st[t].agent, rev |-> st[t].rev + 1]
      /\ st[t] \in StateRecord /\ st[t].base <= Canonical /\ Fits(st[t].head, load.work)
  <2>1. Step(t, "changes_requested")
          = [status |-> "changes_requested", stage |-> st[t].stage, base |-> st[t].base,
             head |-> st[t].head, agent |-> st[t].agent, rev |-> st[t].rev + 1]
        /\ st[t] \in StateRecord /\ st[t].base <= Canonical /\ Fits(st[t].head, load.work)
    BY <1>1, Stepped, StatusNames DEF IInv
  <2> QED BY <2>1
<1>3. /\ s \in StateRecord /\ s.rev = st[t].rev + 1 /\ s.agent = st[t].agent
      /\ s.base <= Canonical /\ Fits(s.head, load.work) /\ s.status = "changes_requested"
  <2> HIDE DEF s
  <2> QED BY <1>2, StatusNames DEF StateRecord
<1> HIDE DEF s
<1>4. HolderFits' /\ mu'.t \in Tasks \cup {None}
  BY <1>1, StillFree
<1>5. TypeOK' /\ Core'
  BY <1>1, <1>3, <1>4, Transitioned, StringsTyped DEF IInv
<1> QED BY <1>4, <1>5 DEF IInv

LEMMA BlockKeeps == ASSUME IInv, NEW t \in Tasks, TaskExecutionBlock(t) PROVE IInv'
<1>1. /\ mu = Free /\ mu' = mu /\ Open(t) /\ Actionable(st[t])
      /\ Transition(t, Step(t, "blocked"), "block", st[t].status)
      /\ UNCHANGED <<load, rcpt, authoring, contract, journal, git, profile, iop>>
  BY DEF TaskExecutionBlock, Open, Actionable
<1>2. st[t].status \in Statuses /\ "blocked" \in Statuses /\ st[t].status \in Parkable
  BY <1>1, StatusNames DEF IInv, TypeOK, StateRecord, Open, Actionable, Parkable
<1>3. st[t].status \in Decisions /\ "block" \in Kinds
  BY <1>2, StringsTyped
<1> QED BY <1>1, <1>2, <1>3, CallKeeps

LEMMA ResumeKeeps == ASSUME IInv, NEW t \in Tasks, TaskExecutionResume(t) PROVE IInv'
<1> DEFINE p == LatestKind(t, {"block", "resume"})
<1>1. /\ mu = Free /\ mu' = mu /\ Open(t)
      /\ p # None /\ p.kind = "block" /\ Slot(st[t].agent, t)
      /\ Transition(t, Step(t, p.dec), "resume", p.dec)
      /\ UNCHANGED <<load, rcpt, authoring, contract, journal, git, profile, iop>>
  BY DEF TaskExecutionResume, Open
<1>2. p \in Evidence(t)
  BY <1>1, LatestKindIn DEF IInv
<1>3. p.dec \in Statuses /\ p.dec # "resetting"
  BY <1>1, <1>2, StatusNames DEF IInv, Core, BlocksFit, Parkable
<1> DEFINE dec == p.dec
<1>4. dec \in Decisions /\ "resume" \in Kinds
  BY <1>3, StringsTyped
<1> QED BY <1>1, <1>3, <1>4, CallKeeps

LEMMA RefreshLaneKeeps == ASSUME IInv, NEW t \in Tasks, RefreshLane(t) PROVE IInv'
<1> DEFINE l == [lane[t] EXCEPT !.head = Commit(Canonical, 0)]
<1>1. /\ mu' = [h |-> "refresh", t |-> t, pc |-> "moved", x |-> Canonical]
      /\ lane[t] # None /\ st[t] # None
      /\ st[t].status \in {"dispatched", "in_progress", "blocked"}
      /\ UNCHANGED <<load, tables, canon, rlane, profile, iop, top, ver, spent>>
      /\ lane' = [lane EXCEPT ![t].head = Commit(Canonical, 0)]
  BY DEF RefreshLane, Hold, Refreshable
<1>2. Canonical \in Nat /\ load.work \in Nat /\ lane[t] \in LaneRecord
  BY <1>1, ShapeAssumption DEF Canonical, IInv, TypeOK
<1>3. l \in LaneRecord /\ l.head = Commit(Canonical, 0)
  BY <1>2 DEF LaneRecord, CommitRecord, Commit
<1>4. Fits(Commit(Canonical, 0), load.work)
  BY <1>2 DEF Fits, Commit
<1>5. lane' = [lane EXCEPT ![t] = l]
  BY <1>1
<1> HIDE DEF l
<1>6. TypeOK' /\ Core'
  <2>1. mu'.t \in Tasks \cup {None}
    BY <1>1
  <2> QED BY <1>1, <1>3, <1>4, <1>5, <2>1, LaneChange DEF IInv
<1>7. RefreshFits'
  BY <1>1, <1>2 DEF RefreshFits, Status, tables, Canonical
<1> QED BY <1>1, <1>6, <1>7 DEF IInv, HolderFits, tables

LEMMA RefreshRecordKeeps == ASSUME IInv, RefreshRecord PROVE IInv'
<1> DEFINE t == mu.t
           r == Step(t, st[t].status)
           s == [r EXCEPT !.base = mu.x, !.head = Commit(mu.x, 0)]
<1>1. /\ TransitionWith(t, s, Phase(s, "refresh", "", "")) /\ mu' = Free
      /\ UNCHANGED <<load, rcpt, authoring, contract, journal, git, profile, iop>>
      /\ t \in Tasks /\ st[t] # None
      /\ st[t].status \in {"dispatched", "in_progress", "blocked"}
      /\ mu.x \in 0..Canonical
  BY DEF RefreshRecord, Transition, Release, IInv, HolderFits, RefreshFits, Status
<1>2. /\ r = [status |-> st[t].status, stage |-> st[t].stage, base |-> st[t].base,
              head |-> st[t].head, agent |-> st[t].agent, rev |-> st[t].rev + 1]
      /\ st[t] \in StateRecord
  BY <1>1, Stepped, StatusNames DEF IInv
<1>3. s = [status |-> st[t].status, stage |-> st[t].stage, base |-> mu.x,
           head |-> Commit(mu.x, 0), agent |-> st[t].agent, rev |-> st[t].rev + 1]
  <2> DEFINE q == [status |-> st[t].status, stage |-> st[t].stage, base |-> mu.x,
                   head |-> st[t].head, agent |-> st[t].agent, rev |-> st[t].rev + 1]
  <2>1. [r EXCEPT !.base = mu.x] = q
    BY <1>2
  <2>2. [q EXCEPT !.head = Commit(mu.x, 0)]
          = [status |-> st[t].status, stage |-> st[t].stage, base |-> mu.x,
             head |-> Commit(mu.x, 0), agent |-> st[t].agent, rev |-> st[t].rev + 1]
    OBVIOUS
  <2> QED BY <2>1, <2>2
<1>4. Canonical \in Nat /\ load.work \in Nat
  BY ShapeAssumption DEF Canonical, IInv, TypeOK
<1>0. mu.x \in Nat /\ mu.x <= Canonical
  <2>1. \A n, x : n \in Nat /\ x \in 0..n => x \in Nat /\ x <= n
    OBVIOUS
  <2> QED BY <1>1, <1>4, <2>1, Zenon
<1>5. Commit(mu.x, 0) \in CommitRecord /\ Fits(Commit(mu.x, 0), load.work) /\ mu.x \in Nat
  BY <1>0, <1>4 DEF Commit, CommitRecord, Fits
<1>6. /\ s \in StateRecord /\ s.rev = st[t].rev + 1 /\ s.agent = st[t].agent
      /\ s.base <= Canonical /\ Fits(s.head, load.work)
      /\ s.status = st[t].status /\ s.stage = st[t].stage
  <2>1. st[t].status \in Statuses /\ st[t].stage \in Stages /\ st[t].agent \in Agents
        /\ st[t].rev + 1 \in Nat \ {0}
    BY <1>2 DEF StateRecord
  <2> HIDE DEF s, r
  <2> QED BY <1>0, <1>3, <1>5, <2>1 DEF StateRecord
<1> HIDE DEF s, r
<1>7. HolderFits' /\ mu'.t \in Tasks \cup {None}
  BY <1>1, Released
<1>8. s.status # "resetting" /\ (Actionable(s) => Actionable(st[t])) /\ Open(t)
  BY <1>1, <1>6 DEF Actionable, Open
<1>9. TypeOK' /\ Core'
  BY <1>1, <1>6, <1>7, <1>8, Transitioned, StringsTyped DEF IInv
<1> QED BY <1>7, <1>9 DEF IInv

LEMMA ResetBeginKeeps == ASSUME IInv, NEW t \in Tasks, ResetBegin(t) PROVE IInv'
<1> DEFINE s == Step(t, "resetting")
<1>1. /\ mu' = [h |-> "reset", t |-> t, pc |-> "begun", x |-> None] /\ Open(t)
      /\ Transition(t, s, "reset_start", st[t].status)
      /\ UNCHANGED <<load, rcpt, authoring, contract, journal, git, profile, iop>>
  BY DEF ResetBegin, Hold, Open
<1>2. /\ st[t].status \in Decisions /\ "resetting" \in Statuses /\ "reset_start" \in Kinds
      /\ ~Actionable(s) /\ s # None /\ s.status = "resetting"
  <2>1. st[t].status \in Statuses /\ st[t] # None
    BY <1>1 DEF Open, IInv, TypeOK, StateRecord
  <2>2. s.status = "resetting" /\ s \in StateRecord
    BY <2>1, Stepped, StatusNames DEF IInv
  <2> QED BY <2>1, <2>2, StringsTyped, StatusNames, ShapeAssumption DEF Actionable
<1>3. TypeOK' /\ Core'
  <2>1. mu'.t \in Tasks \cup {None}
    BY <1>1
  <2> DEFINE dec == st[t].status
  <2>2. dec \in Decisions
    BY <1>2
  <2> HIDE DEF dec
  <2>3. Transition(t, s, "reset_start", dec)
    BY <1>1 DEF dec
  <2> QED BY <1>1, <1>2, <2>1, <2>2, <2>3, StatusTransitioned DEF IInv
<1>4. st'[t] = s
  BY <1>1 DEF Transition, TransitionWith, UpdateState, IInv, TypeOK
<1>5. ResetFits'
  BY <1>1, <1>2, <1>4 DEF ResetFits, Status
<1> QED BY <1>1, <1>2, <1>3, <1>4, <1>5 DEF IInv, HolderFits

LEMMA ResetResumeKeeps == ASSUME IInv, NEW t \in Tasks, ResetResume(t) PROVE IInv'
<1>1. /\ mu' = [h |-> "reset", t |-> t, pc |-> "begun", x |-> None]
      /\ st[t] # None /\ st[t].status = "resetting"
      /\ UNCHANGED <<load, tables, git, profile, iop, top, ver, spent>>
  BY DEF ResetResume, Hold
<1>2. TypeOK' /\ Core'
  <2>1. mu'.t \in Tasks \cup {None}
    BY <1>1
  <2> QED BY <1>1, <2>1, Idle DEF IInv, git
<1>3. ResetFits'
  BY <1>1 DEF ResetFits, Status, tables
<1> QED BY <1>1, <1>2, <1>3 DEF IInv, HolderFits, tables

LEMMA ResetRemoveKeeps == ASSUME IInv, ResetRemove PROVE IInv'
<1>1. /\ lane' = [lane EXCEPT ![mu.t] = None]
      /\ mu' = [h |-> "reset", t |-> mu.t, pc |-> "removed", x |-> None]
      /\ UNCHANGED <<load, tables, canon, rlane, profile, iop, top, ver, spent>>
      /\ mu.t \in Tasks /\ st[mu.t] # None /\ ResetFits
  BY DEF ResetRemove, Hold, IInv, HolderFits
<1>2. TypeOK' /\ Core'
  <2>1. mu'.t \in Tasks \cup {None}
    BY <1>1
  <2> DEFINE l == None
  <2>2. l \in {None} \cup LaneRecord /\ l = None
    OBVIOUS
  <2> QED BY <1>1, <2>1, <2>2, LaneChange DEF IInv
<1>3. ResetFits'
  BY <1>1 DEF ResetFits, Status, tables
<1> QED BY <1>1, <1>2, <1>3 DEF IInv, HolderFits, tables

LEMMA ResetFinishKeeps == ASSUME IInv, ResetFinish PROVE IInv'
<1> DEFINE t == mu.t
           p == LatestKind(t, {"reset_start"})
<1>1. /\ mu' = Free /\ Open(t)
      /\ Transition(t, Step(t, "abandoned"), "reset", p.dec)
      /\ UNCHANGED <<load, rcpt, authoring, contract, journal, git, profile, iop>>
      /\ st[t].status = "resetting"
  BY DEF ResetFinish, Release, Open, IInv, HolderFits, ResetFits, Status
<1>2. t \in Tasks /\ \E q \in Evidence(t) : q.kind = "reset_start"
  BY <1>1 DEF IInv, Core, RowsFit, Open
<1>3. p \in Evidence(t) /\ p.kind \in {"reset_start"}
  <2>1. \E q \in Evidence(t) : q.kind \in {"reset_start"}
    BY <1>2
  <2> QED BY <1>2, <2>1, LatestKindIn DEF IInv
<1>4. p.dec \in Decisions
  BY <1>2, <1>3, EvidenceTyped DEF IInv, PhaseRecord, Decisions
<1>5. "abandoned" \in Statuses /\ ~Actionable(Step(t, "abandoned")) /\ "reset" \in Kinds
  <2>1. Step(t, "abandoned").status = "abandoned"
    BY <1>1, <1>2, Stepped, StatusNames DEF IInv, Open
  <2> QED BY <2>1, StatusNames, StringsTyped DEF Actionable
<1>6. HolderFits' /\ mu'.t \in Tasks \cup {None}
  BY <1>1, Released
<1>7. TypeOK' /\ Core'
  <2> DEFINE dec == p.dec
  <2>1. dec \in Decisions /\ Transition(t, Step(t, "abandoned"), "reset", dec)
    BY <1>1, <1>4
  <2> HIDE DEF dec
  <2> QED BY <1>1, <1>5, <1>6, <2>1, StatusTransitioned DEF IInv
<1> QED BY <1>6, <1>7 DEF IInv

LEMMA ResetRefuseKeeps == ASSUME IInv, ResetRefuse PROVE IInv'
<1>1. HolderFits' /\ mu'.t \in Tasks \cup {None}
  BY Released DEF ResetRefuse, Release
<1>2. TypeOK' /\ Core'
  BY <1>1, Idle DEF IInv, git, ResetRefuse
<1> QED BY <1>1, <1>2 DEF IInv

-----------------------------------------------------------------------------
(* Verification and the controlled rebase.                                 *)

LEMMA TestAdmitKeeps ==
  ASSUME IInv, NEW t \in Tasks, TestAdmit(t) \/ TestFail(t) PROVE IInv'
<1>1. mu' = mu /\ UNCHANGED <<load, tables, git, profile, iop>>
  BY DEF TestAdmit, TestFail
<1>2. TypeOK' /\ Core'
  <2>1. mu'.t \in Tasks \cup {None}
    BY <1>1 DEF IInv, TypeOK
  <2> QED BY <1>1, <2>1, Idle DEF IInv, git
<1>3. HolderFits'
  BY <1>1, HolderStays DEF IInv, Aside, git, tables, SameCaptures
<1> QED BY <1>2, <1>3 DEF IInv

\* A Testable candidate was reviewed.
LEMMA TestableFacts ==
  ASSUME IInv, NEW t \in Tasks, Admissible(t)
  PROVE  /\ st[t] # None /\ lane[t] # None
         /\ HasReview(t, st[t].head, st[t].rev)
<1>1. st[t] # None /\ Reviewed(t) /\ lane[t] = [head |-> st[t].head, mid |-> FALSE]
  BY DEF Admissible
<1>2. lane[t] # None
  <2>1. [head |-> st[t].head, mid |-> FALSE] \in LaneRecord
    BY <1>1 DEF IInv, TypeOK, StateRecord, LaneRecord
  <2> QED BY <1>1, <2>1, ShapeAssumption
<1> DEFINE p == LatestAccepted(t, st[t].stage)
<1>3. p # None /\ p.head = st[t].head
  BY <1>1 DEF Reviewed
<1>4. p \in Evidence(t) /\ Accepts(p, st[t].stage)
  BY <1>3, LatestAcceptedIn DEF IInv
<1>5. p.rev <= st[t].rev
  BY <1>4 DEF IInv, TypeOK
<1> QED BY <1>1, <1>2, <1>3, <1>4, <1>5 DEF HasReview, Accepts

LEMMA ReconcileTaken ==
  ASSUME IInv, NEW t \in Tasks, Testable(t),
         mu' = [h |-> "reconcile", t |-> t, pc |-> "lane", x |-> Canonical],
         UNCHANGED <<load, tables, git, profile, iop>>
  PROVE  IInv'
<1>1. st[t] # None /\ lane[t] # None
      /\ st[t].status \in {"ready_for_verification", "verifying", "verified"}
  BY TestableFacts DEF Testable
<1>2. TypeOK' /\ Core'
  <2>1. mu'.t \in Tasks \cup {None}
    OBVIOUS
  <2> QED BY <2>1, Idle DEF IInv, git
<1>3. Canonical \in 0..Canonical
  BY DEF Canonical, IInv, TypeOK
<1>4. ReconcileFits'
  BY <1>1, <1>3 DEF ReconcileFits, Status, tables, git, Canonical
<1> QED BY <1>1, <1>2, <1>4 DEF IInv, HolderFits, tables

LEMMA TestRunKeeps == ASSUME IInv, NEW t \in Tasks, TestRun(t) PROVE IInv'
<1>1. UNCHANGED <<load, tables, git, profile, iop>> /\ mu = Free
  BY DEF TestRun
<1>2. CASE Testable(t) /\ mu' = [h |-> "reconcile", t |-> t, pc |-> "lane", x |-> Canonical]
  BY <1>1, <1>2, ReconcileTaken
<1>3. CASE mu' = mu
  <2>1. HolderFits' /\ mu'.t \in Tasks \cup {None}
    BY <1>1, <1>3, StillFree
  <2>2. TypeOK' /\ Core'
    BY <1>1, <2>1, Idle DEF IInv, git
  <2> QED BY <2>1, <2>2 DEF IInv
<1>4. \/ mu' = mu
      \/ Testable(t) /\ mu' = [h |-> "reconcile", t |-> t, pc |-> "lane", x |-> Canonical]
  BY DEF TestRun, Hold, NeedsRebase
<1> QED BY <1>2, <1>3, <1>4

LEMMA TestFinishKeeps == ASSUME IInv, NEW t \in Tasks, TestFinish(t) PROVE IInv'
<1> DEFINE seen == ver[t]
<1>1. /\ UNCHANGED <<load, ph, rcpt, authoring, contract, journal, git, profile, iop>>
      /\ mu = Free
  BY DEF TestFinish
<1>2. CASE Testable(t) /\ mu' = [h |-> "reconcile", t |-> t, pc |-> "lane", x |-> Canonical] /\ st' = st
  BY <1>1, <1>2, ReconcileTaken DEF tables
<1>3. CASE mu' = mu /\ st' = st
  <2>1. HolderFits' /\ mu'.t \in Tasks \cup {None}
    BY <1>1, <1>3, StillFree
  <2>2. TypeOK' /\ Core'
    BY <1>1, <1>3, <2>1, Idle DEF IInv, git, tables
  <2> QED BY <2>1, <2>2 DEF IInv
<1>4. ASSUME Testable(t), seen.id = TestIdentity(t),
             mu' = [h |-> "verify", t |-> t, pc |-> "record", x |-> seen.id],
             IF st[t].status = "ready_for_verification"
             THEN UpdateState(t, Step(t, "verifying")) ELSE UNCHANGED st
      PROVE  IInv'
  <2>1. st[t] # None /\ HasReview(t, st[t].head, st[t].rev)
        /\ st[t].status \in {"ready_for_verification", "verifying", "verified"}
    BY <1>4, TestableFacts DEF Testable
  <2>2. mu'.x.profile \in Nat /\ mu'.t \in Tasks \cup {None}
    BY <1>4 DEF TestIdentity, IInv, TypeOK
  <2>3. CASE st[t].status # "ready_for_verification"
    <3>1. st' = st
      BY <1>4, <2>3
    <3>2. TypeOK' /\ Core'
      BY <1>1, <2>2, <3>1, Idle DEF IInv, git, tables
    <3>3. VerifyFits'
      BY <1>1, <1>4, <2>1, <2>2, <2>3, <3>1 DEF VerifyFits, Status, HasReview, Evidence
    <3> QED BY <1>4, <2>1, <3>1, <3>2, <3>3 DEF IInv, HolderFits
  <2>4. CASE st[t].status = "ready_for_verification"
    <3> DEFINE s == Step(t, "verifying")
    <3>1. st' = [st EXCEPT ![t] = s]
      BY <1>4, <2>4 DEF UpdateState
    <3>2. /\ s = [status |-> "verifying", stage |-> st[t].stage, base |-> st[t].base,
                  head |-> st[t].head, agent |-> st[t].agent, rev |-> st[t].rev + 1]
          /\ s \in StateRecord /\ st[t] \in StateRecord /\ st[t].base <= Canonical
          /\ Fits(st[t].head, load.work)
      BY <2>1, Stepped, StatusNames DEF IInv
    <3>3. /\ s.rev = st[t].rev + 1 /\ s.base <= Canonical /\ Fits(s.head, load.work)
          /\ s.status = "verifying" /\ s.head = st[t].head /\ ~Actionable(s)
          /\ s # None
      <4> HIDE DEF s
      <4> QED BY <3>2, ShapeAssumption DEF Actionable
    <3> HIDE DEF s
    <3>4. IntegrationPhases(t) = {}
      BY <2>4, NotIntegrated DEF IInv
    <3>5. RowTo(t, s, {})
      BY <2>4, <3>2, <3>3, <3>4 DEF RowTo, Records
    <3>6. SameCaptures /\ iop' \in [Ops -> OpRecord]
      BY <1>1, OpsKept DEF IInv
    <3>7. /\ authoring' \in [Tasks -> {"planned", "done"}]
          /\ contract' \in [Tasks -> {None} \cup CompletionRecord]
      BY <1>1 DEF IInv, TypeOK
    <3>8. TypeOK' /\ Core'
      BY <1>1, <2>2, <3>1, <3>5, <3>6, <3>7, StateWrite DEF IInv, git
    <3>9. st'[t] = s
      BY <3>1 DEF IInv, TypeOK
    <3>10. HasReview(t, st[t].head, st[t].rev)'
      <4>1. PICK p \in Evidence(t) : p.kind = "review" /\ p.dec = "accept" /\ p.head = st[t].head
                                     /\ p.rev <= st[t].rev
        BY <2>1 DEF HasReview
      <4>2. p.rev \in Nat /\ st[t].rev \in Nat
        BY <3>2, <4>1, EvidenceTyped DEF IInv, StateRecord, PhaseRecord
      <4>3. p \in Evidence(t)' /\ p.rev <= s.rev
        BY <1>1, <3>3, <4>1, <4>2 DEF Evidence
      <4> QED BY <3>1, <3>3, <3>9, <4>1, <4>3 DEF HasReview
    <3>11. VerifyFits'
      <4>1. mu'.t = t /\ mu'.x.profile \in Nat /\ st'[t].status = "verifying"
        BY <1>4, <2>2, <3>3, <3>9
      <4> QED BY <3>10, <4>1 DEF VerifyFits, Status
    <3> QED BY <1>4, <3>3, <3>8, <3>9, <3>11 DEF IInv, HolderFits
  <2> QED BY <2>3, <2>4
<1>5. \/ mu' = mu /\ st' = st
      \/ Testable(t) /\ mu' = [h |-> "reconcile", t |-> t, pc |-> "lane", x |-> Canonical] /\ st' = st
      \/ /\ Testable(t) /\ seen.id = TestIdentity(t)
         /\ mu' = [h |-> "verify", t |-> t, pc |-> "record", x |-> seen.id]
         /\ IF st[t].status = "ready_for_verification"
            THEN UpdateState(t, Step(t, "verifying")) ELSE UNCHANGED st
  BY DEF TestFinish, Hold
<1> QED BY <1>2, <1>3, <1>4, <1>5

LEMMA VerifyRecordKeeps == ASSUME IInv, VerifyRecord PROVE IInv'
<1> DEFINE t == mu.t
           s == Step(t, "verified")
<1>1. /\ st' = [st EXCEPT ![t] = s] /\ mu' = Free
      /\ UNCHANGED <<load, ph, authoring, contract, journal, git, profile, iop>>
      /\ rcpt' = [rcpt EXCEPT ![t] = Append(@, [base |-> st[t].base, head |-> st[t].head,
                                                profile |-> mu.x.profile, attempt |-> st[t].rev])]
      /\ t \in Tasks /\ st[t] # None /\ VerifyFits
  BY DEF VerifyRecord, UpdateState, Release, IInv, HolderFits
<1>2. /\ st[t].status \in {"verifying", "verified"} /\ mu.x.profile \in Nat
      /\ HasReview(t, st[t].head, st[t].rev)
  BY <1>1 DEF VerifyFits, Status
<1>3. Attempted(t)
  BY <1>1, <1>2 DEF Attempted
<1>4. /\ s = [status |-> "verified", stage |-> st[t].stage, base |-> st[t].base,
              head |-> st[t].head, agent |-> st[t].agent, rev |-> st[t].rev + 1]
      /\ s \in StateRecord /\ st[t] \in StateRecord /\ st[t].base <= Canonical
      /\ Fits(st[t].head, load.work)
  BY <1>1, Stepped, StatusNames DEF IInv
<1>5. /\ s.rev = st[t].rev + 1 /\ s.base <= Canonical /\ Fits(s.head, load.work)
      /\ s.status = "verified" /\ ~Actionable(s)
  <2> HIDE DEF s
  <2> QED BY <1>4 DEF Actionable
<1> HIDE DEF s
<1>6. IntegrationPhases(t) = {}
  BY <1>1, <1>2, NotIntegrated DEF IInv
<1>7. RowTo(t, s, {})
  BY <1>2, <1>4, <1>5, <1>6 DEF RowTo, Records
<1>8. SameCaptures /\ iop' \in [Ops -> OpRecord] /\ HolderFits' /\ mu'.t \in Tasks \cup {None}
  BY <1>1, OpsKept, Released DEF IInv
<1>9. /\ authoring' \in [Tasks -> {"planned", "done"}] /\ contract' \in [Tasks -> {None} \cup CompletionRecord]
      /\ UNCHANGED <<load, canon, lane, journal, profile>> /\ ph' = ph
  BY <1>1 DEF IInv, TypeOK, git
<1>10. TypeOK' /\ Core'
  BY <1>1, <1>3, <1>7, <1>8, <1>9, ReceiptWrite DEF IInv
<1> QED BY <1>8, <1>10 DEF IInv

LEMMA ReconcileLaneKeeps == ASSUME IInv, ReconcileLane PROVE IInv'
<1> DEFINE t == mu.t
<1>1. /\ UNCHANGED <<load, tables, canon, rlane, profile, iop, top, ver, spent>>
      /\ t \in Tasks /\ st[t] # None /\ ReconcileFits
  BY DEF ReconcileLane, IInv, HolderFits
<1>2. PICK ok \in BOOLEAN, mid \in BOOLEAN :
        /\ lane' = [lane EXCEPT ![t] =
             [head |-> IF ok THEN Commit(mu.x, lane[t].head.n) ELSE lane[t].head, mid |-> mid]]
        /\ mu' = [h |-> "reconcile", t |-> t, pc |-> IF ok THEN "moved" ELSE "failed",
                  x |-> Commit(mu.x, lane[t].head.n)]
  BY DEF ReconcileLane, Hold
<1> DEFINE l == [head |-> IF ok THEN Commit(mu.x, lane[t].head.n) ELSE lane[t].head, mid |-> mid]
<1>3. mu.x \in 0..Canonical /\ lane[t] # None
  BY <1>1 DEF ReconcileFits, ReconcileLane
<1>4. /\ lane[t] \in LaneRecord /\ Fits(lane[t].head, load.work)
      /\ Canonical \in Nat
  BY <1>1, <1>3 DEF IInv, TypeOK, Core, LanesFit, Canonical
<1>5. mu.x \in Nat /\ mu.x <= Canonical
  <2>1. \A n, x : n \in Nat /\ x \in 0..n => x \in Nat /\ x <= n
    OBVIOUS
  <2> QED BY <1>3, <1>4, <2>1, Zenon
<1>6. Commit(mu.x, lane[t].head.n) \in CommitRecord /\ Fits(Commit(mu.x, lane[t].head.n), load.work)
  BY <1>4, <1>5 DEF Commit, CommitRecord, LaneRecord, Fits
<1>7. l \in LaneRecord /\ l # None /\ Fits(l.head, load.work)
  <2>1. l \in LaneRecord /\ Fits(l.head, load.work)
    BY <1>4, <1>6 DEF LaneRecord
  <2> QED BY <2>1, ShapeAssumption
<1>8. lane' = [lane EXCEPT ![t] = l]
  BY <1>2
<1> HIDE DEF l
<1>9. TypeOK' /\ Core'
  <2>1. mu'.t \in Tasks \cup {None}
    BY <1>1, <1>2
  <2> QED BY <1>1, <1>7, <1>8, <2>1, LaneChange DEF IInv
<1>10. lane'[t] # None
  BY <1>1, <1>7, <1>8 DEF IInv, TypeOK
<1>11. ReconcileFits'
  BY <1>1, <1>2, <1>6, <1>10 DEF ReconcileFits, Status, tables, Fits, Canonical
<1> QED BY <1>1, <1>2, <1>9, <1>11 DEF IInv, HolderFits, tables

LEMMA ReconcileRecordKeeps == ASSUME IInv, ReconcileRecord PROVE IInv'
<1> DEFINE t == mu.t
           r == Step(t, "changes_requested")
           c == IF mu.pc = "moved" THEN mu.x ELSE st[t].head
           s == [status |-> "changes_requested", stage |-> "rebase", base |-> mu.x.base,
                 head |-> c, agent |-> st[t].agent, rev |-> st[t].rev + 1]
<1>1. /\ mu' = Free /\ UNCHANGED <<load, rcpt, authoring, contract, journal, git, profile, iop>>
      /\ t \in Tasks /\ st[t] # None /\ ReconcileFits
  BY DEF ReconcileRecord, Release, IInv, HolderFits
<1>2. /\ r = [status |-> "changes_requested", stage |-> st[t].stage, base |-> st[t].base,
              head |-> st[t].head, agent |-> st[t].agent, rev |-> st[t].rev + 1]
      /\ st[t] \in StateRecord /\ Fits(st[t].head, load.work)
  BY <1>1, Stepped, StatusNames DEF IInv
<1>3. [r EXCEPT !.base = mu.x.base, !.stage = "rebase",
                !.head = IF mu.pc = "moved" THEN mu.x ELSE @] = s
  <2> DEFINE q1 == [status |-> "changes_requested", stage |-> st[t].stage, base |-> mu.x.base,
                    head |-> st[t].head, agent |-> st[t].agent, rev |-> st[t].rev + 1]
             q2 == [status |-> "changes_requested", stage |-> "rebase", base |-> mu.x.base,
                    head |-> st[t].head, agent |-> st[t].agent, rev |-> st[t].rev + 1]
  <2>1. [r EXCEPT !.base = mu.x.base] = q1
    BY <1>2
  <2>2. [q1 EXCEPT !.stage = "rebase"] = q2
    OBVIOUS
  <2>3. [q2 EXCEPT !.head = IF mu.pc = "moved" THEN mu.x ELSE @] = s
    OBVIOUS
  <2> QED BY <2>1, <2>2, <2>3
<1>4. TransitionWith(t, s, Phase(s, "rework", "", "reconcile"))
  <2> HIDE DEF s
  <2> QED BY <1>3 DEF ReconcileRecord
<1>5. /\ mu.x \in CommitRecord /\ Fits(mu.x, load.work)
      /\ st[t].status \in {"ready_for_verification", "verifying", "verified"}
  BY <1>1 DEF ReconcileFits, ReconcileRecord, Status
<1>6. mu.x.base \in Nat /\ mu.x.base <= Canonical
  BY <1>5 DEF CommitRecord, Fits
<1>7. c \in CommitRecord /\ Fits(c, load.work)
  BY <1>2, <1>5 DEF StateRecord
<1> HIDE DEF c
<1>8. /\ s \in StateRecord /\ s.rev = st[t].rev + 1 /\ s.base <= Canonical /\ Fits(s.head, load.work)
      /\ s.status = "changes_requested"
  <2>1. st[t].agent \in Agents /\ st[t].rev + 1 \in Nat \ {0}
    BY <1>2 DEF StateRecord
  <2> QED BY <1>6, <1>7, <2>1, StatusNames DEF StateRecord
<1> HIDE DEF s
<1>9. HolderFits' /\ mu'.t \in Tasks \cup {None}
  BY <1>1, Released
<1>10. Open(t)
  BY <1>1, <1>5 DEF Open
<1>11. TypeOK' /\ Core'
  BY <1>1, <1>4, <1>8, <1>9, <1>10, Transitioned, StringsTyped DEF IInv
<1> QED BY <1>9, <1>11 DEF IInv

-----------------------------------------------------------------------------
(* Integration: the claim, the capture, the push and the record.           *)

LEMMA IntegrateRequestKeeps == ASSUME IInv, NEW o \in Ops, IntegrateRequest(o) PROVE IInv'
<1>1. /\ EndOp(o, "accepted") /\ UNCHANGED <<load, tables, git, profile, mu, top, ver>>
  BY DEF IntegrateRequest
<1>2. SameCaptures /\ iop' \in [Ops -> OpRecord]
  BY <1>1, OpEnded DEF IInv
<1>3. TypeOK' /\ Core'
  BY <1>1, <1>2, Quiet DEF IInv, TypeOK, tables, git
<1>4. \A p \in Ops : iop[p].status = "accepted" => iop'[p].status = "accepted"
  BY <1>1 DEF EndOp, IInv, TypeOK, OpRecord
<1>5. HolderFits'
  BY <1>1, <1>2, <1>4, HolderStays DEF IInv, Aside, git, tables
<1> QED BY <1>3, <1>5 DEF IInv

\* An Operation that ends hands the mutex back; the rows are not touched.
LEMMA EndKeeps ==
  ASSUME IInv, NEW o \in Ops, NEW status, status = "completed" \/ status = "failed",
         EndOp(o, status), mu' = Free \/ (mu = Free /\ mu' = mu),
         UNCHANGED <<load, tables, git, profile>>
  PROVE  IInv'
<1>1. SameCaptures /\ iop' \in [Ops -> OpRecord]
  BY OpEnded DEF IInv
<1>2. HolderFits' /\ mu'.t \in Tasks \cup {None}
  BY Released, StillFree
<1>3. TypeOK' /\ Core'
  BY <1>1, <1>2, Quiet DEF IInv, TypeOK, tables, git
<1> QED BY <1>2, <1>3 DEF IInv

\* What a Task's running Operation has not landed, no other one has.
LEMMA NothingOfOthers ==
  ASSUME IInv, NEW o \in Ops, NEW t, t = OpTask[o], iop[o].status # "idle",
         st[t] # None, st[t].status \notin {"integrated", "done"}
  PROVE  \A i \in DOMAIN canon : canon[i].rev > 0 /\ canon[i].task = t =>
           RequestedTwice(t) \/ (Landed(iop[o].cap) /\ iop[o].cap.commit = canon[i])
<1>1. t \in Tasks /\ IntegrationPhases(t) = {}
  BY OpTaskAssumption, NotIntegrated DEF IInv
<1> SUFFICES ASSUME NEW i \in DOMAIN canon, canon[i].rev > 0, canon[i].task = t, ~RequestedTwice(t)
             PROVE  Landed(iop[o].cap) /\ iop[o].cap.commit = canon[i]
  OBVIOUS
<1>2. PICK p \in Ops : OpTask[p] = t /\ iop[p].cap # None /\ iop[p].cap.commit = canon[i]
  BY <1>1 DEF IInv, Core, LandingRecoverable
<1>3. iop[p].status # "idle"
  BY <1>2 DEF IInv, Core, CapturesFit
<1>4. p = o
  BY <1>2, <1>3 DEF RequestedTwice
<1>5. canon[i] \in LandingRecord /\ canon[i].base = i - 1 /\ i \in 1..Len(canon)
  BY DEF IInv, TypeOK, Core, BranchFits
<1>6. canon[i] # None
  BY <1>5, ShapeAssumption
<1>7. OnCanonical(canon[i])
  BY <1>5 DEF OnCanonical, Canonical
<1> QED BY <1>2, <1>4, <1>6, <1>7 DEF Landed, Recorded

LEMMA RejectKeeps ==
  ASSUME IInv, NEW o \in Ops, NEW t \in Tasks, st[t] # None,
         st[t].status \in {"verified", "integrating"}, NothingLanded(t), Reject(o, t),
         UNCHANGED <<load, ph, rcpt, authoring, contract, journal, git, profile>>
  PROVE  IInv'
<1>1. mu' = Free /\ EndOp(o, "failed")
  BY DEF Reject, Release
<1>2. CASE st[t].status # "integrating"
  <2>1. st' = st
    BY <1>2 DEF Reject
  <2> QED BY <1>1, <2>1, EndKeeps DEF tables
<1>3. CASE st[t].status = "integrating"
  <2> DEFINE s == Step(t, "verified")
  <2>1. st' = [st EXCEPT ![t] = s]
    BY <1>3 DEF Reject, UpdateState
  <2>2. /\ s = [status |-> "verified", stage |-> st[t].stage, base |-> st[t].base,
                head |-> st[t].head, agent |-> st[t].agent, rev |-> st[t].rev + 1]
        /\ s \in StateRecord /\ st[t] \in StateRecord /\ st[t].base <= Canonical
        /\ Fits(st[t].head, load.work)
    BY Stepped, StatusNames DEF IInv
  <2>3. /\ s.rev = st[t].rev + 1 /\ s.base <= Canonical /\ Fits(s.head, load.work)
        /\ s.status = "verified" /\ ~Actionable(s)
    <3> HIDE DEF s
    <3> QED BY <2>2 DEF Actionable
  <2> HIDE DEF s
  <2>4. IntegrationPhases(t) = {} /\ Settled(t, {})
    BY <1>3, NotIntegrated DEF IInv, NothingLanded, Settled
  <2>5. RowTo(t, s, {})
    BY <2>2, <2>3, <2>4 DEF RowTo, Records
  <2>6. SameCaptures /\ iop' \in [Ops -> OpRecord] /\ HolderFits' /\ mu'.t \in Tasks \cup {None}
    BY <1>1, OpEnded, Released DEF IInv
  <2>7. /\ authoring' \in [Tasks -> {"planned", "done"}]
        /\ contract' \in [Tasks -> {None} \cup CompletionRecord]
    BY DEF IInv, TypeOK
  <2>8. TypeOK' /\ Core'
    BY <2>1, <2>5, <2>6, <2>7, StateWrite DEF IInv, git
  <2> QED BY <2>6, <2>8 DEF IInv
<1> QED BY <1>2, <1>3

\* The mutex is taken, or kept, for an Operation; nothing else changes.
LEMMA HoldIntegrate ==
  ASSUME IInv, mu'.h = "integrate", mu'.t \in Tasks, st[mu'.t] # None, IntegrateFits',
         UNCHANGED <<load, tables, git, profile, iop>>
  PROVE  IInv'
<1>1. TypeOK' /\ Core'
  <2>1. mu'.t \in Tasks \cup {None}
    OBVIOUS
  <2> QED BY <2>1, Idle DEF IInv, git
<1> QED BY <1>1 DEF IInv, HolderFits, tables

\* A capture that binds the row is of the integration in progress.
LEMMA BoundCapture ==
  ASSUME IInv, NEW o \in Ops, NEW t, t = OpTask[o], Binds(iop[o].cap, t)
  PROVE  /\ st[t] # None /\ st[t].status = "integrating"
         /\ iop[o].cap \in CaptureRecord
         /\ iop[o].cap.commit # None =>
              /\ iop[o].cap.commit \in LandingRecord
              /\ iop[o].cap.commit = Landing(t, iop[o].cap.head, iop[o].cap.base, iop[o].cap.rev)
<1>1. iop[o].cap # None /\ iop[o].cap.rev = st[t].rev /\ iop[o] \in OpRecord
  BY DEF Binds, IInv, TypeOK
<1>2. iop[o].cap \in CaptureRecord
  BY <1>1 DEF OpRecord
<1>3. CaptureFits(o, t, iop[o].cap)
  BY <1>1 DEF IInv, Core, CapturesFit
<1> QED BY <1>1, <1>2, <1>3 DEF CaptureFits, CaptureRecord

\* The proof of a candidate is a receipt of it.
LEMMA LiveReceipt ==
  ASSUME IInv, NEW t \in Tasks, FreshProof(t) PROVE Receipted(t, st[t].base, st[t].head)
<1>1. /\ rcpt[t] # <<>> /\ Latest(rcpt[t]).base = st[t].base /\ Latest(rcpt[t]).head = st[t].head
  BY DEF FreshProof, ProofLive, ProofCurrent
<1>2. rcpt[t] \in Seq(ReceiptRecord)
  BY DEF IInv, TypeOK
<1>3. Len(rcpt[t]) \in DOMAIN rcpt[t] /\ Latest(rcpt[t]) = rcpt[t][Len(rcpt[t])]
  BY <1>1, <1>2 DEF Latest
<1> QED BY <1>1, <1>3 DEF Receipted

LEMMA ClaimKeeps ==
  ASSUME IInv, NEW o \in Ops, NEW t, t = OpTask[o], iop[o].status = "accepted",
         st[t] # None, st[t].status \in {"verified", "integrating"},
         ~Landed(iop[o].cap), FreshProof(t),
         IF st[t].status = "verified"
         THEN UpdateState(t, Step(t, "integrating")) ELSE UNCHANGED st,
         mu' = [h |-> "integrate", t |-> t, pc |-> "claimed", x |-> o],
         UNCHANGED <<load, ph, rcpt, authoring, contract, journal, git, profile, iop>>
  PROVE  IInv'
<1>1. t \in Tasks /\ NothingLanded(t)
  <2>1. t \in Tasks
    BY OpTaskAssumption
  <2> QED BY <2>1, NothingOfOthers DEF NothingLanded
<1>2. Receipted(t, st[t].base, st[t].head)
  BY <1>1, LiveReceipt
<1>3. NothingLanded(t)'
  BY <1>1 DEF NothingLanded, RequestedTwice, git
<1>4. mu'.t \in Tasks \cup {None}
  BY <1>1
<1>5. CASE st[t].status # "verified"
  <2>1. st' = st
    BY <1>5
  <2>2. TypeOK' /\ Core'
    BY <1>4, <2>1, Idle DEF IInv, git, tables
  <2>3. Receipted(t, st[t].base, st[t].head)'
    BY <1>2, <2>1 DEF Receipted
  <2>4. IntegrateFits'
    BY <1>3, <1>5, <2>1, <2>3 DEF IntegrateFits, Status, Prepared
  <2> QED BY <1>1, <2>1, <2>2, <2>4 DEF IInv, HolderFits
<1>6. CASE st[t].status = "verified"
  <2> DEFINE s == Step(t, "integrating")
  <2>1. st' = [st EXCEPT ![t] = s]
    BY <1>6 DEF UpdateState
  <2>2. /\ s = [status |-> "integrating", stage |-> st[t].stage, base |-> st[t].base,
                head |-> st[t].head, agent |-> st[t].agent, rev |-> st[t].rev + 1]
        /\ s \in StateRecord /\ st[t] \in StateRecord /\ st[t].base <= Canonical
        /\ Fits(st[t].head, load.work)
    BY <1>1, Stepped, StatusNames DEF IInv
  <2>3. /\ s.rev = st[t].rev + 1 /\ s.base <= Canonical /\ Fits(s.head, load.work)
        /\ s.status = "integrating" /\ ~Actionable(s) /\ s # None
        /\ s.base = st[t].base /\ s.head = st[t].head
    <3> HIDE DEF s
    <3> QED BY <2>2, ShapeAssumption DEF Actionable
  <2> HIDE DEF s
  <2>4. IntegrationPhases(t) = {}
    BY <1>1, <1>6, NotIntegrated DEF IInv
  <2>5. RowTo(t, s, {})
    BY <1>6, <2>2, <2>3, <2>4 DEF RowTo, Records
  <2>6. SameCaptures /\ iop' \in [Ops -> OpRecord]
    BY OpsKept DEF IInv
  <2>7. /\ authoring' \in [Tasks -> {"planned", "done"}]
        /\ contract' \in [Tasks -> {None} \cup CompletionRecord]
    BY DEF IInv, TypeOK
  <2>8. TypeOK' /\ Core'
    BY <1>1, <1>4, <2>1, <2>5, <2>6, <2>7, StateWrite DEF IInv, git
  <2>9. st'[t] = s
    BY <1>1, <2>1 DEF IInv, TypeOK
  <2>10. Receipted(t, st[t].base, st[t].head)'
    BY <1>2, <2>3, <2>9 DEF Receipted
  <2>11. IntegrateFits'
    BY <1>3, <2>3, <2>9, <2>10 DEF IntegrateFits, Status, Prepared
  <2> QED BY <1>1, <2>3, <2>8, <2>9, <2>11 DEF IInv, HolderFits
<1> QED BY <1>5, <1>6

LEMMA IntegrateStartKeeps == ASSUME IInv, NEW o \in Ops, IntegrateStart(o) PROVE IInv'
<1> DEFINE t == OpTask[o]
           cap == iop[o].cap
           open == st[t] # None /\ st[t].status \in {"verified", "integrating"}
<1>1. /\ mu = Free /\ iop[o].status = "accepted" /\ t \in Tasks
      /\ UNCHANGED <<load, ph, rcpt, authoring, contract, journal, git, profile>>
  BY OpTaskAssumption DEF IntegrateStart
<1>2. ASSUME NEW status, status = "completed" \/ status = "failed", EndOp(o, status), st' = st, mu' = mu
      PROVE  IInv'
  BY <1>1, <1>2, EndKeeps DEF tables
<1>3. ASSUME Landed(cap), Binds(cap, t), mu' = [h |-> "integrate", t |-> t, pc |-> "landed", x |-> o],
             st' = st, iop' = iop
      PROVE  IInv'
  <2>1. IntegrateFits'
    <3>1. cap.commit # None /\ OnCanonical(cap.commit)
      BY <1>3 DEF Landed, Recorded
    <3>2. st[t].status = "integrating"
      BY <1>3, BoundCapture
    <3>3. Binds(iop[o].cap, t)'
      BY <1>3 DEF Binds
    <3>4. OnCanonical(iop[o].cap.commit)'
      BY <1>1, <1>3, <3>1 DEF OnCanonical, Canonical, git
    <3> QED BY <1>1, <1>3, <3>1, <3>2, <3>3, <3>4 DEF IntegrateFits, Status, Prepared
  <2> QED BY <1>1, <1>3, <2>1, BoundCapture, HoldIntegrate DEF tables
<1>4. ASSUME Binds(cap, t), ~Landed(cap), st' = st, iop' = iop,
             mu' = [h |-> "integrate", t |-> t, pc |-> IF Recorded(cap) THEN "prepared" ELSE "captured",
                    x |-> o]
      PROVE  IInv'
  <2>1. IntegrateFits'
    <3>1. st[t].status = "integrating" /\ cap # None
      BY <1>4, BoundCapture DEF Binds
    <3>2. Binds(iop[o].cap, t)'
      BY <1>4 DEF Binds
    <3>3. mu'.pc \in {"prepared", "captured"} /\ (mu'.pc = "prepared" <=> cap.commit # None)
      BY <1>4, <3>1 DEF Recorded
    <3> QED BY <1>1, <1>4, <3>1, <3>2, <3>3 DEF IntegrateFits, Status, Prepared
  <2> QED BY <1>1, <1>4, <2>1, BoundCapture, HoldIntegrate DEF tables
<1>5. ASSUME open, ~Landed(cap), FreshProof(t), iop' = iop,
             IF st[t].status = "verified"
             THEN UpdateState(t, Step(t, "integrating")) ELSE UNCHANGED st,
             mu' = [h |-> "integrate", t |-> t, pc |-> "claimed", x |-> o]
      PROVE  IInv'
  BY <1>1, <1>5, ClaimKeeps
<1>6. ASSUME open, ~Landed(cap), Reject(o, t) PROVE IInv'
  <2>1. NothingLanded(t)
    BY <1>1, <1>6, NothingOfOthers DEF NothingLanded
  <2> QED BY <1>1, <1>6, <2>1, RejectKeeps
<1>7. \/ \E status : /\ status = "completed" \/ status = "failed"
                     /\ EndOp(o, status) /\ st' = st /\ mu' = mu
      \/ /\ Landed(cap) /\ Binds(cap, t) /\ st' = st /\ iop' = iop
         /\ mu' = [h |-> "integrate", t |-> t, pc |-> "landed", x |-> o]
      \/ /\ Binds(cap, t) /\ ~Landed(cap) /\ st' = st /\ iop' = iop
         /\ mu' = [h |-> "integrate", t |-> t,
                   pc |-> IF Recorded(cap) THEN "prepared" ELSE "captured", x |-> o]
      \/ /\ open /\ ~Landed(cap) /\ FreshProof(t) /\ iop' = iop
         /\ IF st[t].status = "verified"
            THEN UpdateState(t, Step(t, "integrating")) ELSE UNCHANGED st
         /\ mu' = [h |-> "integrate", t |-> t, pc |-> "claimed", x |-> o]
      \/ open /\ ~Landed(cap) /\ Reject(o, t)
  BY DEF IntegrateStart, Hold, ResumesCapture
<1> QED BY <1>2, <1>3, <1>4, <1>5, <1>6, <1>7

\* The Operation's capture is written; no landing rests on the one it replaces.
LEMMA CaptureWritten ==
  ASSUME TypeOK, Core, NEW o \in Ops, NEW cap \in CaptureRecord, iop[o].status # "idle",
         iop' = [iop EXCEPT ![o].cap = cap], CaptureFits(o, OpTask[o], cap),
         \A i \in DOMAIN canon : canon[i].rev > 0 /\ canon[i].task = OpTask[o] =>
           RequestedTwice(OpTask[o]) \/ iop[o].cap.commit # canon[i],
         UNCHANGED <<load, tables, canon, lane, profile>>, mu'.t \in Tasks \cup {None}
  PROVE  TypeOK' /\ Core'
<1>1. /\ iop' \in [Ops -> OpRecord] /\ iop'[o].cap = cap
      /\ \A p \in Ops : iop'[p].status = iop[p].status
      /\ \A p \in Ops \ {o} : iop'[p] = iop[p]
  BY DEF TypeOK, OpRecord
<1>2. TypeOK'
  BY <1>1 DEF TypeOK, tables, Evidence, Canonical
<1>3. \A t : Evidence(t)' = Evidence(t) /\ (RequestedTwice(t) => RequestedTwice(t)')
  BY <1>1 DEF tables, Evidence, RequestedTwice
<1>4. RowsFit' /\ LanesFit' /\ BlocksFit' /\ BranchFits' /\ OwnersFit'
  BY <1>3 DEF Core, RowsFit, LanesFit, BlocksFit, BranchFits, OwnersFit, Fits, Canonical, tables
<1>5. ReceiptsFit' /\ IntegrationsFit'
  BY <1>3 DEF Core, ReceiptsFit, IntegrationsFit, Fits, Canonical, HasReview,
     IntegrationPhases, OnCanonical, tables
<1>6. CapturesFit'
  <2>1. \A p \in Ops : \A c : CaptureFits(p, OpTask[p], c) => CaptureFits(p, OpTask[p], c)'
    BY DEF CaptureFits, Receipted, tables
  <2> SUFFICES ASSUME NEW p \in Ops, iop'[p].cap # None
               PROVE  iop'[p].status # "idle" /\ CaptureFits(p, OpTask[p], iop[p].cap)'
    BY DEF CapturesFit
  <2>2. CASE p = o
    <3>1. CaptureFits(o, OpTask[o], cap)'
      BY <2>1
    <3> QED BY <1>1, <2>2, <3>1 DEF CaptureFits, tables, Receipted
  <2>3. CASE p # o
    BY <1>1, <2>1, <2>3 DEF Core, CapturesFit, CaptureFits, tables, Receipted
  <2> QED BY <2>2, <2>3
<1>7. LandingRecoverable'
  <2> SUFFICES ASSUME NEW l, NEW i \in DOMAIN canon, l = canon[i], l.rev > 0
               PROVE  \/ \E p \in IntegrationPhases(l.task)' : p.head = l
                      \/ \E p \in Ops : /\ OpTask[p] = l.task
                                        /\ iop'[p].cap # None
                                        /\ iop'[p].cap.commit = l
                                        /\ Binds(iop[p].cap, l.task)'
                      \/ RequestedTwice(l.task)'
    BY DEF LandingRecoverable
  <2>1. CASE \E p \in IntegrationPhases(l.task) : p.head = l
    BY <1>3, <2>1 DEF IntegrationPhases
  <2>2. CASE RequestedTwice(l.task)
    BY <1>3, <2>2
  <2>3. ASSUME NEW p \in Ops, OpTask[p] = l.task, iop[p].cap # None, iop[p].cap.commit = l,
               Binds(iop[p].cap, l.task), ~RequestedTwice(l.task)
        PROVE  iop'[p].cap # None /\ iop'[p].cap.commit = l /\ Binds(iop[p].cap, l.task)'
    <3>1. p # o
      BY <2>3
    <3>2. iop'[p] = iop[p]
      BY <1>1, <3>1
    <3> QED BY <2>3, <3>2 DEF Binds, tables
  <2> QED BY <2>1, <2>2, <2>3 DEF Core, LandingRecoverable
<1>8. SecondTaskOnlyByRebase'
  BY <1>3 DEF Core, SecondTaskOnlyByRebase, OpenedByRebase, Actionable, tables
<1> QED BY <1>2, <1>4, <1>5, <1>6, <1>7, <1>8 DEF Core

LEMMA IntegrateCaptureKeeps == ASSUME IInv, IntegrateCapture PROVE IInv'
<1> DEFINE o == mu.x
           t == mu.t
           cap == Capture(t)
<1>1. /\ iop' = [iop EXCEPT ![o].cap = cap] /\ UNCHANGED <<load, tables, git, profile>>
      /\ mu' = [h |-> "integrate", t |-> t, pc |-> "captured", x |-> o]
      /\ t \in Tasks /\ st[t] # None /\ IntegrateFits /\ mu.pc = "claimed"
  BY DEF IntegrateCapture, SaveCapture, Hold, IInv, HolderFits
<1>2. /\ o \in Ops /\ OpTask[o] = t /\ iop[o].status = "accepted" /\ st[t].status = "integrating"
      /\ Receipted(t, st[t].base, st[t].head) /\ NothingLanded(t)
  BY <1>1 DEF IntegrateFits, Status
<1>3. st[t] \in StateRecord
  BY <1>1 DEF IInv, TypeOK
<1>4. /\ cap \in CaptureRecord /\ cap.rev = st[t].rev /\ cap.base = st[t].base
      /\ cap.head = st[t].head /\ cap.commit = None /\ st[t].rev > 0
  BY <1>3 DEF Capture, CaptureRecord, StateRecord
<1>5. cap # None
  BY <1>4, ShapeAssumption
<1> HIDE DEF cap
<1>6. CaptureFits(o, t, cap)
  BY <1>1, <1>2, <1>3, <1>4 DEF CaptureFits, StateRecord
<1>7. TypeOK' /\ Core'
  <2>1. mu'.t \in Tasks \cup {None}
    BY <1>1
  <2> QED BY <1>1, <1>2, <1>4, <1>6, <2>1, CaptureWritten DEF IInv, NothingLanded, git
<1>8. iop'[o].cap = cap /\ iop'[o].status = "accepted"
  BY <1>1, <1>2 DEF IInv, TypeOK, OpRecord
<1>9. Binds(iop[o].cap, t)'
  BY <1>1, <1>4, <1>5, <1>8 DEF Binds, tables
<1>10. IntegrateFits'
  BY <1>1, <1>2, <1>4, <1>8, <1>9 DEF IntegrateFits, Status, tables, Prepared
<1> QED BY <1>1, <1>7, <1>10 DEF IInv, HolderFits, tables

LEMMA IntegratePrepareKeeps == ASSUME IInv, IntegratePrepare PROVE IInv'
<1> DEFINE o == mu.x
           t == mu.t
           old == iop[o].cap
           c == Landing(t, old.head, old.base, old.rev)
           cap == [old EXCEPT !.commit = c]
<1>1. /\ iop' = [iop EXCEPT ![o].cap = cap] /\ UNCHANGED <<load, tables, git, profile>>
      /\ mu' = [h |-> "integrate", t |-> t, pc |-> "prepared", x |-> o]
      /\ t \in Tasks /\ st[t] # None /\ IntegrateFits /\ mu.pc = "captured"
  BY DEF IntegratePrepare, SaveCapture, Hold, IInv, HolderFits
<1>2. /\ o \in Ops /\ OpTask[o] = t /\ iop[o].status = "accepted" /\ st[t].status = "integrating"
      /\ Binds(old, t) /\ old.commit = None
  BY <1>1 DEF IntegrateFits, Status
<1>3. old \in CaptureRecord /\ CaptureFits(o, t, old)
  <2>1. old # None
    BY <1>2 DEF Binds
  <2> QED BY <1>2, <2>1, BoundCapture DEF IInv, Core, CapturesFit
<1>4. c \in LandingRecord /\ c # None
  <2>1. c \in LandingRecord
    BY <1>1, <1>3 DEF CaptureRecord, LandingRecord, Landing
  <2> QED BY <2>1, ShapeAssumption
<1>5. /\ cap \in CaptureRecord /\ cap.rev = old.rev /\ cap.base = old.base
      /\ cap.head = old.head /\ cap.commit = c
  <2> HIDE DEF c
  <2> QED BY <1>3, <1>4 DEF CaptureRecord
<1>6. cap # None
  BY <1>5, ShapeAssumption
<1>7. c = Landing(t, cap.head, cap.base, cap.rev)
  BY <1>5
<1> HIDE DEF cap, c
<1>8. CaptureFits(o, t, cap)
  BY <1>3, <1>5, <1>7 DEF CaptureFits
<1>9. \A i \in DOMAIN canon : old.commit # canon[i]
  <2>1. \A i \in DOMAIN canon : canon[i] \in LandingRecord
    BY DEF IInv, TypeOK
  <2> QED BY <1>2, <2>1, ShapeAssumption
<1>10. TypeOK' /\ Core'
  <2>1. mu'.t \in Tasks \cup {None}
    BY <1>1
  <2> QED BY <1>1, <1>2, <1>5, <1>8, <1>9, <2>1, CaptureWritten DEF IInv, git
<1>11. iop'[o].cap = cap /\ iop'[o].status = "accepted"
  BY <1>1, <1>2 DEF IInv, TypeOK, OpRecord
<1>12. Binds(iop[o].cap, t)'
  BY <1>1, <1>2, <1>5, <1>6, <1>11 DEF Binds, tables
<1>13. IntegrateFits'
  BY <1>1, <1>2, <1>4, <1>5, <1>11, <1>12 DEF IntegrateFits, Status, tables, Prepared
<1> QED BY <1>1, <1>10, <1>13 DEF IInv, HolderFits, tables

LEMMA IntegrateCheckKeeps == ASSUME IInv, IntegrateCheck PROVE IInv'
<1> DEFINE o == mu.x
           t == mu.t
           cap == iop[o].cap
<1>1. /\ UNCHANGED <<load, ph, rcpt, authoring, contract, journal, git, profile>>
      /\ t \in Tasks /\ st[t] # None /\ IntegrateFits /\ mu.pc = "prepared"
  BY DEF IntegrateCheck, IInv, HolderFits
<1>2. /\ o \in Ops /\ OpTask[o] = t /\ iop[o].status = "accepted" /\ st[t].status = "integrating"
      /\ Binds(cap, t) /\ cap.commit # None
  BY <1>1 DEF IntegrateFits, Status, Prepared
<1>3. ASSUME NEW pc, pc = "publishing" \/ (pc = "landed" /\ OnCanonical(cap.commit)),
             mu' = [h |-> "integrate", t |-> t, pc |-> pc, x |-> o], st' = st, iop' = iop
      PROVE  IInv'
  <2>1. IntegrateFits'
    <3>1. Binds(iop[o].cap, t)'
      BY <1>2, <1>3 DEF Binds
    <3>2. pc = "landed" => OnCanonical(iop[o].cap.commit)'
      BY <1>1, <1>3 DEF OnCanonical, Canonical, git
    <3> QED BY <1>2, <1>3, <3>1, <3>2 DEF IntegrateFits, Status, Prepared
  <2> QED BY <1>1, <1>3, <2>1, HoldIntegrate DEF tables
<1>4. CASE ~OnCanonical(cap.commit) /\ Reject(o, t)
  <2>1. NothingLanded(t)
    BY <1>1, <1>2, <1>4, NothingOfOthers DEF NothingLanded, Landed
  <2> QED BY <1>1, <1>2, <1>4, <2>1, RejectKeeps
<1> QED BY <1>3, <1>4 DEF IntegrateCheck, Hold

\* The branch grows by one commit on top of it, a Task's own only if its
\* Operation holds it in a capture that binds the row.
LEMMA Pushed ==
  ASSUME TypeOK, Core, NEW l \in LandingRecord, l.base = Canonical,
         canon' = Append(canon, l), UNCHANGED <<load, tables, lane, profile, iop>>,
         l.rev > 0 => /\ l.task \in Tasks
                      /\ \E o \in Ops : /\ OpTask[o] = l.task /\ iop[o].cap # None
                                        /\ iop[o].cap.commit = l /\ Binds(iop[o].cap, l.task),
         mu'.t \in Tasks \cup {None}
  PROVE  TypeOK' /\ Core'
<1>1. canon \in Seq(LandingRecord) /\ Len(canon) \in Nat
  BY DEF TypeOK
<1>2. /\ canon' \in Seq(LandingRecord) /\ Len(canon') = Len(canon) + 1
      /\ canon'[Len(canon) + 1] = l
      /\ \A i \in 1..Len(canon) : canon'[i] = canon[i]
      /\ DOMAIN canon' = 1..(Len(canon) + 1) /\ DOMAIN canon = 1..Len(canon)
  BY <1>1
<1>3. \A i \in DOMAIN canon' : \/ i \in DOMAIN canon /\ canon'[i] = canon[i]
                               \/ i = Len(canon) + 1 /\ canon'[i] = l
  BY <1>1, <1>2
<1>4. Canonical \in Nat /\ Canonical' = Canonical + 1
  BY <1>1, <1>2 DEF Canonical
<1>5. \A b \in Nat : b <= Canonical => b <= Canonical'
  BY <1>4
<1>6. \A t : Evidence(t)' = Evidence(t)
  BY DEF Evidence, tables
<1>7. TypeOK'
  BY <1>2, <1>5, <1>6 DEF TypeOK, tables, StateRecord, LaneRecord, CommitRecord
<1>8. \A c \in CommitRecord : Fits(c, load.work) => Fits(c, load.work)'
  BY <1>5 DEF Fits, CommitRecord
<1>9. RowsFit' /\ LanesFit' /\ BlocksFit'
  BY <1>6, <1>8 DEF Core, RowsFit, LanesFit, BlocksFit, tables, TypeOK, StateRecord, LaneRecord
<1>10. ReceiptsFit'
  <2> SUFFICES ASSUME NEW u \in Tasks, NEW i \in DOMAIN rcpt[u], NEW r, r = rcpt[u][i]
               PROVE  /\ st[u] # None
                      /\ r.base <= Canonical' /\ Fits(r.head, load.work)'
                      /\ HasReview(u, r.head, r.attempt)'
    BY DEF ReceiptsFit, tables
  <2>1. r \in ReceiptRecord /\ st[u] # None /\ r.base <= Canonical /\ Fits(r.head, load.work)
        /\ HasReview(u, r.head, r.attempt)
    BY DEF TypeOK, Core, ReceiptsFit
  <2> QED BY <1>5, <1>6, <1>8, <2>1 DEF ReceiptRecord, HasReview
<1>11. \A c \in LandingRecord : OnCanonical(c) => OnCanonical(c)'
  BY <1>1, OnCanonicalStays
<1>12. IntegrationsFit'
  BY <1>6, <1>11 DEF Core, IntegrationsFit, IntegrationPhases, tables
<1>13. BranchFits' /\ OwnersFit'
  BY <1>1, <1>2, <1>3 DEF Core, BranchFits, OwnersFit, Canonical
<1>14. CapturesFit'
  BY DEF Core, CapturesFit, CaptureFits, Receipted, tables
<1>15. \A t : /\ IntegrationPhases(t)' = IntegrationPhases(t)
              /\ RequestedTwice(t)' = RequestedTwice(t)
              /\ \A c : Binds(c, t)' = Binds(c, t)
  BY <1>6 DEF IntegrationPhases, RequestedTwice, Binds, tables
<1>16. LandingRecoverable'
  <2> SUFFICES ASSUME NEW i \in DOMAIN canon', NEW c, c = canon'[i], c.rev > 0
               PROVE  \/ \E p \in IntegrationPhases(c.task) : p.head = c
                      \/ \E o \in Ops : /\ OpTask[o] = c.task
                                        /\ iop[o].cap # None
                                        /\ iop[o].cap.commit = c
                                        /\ Binds(iop[o].cap, c.task)
                      \/ RequestedTwice(c.task)
    BY <1>15 DEF LandingRecoverable, Binds, tables
  <2>1. CASE i \in DOMAIN canon /\ canon'[i] = canon[i]
    BY <2>1 DEF Core, LandingRecoverable
  <2>2. CASE c = l
    BY <2>2
  <2> QED BY <1>3, <2>1, <2>2
<1>17. SecondTaskOnlyByRebase'
  BY <1>6 DEF Core, SecondTaskOnlyByRebase, OpenedByRebase, Actionable, tables
<1> QED BY <1>7, <1>9, <1>10, <1>12, <1>13, <1>14, <1>16, <1>17 DEF Core

LEMMA IntegratePushKeeps == ASSUME IInv, IntegratePush PROVE IInv'
<1> DEFINE o == mu.x
           t == mu.t
           cap == iop[o].cap
<1>1. /\ UNCHANGED <<load, tables, lane, rlane, profile, iop>>
      /\ t \in Tasks /\ st[t] # None /\ IntegrateFits /\ mu.pc = "publishing"
  BY DEF IntegratePush, IInv, HolderFits
<1>2. /\ o \in Ops /\ OpTask[o] = t /\ iop[o].status = "accepted" /\ st[t].status = "integrating"
      /\ Binds(cap, t) /\ cap.commit # None
  BY <1>1 DEF IntegrateFits, Status, Prepared
<1>3. PICK pc \in {"sent", "unknown", "stale"} :
        /\ mu' = [h |-> "integrate", t |-> t, pc |-> pc, x |-> o]
        /\ \/ canon' = canon
           \/ Canonical = cap.base /\ canon' = Append(canon, cap.commit)
  BY DEF IntegratePush, Hold
<1>4. IntegrateFits'
  <2>1. Binds(iop[o].cap, t)'
    BY <1>1, <1>2, <1>3 DEF Binds, tables
  <2> QED BY <1>1, <1>2, <1>3, <2>1 DEF IntegrateFits, Status, Prepared, tables
<1>5. TypeOK' /\ Core'
  <2>1. mu'.t \in Tasks \cup {None}
    BY <1>1, <1>3
  <2>2. CASE canon' = canon
    BY <1>1, <2>1, <2>2, Idle DEF IInv
  <2>3. CASE Canonical = cap.base /\ canon' = Append(canon, cap.commit)
    <3> DEFINE l == cap.commit
    <3>1. l \in LandingRecord /\ l = Landing(t, cap.head, cap.base, cap.rev) /\ cap # None
      BY <1>2, BoundCapture DEF Binds
    <3>2. l.base = Canonical /\ l.task = t
      BY <2>3, <3>1 DEF Landing
    <3>3. /\ l.task \in Tasks
          /\ \E p \in Ops : /\ OpTask[p] = l.task /\ iop[p].cap # None
                            /\ iop[p].cap.commit = l /\ Binds(iop[p].cap, l.task)
      BY <1>1, <1>2, <3>1, <3>2
    <3>4. canon' = Append(canon, l)
      BY <2>3
    <3> HIDE DEF l
    <3> QED BY <1>1, <2>1, <3>1, <3>2, <3>3, <3>4, Pushed DEF IInv
  <2> QED BY <1>3, <2>2, <2>3
<1> QED BY <1>1, <1>3, <1>4, <1>5 DEF IInv, HolderFits, tables

LEMMA IntegrateRereadKeeps == ASSUME IInv, IntegrateReread PROVE IInv'
<1> DEFINE o == mu.x
           t == mu.t
           cap == iop[o].cap
<1>1. /\ UNCHANGED <<load, ph, rcpt, authoring, contract, journal, git, profile>>
      /\ t \in Tasks /\ st[t] # None /\ IntegrateFits /\ mu.pc \in {"sent", "unknown", "stale"}
  BY DEF IntegrateReread, IInv, HolderFits
<1>2. /\ o \in Ops /\ OpTask[o] = t /\ iop[o].status = "accepted" /\ st[t].status = "integrating"
      /\ Binds(cap, t) /\ cap.commit # None
  BY <1>1 DEF IntegrateFits, Status, Prepared
<1>3. CASE /\ OnCanonical(cap.commit) /\ st' = st /\ iop' = iop
           /\ mu' = [h |-> "integrate", t |-> t, pc |-> "landed", x |-> o]
  <2>1. IntegrateFits'
    <3>1. Binds(iop[o].cap, t)'
      BY <1>2, <1>3 DEF Binds
    <3>2. OnCanonical(iop[o].cap.commit)'
      BY <1>1, <1>3 DEF OnCanonical, Canonical, git
    <3> QED BY <1>2, <1>3, <3>1, <3>2 DEF IntegrateFits, Status, Prepared
  <2> QED BY <1>1, <1>3, <2>1, HoldIntegrate DEF tables
<1>4. CASE EndOp(o, "failed") /\ mu' = Free /\ st' = st
  BY <1>1, <1>2, <1>4, EndKeeps DEF tables
<1>5. CASE ~OnCanonical(cap.commit) /\ Reject(o, t)
  <2>1. NothingLanded(t)
    BY <1>1, <1>2, <1>5, NothingOfOthers DEF NothingLanded, Landed
  <2> QED BY <1>1, <1>2, <1>5, <2>1, RejectKeeps
<1> QED BY <1>3, <1>4, <1>5 DEF IntegrateReread, Hold, Release

\* Where a Task has landed is recorded.
LEMMA IntegrationRecorded ==
  ASSUME TypeOK, Core, NEW t \in Tasks, st[t] # None, st[t].status \notin {"integrated", "done"},
         NEW c \in LandingRecord, c.task = t, OnCanonical(c),
         NEW note, note = "" \/ note = "historical",
         TransitionWith(t, Step(t, "integrated"), IntegrationPhase(Step(t, "integrated"), c, note)),
         st[t].status = "integrating" =>
           \A i \in DOMAIN canon : canon[i].rev > 0 /\ canon[i].task = t =>
             RequestedTwice(t) \/ c = canon[i],
         SameCaptures, iop' \in [Ops -> OpRecord], mu'.t \in Tasks \cup {None},
         UNCHANGED <<load, rcpt, canon, lane, authoring, contract, journal, profile>>
  PROVE  TypeOK' /\ Core'
<1> DEFINE s == Step(t, "integrated")
           p == IntegrationPhase(s, c, note)
<1>1. /\ s = [status |-> "integrated", stage |-> st[t].stage, base |-> st[t].base,
              head |-> st[t].head, agent |-> st[t].agent, rev |-> st[t].rev + 1]
      /\ s \in StateRecord /\ st[t] \in StateRecord /\ st[t].base <= Canonical
      /\ Fits(st[t].head, load.work)
  BY Stepped, StatusNames
<1>2. /\ s.rev = st[t].rev + 1 /\ s.base <= Canonical /\ Fits(s.head, load.work)
      /\ s.status = "integrated" /\ ~Actionable(s) /\ s.rev \in Nat
  <2> HIDE DEF s
  <2> QED BY <1>1 DEF Actionable, StateRecord
<1>3. st' = [st EXCEPT ![t] = s] /\ ph' = [ph EXCEPT ![t] = Append(@, p)]
  BY DEF TransitionWith, UpdateState
<1> HIDE DEF s
<1>4. /\ p \in PhaseRecord /\ p.head = c /\ p.rev = s.rev /\ p.kind = "integration"
      /\ p.stage = "integration"
  <2>1. "integration" \in Stages \cup {"integration"}
    OBVIOUS
  <2> QED BY <1>2, <2>1 DEF IntegrationPhase, PhaseRecord
<1> HIDE DEF p
<1>5. IntegrationPhases(t) = {}
  BY NotIntegrated
<1>6. Records(t, s, {p})
  BY <1>2, <1>4, <1>5 DEF Records
<1>7. st[t].status = "integrating" => Settled(t, {p})
  BY <1>4 DEF Settled
<1>8. RowTo(t, s, {p})
  BY <1>1, <1>2, <1>4, <1>6, <1>7 DEF RowTo
<1> QED BY <1>3, <1>8, PhaseWrite

LEMMA IntegrateRecordKeeps == ASSUME IInv, IntegrateRecord PROVE IInv'
<1> DEFINE o == mu.x
           t == mu.t
           c == iop[o].cap.commit
<1>1. /\ UNCHANGED <<load, rcpt, authoring, contract, journal, git, profile>>
      /\ TransitionWith(t, Step(t, "integrated"), IntegrationPhase(Step(t, "integrated"), c, ""))
      /\ EndOp(o, "completed") /\ mu' = Free
      /\ t \in Tasks /\ st[t] # None /\ IntegrateFits /\ mu.pc = "landed"
  BY DEF IntegrateRecord, Release, IInv, HolderFits
<1>2. /\ o \in Ops /\ OpTask[o] = t /\ iop[o].status = "accepted" /\ st[t].status = "integrating"
      /\ Binds(iop[o].cap, t) /\ c # None /\ OnCanonical(c)
  BY <1>1 DEF IntegrateFits, Status, Prepared
<1>3. c \in LandingRecord /\ c.task = t
  <2>1. c \in LandingRecord /\ c = Landing(t, iop[o].cap.head, iop[o].cap.base, iop[o].cap.rev)
    BY <1>2, BoundCapture
  <2>2. Landing(t, iop[o].cap.head, iop[o].cap.base, iop[o].cap.rev).task = t
    BY DEF Landing
  <2> QED BY <2>1, <2>2
<1>4. \A i \in DOMAIN canon : canon[i].rev > 0 /\ canon[i].task = t =>
        RequestedTwice(t) \/ c = canon[i]
  BY <1>1, <1>2, NothingOfOthers
<1>5. SameCaptures /\ iop' \in [Ops -> OpRecord] /\ HolderFits' /\ mu'.t \in Tasks \cup {None}
  BY <1>1, <1>2, OpEnded, Released DEF IInv
<1>6. TypeOK' /\ Core'
  <2> HIDE DEF c
  <2> QED BY <1>1, <1>2, <1>3, <1>4, <1>5, IntegrationRecorded DEF IInv, git
<1> QED BY <1>5, <1>6 DEF IInv

LEMMA HandlerFaultKeeps == ASSUME IInv, HandlerFault PROVE IInv'
<1>1. mu' = Free /\ UNCHANGED <<load, tables, git, profile>>
  BY DEF HandlerFault, Release
<1>2. CASE mu.h = "integrate"
  <2>1. mu.x \in Ops
    BY <1>2 DEF IInv, HolderFits, IntegrateFits
  <2>2. EndOp(mu.x, "failed")
    BY <1>2 DEF HandlerFault
  <2> QED BY <1>1, <2>1, <2>2, EndKeeps
<1>3. CASE mu.h # "integrate"
  <2>1. iop' = iop
    BY <1>3 DEF HandlerFault
  <2>2. HolderFits' /\ mu'.t \in Tasks \cup {None}
    BY <1>1, Released
  <2>3. TypeOK' /\ Core'
    BY <1>1, <2>1, <2>2, Idle DEF IInv, git
  <2> QED BY <2>2, <2>3 DEF IInv
<1> QED BY <1>2, <1>3

-----------------------------------------------------------------------------
(* Landings by hand, completion, and the world.                            *)

LEMMA LandedFacts ==
  ASSUME IInv, NEW t \in Tasks, NEW c \in LandedCommits(t)
  PROVE  c \in LandingRecord /\ c.task = t /\ OnCanonical(c)
<1>1. PICK i \in DOMAIN canon : c = canon[i] /\ canon[i].task = t
  BY DEF LandedCommits
<1>2. canon[i] \in LandingRecord /\ canon[i].base = i - 1 /\ i \in 1..Len(canon)
  BY DEF IInv, TypeOK, Core, BranchFits
<1> QED BY <1>1, <1>2 DEF OnCanonical, Canonical

LEMMA HistoricalAdmitKeeps ==
  ASSUME IInv, NEW t \in Tasks,
         \/ \E prof : HistoricalAdmit(t, prof)
         \/ DebugReconcileBootstrappedTask(t)
  PROVE  IInv'
<1>1. /\ UNCHANGED <<load, tables, git, profile, iop>> /\ st[t] # None
      /\ st[t].status \in {"ready_for_verification", "verified", "dispatched", "blocked"}
  BY DEF HistoricalAdmit, DebugReconcileBootstrappedTask, NeverStarted
<1>2. \E prof, x : /\ mu' = [h |-> "historical", t |-> t, pc |-> prof, x |-> x]
                   /\ x.commit \in LandedCommits(t)
  <2>1. ASSUME NEW prof, HistoricalAdmit(t, prof)
        PROVE  \E x : /\ mu' = [h |-> "historical", t |-> t, pc |-> prof, x |-> x]
                      /\ x.commit \in LandedCommits(t)
    <3>1. PICK c \in LandedCommits(t) :
            mu' = [h |-> "historical", t |-> t, pc |-> prof,
                   x |-> [commit |-> c, canonical |-> Canonical, lane |-> lane[t], journal |-> journal[t]]]
      BY <2>1 DEF HistoricalAdmit, Hold
    <3> QED BY <3>1
  <2>2. ASSUME DebugReconcileBootstrappedTask(t)
        PROVE  \E x : /\ mu' = [h |-> "historical", t |-> t, pc |-> "bootstrap", x |-> x]
                      /\ x.commit \in LandedCommits(t)
    <3>1. PICK c \in LandedCommits(t) :
            mu' = [h |-> "historical", t |-> t, pc |-> "bootstrap",
                   x |-> [commit |-> c, canonical |-> Canonical, lane |-> lane[t], journal |-> journal[t]]]
      BY <2>2 DEF DebugReconcileBootstrappedTask, Hold
    <3> QED BY <3>1
  <2> QED BY <2>1, <2>2
<1>3. PICK prof, x : /\ mu' = [h |-> "historical", t |-> t, pc |-> prof, x |-> x]
                     /\ x.commit \in LandedCommits(t)
  BY <1>2
<1>4. x.commit \in LandingRecord /\ x.commit.task = t /\ OnCanonical(x.commit)
  BY <1>3, LandedFacts
<1>5. mu'.x = x /\ mu'.t = t /\ mu'.h = "historical"
  BY <1>3
<1>6. OnCanonical(mu.x.commit)'
  BY <1>1, <1>4, <1>5 DEF OnCanonical, Canonical, git
<1>7. HistoricalFits'
  BY <1>1, <1>4, <1>5, <1>6 DEF HistoricalFits, Status, tables
<1>8. TypeOK' /\ Core'
  <2>1. mu'.t \in Tasks \cup {None}
    BY <1>5
  <2> QED BY <1>1, <2>1, Idle DEF IInv, git
<1> QED BY <1>1, <1>5, <1>7, <1>8 DEF IInv, HolderFits, tables

LEMMA HistoricalRecordKeeps == ASSUME IInv, HistoricalRecord PROVE IInv'
<1> DEFINE t == mu.t
           c == mu.x.commit
<1>1. /\ UNCHANGED <<load, rcpt, authoring, contract, journal, git, profile, iop>>
      /\ mu' = Free /\ t \in Tasks /\ st[t] # None /\ HistoricalFits
  BY DEF HistoricalRecord, Release, IInv, HolderFits
<1>2. /\ st[t].status \in {"ready_for_verification", "verified", "dispatched", "blocked"}
      /\ c \in LandingRecord /\ c.task = t /\ OnCanonical(c)
  BY <1>1 DEF HistoricalFits, Status
<1>3. SameCaptures /\ iop' \in [Ops -> OpRecord] /\ HolderFits' /\ mu'.t \in Tasks \cup {None}
  BY <1>1, OpsKept, Released DEF IInv
<1>4. CASE TransitionWith(t, Step(t, "integrated"),
                          IntegrationPhase(Step(t, "integrated"), c, "historical"))
  <2>1. TypeOK' /\ Core'
    <3> HIDE DEF c
    <3> QED BY <1>1, <1>2, <1>3, <1>4, IntegrationRecorded DEF IInv, git
  <2> QED BY <1>3, <2>1 DEF IInv
<1>5. CASE UNCHANGED <<st, ph>>
  <2>1. TypeOK' /\ Core'
    BY <1>1, <1>3, <1>5, Idle DEF IInv, git, tables
  <2> QED BY <1>3, <2>1 DEF IInv
<1> QED BY <1>4, <1>5 DEF HistoricalRecord

LEMMA TheIntegrationIn ==
  ASSUME NEW t, IntegrationPhases(t) # {} PROVE TheIntegration(t) \in IntegrationPhases(t)
BY DEF TheIntegration

\* CommitTaskCompletion of an integrated Task.
LEMMA CompletionKeeps ==
  ASSUME IInv, NEW t \in Tasks, st[t] # None, st[t].status = "integrated",
         IntegrationPhases(t) # {},
         NEW mode, mode = "integrated" \/ mode = "historical" \/ mode = "pre_execution",
         UpdateState(t, Step(t, "done")),
         CommitTaskCompletion(t, mode, TheIntegration(t).head),
         mu' = Free, UNCHANGED <<load, ph, rcpt, git, profile, journal, iop>>
  PROVE  IInv'
<1> DEFINE s == Step(t, "done")
           x == [mode |-> mode, head |-> TheIntegration(t).head]
<1>1. /\ st' = [st EXCEPT ![t] = s] /\ authoring' = [authoring EXCEPT ![t] = "done"]
      /\ contract' = [contract EXCEPT ![t] = x]
  BY DEF UpdateState, CommitTaskCompletion
<1>2. /\ s = [status |-> "done", stage |-> st[t].stage, base |-> st[t].base,
              head |-> st[t].head, agent |-> st[t].agent, rev |-> st[t].rev + 1]
      /\ s \in StateRecord /\ st[t] \in StateRecord /\ st[t].base <= Canonical
      /\ Fits(st[t].head, load.work)
  BY Stepped, StatusNames DEF IInv
<1>3. /\ s.rev = st[t].rev + 1 /\ s.base <= Canonical /\ Fits(s.head, load.work)
      /\ s.status = "done" /\ ~Actionable(s)
  <2> HIDE DEF s
  <2> QED BY <1>2 DEF Actionable
<1>4. x \in CompletionRecord
  <2>1. TheIntegration(t).head \in LandingRecord
    BY TheIntegrationIn DEF IInv, Core, IntegrationsFit
  <2> QED BY <2>1 DEF CompletionRecord
<1> HIDE DEF s, x
<1>5. RowTo(t, s, {})
  BY <1>2, <1>3 DEF RowTo, Records
<1>6. SameCaptures /\ iop' \in [Ops -> OpRecord] /\ HolderFits' /\ mu'.t \in Tasks \cup {None}
  BY OpsKept, Released DEF IInv
<1>7. /\ authoring' \in [Tasks -> {"planned", "done"}]
      /\ contract' \in [Tasks -> {None} \cup CompletionRecord]
  BY <1>1, <1>4 DEF IInv, TypeOK
<1>8. TypeOK' /\ Core'
  BY <1>1, <1>5, <1>6, <1>7, StateWrite DEF IInv, git
<1> QED BY <1>6, <1>8 DEF IInv

LEMMA PreExecutionAdmitKeeps ==
  ASSUME IInv, NEW t \in Tasks, DebugReconcilePreExecutionTask(t) PROVE IInv'
<1>1. /\ UNCHANGED <<load, tables, git, profile, iop>> /\ st[t] # None
      /\ st[t].status = "integrated" /\ Cardinality(IntegrationPhases(t)) = 1
      /\ contract[t] = None
      /\ mu' = [h |-> "pre_execution", t |-> t, pc |-> "admitted",
                x |-> [canonical |-> Canonical, journal |-> journal[t]]]
  BY DEF DebugReconcilePreExecutionTask, PreExecutionLifecycle, Hold
<1>2. IntegrationPhases(t) # {}
  BY <1>1, FS_EmptySet
<1>3. PreExecutionFits'
  BY <1>1, <1>2 DEF PreExecutionFits, Status, tables, IntegrationPhases, Evidence
<1>4. TypeOK' /\ Core'
  <2>1. mu'.t \in Tasks \cup {None}
    BY <1>1
  <2> QED BY <1>1, <2>1, Idle DEF IInv, git
<1> QED BY <1>1, <1>3, <1>4 DEF IInv, HolderFits, tables

LEMMA PreExecutionRecordKeeps == ASSUME IInv, PreExecutionRecord PROVE IInv'
<1> DEFINE t == mu.t
<1>1. /\ UNCHANGED <<load, ph, rcpt, git, profile, journal, iop>>
      /\ mu' = Free /\ t \in Tasks /\ st[t] # None /\ PreExecutionFits
  BY DEF PreExecutionRecord, Release, IInv, HolderFits
<1>2. CASE /\ UpdateState(t, Step(t, "done"))
           /\ CommitTaskCompletion(t, "pre_execution", TheIntegration(t).head)
  BY <1>1, <1>2, CompletionKeeps DEF PreExecutionFits, Status
<1>3. CASE UNCHANGED <<st, authoring, contract>>
  <2>1. HolderFits' /\ mu'.t \in Tasks \cup {None}
    BY <1>1, Released
  <2>2. TypeOK' /\ Core'
    BY <1>1, <1>3, <2>1, Idle DEF IInv, git, tables
  <2> QED BY <2>1, <2>2 DEF IInv
<1> QED BY <1>2, <1>3 DEF PreExecutionRecord

LEMMA TaskCompleteKeeps ==
  ASSUME IInv, NEW t \in Tasks,
         NEW mode, mode = "non_code" \/ mode = "integrated" \/ mode = "historical",
         TaskComplete(t, mode)
  PROVE  IInv'
<1>1. /\ UNCHANGED <<load, ph, rcpt, git, profile, journal, mu, iop>> /\ mu = Free
  BY DEF TaskComplete
<1>2. CASE mode # "non_code"
  <2>1. /\ st[t] # None /\ st[t].status = "integrated"
        /\ Cardinality(IntegrationPhases(t)) = 1
        /\ UpdateState(t, Step(t, "done"))
        /\ CommitTaskCompletion(t, mode, TheIntegration(t).head)
    BY <1>2 DEF TaskComplete
  <2>2. IntegrationPhases(t) # {}
    BY <2>1, FS_EmptySet
  <2> QED BY <1>1, <1>2, <2>1, <2>2, CompletionKeeps
<1>3. CASE mode = "non_code"
  <2> DEFINE x == [mode |-> mode, head |-> None]
  <2>1. st' = st /\ CommitTaskCompletion(t, mode, None)
    BY <1>3 DEF TaskComplete
  <2>2. x \in CompletionRecord
    BY <1>3 DEF CompletionRecord
  <2>3. authoring' = [authoring EXCEPT ![t] = "done"] /\ contract' = [contract EXCEPT ![t] = x]
    BY <2>1 DEF CommitTaskCompletion
  <2> HIDE DEF x
  <2>4. /\ authoring' \in [Tasks -> {"planned", "done"}]
        /\ contract' \in [Tasks -> {None} \cup CompletionRecord]
    BY <2>2, <2>3 DEF IInv, TypeOK
  <2>5. SameCaptures /\ iop' \in [Ops -> OpRecord] /\ HolderFits' /\ mu'.t \in Tasks \cup {None}
    BY <1>1, OpsKept, StillFree DEF IInv
  <2>6. TypeOK' /\ Core'
    BY <1>1, <2>1, <2>4, <2>5, Quiet DEF IInv, git, TypeOK
  <2> QED BY <2>5, <2>6 DEF IInv
<1> QED BY <1>2, <1>3

LEMMA WorkerKeeps ==
  ASSUME IInv, NEW t \in Tasks, WorkerCommit(t) \/ WorkerRebase(t) PROVE IInv'
<1>1. /\ UNCHANGED <<load, tables, canon, rlane, profile, mu, iop>> /\ lane[t] # None
  BY DEF WorkerCommit, WorkerRebase
<1>2. lane[t] \in LaneRecord /\ Fits(lane[t].head, load.work) /\ lane[t].head \in CommitRecord
  BY <1>1 DEF IInv, TypeOK, Core, LanesFit, LaneRecord
<1>3. \E l \in LaneRecord : Fits(l.head, load.work) /\ lane' = [lane EXCEPT ![t] = l]
  <2>1. CASE WorkerCommit(t)
    <3> DEFINE c == [lane[t].head EXCEPT !.n = @ + 1]
               l == [lane[t] EXCEPT !.head = c]
    <3>1. c \in CommitRecord /\ Fits(c, load.work)
      <4>1. lane[t].head.n < load.work /\ load.work \in Nat
        BY <2>1, ShapeAssumption DEF WorkerCommit, IInv, TypeOK
      <4> QED BY <1>2, <4>1 DEF CommitRecord, Fits
    <3>2. lane' = [lane EXCEPT ![t].head.n = @ + 1]
      BY <2>1 DEF WorkerCommit
    <3>3. lane' = [lane EXCEPT ![t] = l]
      BY <3>2
    <3> HIDE DEF c
    <3>4. l \in LaneRecord /\ l.head = c
      BY <1>2, <3>1 DEF LaneRecord
    <3> QED BY <3>1, <3>3, <3>4
  <2>2. CASE WorkerRebase(t)
    <3> DEFINE l == [head |-> Commit(st[t].base, lane[t].head.n), mid |-> FALSE]
    <3>1. st[t] \in StateRecord /\ st[t].base <= Canonical
      BY <2>2 DEF WorkerRebase, IInv, TypeOK
    <3>2. l \in LaneRecord /\ Fits(l.head, load.work)
      BY <1>2, <3>1 DEF LaneRecord, CommitRecord, Commit, Fits, StateRecord
    <3>3. lane' = [lane EXCEPT ![t] = l]
      BY <2>2 DEF WorkerRebase
    <3> HIDE DEF l
    <3> QED BY <3>2, <3>3
  <2> QED BY <2>1, <2>2
<1>4. PICK l \in LaneRecord : Fits(l.head, load.work) /\ lane' = [lane EXCEPT ![t] = l]
  BY <1>3
<1>5. mu'.t \in Tasks \cup {None}
  BY <1>1 DEF IInv, TypeOK
<1>6. TypeOK' /\ Core'
  BY <1>1, <1>4, <1>5, LaneChange DEF IInv
<1>7. \A u \in Tasks : lane[u] # None => lane'[u] # None
  BY <1>4, ShapeAssumption DEF IInv, TypeOK
<1>8. HolderFits'
  BY <1>1, <1>7, HolderStays DEF IInv, Aside, tables, SameCaptures
<1> QED BY <1>6, <1>8 DEF IInv

LEMMA PushOutsideKeeps ==
  ASSUME IInv, ForeignPush \/ \E t \in Tasks : LandByHand(t) PROVE IInv'
<1>1. /\ UNCHANGED <<load, tables, lane, rlane, profile, mu, iop>>
      /\ \E t \in Tasks \cup {None}, c \in CommitRecord \cup {None} :
           canon' = Append(canon, Landing(t, c, Canonical, 0))
  <2>1. CASE ForeignPush
    BY <2>1 DEF ForeignPush
  <2>2. ASSUME NEW t \in Tasks, LandByHand(t)
        PROVE  /\ UNCHANGED <<load, tables, lane, rlane, profile, mu, iop>>
               /\ \E c \in CommitRecord : canon' = Append(canon, Landing(t, c, Canonical, 0))
    <3>1. lane[t] \in LaneRecord
      BY <2>2 DEF LandByHand, IInv, TypeOK
    <3>2. lane[t].head \in CommitRecord
      BY <3>1 DEF LaneRecord
    <3> QED BY <2>2, <3>2 DEF LandByHand
  <2> QED BY <2>1, <2>2
<1>2. PICK t \in Tasks \cup {None}, c \in CommitRecord \cup {None} :
        canon' = Append(canon, Landing(t, c, Canonical, 0))
  BY <1>1
<1> DEFINE l == Landing(t, c, Canonical, 0)
<1>3. l \in LandingRecord /\ l.base = Canonical /\ l.rev = 0
  <2>1. Canonical \in Nat
    BY DEF Canonical, IInv, TypeOK
  <2> QED BY <2>1 DEF Landing, LandingRecord
<1>4. canon' = Append(canon, l)
  BY <1>2
<1> HIDE DEF l
<1>5. mu'.t \in Tasks \cup {None}
  BY <1>1 DEF IInv, TypeOK
<1>6. TypeOK' /\ Core'
  BY <1>1, <1>3, <1>4, <1>5, Pushed DEF IInv
<1>7. HolderFits'
  BY <1>1, <1>3, <1>4, HolderStays DEF IInv, Aside, tables, SameCaptures
<1> QED BY <1>6, <1>7 DEF IInv

LEMMA WorldKeeps ==
  ASSUME IInv, ProfileChange \/ \E t \in Tasks : JournalAppend(t) PROVE IInv'
<1>1. /\ UNCHANGED <<load, st, ph, rcpt, authoring, contract, git, mu, iop>>
      /\ profile' \in Nat /\ journal' \in [Tasks -> Nat]
  <2>1. profile \in Nat /\ journal \in [Tasks -> Nat]
    BY DEF IInv, TypeOK
  <2>2. CASE ProfileChange
    BY <2>1, <2>2 DEF ProfileChange, tables
  <2>3. CASE \E t \in Tasks : JournalAppend(t)
    BY <2>1, <2>3 DEF JournalAppend
  <2> QED BY <2>2, <2>3
<1>2. TypeOK' /\ Core'
  <2>1. /\ authoring' \in [Tasks -> {"planned", "done"}]
        /\ contract' \in [Tasks -> {None} \cup CompletionRecord] /\ mu'.t \in Tasks \cup {None}
    BY <1>1 DEF IInv, TypeOK
  <2>2. SameCaptures /\ iop' \in [Ops -> OpRecord]
    BY <1>1, OpsKept DEF IInv
  <2> QED BY <1>1, <2>1, <2>2, Quiet DEF IInv, git
<1>3. HolderFits'
  BY <1>1, HolderStays DEF IInv, Aside, git, SameCaptures
<1> QED BY <1>2, <1>3 DEF IInv

LEMMA CrashKeeps == ASSUME IInv, Crash PROVE IInv'
<1>1. mu' = Free /\ UNCHANGED <<load, tables, git, profile, iop>>
  BY DEF Crash, Release
<1>2. HolderFits' /\ mu'.t \in Tasks \cup {None}
  BY <1>1, Released
<1>3. TypeOK' /\ Core'
  BY <1>1, <1>2, Idle DEF IInv, git
<1> QED BY <1>2, <1>3 DEF IInv

LEMMA StutterKeeps == ASSUME IInv, UNCHANGED vars PROVE IInv'
<1>1. UNCHANGED <<load, tables, git, profile, mu, iop>>
  BY DEF vars, tables, git
<1>2. TypeOK' /\ Core'
  <2>1. mu'.t \in Tasks \cup {None}
    BY <1>1 DEF IInv, TypeOK
  <2> QED BY <1>1, <2>1, Idle DEF IInv, git
<1>3. HolderFits'
  BY <1>1, HolderStays DEF IInv, Aside, git, tables, SameCaptures
<1> QED BY <1>2, <1>3 DEF IInv

-----------------------------------------------------------------------------
LEMMA InitInv == Init => IInv
<1> SUFFICES ASSUME Init PROVE IInv
  OBVIOUS
<1>1. /\ load \in Loads /\ st = [t \in Tasks |-> None] /\ ph = [t \in Tasks |-> <<>>]
      /\ rcpt = [t \in Tasks |-> <<>>] /\ authoring = [t \in Tasks |-> "planned"]
      /\ contract = [t \in Tasks |-> None] /\ journal = [t \in Tasks |-> 0] /\ canon = <<>>
      /\ lane = [t \in Tasks |-> None] /\ profile = 0 /\ mu = Free
      /\ iop = [o \in Ops |-> [status |-> "idle", cap |-> None]]
  BY DEF Init
<1>2. \A t \in Tasks : Evidence(t) = {} /\ st[t] = None /\ lane[t] = None /\ DOMAIN rcpt[t] = {}
  BY <1>1 DEF Evidence
<1>3. DOMAIN canon = {} /\ \A o \in Ops : iop[o].cap = None
  BY <1>1
<1>4. iop \in [Ops -> OpRecord]
  BY <1>1 DEF OpRecord
<1>5. /\ ph \in [Tasks -> Seq(PhaseRecord)] /\ rcpt \in [Tasks -> Seq(ReceiptRecord)]
      /\ canon \in Seq(LandingRecord)
  BY <1>1
<1>6. TypeOK
  BY <1>1, <1>2, <1>4, <1>5 DEF TypeOK, Free
<1>7. Core
  <2>1. RowsFit /\ LanesFit /\ BlocksFit /\ ReceiptsFit
    BY <1>2 DEF RowsFit, LanesFit, BlocksFit, ReceiptsFit
  <2>2. IntegrationsFit /\ SecondTaskOnlyByRebase
    BY <1>2 DEF IntegrationsFit, IntegrationPhases, SecondTaskOnlyByRebase, Actionable
  <2>3. BranchFits /\ CapturesFit /\ OwnersFit /\ LandingRecoverable
    BY <1>3 DEF BranchFits, CapturesFit, OwnersFit, LandingRecoverable
  <2> QED BY <2>1, <2>2, <2>3 DEF Core
<1>8. HolderFits
  BY <1>1 DEF HolderFits, Free
<1> QED BY <1>6, <1>7, <1>8 DEF IInv

LEMMA TaskCallKeeps == ASSUME IInv, NEW t \in Tasks, TaskCall(t) PROVE IInv'
<1>1. CASE \E a \in Agents : DispatchLane(t, a)
  BY <1>1, DispatchLaneKeeps
<1>2. CASE SubmitPublish(t)
  BY <1>2, SubmitKeeps
<1>3. CASE \E dec \in {"accept", "reject"} : TaskExecutionReviewDecide(t, dec)
  BY <1>3, ReviewKeeps
<1>4. CASE \E stage \in Stages : TaskExecutionRework(t, stage)
  BY <1>4, ReworkKeeps
<1>5. CASE TaskExecutionBlock(t) \/ TaskExecutionResume(t)
  BY <1>5, BlockKeeps, ResumeKeeps
<1>6. CASE RefreshLane(t) \/ ResetBegin(t) \/ ResetResume(t)
  BY <1>6, RefreshLaneKeeps, ResetBeginKeeps, ResetResumeKeeps
<1>7. CASE TestAdmit(t) \/ TestRun(t) \/ TestFail(t) \/ TestFinish(t)
  BY <1>7, TestAdmitKeeps, TestRunKeeps, TestFinishKeeps
<1>8. CASE \/ HistoricalAdmit(t, "legacy") \/ HistoricalAdmit(t, "bootstrap_full")
           \/ DebugReconcileBootstrappedTask(t)
  BY <1>8, HistoricalAdmitKeeps
<1>9. CASE DebugReconcilePreExecutionTask(t)
  BY <1>9, PreExecutionAdmitKeeps
<1>10. CASE \E mode \in {"non_code", "integrated", "historical"} : TaskComplete(t, mode)
  BY <1>10, TaskCompleteKeeps
<1> QED BY <1>1, <1>2, <1>3, <1>4, <1>5, <1>6, <1>7, <1>8, <1>9, <1>10 DEF TaskCall

LEMMA NextInv == IInv /\ [Next]_vars => IInv'
<1> SUFFICES ASSUME IInv, [Next]_vars PROVE IInv'
  OBVIOUS
<1>1. CASE HandlerStep
  BY <1>1, DispatchRecordKeeps, DispatchUndoKeeps, SubmitRecordKeeps, RefreshRecordKeeps,
     ResetRemoveKeeps, ResetFinishKeeps, ResetRefuseKeeps, VerifyRecordKeeps, ReconcileLaneKeeps,
     ReconcileRecordKeeps, IntegrateCaptureKeeps, IntegratePrepareKeeps, IntegrateCheckKeeps,
     IntegratePushKeeps, IntegrateRereadKeeps, IntegrateRecordKeeps, HistoricalRecordKeeps,
     PreExecutionRecordKeeps DEF HandlerStep
<1>2. CASE \E t \in Tasks : TaskCall(t)
  BY <1>2, TaskCallKeeps
<1>3. CASE \E o \in Ops : IntegrateRequest(o) \/ IntegrateStart(o)
  BY <1>3, IntegrateRequestKeeps, IntegrateStartKeeps
<1>4. CASE Environment
  BY <1>4, WorkerKeeps, PushOutsideKeeps, WorldKeeps, CrashKeeps, HandlerFaultKeeps DEF Environment
<1>5. CASE UNCHANGED vars
  BY <1>5, StutterKeeps
<1> QED BY <1>1, <1>2, <1>3, <1>4, <1>5 DEF Next

\* Whatever calls, crashes, faults, retries and pushes come, the tables, the
\* lanes, the branch and the captures fit together, and the holder of
\* taskExecutionMu finds what it read before its last durable write.
THEOREM Invariance == Spec => []IInv
<1>1. Init => IInv
  BY InitInv
<1>2. IInv /\ [Next]_vars => IInv'
  BY NextInv
<1> QED BY <1>1, <1>2, PTL DEF Spec

\* The tables, the branch, the lanes and the Operations keep their shape, and a
\* row is never behind its own phases and receipts or ahead of the branch.
THEOREM TaskTypeCorrect == Spec => []TypeOK
<1>1. IInv => TypeOK
  BY DEF IInv
<1> QED BY <1>1, Invariance, PTL

\* ensureWorkerActionableSlot, asked for by every handler that opens a Task but
\* the controlled rebase, leaves a Worker with one open Task: of two, one was
\* opened by reconcileTaskExecutionBase.
THEOREM SecondTaskNeedsRebase == Spec => []SecondTaskOnlyByRebase
<1>1. IInv => SecondTaskOnlyByRebase
  BY DEF IInv, Core
<1> QED BY <1>1, Invariance, PTL

\* task/integrate: a commit that is on the default branch and not recorded yet
\* is in the write-ahead capture of an Operation of its Task, and the capture
\* binds the row, so no crash or lost answer strands it, unless two Operations
\* integrate the Task.
THEOREM LandingsAreRecoverable == Spec => []LandingRecoverable
<1>1. IInv => LandingRecoverable
  BY DEF IInv, Core
<1> QED BY <1>1, Invariance, PTL

-----------------------------------------------------------------------------
(* The canonical branch.  The handlers implement it: what is landed was    *)
(* proven, what is recorded has landed, what is closed was recorded.  That *)
(* takes one thing more than the invariant above: that a candidate         *)
(* descends from the base its row names, which no handler but task/submit  *)
(* looks at.                                                               *)

-----------------------------------------------------------------------------
(* A candidate descends from its base.                                     *)

\* The statuses a row takes after a submission was recorded.
Reviewable == {"awaiting_review", "ready_for_verification", "verifying", "verified",
               "integrating"}

\* A failed controlled rebase moves the base ahead of the candidate and of the
\* lane: only then may they be behind, and no submission is recorded before
\* the lane has caught up.
RowBased(s, l, rs) ==
  /\ s.stage # "rebase" => s.base <= s.head.base /\ (l # None => s.base <= l.head.base)
  /\ s.status \in Reviewable => s.base <= s.head.base
  /\ \A i \in DOMAIN rs : rs[i].base = rs[i].head.base
Descends ==
  \A t \in Tasks : st[t] # None => Strayed(t) \/ RowBased(st[t], lane[t], rcpt[t])
Rebased ==
  \A t \in Tasks : st[t] # None /\ st[t].stage = "rebase" =>
    \E p \in Evidence(t) : p.note = "reconcile"

\* The holder of the mutex moved or read the lane on that base.
Ahead(b, l) == l # None => b <= l.head.base
HolderBased ==
  LET t == mu.t
      x == mu.x
  IN
  /\ mu.h = "dispatch" => Ahead(x.base, lane[t])
  /\ mu.h = "submit" => Strayed(t) \/ st[t].base <= x.base
  /\ mu.h = "refresh" /\ st[t].stage # "rebase" => Ahead(x, lane[t])
  /\ mu.h = "verify" => Strayed(t) \/ st[t].base = st[t].head.base
  /\ mu.h = "reconcile" => st[t].base <= IF mu.pc = "lane" THEN x ELSE x.base

\* A Procedure runs on the default branch its Task is based on.
RunsBased ==
  /\ ver = [t \in Tasks |-> ver[t]]
  /\ \A t \in Tasks : ver[t] # None => ver[t].id.base = ver[t].id.canonical

Based == Descends /\ Rebased /\ HolderBased /\ RunsBased

-----------------------------------------------------------------------------
(* Frames.                                                                 *)

\* No phase row is taken back.
Grows == \A t \in Tasks : Evidence(t) \subseteq Evidence(t)'

LEMMA StrayedStays == ASSUME Grows, NEW t \in Tasks, Strayed(t) PROVE Strayed(t)'
<1>1. Evidence(t) \subseteq Evidence(t)'
  BY DEF Grows
<1> QED BY <1>1 DEF Strayed

LEMMA PhaseAdded ==
  ASSUME TypeOK, NEW t \in Tasks, NEW p, ph' = [ph EXCEPT ![t] = Append(@, p)]
  PROVE  /\ Evidence(t)' = Evidence(t) \cup {p}
         /\ \A u \in Tasks \ {t} : Evidence(u)' = Evidence(u)
         /\ Grows
<1> DEFINE T == PhaseRecord \cup {p}
<1>1. ph \in [Tasks -> Seq(PhaseRecord)]
  BY DEF TypeOK
<1>2. ph'[t] = Append(ph[t], p) /\ \A u \in Tasks \ {t} : ph'[u] = ph[u]
  BY <1>1
<1> DEFINE s == ph[t]
<1>3. s \in Seq(PhaseRecord)
  BY <1>1
<1> HIDE DEF s
<1>4. s \in Seq(T)
  BY <1>3
<1> DEFINE q == Append(s, p)
<1>5. /\ DOMAIN q = 1..(Len(s) + 1) /\ DOMAIN s = 1..Len(s) /\ Len(s) \in Nat
      /\ q[Len(s) + 1] = p /\ \A i \in 1..Len(s) : q[i] = s[i]
  BY <1>4
<1> HIDE DEF q
<1>6. {q[i] : i \in DOMAIN q} = {s[i] : i \in DOMAIN s} \cup {p}
  BY <1>5
<1>7. Evidence(t)' = Evidence(t) \cup {p}
  BY <1>2, <1>6 DEF Evidence, q, s
<1>8. \A u \in Tasks \ {t} : Evidence(u)' = Evidence(u)
  BY <1>2 DEF Evidence
<1> QED BY <1>7, <1>8 DEF Grows

LEMMA PhasesKept == ASSUME ph' = ph PROVE Grows /\ \A t \in Tasks : Evidence(t)' = Evidence(t)
BY DEF Grows, Evidence

\* Only the row, the lane and the receipts of t change.
Only(t) == \A u \in Tasks \ {t} : st'[u] = st[u] /\ lane'[u] = lane[u] /\ rcpt'[u] = rcpt[u]

LEMMA RowStep ==
  ASSUME Descends, Rebased, Grows, NEW t \in Tasks, Only(t),
         st'[t] # None => Strayed(t)' \/ RowBased(st'[t], lane'[t], rcpt'[t]),
         st'[t] # None /\ st'[t].stage = "rebase" => \E p \in Evidence(t)' : p.note = "reconcile"
  PROVE  Descends' /\ Rebased'
<1>1. ASSUME NEW u \in Tasks, st'[u] # None
      PROVE  Strayed(u)' \/ RowBased(st'[u], lane'[u], rcpt'[u])
  <2>1. CASE u = t
    BY <1>1, <2>1
  <2>2. CASE u # t
    BY <1>1, <2>2, StrayedStays DEF Descends, Only
  <2> QED BY <2>1, <2>2
<1>2. ASSUME NEW u \in Tasks, st'[u] # None, st'[u].stage = "rebase"
      PROVE  \E p \in Evidence(u)' : p.note = "reconcile"
  <2>1. CASE u = t
    BY <1>2, <2>1
  <2>2. CASE u # t
    BY <1>2, <2>2 DEF Rebased, Only, Grows
  <2> QED BY <2>1, <2>2
<1>3. Descends'
  BY <1>1 DEF Descends, RowBased
<1> QED BY <1>2, <1>3 DEF Rebased

\* A lane that only its Worker moves keeps its base, or takes the one its row
\* names while the Task is being rebased.
LaneKept(t) ==
  \/ lane'[t] = lane[t]
  \/ /\ lane[t] # None /\ lane'[t] # None /\ lane'[t].head.base = lane[t].head.base
  \/ /\ st[t] # None /\ st[t].stage = "rebase" /\ Actionable(st[t])

LEMMA RowsQuiet ==
  ASSUME Descends, Rebased, st' = st, ph' = ph, rcpt' = rcpt, \A t \in Tasks : LaneKept(t)
  PROVE  Descends' /\ Rebased'
<1>1. Grows /\ \A t \in Tasks : Evidence(t)' = Evidence(t)
  BY PhasesKept
<1>2. ASSUME NEW t \in Tasks, st'[t] # None
      PROVE  Strayed(t)' \/ RowBased(st'[t], lane'[t], rcpt'[t])
  BY <1>1, <1>2, StrayedStays DEF Descends, RowBased, LaneKept
<1>3. Descends'
  BY <1>2 DEF Descends, RowBased
<1> QED BY <1>1, <1>3 DEF Rebased

LEMMA HolderQuiet ==
  ASSUME HolderFits, HolderBased, mu' = mu, st' = st, ph' = ph, \A t \in Tasks : LaneKept(t)
  PROVE  HolderBased'
<1>1. Grows
  BY PhasesKept
<1> DEFINE t == mu.t
           x == mu.x
<1>2. mu.h = "dispatch" => Ahead(x.base, lane'[t])
  <2> SUFFICES ASSUME mu.h = "dispatch" PROVE Ahead(x.base, lane'[t])
    OBVIOUS
  <2>1. t \in Tasks /\ (st[t] # None => st[t].status = "abandoned")
    BY DEF HolderFits, DispatchFits, Status
  <2> QED BY <2>1 DEF HolderBased, LaneKept, Actionable, Ahead
<1>3. mu.h = "submit" => Strayed(t)' \/ st[t].base <= x.base
  BY <1>1, StrayedStays DEF HolderBased, HolderFits
<1>4. mu.h = "refresh" /\ st[t].stage # "rebase" => Ahead(x, lane'[t])
  BY DEF HolderBased, HolderFits, LaneKept, Ahead
<1>5. mu.h = "verify" => Strayed(t)' \/ st[t].base = st[t].head.base
  BY <1>1, StrayedStays DEF HolderBased, HolderFits
<1>6. mu.h = "reconcile" => st[t].base <= IF mu.pc = "lane" THEN x ELSE x.base
  BY DEF HolderBased
<1> QED BY <1>2, <1>3, <1>4, <1>5, <1>6 DEF HolderBased, Ahead

\* Holders that rely on no base.
LEMMA HolderElse ==
  ASSUME mu'.h = "free" \/ mu'.h = "reset" \/ mu'.h = "integrate" \/ mu'.h = "historical"
         \/ mu'.h = "pre_execution"
  PROVE  HolderBased'
BY DEF HolderBased

LEMMA RunsKept == ASSUME RunsBased, ver' = ver PROVE RunsBased'
BY DEF RunsBased

LEMMA RunEnded ==
  ASSUME RunsBased, NEW t \in Tasks, ver' = [ver EXCEPT ![t] = None] PROVE RunsBased'
BY DEF RunsBased

\* A handler gives the row of t another status.
LEMMA StatusStep ==
  ASSUME TypeOK, Core, Descends, Rebased, NEW t \in Tasks, st[t] # None, NEW status \in Statuses,
         status \in Reviewable => st[t].status \in Reviewable,
         st' = [st EXCEPT ![t] = Step(t, status)], Grows, lane' = lane, rcpt' = rcpt
  PROVE  Descends' /\ Rebased'
<1> DEFINE s == Step(t, status)
<1>1. /\ s.status = status /\ s.stage = st[t].stage /\ s.base = st[t].base /\ s.head = st[t].head
      /\ st[t] \in StateRecord
  BY Stepped
<1>2. st'[t] = s /\ \A u \in Tasks \ {t} : st'[u] = st[u]
  BY DEF TypeOK
<1> HIDE DEF s
<1>3. Only(t)
  BY <1>2 DEF Only
<1>4. Strayed(t)' \/ RowBased(s, lane[t], rcpt[t])
  <2>1. CASE Strayed(t)
    BY <2>1, StrayedStays
  <2>2. CASE RowBased(st[t], lane[t], rcpt[t])
    BY <1>1, <2>2 DEF RowBased
  <2> QED BY <2>1, <2>2 DEF Descends
<1>5. s.stage = "rebase" => \E p \in Evidence(t)' : p.note = "reconcile"
  BY <1>1 DEF Rebased, Grows
<1> QED BY <1>2, <1>3, <1>4, <1>5, RowStep

\* The same with a phase row, by a call or by the holder, who then is done.
LEMMA TransitionBased ==
  ASSUME IInv, Based, NEW t \in Tasks, st[t] # None, NEW status \in Statuses,
         status \in Reviewable => st[t].status \in Reviewable,
         NEW p, TransitionWith(t, Step(t, status), p),
         UNCHANGED <<lane, rcpt, ver>>, HolderBased'
  PROVE  Based'
<1>1. Grows
  BY PhaseAdded DEF TransitionWith, IInv
<1>2. Descends' /\ Rebased'
  BY <1>1, StatusStep DEF IInv, Based, TransitionWith, UpdateState
<1> QED BY <1>2, RunsKept DEF Based

LEMMA UpdateBased ==
  ASSUME IInv, Based, NEW t \in Tasks, st[t] # None, NEW status \in Statuses,
         status \in Reviewable => st[t].status \in Reviewable,
         UpdateState(t, Step(t, status)), UNCHANGED <<ph, lane, rcpt, ver>>, HolderBased'
  PROVE  Based'
<1>1. Grows
  BY PhasesKept
<1>2. Descends' /\ Rebased'
  BY <1>1, StatusStep DEF IInv, Based, UpdateState
<1> QED BY <1>2, RunsKept DEF Based

\* Nothing that the invariant speaks of, but the holder or the runs.
LEMMA QuietBased ==
  ASSUME Based, UNCHANGED <<st, ph, rcpt, lane>>, HolderBased', RunsBased' PROVE Based'
BY RowsQuiet DEF Based, LaneKept

LEMMA HolderIdle ==
  ASSUME IInv, Based, mu' = mu, UNCHANGED <<st, ph, lane>> PROVE HolderBased'
BY HolderQuiet DEF IInv, Based, LaneKept

LEMMA FreeBased == ASSUME mu' = Free PROVE HolderBased'
BY HolderElse DEF Free

-----------------------------------------------------------------------------
(* Steps that write no row and move no lane.                               *)

LEMMA AsideBased ==
  ASSUME IInv, Based, UNCHANGED <<st, ph, rcpt, lane>>,
         ver' = ver \/ (\E t \in Tasks : ver' = [ver EXCEPT ![t] = None])
           \/ ver' = [t \in Tasks |-> None],
         mu' = mu \/ mu' = Free \/ mu'.h = "reset" \/ mu'.h = "integrate"
           \/ mu'.h = "historical" \/ mu'.h = "pre_execution"
  PROVE  Based'
<1>1. HolderBased'
  BY HolderIdle, FreeBased, HolderElse
<1>2. RunsBased'
  <2>1. CASE ver' = [t \in Tasks |-> None]
    BY <2>1 DEF RunsBased
  <2> QED BY <2>1, RunsKept, RunEnded DEF Based
<1> QED BY <1>1, <1>2, QuietBased

LEMMA CallsAsideBased ==
  ASSUME IInv, Based, NEW t \in Tasks,
         \/ ResetResume(t) \/ TestAdmit(t) \/ TestFail(t) \/ JournalAppend(t) \/ LandByHand(t)
         \/ (\E prof : HistoricalAdmit(t, prof))
         \/ DebugReconcileBootstrappedTask(t) \/ DebugReconcilePreExecutionTask(t)
  PROVE  Based'
<1>1. UNCHANGED <<st, ph, rcpt, lane>>
  BY DEF ResetResume, TestAdmit, TestFail, JournalAppend, LandByHand, HistoricalAdmit,
         DebugReconcileBootstrappedTask, DebugReconcilePreExecutionTask, tables, git
<1>2. ver' = ver \/ ver' = [ver EXCEPT ![t] = None]
  BY DEF ResetResume, TestAdmit, TestFail, EndTest, JournalAppend, LandByHand, HistoricalAdmit,
         DebugReconcileBootstrappedTask, DebugReconcilePreExecutionTask
<1>3. mu' = mu \/ mu'.h = "reset" \/ mu'.h = "historical" \/ mu'.h = "pre_execution"
  BY DEF ResetResume, TestAdmit, TestFail, JournalAppend, LandByHand, HistoricalAdmit,
         DebugReconcileBootstrappedTask, DebugReconcilePreExecutionTask, Hold
<1> QED BY <1>1, <1>2, <1>3, AsideBased

LEMMA StepsAsideBased ==
  ASSUME IInv, Based,
         \/ ResetRefuse \/ IntegrateCapture \/ IntegratePrepare \/ IntegratePush
         \/ ForeignPush \/ ProfileChange \/ HandlerFault \/ Crash
         \/ (\E o \in Ops : IntegrateRequest(o)) \/ UNCHANGED vars
  PROVE  Based'
<1>1. UNCHANGED <<st, ph, rcpt, lane>>
  BY DEF ResetRefuse, IntegrateCapture, IntegratePrepare, IntegratePush, ForeignPush,
         ProfileChange, HandlerFault, Crash, IntegrateRequest, vars, tables, git
<1>2. ver' = ver \/ ver' = [t \in Tasks |-> None]
  BY DEF ResetRefuse, IntegrateCapture, IntegratePrepare, IntegratePush, ForeignPush,
         ProfileChange, HandlerFault, Crash, IntegrateRequest, vars
<1>3. mu' = mu \/ mu' = Free \/ mu'.h = "integrate"
  <2>1. CASE IntegrateCapture \/ IntegratePrepare
    BY <2>1 DEF IntegrateCapture, IntegratePrepare, Hold
  <2>2. CASE IntegratePush
    BY <2>2 DEF IntegratePush, Hold
  <2>3. CASE ResetRefuse \/ HandlerFault \/ Crash
    BY <2>3 DEF ResetRefuse, HandlerFault, Crash, Release
  <2>4. CASE ForeignPush \/ ProfileChange \/ (\E o \in Ops : IntegrateRequest(o))
             \/ UNCHANGED vars
    BY <2>4 DEF ForeignPush, ProfileChange, IntegrateRequest, vars
  <2> QED BY <2>1, <2>2, <2>3, <2>4
<1> QED BY <1>1, <1>2, <1>3, AsideBased

-----------------------------------------------------------------------------
(* Steps that move a lane.                                                 *)

LEMMA LaneStep ==
  ASSUME IInv, Based, NEW t \in Tasks, NEW l,
         lane' = [lane EXCEPT ![t] = l], UNCHANGED <<st, ph, rcpt, ver>>,
         st[t] # None /\ st[t].stage # "rebase" => Strayed(t) \/ Ahead(st[t].base, l),
         HolderBased'
  PROVE  Based'
<1>1. lane'[t] = l /\ \A u \in Tasks \ {t} : lane'[u] = lane[u]
  BY DEF IInv, TypeOK
<1>2. Grows /\ \A u \in Tasks : Evidence(u)' = Evidence(u)
  BY PhasesKept
<1>3. Only(t)
  BY <1>1 DEF Only
<1>4. st[t] # None => Strayed(t)' \/ RowBased(st[t], l, rcpt[t])
  BY <1>2, StrayedStays DEF Based, Descends, RowBased, Ahead
<1>5. st[t] # None /\ st[t].stage = "rebase" => \E p \in Evidence(t)' : p.note = "reconcile"
  BY <1>2 DEF Based, Rebased
<1>6. Descends' /\ Rebased'
  BY <1>1, <1>2, <1>3, <1>4, <1>5, RowStep DEF Based
<1> QED BY <1>6, RunsKept DEF Based

LEMMA BaseTyped ==
  ASSUME IInv, NEW t \in Tasks, st[t] # None
  PROVE  /\ st[t] \in StateRecord /\ st[t].base \in Nat /\ st[t].head \in CommitRecord
         /\ st[t].head.base \in Nat /\ st[t].base <= Canonical /\ st[t].head.base <= Canonical
         /\ Canonical \in Nat
<1>1. st[t] \in StateRecord /\ st[t].base <= Canonical /\ canon \in Seq(LandingRecord)
  BY DEF IInv, TypeOK
<1>2. Fits(st[t].head, load.work)
  BY DEF IInv, Core, RowsFit
<1> QED BY <1>1, <1>2 DEF StateRecord, CommitRecord, Canonical, Fits

LEMMA DispatchLaneBased ==
  ASSUME IInv, Based, NEW t \in Tasks, NEW a \in Agents, DispatchLane(t, a) PROVE Based'
<1> DEFINE l == NewLane(Canonical)
<1>1. /\ lane' = [lane EXCEPT ![t] = l] /\ UNCHANGED <<st, ph, rcpt, ver, canon>>
      /\ mu' = [h |-> "dispatch", t |-> t, pc |-> "created",
                x |-> [agent |-> a, base |-> Canonical]]
  BY DEF DispatchLane, tables, Hold
<1>2. lane'[t] = l /\ l.head.base = Canonical
  BY <1>1 DEF IInv, TypeOK, NewLane, Commit
<1>3. Canonical \in Nat
  BY DEF IInv, TypeOK, Canonical
<1>4. Ahead(Canonical, l)
  BY <1>2, <1>3 DEF Ahead
<1>5. HolderBased'
  BY <1>1, <1>2, <1>4 DEF HolderBased
<1>6. st[t] # None => Ahead(st[t].base, l)
  BY <1>2, BaseTyped DEF Ahead
<1> HIDE DEF l
<1> QED BY <1>1, <1>5, <1>6, LaneStep

LEMMA DispatchUndoBased == ASSUME IInv, Based, DispatchUndo PROVE Based'
<1> DEFINE t == mu.t
           l == IF lane[t] = NewLane(mu.x.base) THEN None ELSE lane[t]
<1>1. t \in Tasks
  BY DEF DispatchUndo, IInv, HolderFits, DispatchFits
<1>2. /\ lane' = [lane EXCEPT ![t] = l] /\ UNCHANGED <<st, ph, rcpt, ver>> /\ mu' = Free
  BY <1>1 DEF DispatchUndo, tables, Release
<1>3. st[t] # None /\ st[t].stage # "rebase" => Strayed(t) \/ Ahead(st[t].base, l)
  BY <1>1 DEF Based, Descends, RowBased, Ahead
<1> HIDE DEF t, l
<1> QED BY <1>1, <1>2, <1>3, FreeBased, LaneStep

LEMMA RefreshLaneBased == ASSUME IInv, Based, NEW t \in Tasks, RefreshLane(t) PROVE Based'
<1> DEFINE l == [lane[t] EXCEPT !.head = Commit(Canonical, 0)]
<1>1. /\ lane' = [lane EXCEPT ![t] = l] /\ UNCHANGED <<st, ph, rcpt, ver, canon>>
      /\ mu' = [h |-> "refresh", t |-> t, pc |-> "moved", x |-> Canonical]
      /\ lane[t] # None
  BY DEF RefreshLane, tables, Hold, git
<1>2. lane[t] \in LaneRecord
  BY <1>1 DEF IInv, TypeOK
<1>3. l.head.base = Canonical
  BY <1>2 DEF LaneRecord, Commit
<1>4. lane'[t] = l
  BY <1>1 DEF IInv, TypeOK
<1>5. Canonical \in Nat
  BY DEF IInv, TypeOK, Canonical
<1>6. Ahead(Canonical, l) /\ (st[t] # None => Ahead(st[t].base, l))
  BY <1>3, <1>5, BaseTyped DEF Ahead
<1> HIDE DEF l
<1>7. HolderBased'
  BY <1>1, <1>4, <1>6 DEF HolderBased
<1> QED BY <1>1, <1>6, <1>7, LaneStep

LEMMA ResetRemoveBased == ASSUME IInv, Based, ResetRemove PROVE Based'
<1>1. mu.t \in Tasks
  BY DEF ResetRemove, IInv, HolderFits
<1>2. /\ lane' = [lane EXCEPT ![mu.t] = None] /\ UNCHANGED <<st, ph, rcpt, ver>>
      /\ mu'.h = "reset"
  BY DEF ResetRemove, tables, Hold
<1>3. HolderBased'
  BY <1>2, HolderElse
<1> QED BY <1>1, <1>2, <1>3, LaneStep DEF Ahead

LEMMA ReconcileLaneBased == ASSUME IInv, Based, ReconcileLane PROVE Based'
<1> DEFINE t == mu.t
<1>1. /\ t \in Tasks /\ st[t] # None /\ lane[t] # None /\ mu.h = "reconcile" /\ mu.pc = "lane"
  BY DEF ReconcileLane, IInv, HolderFits, ReconcileFits
<1>2. st[t].base <= mu.x
  BY <1>1 DEF Based, HolderBased
<1>3. UNCHANGED <<st, ph, rcpt, ver>>
  BY DEF ReconcileLane, tables
<1>4. PICK ok, mid \in BOOLEAN :
        /\ lane' = [lane EXCEPT ![t] =
             [head |-> IF ok THEN Commit(mu.x, lane[t].head.n) ELSE lane[t].head, mid |-> mid]]
        /\ mu' = [h |-> "reconcile", t |-> t, pc |-> IF ok THEN "moved" ELSE "failed",
                  x |-> Commit(mu.x, lane[t].head.n)]
  BY <1>1 DEF ReconcileLane, Hold, IInv, TypeOK
<1> DEFINE l == [head |-> IF ok THEN Commit(mu.x, lane[t].head.n) ELSE lane[t].head, mid |-> mid]
<1>5. l.head.base = mu.x \/ l.head.base = lane[t].head.base
  BY DEF Commit
<1>6. HolderBased'
  BY <1>2, <1>3, <1>4 DEF HolderBased, Commit
<1>7. st[t].stage # "rebase" => Strayed(t) \/ Ahead(st[t].base, l)
  BY <1>1, <1>2, <1>5 DEF Based, Descends, RowBased, Ahead
<1>8. lane' = [lane EXCEPT ![t] = l]
  BY <1>4
<1> HIDE DEF l, t
<1> QED BY <1>1, <1>3, <1>6, <1>7, <1>8, LaneStep

LEMMA WorkerBased ==
  ASSUME IInv, Based, NEW t \in Tasks, WorkerCommit(t) \/ WorkerRebase(t) PROVE Based'
<1>1. UNCHANGED <<st, ph, rcpt, ver, mu>> /\ lane[t] \in LaneRecord /\ lane[t] # None
  BY DEF WorkerCommit, WorkerRebase, tables, IInv, TypeOK
<1>2. \A u \in Tasks \ {t} : lane'[u] = lane[u]
  BY DEF WorkerCommit, WorkerRebase, IInv, TypeOK
<1>3. LaneKept(t)
  <2>1. CASE WorkerRebase(t)
    BY <2>1 DEF WorkerRebase, LaneKept
  <2>2. CASE WorkerCommit(t)
    <3> DEFINE l == [lane[t] EXCEPT !.head.n = lane[t].head.n + 1]
    <3>1. lane'[t] = l
      BY <2>2 DEF WorkerCommit, IInv, TypeOK
    <3>2. l \in LaneRecord /\ l.head.base = lane[t].head.base
      BY <1>1 DEF LaneRecord, CommitRecord
    <3>3. l # None
      BY <3>2, ShapeAssumption
    <3> QED BY <1>1, <3>1, <3>2, <3>3 DEF LaneKept
  <2> QED BY <2>1, <2>2
<1>4. \A u \in Tasks : LaneKept(u)
  BY <1>2, <1>3 DEF LaneKept
<1>5. HolderBased'
  BY <1>1, <1>4, HolderQuiet DEF IInv, Based
<1> QED BY <1>1, <1>4, <1>5, RowsQuiet, RunsKept DEF Based

-----------------------------------------------------------------------------
(* Steps that write a row.                                                 *)

\* A row of t is written that need not be a step of the one before.
LEMMA RowWritten ==
  ASSUME IInv, Based, NEW t \in Tasks, NEW s, st' = [st EXCEPT ![t] = s], Grows,
         UNCHANGED <<lane, rcpt, ver>>, mu' = Free,
         Strayed(t)' \/ RowBased(s, lane[t], rcpt[t]),
         s.stage = "rebase" => \E p \in Evidence(t)' : p.note = "reconcile"
  PROVE  Based'
<1>1. st'[t] = s /\ \A u \in Tasks \ {t} : st'[u] = st[u]
  BY DEF IInv, TypeOK
<1>2. Only(t)
  BY <1>1 DEF Only
<1>3. Descends' /\ Rebased'
  BY <1>1, <1>2, RowStep DEF Based
<1> QED BY <1>3, FreeBased, RunsKept DEF Based

LEMMA DispatchRecordBased == ASSUME IInv, Based, DispatchRecord PROVE Based'
<1>1. PICK t \in Tasks : t = mu.t /\ mu.h = "dispatch" /\ mu.x.base \in 0..Canonical
  BY DEF DispatchRecord, IInv, HolderFits, DispatchFits
<1> DEFINE s == [status |-> "dispatched", stage |-> "code", base |-> mu.x.base,
                 head |-> Commit(mu.x.base, 0), agent |-> mu.x.agent,
                 rev |-> IF st[t] = None THEN 1 ELSE st[t].rev + 1]
<1>2. /\ st' = [st EXCEPT ![t] = s] /\ UNCHANGED <<ph, rcpt, lane, ver>> /\ mu' = Free
  BY <1>1 DEF DispatchRecord, UpdateState, Release, git
<1>3. Grows
  BY <1>2, PhasesKept
<1>4. Ahead(mu.x.base, lane[t])
  BY <1>1 DEF Based, HolderBased
<1>5. Strayed(t)' \/ \A i \in DOMAIN rcpt[t] : rcpt[t][i].base = rcpt[t][i].head.base
  <2>1. CASE st[t] = None
    BY <1>1, <2>1 DEF IInv, Core, ReceiptsFit
  <2>2. CASE st[t] # None
    BY <1>1, <1>3, <2>2, StrayedStays DEF Based, Descends, RowBased
  <2> QED BY <2>1, <2>2
<1>6. s.stage = "code" /\ s.status = "dispatched" /\ s.base = mu.x.base /\ s.head.base = mu.x.base
  BY DEF Commit
<1>7. mu.x.base \in Nat
  BY <1>1
<1> HIDE DEF s
<1>8. Strayed(t)' \/ RowBased(s, lane[t], rcpt[t])
  BY <1>4, <1>5, <1>6, <1>7 DEF RowBased, Ahead, Reviewable
<1> QED BY <1>1, <1>2, <1>3, <1>6, <1>8, RowWritten

LEMMA SubmitBased == ASSUME IInv, Based, NEW t \in Tasks, SubmitPublish(t) PROVE Based'
<1>1. /\ UNCHANGED <<st, ph, rcpt, lane, ver>> /\ st[t] # None /\ lane[t] # None
      /\ mu' = [h |-> "submit", t |-> t, pc |-> "published", x |-> lane[t].head]
      /\ st[t].stage = "rebase" => RebaseReady(t)
  BY DEF SubmitPublish, tables, Hold
<1>2. Strayed(t) \/ st[t].base <= lane[t].head.base
  <2>1. CASE st[t].stage = "rebase"
    <3>1. Ancestor(Commit(st[t].base, 0), lane[t].head)
      BY <1>1, <2>1 DEF RebaseReady
    <3> QED BY <3>1 DEF Ancestor, Commit
  <2>2. CASE st[t].stage # "rebase"
    BY <1>1, <2>2 DEF Based, Descends, RowBased
  <2> QED BY <2>1, <2>2
<1>3. Grows
  BY <1>1, PhasesKept
<1>4. Strayed(t)' \/ st'[t].base <= lane[t].head.base
  BY <1>1, <1>2, <1>3, StrayedStays
<1>5. HolderBased'
  BY <1>1, <1>4 DEF HolderBased
<1> QED BY <1>1, <1>5, QuietBased, RunsKept DEF Based

LEMMA SubmitRecordBased == ASSUME IInv, Based, SubmitRecord PROVE Based'
<1>1. PICK t \in Tasks : t = mu.t /\ st[t] # None /\ mu.h = "submit"
  BY DEF SubmitRecord, IInv, HolderFits
<1> DEFINE s == [Step(t, "awaiting_review") EXCEPT !.head = mu.x]
<1>2. /\ st' = [st EXCEPT ![t] = s]
      /\ ph' = [ph EXCEPT ![t] = Append(@, Phase(s, "submission", "", ""))]
      /\ UNCHANGED <<rcpt, lane, ver>> /\ mu' = Free
  BY <1>1 DEF SubmitRecord, Transition, TransitionWith, UpdateState, Release, git
<1>3. Grows
  BY <1>1, <1>2, PhaseAdded DEF IInv
<1>4. "awaiting_review" \in Statuses
  BY StatusNames
<1>5. /\ s.status = "awaiting_review" /\ s.stage = st[t].stage /\ s.base = st[t].base
      /\ s.head = mu.x
  BY <1>1, <1>4, Stepped DEF IInv
<1>6. Strayed(t) \/ st[t].base <= mu.x.base
  BY <1>1 DEF Based, HolderBased
<1>7. Strayed(t)' \/ RowBased(s, lane[t], rcpt[t])
  <2>1. CASE Strayed(t)
    BY <1>1, <1>3, <2>1, StrayedStays
  <2>2. CASE RowBased(st[t], lane[t], rcpt[t]) /\ st[t].base <= mu.x.base
    <3> HIDE DEF s
    <3> QED BY <1>5, <2>2 DEF RowBased
  <2> QED BY <1>1, <1>6, <2>1, <2>2 DEF Based, Descends
<1> HIDE DEF s
<1>8. s.stage = "rebase" => \E p \in Evidence(t)' : p.note = "reconcile"
  BY <1>1, <1>3, <1>5 DEF Based, Rebased, Grows
<1> QED BY <1>1, <1>2, <1>3, <1>7, <1>8, RowWritten

LEMMA RefreshRecordBased == ASSUME IInv, Based, RefreshRecord PROVE Based'
<1>1. PICK t \in Tasks :
        /\ t = mu.t /\ st[t] # None /\ mu.h = "refresh"
        /\ st[t].status \in {"dispatched", "in_progress", "blocked"} /\ mu.x \in 0..Canonical
  BY DEF RefreshRecord, IInv, HolderFits, RefreshFits, Status
<1> DEFINE s == [Step(t, st[t].status) EXCEPT !.base = mu.x, !.head = Commit(mu.x, 0)]
<1>2. /\ st' = [st EXCEPT ![t] = s]
      /\ ph' = [ph EXCEPT ![t] = Append(@, Phase(s, "refresh", "", ""))]
      /\ UNCHANGED <<rcpt, lane, ver>> /\ mu' = Free
  BY <1>1 DEF RefreshRecord, Transition, TransitionWith, UpdateState, Release, git
<1>3. Grows
  BY <1>1, <1>2, PhaseAdded DEF IInv
<1>4. st[t].status \in Statuses
  BY <1>1, StatusNames
<1>5. /\ s.status = st[t].status /\ s.stage = st[t].stage /\ s.base = mu.x
      /\ s.head.base = mu.x
  BY <1>1, <1>4, Stepped DEF IInv, Commit
<1>6. st[t].stage # "rebase" => Ahead(mu.x, lane[t])
  BY <1>1 DEF Based, HolderBased
<1>7. Strayed(t)' \/ RowBased(s, lane[t], rcpt[t])
  <2>1. CASE Strayed(t)
    BY <1>1, <1>3, <2>1, StrayedStays
  <2>2. CASE RowBased(st[t], lane[t], rcpt[t])
    <3>1. mu.x \in Nat
      BY <1>1
    <3> HIDE DEF s
    <3> QED BY <1>1, <1>5, <1>6, <2>2, <3>1 DEF RowBased, Ahead
  <2> QED BY <1>1, <2>1, <2>2 DEF Based, Descends
<1> HIDE DEF s
<1>8. s.stage = "rebase" => \E p \in Evidence(t)' : p.note = "reconcile"
  BY <1>1, <1>3, <1>5 DEF Based, Rebased, Grows
<1> QED BY <1>1, <1>2, <1>3, <1>7, <1>8, RowWritten

LEMMA CallBased ==
  ASSUME IInv, Based, mu = Free, mu' = mu, NEW t \in Tasks, st[t] # None, NEW status \in Statuses,
         status \in Reviewable => st[t].status \in Reviewable,
         NEW kind, NEW dec, Transition(t, Step(t, status), kind, dec),
         UNCHANGED <<lane, rcpt, ver>>
  PROVE  Based'
<1>1. TransitionWith(t, Step(t, status), Phase(Step(t, status), kind, dec, ""))
  BY DEF Transition
<1> QED BY <1>1, FreeBased, TransitionBased

LEMMA ReviewBased ==
  ASSUME IInv, Based, NEW t \in Tasks, NEW dec, TaskExecutionReviewDecide(t, dec) PROVE Based'
<1> DEFINE status == IF dec = "accept" THEN "ready_for_verification" ELSE "changes_requested"
<1>1. /\ mu = Free /\ mu' = mu /\ st[t] # None /\ st[t].status = "awaiting_review"
      /\ Transition(t, Step(t, status), "review", dec) /\ UNCHANGED <<lane, rcpt, ver>>
  BY DEF TaskExecutionReviewDecide, git
<1>2. status \in Statuses /\ "awaiting_review" \in Reviewable
  BY StatusNames DEF Reviewable
<1> HIDE DEF status
<1> QED BY <1>1, <1>2, CallBased

LEMMA ParkBased ==
  ASSUME IInv, Based, NEW t \in Tasks, TaskExecutionBlock(t) \/ TaskExecutionResume(t) PROVE Based'
<1>1. CASE TaskExecutionBlock(t)
  <2>1. /\ mu = Free /\ mu' = mu /\ st[t] # None
        /\ Transition(t, Step(t, "blocked"), "block", st[t].status) /\ UNCHANGED <<lane, rcpt, ver>>
    BY <1>1 DEF TaskExecutionBlock, git, Actionable
  <2>2. "blocked" \in Statuses /\ "blocked" \notin Reviewable
    BY StatusNames DEF Reviewable
  <2> QED BY <2>1, <2>2, CallBased
<1>2. CASE TaskExecutionResume(t)
  <2> DEFINE p == LatestKind(t, {"block", "resume"})
  <2>1. /\ mu = Free /\ mu' = mu /\ st[t] # None /\ p # None /\ p.kind = "block"
        /\ Transition(t, Step(t, p.dec), "resume", p.dec) /\ UNCHANGED <<lane, rcpt, ver>>
    BY <1>2 DEF TaskExecutionResume, git
  <2>2. p \in Evidence(t)
    BY <2>1, LatestKindIn DEF IInv
  <2>3. p.dec \in Parkable
    BY <2>1, <2>2 DEF IInv, Core, BlocksFit
  <2>4. p.dec \in Statuses /\ p.dec \notin Reviewable
    BY <2>3, StatusNames DEF Parkable, Reviewable
  <2> HIDE DEF p
  <2> QED BY <2>1, <2>4, CallBased
<1> QED BY <1>1, <1>2

LEMMA ReworkBased ==
  ASSUME IInv, Based, NEW t \in Tasks, NEW stage \in Stages, TaskExecutionRework(t, stage)
  PROVE  Based'
<1> DEFINE s == [Step(t, "changes_requested") EXCEPT !.stage = stage]
           q == Phase(s, "rework", "", "")
<1>1. /\ mu' = Free /\ st[t] # None
      /\ stage = "rebase" => st[t].stage = "rebase"
      /\ st' = [st EXCEPT ![t] = s] /\ ph' = [ph EXCEPT ![t] = Append(@, q)]
      /\ UNCHANGED <<rcpt, lane, ver>>
  BY DEF TaskExecutionRework, Transition, TransitionWith, UpdateState, git
<1>2. Evidence(t)' = Evidence(t) \cup {q} /\ Grows
  BY <1>1, PhaseAdded DEF IInv
<1>3. "changes_requested" \in Statuses /\ "changes_requested" \notin Reviewable
  BY StatusNames DEF Reviewable
<1>4. /\ s.status = "changes_requested" /\ s.stage = stage /\ s.base = st[t].base
      /\ s.head = st[t].head /\ s.rev = st[t].rev + 1
  <2> DEFINE r == Step(t, "changes_requested")
  <2>1. r = [status |-> "changes_requested", stage |-> st[t].stage, base |-> st[t].base,
             head |-> st[t].head, agent |-> st[t].agent, rev |-> st[t].rev + 1]
    BY <1>1, <1>3, Stepped DEF IInv
  <2> HIDE DEF r
  <2>2. [r EXCEPT !.stage = stage] =
          [status |-> "changes_requested", stage |-> stage, base |-> st[t].base,
           head |-> st[t].head, agent |-> st[t].agent, rev |-> st[t].rev + 1]
    BY <2>1
  <2> QED BY <2>2 DEF r
<1>5. q.kind = "rework" /\ q.stage = stage /\ q.rev = st[t].rev + 1
  BY <1>4 DEF Phase
<1> HIDE DEF s, q
<1>6. Strayed(t)' \/ RowBased(s, lane[t], rcpt[t])
  <2>1. CASE st[t].stage = "rebase" /\ stage # "rebase"
    <3>1. PICK p \in Evidence(t) : p.note = "reconcile"
      BY <1>1, <2>1 DEF Based, Rebased
    <3>2. p.rev <= st[t].rev /\ p \in PhaseRecord /\ st[t] \in StateRecord
      <4>1. p \in PhaseRecord
        BY <3>1, EvidenceTyped DEF IInv
      <4>2. \A r \in Evidence(t) : r.rev <= st[t].rev
        BY DEF IInv, TypeOK
      <4>3. st[t] \in StateRecord
        BY <1>1, BaseTyped
      <4> QED BY <3>1, <4>1, <4>2, <4>3
    <3>3. p.rev < q.rev
      <4>1. p.rev \in Nat /\ st[t].rev \in Nat
        BY <3>2 DEF PhaseRecord, StateRecord
      <4> QED BY <1>5, <3>2, <4>1
    <3> QED BY <1>2, <1>5, <2>1, <3>1, <3>3 DEF Strayed
  <2>2. CASE Strayed(t)
    BY <1>2, <2>2, StrayedStays
  <2>3. CASE RowBased(st[t], lane[t], rcpt[t]) /\ ~(st[t].stage = "rebase" /\ stage # "rebase")
    BY <1>3, <1>4, <2>3 DEF RowBased
  <2> QED BY <1>1, <2>1, <2>2, <2>3 DEF Based, Descends
<1>7. s.stage = "rebase" => \E p \in Evidence(t)' : p.note = "reconcile"
  BY <1>1, <1>2, <1>4 DEF Based, Rebased, Grows
<1> QED BY <1>1, <1>2, <1>6, <1>7, RowWritten

LEMMA ResetBeginBased == ASSUME IInv, Based, NEW t \in Tasks, ResetBegin(t) PROVE Based'
<1>1. /\ st[t] # None /\ mu'.h = "reset" /\ UNCHANGED <<lane, rcpt, ver>>
      /\ TransitionWith(t, Step(t, "resetting"),
                        Phase(Step(t, "resetting"), "reset_start", st[t].status, ""))
  BY DEF ResetBegin, Transition, Hold, git
<1>2. "resetting" \in Statuses /\ "resetting" \notin Reviewable
  BY StatusNames DEF Reviewable
<1> QED BY <1>1, <1>2, HolderElse, TransitionBased

LEMMA ResetFinishBased == ASSUME IInv, Based, ResetFinish PROVE Based'
<1> DEFINE s == Step(mu.t, "abandoned")
           p == Phase(s, "reset", LatestKind(mu.t, {"reset_start"}).dec, "")
<1>1. /\ mu.t \in Tasks /\ st[mu.t] # None
  BY DEF ResetFinish, IInv, HolderFits
<1>2. mu' = Free /\ UNCHANGED <<lane, rcpt, ver>> /\ TransitionWith(mu.t, s, p)
  BY DEF ResetFinish, Transition, Release, git
<1>3. "abandoned" \in Statuses /\ "abandoned" \notin Reviewable
  BY StatusNames DEF Reviewable
<1> HIDE DEF p
<1> QED BY <1>1, <1>2, <1>3, FreeBased, TransitionBased

LEMMA IntegrateRecordBased == ASSUME IInv, Based, IntegrateRecord PROVE Based'
<1> DEFINE s == Step(mu.t, "integrated")
           p == IntegrationPhase(s, iop[mu.x].cap.commit, "")
<1>1. mu.t \in Tasks /\ st[mu.t] # None
  BY DEF IntegrateRecord, IInv, HolderFits
<1>2. mu' = Free /\ UNCHANGED <<lane, rcpt, ver>> /\ TransitionWith(mu.t, s, p)
  BY DEF IntegrateRecord, Release, git
<1>3. "integrated" \in Statuses /\ "integrated" \notin Reviewable
  BY StatusNames DEF Reviewable
<1> HIDE DEF p
<1> QED BY <1>1, <1>2, <1>3, FreeBased, TransitionBased

LEMMA HistoricalRecordBased == ASSUME IInv, Based, HistoricalRecord PROVE Based'
<1> DEFINE s == Step(mu.t, "integrated")
           p == IntegrationPhase(s, mu.x.commit, "historical")
<1>1. mu.t \in Tasks /\ st[mu.t] # None
  BY DEF HistoricalRecord, IInv, HolderFits
<1>2. /\ mu' = Free /\ UNCHANGED <<lane, rcpt, ver>>
      /\ TransitionWith(mu.t, s, p) \/ UNCHANGED <<st, ph>>
  BY DEF HistoricalRecord, Release, git
<1>3. "integrated" \in Statuses /\ "integrated" \notin Reviewable
  BY StatusNames DEF Reviewable
<1> HIDE DEF p
<1>4. CASE UNCHANGED <<st, ph>>
  BY <1>2, <1>4, AsideBased
<1> QED BY <1>1, <1>2, <1>3, <1>4, FreeBased, TransitionBased

LEMMA CompletionBased ==
  ASSUME IInv, Based,
         PreExecutionRecord \/ \E t \in Tasks : \E mode : TaskComplete(t, mode)
  PROVE  Based'
<1>1. "done" \in Statuses /\ "done" \notin Reviewable
  BY StatusNames DEF Reviewable
<1>2. CASE PreExecutionRecord
  <2>1. mu.t \in Tasks /\ st[mu.t] # None
    BY <1>2 DEF PreExecutionRecord, IInv, HolderFits
  <2>2. /\ mu' = Free /\ UNCHANGED <<ph, lane, rcpt, ver>>
        /\ UpdateState(mu.t, Step(mu.t, "done")) \/ UNCHANGED st
    BY <1>2 DEF PreExecutionRecord, Release, git
  <2> QED BY <1>1, <2>1, <2>2, AsideBased, FreeBased, UpdateBased
<1>3. ASSUME NEW t \in Tasks, NEW mode, TaskComplete(t, mode) PROVE Based'
  <2>1. /\ mu' = Free /\ UNCHANGED <<ph, lane, rcpt, ver>>
        /\ (st[t] # None /\ UpdateState(t, Step(t, "done"))) \/ UNCHANGED st
    BY <1>3 DEF TaskComplete, git
  <2> QED BY <1>1, <2>1, AsideBased, FreeBased, UpdateBased
<1> QED BY <1>2, <1>3

\* A claim for integration is taken or released, or nothing is written.
Claims(t) ==
  /\ st[t] # None /\ st[t].status \in {"verified", "integrating"}
  /\ UpdateState(t, Step(t, "verified")) \/ UpdateState(t, Step(t, "integrating"))

LEMMA ClaimBased ==
  ASSUME IInv, Based, NEW t \in Tasks, UNCHANGED st \/ Claims(t),
         mu' = Free \/ (mu = Free /\ mu' = mu) \/ mu'.h = "integrate",
         UNCHANGED <<ph, lane, rcpt, ver>>
  PROVE  Based'
<1>1. /\ "verified" \in Statuses /\ "integrating" \in Statuses
      /\ {"verified", "integrating"} \subseteq Reviewable
  BY StatusNames DEF Reviewable
<1>2. HolderBased'
  BY FreeBased, HolderElse
<1>3. CASE UNCHANGED st
  BY <1>2, <1>3, QuietBased, RunsKept DEF Based
<1>4. CASE Claims(t)
  BY <1>1, <1>2, <1>4, UpdateBased DEF Claims
<1> QED BY <1>3, <1>4

LEMMA IntegrateStartBased == ASSUME IInv, Based, NEW o \in Ops, IntegrateStart(o) PROVE Based'
<1> DEFINE t == OpTask[o]
<1>1. t \in Tasks
  BY OpTaskAssumption
<1>2. mu = Free /\ UNCHANGED <<ph, lane, rcpt, ver>>
  BY DEF IntegrateStart, git
<1>3. UNCHANGED st \/ Claims(t)
  BY DEF IntegrateStart, Reject, Claims
<1>4. mu' = Free \/ mu' = mu \/ mu'.h = "integrate"
  BY DEF IntegrateStart, Reject, Release, Hold
<1> QED BY <1>1, <1>2, <1>3, <1>4, ClaimBased

LEMMA IntegrateBased == ASSUME IInv, Based, IntegrateCheck \/ IntegrateReread PROVE Based'
<1>1. /\ mu.t \in Tasks /\ st[mu.t] # None /\ st[mu.t].status = "integrating"
  BY DEF IntegrateCheck, IntegrateReread, IInv, HolderFits, IntegrateFits, Status
<1>2. UNCHANGED <<ph, lane, rcpt, ver>>
  BY DEF IntegrateCheck, IntegrateReread, git
<1>3. UNCHANGED st \/ Claims(mu.t)
  BY <1>1 DEF IntegrateCheck, IntegrateReread, Reject, Claims
<1>4. mu' = Free \/ mu'.h = "integrate"
  BY DEF IntegrateCheck, IntegrateReread, Reject, Release, Hold
<1> QED BY <1>1, <1>2, <1>3, <1>4, ClaimBased

LEMMA TestRunBased == ASSUME IInv, Based, NEW t \in Tasks, TestRun(t) PROVE Based'
<1>1. UNCHANGED <<st, ph, lane, rcpt, canon>> /\ mu = Free
  BY DEF TestRun, tables, git
<1>2. CASE /\ NeedsRebase(t, top[t]) /\ Hold("reconcile", t, "lane", Canonical) /\ EndTest(t)
  <2>1. st[t] # None /\ st[t].base <= Canonical
    BY <1>2, BaseTyped DEF NeedsRebase, Testable, Admissible
  <2>2. HolderBased'
    BY <1>1, <1>2, <2>1 DEF HolderBased, Hold
  <2>3. RunsBased'
    BY <1>2, RunEnded DEF EndTest, Based
  <2> QED BY <1>1, <2>2, <2>3, QuietBased
<1>3. CASE /\ top[t] = TestIdentity(t) /\ st[t].base = Canonical /\ mu' = mu
           /\ ver' = [ver EXCEPT ![t] = [id |-> top[t], rev |-> st[t].rev, status |-> st[t].status]]
  <2>1. top[t].base = top[t].canonical
    BY <1>3 DEF TestIdentity
  <2>2. RunsBased'
    BY <1>3, <2>1 DEF Based, RunsBased
  <2> QED BY <1>1, <1>3, <2>2, FreeBased, QuietBased
<1>4. CASE EndTest(t) /\ mu' = mu
  BY <1>1, <1>4, AsideBased DEF EndTest
<1> QED BY <1>2, <1>3, <1>4 DEF TestRun

LEMMA TestFinishBased == ASSUME IInv, Based, NEW t \in Tasks, TestFinish(t) PROVE Based'
<1>1. UNCHANGED <<ph, lane, rcpt, canon>> /\ mu = Free /\ ver[t] # None /\ EndTest(t)
  BY DEF TestFinish, git
<1>2. Grows
  BY <1>1, PhasesKept
<1>3. RunsBased'
  BY <1>1, RunEnded DEF EndTest, Based
<1>4. CASE /\ Testable(t) /\ ver[t].id = TestIdentity(t)
           /\ Hold("verify", t, "record", ver[t].id)
           /\ \/ st[t].status = "ready_for_verification" /\ UpdateState(t, Step(t, "verifying"))
              \/ UNCHANGED st
  <2>1. st[t] # None /\ st[t].status \in Reviewable
    BY <1>4 DEF Testable, Admissible, Reviewable
  <2>2. "verifying" \in Statuses
    BY StatusNames
  <2>3. Descends' /\ Rebased'
    <3>1. CASE UNCHANGED st
      BY <1>1, <3>1, RowsQuiet DEF Based, LaneKept
    <3>2. CASE UpdateState(t, Step(t, "verifying"))
      BY <1>1, <1>2, <2>1, <2>2, <3>2, StatusStep DEF UpdateState, IInv, Based
    <3> QED BY <1>4, <3>1, <3>2
  <2>4. st[t].base = Canonical
    BY <1>1, <1>4 DEF TestIdentity, Based, RunsBased
  <2>5. Strayed(t) \/ st[t].base = st[t].head.base
    BY <2>1, <2>4, BaseTyped DEF Based, Descends, RowBased
  <2>6. st'[t].base = st[t].base /\ st'[t].head = st[t].head
    <3>1. CASE UNCHANGED st
      BY <3>1
    <3>2. CASE UpdateState(t, Step(t, "verifying"))
      BY <2>1, <2>2, <3>2, Stepped DEF UpdateState, IInv, TypeOK
    <3> QED BY <1>4, <3>1, <3>2
  <2>7. Strayed(t)' \/ st'[t].base = st'[t].head.base
    BY <1>2, <2>5, <2>6, StrayedStays
  <2>8. HolderBased'
    BY <1>4, <2>7 DEF HolderBased, Hold
  <2> QED BY <1>3, <2>3, <2>8 DEF Based
<1>5. CASE Testable(t) /\ Hold("reconcile", t, "lane", Canonical) /\ UNCHANGED st
  <2>1. st[t] # None /\ st[t].base <= Canonical
    BY <1>5, BaseTyped DEF Testable, Admissible
  <2>2. HolderBased'
    BY <1>5, <2>1 DEF HolderBased, Hold
  <2> QED BY <1>1, <1>3, <1>5, <2>2, QuietBased
<1>6. CASE UNCHANGED <<st, mu>>
  BY <1>1, <1>3, <1>6, FreeBased, QuietBased
<1> QED BY <1>4, <1>5, <1>6 DEF TestFinish

LEMMA VerifyWritten ==
  ASSUME IInv, VerifyRecord
  PROVE  /\ mu.t \in Tasks /\ st[mu.t] # None /\ mu.h = "verify" /\ mu' = Free
         /\ st[mu.t].status \in {"verifying", "verified"} /\ Attempted(mu.t)
         /\ st' = [st EXCEPT ![mu.t] = Step(mu.t, "verified")]
         /\ \A u \in Tasks \ {mu.t} : rcpt'[u] = rcpt[u]
         /\ UNCHANGED <<ph, lane, ver, canon, contract>>
<1>1. /\ mu.t \in Tasks /\ st[mu.t] # None /\ VerifyFits /\ mu.h = "verify"
  BY DEF VerifyRecord, IInv, HolderFits
<1>2. /\ mu' = Free /\ UNCHANGED <<ph, lane, ver, canon, contract>>
      /\ st' = [st EXCEPT ![mu.t] = Step(mu.t, "verified")]
      /\ rcpt' = [rcpt EXCEPT ![mu.t] = Append(@, [base |-> st[mu.t].base, head |-> st[mu.t].head,
                                         profile |-> mu.x.profile, attempt |-> st[mu.t].rev])]
  BY DEF VerifyRecord, UpdateState, Release, git
<1>3. \A u \in Tasks \ {mu.t} : rcpt'[u] = rcpt[u]
  BY <1>2 DEF IInv, TypeOK
<1>4. Attempted(mu.t)
  BY <1>1, <1>2 DEF Attempted, VerifyFits
<1> QED BY <1>1, <1>2, <1>3, <1>4 DEF VerifyFits, Status

LEMMA VerifyRecordBased == ASSUME IInv, Based, VerifyRecord PROVE Based'
<1>1. PICK t \in Tasks : t = mu.t
  BY VerifyWritten
<1> DEFINE s == Step(t, "verified")
<1>2. /\ st[t] # None /\ mu.h = "verify" /\ mu' = Free
      /\ st[t].status \in {"verifying", "verified"} /\ Attempted(t)
      /\ st' = [st EXCEPT ![t] = s]
      /\ \A u \in Tasks \ {t} : rcpt'[u] = rcpt[u]
      /\ UNCHANGED <<ph, lane, ver>>
  BY <1>1, VerifyWritten
<1>3. Grows
  BY <1>2, PhasesKept
<1>4. "verified" \in Statuses
  BY StatusNames
<1>5. /\ s.status = "verified" /\ s.stage = st[t].stage /\ s.base = st[t].base
      /\ s.head = st[t].head
  BY <1>2, <1>4, Stepped DEF IInv
<1>6. st'[t] = s /\ \A u \in Tasks \ {t} : st'[u] = st[u]
  BY <1>2 DEF IInv, TypeOK
<1> HIDE DEF s
<1>7. Only(t)
  BY <1>2, <1>6 DEF Only
<1>8. Strayed(t) \/ st[t].base = st[t].head.base
  BY <1>1, <1>2 DEF Based, HolderBased
<1>9. \A i \in DOMAIN rcpt'[t] :
        \/ i \in DOMAIN rcpt[t] /\ rcpt'[t][i] = rcpt[t][i]
        \/ rcpt'[t][i].base = st[t].base /\ rcpt'[t][i].head = st[t].head
  BY <1>2, ReceiptsAdded DEF IInv
<1>10. Strayed(t)' \/ RowBased(s, lane'[t], rcpt'[t])
  <2>1. CASE Strayed(t)
    BY <1>3, <2>1, StrayedStays
  <2>2. CASE RowBased(st[t], lane[t], rcpt[t]) /\ st[t].base = st[t].head.base
    <3>1. \A i \in DOMAIN rcpt'[t] : rcpt'[t][i].base = rcpt'[t][i].head.base
      BY <1>9, <2>2 DEF RowBased
    <3>2. st[t].base <= st[t].head.base
      BY <1>2, <2>2, BaseTyped
    <3> QED BY <1>2, <1>5, <2>2, <3>1, <3>2 DEF RowBased
  <2> QED BY <1>2, <1>8, <2>1, <2>2 DEF Based, Descends
<1>11. s.stage = "rebase" => \E p \in Evidence(t)' : p.note = "reconcile"
  BY <1>2, <1>3, <1>5 DEF Based, Rebased, Grows
<1>12. Descends' /\ Rebased'
  BY <1>3, <1>6, <1>7, <1>10, <1>11, RowStep DEF Based
<1> QED BY <1>2, <1>12, FreeBased, RunsKept DEF Based

LEMMA ReconcileRecordBased == ASSUME IInv, Based, ReconcileRecord PROVE Based'
<1>1. PICK t \in Tasks : t = mu.t /\ st[t] # None
  BY DEF ReconcileRecord, IInv, HolderFits
<1> DEFINE h == IF mu.pc = "moved" THEN mu.x ELSE st[t].head
           s == [status |-> "changes_requested", stage |-> "rebase", base |-> mu.x.base,
                 head |-> h, agent |-> st[t].agent, rev |-> st[t].rev + 1]
           q == Phase(s, "rework", "", "reconcile")
<1>2. "changes_requested" \in Statuses /\ "changes_requested" \notin Reviewable
  BY StatusNames DEF Reviewable
<1>3. [Step(t, "changes_requested") EXCEPT !.base = mu.x.base, !.stage = "rebase",
         !.head = IF mu.pc = "moved" THEN mu.x ELSE @] = s
  <2> DEFINE r == Step(t, "changes_requested")
  <2>1. r = [status |-> "changes_requested", stage |-> st[t].stage, base |-> st[t].base,
             head |-> st[t].head, agent |-> st[t].agent, rev |-> st[t].rev + 1]
    BY <1>1, <1>2, Stepped DEF IInv
  <2> HIDE DEF r
  <2> DEFINE q1 == [status |-> "changes_requested", stage |-> st[t].stage, base |-> mu.x.base,
                    head |-> st[t].head, agent |-> st[t].agent, rev |-> st[t].rev + 1]
             q2 == [status |-> "changes_requested", stage |-> "rebase", base |-> mu.x.base,
                    head |-> st[t].head, agent |-> st[t].agent, rev |-> st[t].rev + 1]
  <2>2. [r EXCEPT !.base = mu.x.base] = q1
    BY <2>1
  <2>3. [q1 EXCEPT !.stage = "rebase"] = q2
    OBVIOUS
  <2>4. [q2 EXCEPT !.head = IF mu.pc = "moved" THEN mu.x ELSE @] = s
    OBVIOUS
  <2> QED BY <2>2, <2>3, <2>4 DEF r
<1>4. /\ st' = [st EXCEPT ![t] = s] /\ ph' = [ph EXCEPT ![t] = Append(@, q)]
      /\ UNCHANGED <<rcpt, lane, ver>> /\ mu' = Free
  BY <1>1, <1>3 DEF ReconcileRecord, TransitionWith, UpdateState, Release, git
<1>5. q.note = "reconcile" /\ s.stage = "rebase" /\ s.status = "changes_requested"
  BY DEF Phase
<1> HIDE DEF s, q
<1>6. Evidence(t)' = Evidence(t) \cup {q} /\ Grows
  BY <1>4, PhaseAdded DEF IInv
<1>7. Strayed(t)' \/ RowBased(s, lane[t], rcpt[t])
  <2>1. CASE Strayed(t)
    BY <1>6, <2>1, StrayedStays
  <2>2. CASE RowBased(st[t], lane[t], rcpt[t])
    BY <1>2, <1>5, <2>2 DEF RowBased
  <2> QED BY <1>1, <2>1, <2>2 DEF Based, Descends
<1>8. \E p \in Evidence(t)' : p.note = "reconcile"
  BY <1>5, <1>6
<1> QED BY <1>4, <1>6, <1>7, <1>8, RowWritten

-----------------------------------------------------------------------------
(* The induction.                                                          *)

LEMMA InitBased == Init => Based
<1> SUFFICES ASSUME Init PROVE Based
  OBVIOUS
<1>1. (\A t \in Tasks : st[t] = None) /\ mu = Free /\ ver = [t \in Tasks |-> None]
  BY DEF Init
<1> QED BY <1>1 DEF Based, Descends, Rebased, HolderBased, RunsBased, Free

LEMMA TaskCallBased == ASSUME IInv, Based, NEW t \in Tasks, TaskCall(t) PROVE Based'
<1>1. CASE \E a \in Agents : DispatchLane(t, a)
  BY <1>1, DispatchLaneBased
<1>2. CASE SubmitPublish(t)
  BY <1>2, SubmitBased
<1>3. CASE \E dec \in {"accept", "reject"} : TaskExecutionReviewDecide(t, dec)
  BY <1>3, ReviewBased
<1>4. CASE \E stage \in Stages : TaskExecutionRework(t, stage)
  BY <1>4, ReworkBased
<1>5. CASE TaskExecutionBlock(t) \/ TaskExecutionResume(t)
  BY <1>5, ParkBased
<1>6. CASE RefreshLane(t) \/ ResetBegin(t) \/ ResetResume(t)
  BY <1>6, RefreshLaneBased, ResetBeginBased, CallsAsideBased
<1>7. CASE TestAdmit(t) \/ TestRun(t) \/ TestFail(t) \/ TestFinish(t)
  BY <1>7, CallsAsideBased, TestRunBased, TestFinishBased
<1>8. CASE \/ HistoricalAdmit(t, "legacy") \/ HistoricalAdmit(t, "bootstrap_full")
           \/ DebugReconcileBootstrappedTask(t) \/ DebugReconcilePreExecutionTask(t)
  BY <1>8, CallsAsideBased
<1>9. CASE \E mode \in {"non_code", "integrated", "historical"} : TaskComplete(t, mode)
  BY <1>9, CompletionBased
<1> QED BY <1>1, <1>2, <1>3, <1>4, <1>5, <1>6, <1>7, <1>8, <1>9 DEF TaskCall

LEMMA NextBased == IInv /\ Based /\ [Next]_vars => Based'
<1> SUFFICES ASSUME IInv, Based, [Next]_vars PROVE Based'
  OBVIOUS
<1>1. CASE HandlerStep
  BY <1>1, DispatchRecordBased, DispatchUndoBased, SubmitRecordBased, RefreshRecordBased,
     ResetRemoveBased, ResetFinishBased, VerifyRecordBased, ReconcileLaneBased,
     ReconcileRecordBased, IntegrateBased, StepsAsideBased, IntegrateRecordBased,
     HistoricalRecordBased, CompletionBased DEF HandlerStep
<1>2. CASE \E t \in Tasks : TaskCall(t)
  BY <1>2, TaskCallBased
<1>3. CASE \E o \in Ops : IntegrateRequest(o) \/ IntegrateStart(o)
  BY <1>3, StepsAsideBased, IntegrateStartBased
<1>4. CASE Environment
  BY <1>4, WorkerBased, CallsAsideBased, StepsAsideBased DEF Environment
<1>5. CASE UNCHANGED vars
  BY <1>5, StepsAsideBased
<1> QED BY <1>1, <1>2, <1>3, <1>4, <1>5 DEF Next

\* task/test and task/integrate never ask whether a candidate descends from the
\* base it is verified for; it does, whatever rebases, refreshes and reworks
\* came before, until a Task whose controlled rebase failed is taken back to
\* an earlier stage (TaskExecutionRework).
THEOREM CandidatesDescend == Spec => []Based
<1>1. Init => IInv /\ Based
  BY InitInv, InitBased
<1>2. IInv /\ Based /\ [Next]_vars => IInv' /\ Based'
  BY NextInv, NextBased
<1> QED BY <1>1, <1>2, PTL DEF Spec

-----------------------------------------------------------------------------
(* What the canonical branch sees of the tables.                           *)

\* Every receipt is one that the branch calls proven.
Receipts ==
  UNION {{[task |-> t, cand |-> rcpt[t][i].head, base |-> rcpt[t][i].base] :
            i \in DOMAIN rcpt[t]} : t \in Tasks}
AllProven == ReviewedReceipts = Receipts

\* An integration phase is the only one of its Task, and says where it landed.
AllRecorded ==
  \A t \in Tasks :
    /\ IntegrationPhases(t) = {} => RecordedAt(t) = None
    /\ \A p \in IntegrationPhases(t) :
         /\ RecordedAt(t) = p.head.base + 1 /\ p.head.base + 1 \in DOMAIN canon
         /\ canon[p.head.base + 1].task = t

LEMMA EveryReceiptProven == IInv /\ Based => AllProven
<1> SUFFICES ASSUME IInv, Based PROVE ReviewedReceipts = Receipts
  BY DEF AllProven
<1>1. \A x \in ReviewedReceipts : x \in Receipts
  <2> SUFFICES ASSUME NEW x \in ReviewedReceipts PROVE x \in Receipts
    OBVIOUS
  <2>1. PICK t \in Tasks, b, c \in 0..Canonical, n \in 0..load.work :
          x = [task |-> t, cand |-> Commit(b, n), base |-> c]
    BY DEF ReviewedReceipts, Candidates
  <2>2. PICK i \in DOMAIN rcpt[x.task] : rcpt[x.task][i].base = x.base /\ rcpt[x.task][i].head = x.cand
    BY DEF ReviewedReceipts
  <2>3. x = [task |-> t, cand |-> rcpt[t][i].head, base |-> rcpt[t][i].base] /\ i \in DOMAIN rcpt[t]
    BY <2>1, <2>2
  <2> QED BY <2>3 DEF Receipts
<1>2. ASSUME NEW t \in Tasks, NEW i \in DOMAIN rcpt[t]
      PROVE  [task |-> t, cand |-> rcpt[t][i].head, base |-> rcpt[t][i].base] \in ReviewedReceipts
  <2> DEFINE r == rcpt[t][i]
             x == [task |-> t, cand |-> r.head, base |-> r.base]
  <2>1. /\ st[t] # None /\ r.base <= Canonical /\ Fits(r.head, load.work)
        /\ HasReview(t, r.head, r.attempt)
    BY DEF IInv, Core, ReceiptsFit
  <2>2. r \in ReceiptRecord /\ load.work \in Nat /\ Canonical \in Nat
    BY ShapeAssumption DEF IInv, TypeOK, Canonical
  <2>3. r.base \in Nat /\ r.head \in CommitRecord
    BY <2>2 DEF ReceiptRecord
  <2>4. r.head.base \in Nat /\ r.head.n \in Nat /\ r.head = Commit(r.head.base, r.head.n)
    BY <2>3 DEF CommitRecord, Commit
  <2>5. r.base \in 0..Canonical /\ r.head.base \in 0..Canonical /\ r.head.n \in 0..load.work
    BY <2>1, <2>2, <2>3, <2>4 DEF Fits
  <2>6. x \in Candidates
    <3> HIDE DEF r
    <3>1. x = [task |-> t, cand |-> Commit(r.head.base, r.head.n), base |-> r.base]
      BY <2>4
    <3> QED BY <2>5, <3>1 DEF Candidates
  <2>7. r.head.base = r.base \/ Strayed(t)
    BY <2>1 DEF Based, Descends, RowBased
  <2>8. x.task = t /\ x.cand = r.head /\ x.base = r.base
    OBVIOUS
  <2>9. \E p \in Evidence(t) : p.kind = "review" /\ p.dec = "accept" /\ p.head = r.head
                               /\ p.rev <= r.attempt
    BY <2>1 DEF HasReview
  <2> HIDE DEF x
  <2>10. x \in ReviewedReceipts
    BY <2>6, <2>7, <2>8, <2>9 DEF ReviewedReceipts
  <2> QED BY <2>10 DEF x
<1> QED BY <1>1, <1>2 DEF Receipts

LEMMA EveryIntegrationRecorded == IInv => AllRecorded
<1> SUFFICES ASSUME IInv, NEW t \in Tasks
             PROVE  /\ IntegrationPhases(t) = {} => RecordedAt(t) = None
                    /\ \A p \in IntegrationPhases(t) :
                         /\ RecordedAt(t) = p.head.base + 1 /\ p.head.base + 1 \in DOMAIN canon
                         /\ canon[p.head.base + 1].task = t
  BY DEF AllRecorded
<1>1. IntegrationPhases(t) = {} => RecordedAt(t) = None
  BY DEF RecordedAt
<1>2. ASSUME NEW p \in IntegrationPhases(t)
      PROVE  /\ RecordedAt(t) = p.head.base + 1 /\ p.head.base + 1 \in DOMAIN canon
             /\ canon[p.head.base + 1].task = t
  <2>1. p.head \in LandingRecord /\ p.head.task = t /\ OnCanonical(p.head)
        /\ \A q \in IntegrationPhases(t) : p = q
    BY DEF IInv, Core, IntegrationsFit
  <2>2. IntegrationPhases(t) = {p}
    BY <1>2, <2>1
  <2>3. Cardinality(IntegrationPhases(t)) = 1
    BY <2>2, FS_Singleton
  <2>4. TheIntegration(t) = p
    BY <1>2, <2>1, TheIntegrationIn
  <2>5. RecordedAt(t) = p.head.base + 1
    BY <1>2, <2>1, <2>3, <2>4 DEF RecordedAt
  <2>6. p.head.base \in Nat /\ canon \in Seq(LandingRecord)
    BY <2>1 DEF LandingRecord, IInv, TypeOK
  <2>7. p.head.base + 1 \in DOMAIN canon /\ canon[p.head.base + 1] = p.head
    BY <2>1, <2>6 DEF OnCanonical, Canonical
  <2> QED BY <2>1, <2>5, <2>7
<1> QED BY <1>1, <1>2

LEMMA BothProven == ASSUME IInv, Based, IInv', Based' PROVE AllProven /\ AllProven'
<1>1. IInv' /\ Based' => AllProven'
  BY EveryReceiptProven, PTL
<1> QED BY <1>1, EveryReceiptProven

LEMMA BothRecorded == ASSUME IInv, IInv' PROVE AllRecorded /\ AllRecorded'
<1>1. IInv' => AllRecorded'
  BY EveryIntegrationRecorded, PTL
<1> QED BY <1>1, EveryIntegrationRecorded

-----------------------------------------------------------------------------
(* Steps of the canonical branch.                                          *)

\* The abstract variables.
Branch == [i \in DOMAIN canon |-> [task |-> canon[i].task, cand |-> canon[i].cand,
                                  own |-> canon[i].rev > 0]]
RecordedOf == [t \in Tasks |-> RecordedAt(t)]
Closed == {t \in Tasks : contract[t] # None /\ contract[t].mode # "non_code"}

\* No integration is recorded.
Unrecorded == \A t \in Tasks : IntegrationPhases(t)' = IntegrationPhases(t)
Silent == UNCHANGED <<canon, rcpt, contract>> /\ Unrecorded

LEMMA BranchSequence ==
  ASSUME IInv
  PROVE  /\ Branch \in Seq([task : Tasks \cup {None}, cand : CommitRecord \cup {None}, own : BOOLEAN])
         /\ Len(Branch) = Canonical /\ DOMAIN Branch = DOMAIN canon
         /\ DOMAIN canon = 1..Canonical /\ Canonical \in Nat
<1>1. canon \in Seq(LandingRecord)
  BY DEF IInv, TypeOK
<1>2. DOMAIN canon = 1..Canonical /\ Canonical \in Nat
  BY <1>1 DEF Canonical
<1>3. \A i \in DOMAIN canon : canon[i] \in LandingRecord
  BY <1>1
<1>4. \A i \in DOMAIN canon : canon[i].task \in Tasks \cup {None}
                             /\ canon[i].cand \in CommitRecord \cup {None}
  BY <1>3 DEF LandingRecord
<1> QED BY <1>2, <1>4 DEF Branch

LEMMA AppendIs ==
  ASSUME NEW U, NEW s \in Seq(U), NEW e \in U
  PROVE  Append(s, e) = [i \in 1..(Len(s) + 1) |-> IF i = Len(s) + 1 THEN e ELSE s[i]]
<1> DEFINE n == Len(s) + 1
           f == [i \in 1..n |-> IF i = n THEN e ELSE s[i]]
<1>1. Len(s) \in Nat /\ n \in Nat /\ \A i \in 1..n : i = n \/ i \in 1..Len(s)
  OBVIOUS
<1>2. \A i \in 1..n : (IF i = n THEN e ELSE s[i]) \in U
  BY <1>1
<1>3. f \in Seq(U) /\ Len(f) = n
  <2> HIDE DEF n
  <2> QED BY <1>1, <1>2
<1>4. /\ Append(s, e) \in Seq(U) /\ Len(Append(s, e)) = n
      /\ Append(s, e)[n] = e /\ \A i \in 1..Len(s) : Append(s, e)[i] = s[i]
  BY AppendProperties
<1>5. \A i \in 1..n : Append(s, e)[i] = f[i]
  BY <1>1, <1>4
<1> HIDE DEF f
<1>6. Append(s, e) = f
  BY <1>3, <1>4, <1>5, SeqEqual
<1> QED BY <1>6 DEF f

LEMMA BranchAppended ==
  ASSUME IInv, NEW l, canon' = Append(canon, l)
  PROVE  Branch' = Append(Branch, [task |-> l.task, cand |-> l.cand, own |-> l.rev > 0])
<1> DEFINE e == [task |-> l.task, cand |-> l.cand, own |-> l.rev > 0]
           T == LandingRecord \cup {l}
           B == [task : Tasks \cup {None}, cand : CommitRecord \cup {None}, own : BOOLEAN]
           U == B \cup {e}
<1>1. canon \in Seq(T)
  BY DEF IInv, TypeOK
<1>2. /\ DOMAIN canon' = 1..(Canonical + 1) /\ canon'[Canonical + 1] = l
      /\ \A i \in 1..Canonical : canon'[i] = canon[i]
  BY <1>1 DEF Canonical
<1>3. /\ Len(Branch) = Canonical /\ Canonical \in Nat
      /\ \A i \in 1..Canonical : Branch[i] = [task |-> canon[i].task, cand |-> canon[i].cand,
                                             own |-> canon[i].rev > 0]
  BY BranchSequence DEF Branch
<1>4. Branch \in Seq(U) /\ e \in U
  <2>1. Branch \in Seq(B)
    BY BranchSequence
  <2> HIDE DEF B, e
  <2> QED BY <2>1
<1> DEFINE f == [i \in 1..(Canonical + 1) |-> [task |-> canon'[i].task, cand |-> canon'[i].cand,
                                              own |-> canon'[i].rev > 0]]
           g == [i \in 1..(Canonical + 1) |-> IF i = Canonical + 1 THEN e ELSE Branch[i]]
<1>5. Branch' = f
  BY <1>2 DEF Branch
<1>6. Append(Branch, e) = g
  <2> HIDE DEF U, e
  <2> QED BY <1>3, <1>4, AppendIs
<1>7. \A i \in 1..Canonical : f[i] = Branch[i]
  BY <1>2, <1>3
<1>8. f[Canonical + 1] = e
  BY <1>2, <1>3
<1> HIDE DEF e
<1>9. \A i \in 1..(Canonical + 1) : f[i] = IF i = Canonical + 1 THEN e ELSE Branch[i]
  <2>1. \A i \in 1..(Canonical + 1) : i = Canonical + 1 \/ i \in 1..Canonical
    BY <1>3
  <2> HIDE DEF f
  <2> QED BY <2>1, <1>7, <1>8
<1>10. f = g
  BY <1>9
<1> QED BY <1>5, <1>6, <1>10 DEF e

LEMMA RecordKept ==
  ASSUME IInv, IInv', NEW t \in Tasks, IntegrationPhases(t)' = IntegrationPhases(t)
  PROVE  RecordedAt(t)' = RecordedAt(t)
<1>1. AllRecorded /\ AllRecorded'
  BY BothRecorded
<1>2. CASE IntegrationPhases(t) = {}
  BY <1>1, <1>2 DEF AllRecorded
<1>3. ASSUME NEW p \in IntegrationPhases(t) PROVE RecordedAt(t)' = RecordedAt(t)
  BY <1>1, <1>3 DEF AllRecorded
<1> QED BY <1>2, <1>3

LEMMA RecordsKept ==
  ASSUME IInv, IInv', Unrecorded
  PROVE  RecordedOf' = RecordedOf
BY RecordKept DEF RecordedOf, Unrecorded

LEMMA ProvenKept ==
  ASSUME IInv, Based, IInv', Based', rcpt' = rcpt PROVE ReviewedReceipts' = ReviewedReceipts
<1>1. Receipts' = Receipts
  BY DEF Receipts
<1> QED BY <1>1, BothProven DEF AllProven

LEMMA BranchKept == ASSUME canon' = canon PROVE Branch' = Branch
BY DEF Branch

LEMMA ClosedKept == ASSUME contract' = contract PROVE Closed' = Closed
BY DEF Closed

LEMMA SilentStep ==
  ASSUME IInv, Based, IInv', Based', Silent PROVE UNCHANGED Board!bvars
BY RecordsKept, ProvenKept, BranchKept, ClosedKept
   DEF Silent, Board!bvars, RecordedOf, Branch, Closed

LEMMA NoPhase == ASSUME ph' = ph PROVE Unrecorded
BY PhasesKept DEF Unrecorded, IntegrationPhases

LEMMA OtherPhase ==
  ASSUME IInv, NEW t \in Tasks, NEW q, q.stage # "integration",
         ph' = [ph EXCEPT ![t] = Append(@, q)]
  PROVE  Unrecorded
<1>1. /\ Evidence(t)' = Evidence(t) \cup {q}
      /\ \A u \in Tasks \ {t} : Evidence(u)' = Evidence(u)
  BY PhaseAdded DEF IInv
<1> QED BY <1>1 DEF Unrecorded, IntegrationPhases

LEMMA SilentTransition ==
  ASSUME IInv, IInv', NEW t \in Tasks, NEW s, NEW kind, NEW dec, NEW note,
         TransitionWith(t, s, Phase(s, kind, dec, note)), UNCHANGED <<canon, rcpt, contract>>
  PROVE  Silent
<1> DEFINE q == Phase(s, kind, dec, note)
<1>1. st'[t] = s /\ ph' = [ph EXCEPT ![t] = Append(@, q)]
  BY DEF TransitionWith, UpdateState, IInv, TypeOK
<1>2. q.stage = s.stage
  BY DEF Phase
<1> HIDE DEF q
<1>3. q \in Evidence(t)'
  <2>1. Evidence(t)' = Evidence(t) \cup {q}
    BY <1>1, PhaseAdded DEF IInv
  <2> QED BY <2>1
<1>4. st'[t] \in StateRecord
  BY <1>3 DEF IInv, TypeOK
<1>5. s.stage # "integration"
  BY <1>1, <1>4, StatusNames DEF StateRecord
<1> QED BY <1>1, <1>2, <1>5, OtherPhase DEF Silent

-----------------------------------------------------------------------------
(* Every step is a step of the canonical branch or none.                   *)

\* task/integrate pushes what a receipt covers onto the base it covers.
LEMMA LandStep ==
  ASSUME IInv, Based, IInv', Based', NEW t \in Tasks, NEW b, NEW c, NEW rev,
         Receipted(t, b, c), b = Canonical, rev > 0,
         canon' = Append(canon, Landing(t, c, b, rev)), UNCHANGED <<ph, rcpt, contract>>
  PROVE  Board!BNext
<1> DEFINE x == [task |-> t, cand |-> c, base |-> b]
           l == Landing(t, c, b, rev)
           e == [task |-> t, cand |-> c, own |-> TRUE]
<1>1. x \in ReviewedReceipts
  <2>1. PICK i \in DOMAIN rcpt[t] : rcpt[t][i].base = b /\ rcpt[t][i].head = c
    BY DEF Receipted
  <2>2. x \in Receipts
    BY <2>1 DEF Receipts
  <2> QED BY <2>2, BothProven DEF AllProven
<1>2. l.task = t /\ l.cand = c /\ l.rev > 0
  BY DEF Landing
<1>3. canon' = Append(canon, l)
  OBVIOUS
<1> HIDE DEF l
<1>4. Branch' = Append(Branch, e)
  BY <1>2, <1>3, BranchAppended
<1>5. Len(Branch) = b
  BY BranchSequence
<1>6. /\ ReviewedReceipts' = ReviewedReceipts /\ RecordedOf' = RecordedOf /\ Closed' = Closed
  BY NoPhase, RecordsKept, ProvenKept, ClosedKept
<1>7. x.task = t /\ x.cand = c /\ x.base = b
  OBVIOUS
<1> HIDE DEF x
<1>8. Board!Land(x)
  BY <1>4, <1>5, <1>6, <1>7 DEF Board!Land, Branch, RecordedOf, Closed
<1> QED BY <1>1, <1>8 DEF Board!BNext

\* A push by somebody else, or by hand.
LEMMA OutsideStep ==
  ASSUME IInv, Based, IInv', Based', NEW l, ~(l.rev > 0),
         canon' = Append(canon, l), UNCHANGED <<ph, rcpt, contract>>
  PROVE  Board!BNext
<1> DEFINE e == [task |-> l.task, cand |-> l.cand, own |-> l.rev > 0]
           B == [task : Tasks \cup {None}, cand : CommitRecord \cup {None}, own : BOOLEAN]
           U == B \cup {e}
           b == Branch
<1>1. Branch' = Append(b, e)
  BY BranchAppended
<1>2. ~e.own
  OBVIOUS
<1>3. b \in Seq(U) /\ e \in U
  <2>1. Branch \in Seq(B)
    BY BranchSequence
  <2> HIDE DEF B, e
  <2> QED BY <2>1
<1> HIDE DEF e, U, b
<1>4. /\ Append(b, e) \in Seq(U) /\ Len(Append(b, e)) = Len(b) + 1
      /\ Append(b, e)[Len(b) + 1] = e
      /\ \A i \in 1..Len(b) : Append(b, e)[i] = b[i]
  BY <1>3, AppendProperties
<1> DEFINE q == Append(b, e)
<1>5. Len(b) \in Nat /\ \A i \in 1..Len(b) : b[i] \in U
  BY <1>3
<1> HIDE DEF q
<1>6. SubSeq(q, 1, Len(b)) = b
  <2> DEFINE n == Len(b)
             s == SubSeq(q, 1, n)
  <2>1. \A i \in 1..n : q[i] = b[i] /\ q[i] \in U
    BY <1>4, <1>5 DEF q
  <2>2. n \in Nat /\ n \in Int /\ 1 \in Int /\ n - 1 + 1 = n /\ (~(1 <= n) => n = 0)
    BY <1>5
  <2>3. /\ s \in Seq(U) /\ Len(s) = (IF 1 <= n THEN n - 1 + 1 ELSE 0)
        /\ \A i \in 1..(n - 1 + 1) : s[i] = q[1 + i - 1]
    <3> HIDE DEF n
    <3> QED BY <2>1, <2>2, SubSeqProperties
  <2> HIDE DEF s
  <2>4. Len(s) = n /\ \A i \in 1..n : s[i] = b[i]
    <3> HIDE DEF n
    <3> QED BY <2>1, <2>2, <2>3
  <2>5. s = b
    BY <1>3, <2>3, <2>4, SeqEqual
  <2> QED BY <2>5 DEF s
<1>7. /\ Len(Branch') = Len(Branch) + 1
      /\ SubSeq(Branch', 1, Len(Branch)) = Branch
      /\ ~Branch'[Len(Branch')].own
  BY <1>1, <1>2, <1>4, <1>6 DEF b, q
<1>8. /\ ReviewedReceipts' = ReviewedReceipts /\ RecordedOf' = RecordedOf /\ Closed' = Closed
  BY NoPhase, RecordsKept, ProvenKept, ClosedKept
<1>9. Board!LandOutside
  BY <1>7, <1>8 DEF Board!LandOutside, Branch, RecordedOf, Closed
<1> QED BY <1>9 DEF Board!BNext

\* A verification adds a receipt.
LEMMA ProveStep ==
  ASSUME IInv, Based, IInv', Based', VerifyRecord PROVE Board!BNext
<1>1. /\ mu.t \in Tasks /\ Attempted(mu.t) /\ UNCHANGED <<ph, canon, contract>>
  BY VerifyWritten
<1>2. \A t \in Tasks : \A i \in DOMAIN rcpt[t] : i \in DOMAIN rcpt'[t] /\ rcpt'[t][i] = rcpt[t][i]
  BY <1>1, ReceiptsAdded DEF IInv
<1>3. Receipts \subseteq Receipts'
  BY <1>2 DEF Receipts
<1>4. ReviewedReceipts \subseteq ReviewedReceipts'
  BY <1>3, BothProven DEF AllProven
<1>5. \A x \in ReviewedReceipts' : x.task \in Tasks /\ x.base <= Canonical
  <2>1. Canonical' = Canonical /\ Canonical \in Nat
    BY <1>1, BranchSequence DEF Canonical
  <2>2. \A x \in ReviewedReceipts' : x.task \in Tasks /\ x.base \in 0..Canonical
    BY <2>1 DEF ReviewedReceipts, Candidates
  <2>3. \A x \in 0..Canonical : x <= Canonical
    BY <2>1
  <2> QED BY <2>2, <2>3
<1>6. /\ Branch' = Branch /\ RecordedOf' = RecordedOf /\ Closed' = Closed
  BY <1>1, NoPhase, RecordsKept, BranchKept, ClosedKept
<1>7. Len(Branch) = Canonical
  BY BranchSequence
<1>8. Board!Prove
  BY <1>4, <1>5, <1>6, <1>7 DEF Board!Prove, Branch, RecordedOf, Closed
<1> QED BY <1>8 DEF Board!BNext

\* An integration phase is added to a Task that had none.
LEMMA RecordStep ==
  ASSUME IInv, Based, IInv', Based', NEW t \in Tasks, IntegrationPhases(t) = {},
         NEW q, q.stage = "integration", ph' = [ph EXCEPT ![t] = Append(@, q)],
         UNCHANGED <<canon, rcpt, contract>>
  PROVE  Board!BNext
<1> DEFINE i == q.head.base + 1
<1>1. /\ Evidence(t)' = Evidence(t) \cup {q}
      /\ \A u \in Tasks \ {t} : Evidence(u)' = Evidence(u)
  BY PhaseAdded DEF IInv
<1>2. q \in IntegrationPhases(t)' /\ \A u \in Tasks \ {t} : IntegrationPhases(u)' = IntegrationPhases(u)
  BY <1>1 DEF IntegrationPhases
<1>3. AllRecorded /\ AllRecorded'
  BY BothRecorded
<1>4. RecordedAt(t) = None
  BY <1>3 DEF AllRecorded
<1>5. RecordedAt(t)' = i /\ i \in DOMAIN canon /\ canon[i].task = t
  BY <1>2, <1>3 DEF AllRecorded
<1>6. \A u \in Tasks \ {t} : RecordedAt(u)' = RecordedAt(u)
  BY <1>2, RecordKept
<1> HIDE DEF i
<1>7. RecordedOf' = [RecordedOf EXCEPT ![t] = i]
  BY <1>5, <1>6 DEF RecordedOf
<1>8. RecordedOf[t] = None
  BY <1>4 DEF RecordedOf
<1>9. i \in DOMAIN Branch /\ Branch[i].task = t
  BY <1>5 DEF Branch
<1>10. Branch' = Branch /\ ReviewedReceipts' = ReviewedReceipts /\ Closed' = Closed
  BY ProvenKept, BranchKept, ClosedKept
<1>11. Board!Record(t, i)
  BY <1>7, <1>8, <1>9, <1>10 DEF Board!Record, Branch, RecordedOf, Closed
<1>12. i \in DOMAIN Branch /\ Board!Record(t, i)
  BY <1>9, <1>11
<1> QED BY <1>12 DEF Board!BNext, Branch

\* A recorded Task is completed.
LEMMA CloseStep ==
  ASSUME IInv, Based, IInv', Based', NEW t \in Tasks, IntegrationPhases(t) # {},
         NEW mode, mode = "integrated" \/ mode = "historical" \/ mode = "pre_execution",
         CommitTaskCompletion(t, mode, TheIntegration(t).head), UNCHANGED <<ph, rcpt, canon>>
  PROVE  Board!BNext
<1> DEFINE h == TheIntegration(t).head
           c == [mode |-> mode, head |-> h]
<1>1. PICK p \in IntegrationPhases(t) : p = TheIntegration(t)
  BY TheIntegrationIn
<1>2. h \in LandingRecord
  BY <1>1 DEF IInv, Core, IntegrationsFit
<1>3. c \in CompletionRecord /\ c.mode # "non_code"
  <2> HIDE DEF h
  <2> QED BY <1>2 DEF CompletionRecord
<1>4. c # None
  BY <1>3, ShapeAssumption
<1>5. contract'[t] = c /\ \A u \in Tasks \ {t} : contract'[u] = contract[u]
  BY DEF CommitTaskCompletion, IInv, TypeOK
<1> HIDE DEF c
<1>6. Closed' = Closed \cup {t}
  BY <1>3, <1>4, <1>5 DEF Closed
<1>7. RecordedAt(t) = p.head.base + 1
  BY <1>1, EveryIntegrationRecorded DEF AllRecorded
<1>8. p.head.base \in Nat
  BY <1>1, <1>2 DEF LandingRecord
<1>9. RecordedAt(t) # None
  BY <1>7, <1>8, ShapeAssumption
<1>10. RecordedOf[t] # None
  BY <1>9 DEF RecordedOf
<1>11. Branch' = Branch /\ ReviewedReceipts' = ReviewedReceipts /\ RecordedOf' = RecordedOf
  BY NoPhase, ProvenKept, BranchKept, RecordsKept
<1>12. Board!Close(t)
  BY <1>6, <1>10, <1>11 DEF Board!Close, Branch, RecordedOf, Closed
<1> QED BY <1>12 DEF Board!BNext

-----------------------------------------------------------------------------
(* Action by action.                                                       *)

LEMMA QuietSilent ==
  ASSUME ph' = ph, UNCHANGED <<canon, rcpt, contract>> PROVE Silent
BY NoPhase DEF Silent

LEMMA CallsQuiet ==
  ASSUME NEW t \in Tasks,
         \/ (\E a : DispatchLane(t, a)) \/ SubmitPublish(t) \/ RefreshLane(t) \/ ResetResume(t)
         \/ TestAdmit(t) \/ TestRun(t) \/ TestFail(t) \/ TestFinish(t)
         \/ (\E prof : HistoricalAdmit(t, prof)) \/ DebugReconcileBootstrappedTask(t)
         \/ DebugReconcilePreExecutionTask(t) \/ JournalAppend(t)
         \/ WorkerCommit(t) \/ WorkerRebase(t)
  PROVE  Silent
<1>1. ph' = ph /\ UNCHANGED <<canon, rcpt, contract>>
  BY DEF DispatchLane, SubmitPublish, RefreshLane, ResetResume, TestAdmit, TestRun, TestFail,
         TestFinish, HistoricalAdmit, DebugReconcileBootstrappedTask,
         DebugReconcilePreExecutionTask, JournalAppend, WorkerCommit, WorkerRebase, tables, git
<1> QED BY <1>1, QuietSilent

LEMMA StepsQuiet ==
  ASSUME \/ DispatchRecord \/ DispatchUndo \/ ResetRemove \/ ResetRefuse \/ ReconcileLane
         \/ IntegrateCapture \/ IntegratePrepare \/ IntegrateCheck \/ IntegrateReread
         \/ (\E o : IntegrateRequest(o) \/ IntegrateStart(o))
         \/ HandlerFault \/ ProfileChange \/ Crash \/ UNCHANGED vars
  PROVE  Silent
<1>1. ph' = ph /\ UNCHANGED <<canon, rcpt, contract>>
  BY DEF DispatchRecord, DispatchUndo, ResetRemove, ResetRefuse, ReconcileLane,
         IntegrateCapture, IntegratePrepare, IntegrateCheck, IntegrateReread, IntegrateRequest,
         IntegrateStart, HandlerFault, ProfileChange, Crash, tables, git, vars
<1> QED BY <1>1, QuietSilent

LEMMA CallsSilent ==
  ASSUME IInv, IInv', NEW t \in Tasks,
         \/ (\E dec : TaskExecutionReviewDecide(t, dec))
         \/ (\E stage : TaskExecutionRework(t, stage))
         \/ TaskExecutionBlock(t) \/ TaskExecutionResume(t) \/ ResetBegin(t)
  PROVE  Silent
<1>1. UNCHANGED <<canon, rcpt, contract>>
  BY DEF TaskExecutionReviewDecide, TaskExecutionRework, TaskExecutionBlock, TaskExecutionResume,
         ResetBegin, git
<1>2. \E s, kind, dec : Transition(t, s, kind, dec)
  BY DEF TaskExecutionReviewDecide, TaskExecutionRework, TaskExecutionBlock, TaskExecutionResume,
         ResetBegin
<1>3. PICK s, kind, dec : TransitionWith(t, s, Phase(s, kind, dec, ""))
  BY <1>2 DEF Transition
<1> QED BY <1>1, <1>3, SilentTransition

LEMMA StepsSilent ==
  ASSUME IInv, IInv', SubmitRecord \/ RefreshRecord \/ ResetFinish \/ ReconcileRecord
  PROVE  Silent
<1>1. /\ UNCHANGED <<canon, rcpt, contract>> /\ mu.t \in Tasks
  BY DEF SubmitRecord, RefreshRecord, ResetFinish, ReconcileRecord, git, IInv, HolderFits
<1>2. \E s, kind, dec, note : TransitionWith(mu.t, s, Phase(s, kind, dec, note))
  BY DEF SubmitRecord, RefreshRecord, ResetFinish, ReconcileRecord, Transition
<1> QED BY <1>1, <1>2, SilentTransition

LEMMA IntegratePushLands ==
  ASSUME IInv, Based, IInv', Based', IntegratePush PROVE Silent \/ Board!BNext
<1>1. /\ UNCHANGED <<ph, rcpt, contract, iop>> /\ mu.t \in Tasks /\ IntegrateFits
      /\ mu.pc = "publishing"
  BY DEF IntegratePush, tables, IInv, HolderFits
<1>2. PICK t \in Tasks, o \in Ops :
        /\ t = OpTask[o] /\ o = mu.x /\ Binds(iop[o].cap, t) /\ iop[o].cap.commit # None
  BY <1>1 DEF IntegrateFits, Prepared
<1> DEFINE cap == iop[o].cap
<1>3. cap.commit = Landing(t, cap.head, cap.base, cap.rev)
  BY <1>2, BoundCapture
<1>4. cap # None /\ CaptureFits(o, t, cap)
  BY <1>2 DEF Binds, IInv, Core, CapturesFit
<1>5. cap.rev > 0 /\ Receipted(t, cap.base, cap.head)
  BY <1>4 DEF CaptureFits
<1>6. CASE Canonical = cap.base /\ canon' = Append(canon, cap.commit)
  <2>1. Canonical = cap.base /\ canon' = Append(canon, Landing(t, cap.head, cap.base, cap.rev))
    BY <1>3, <1>6
  <2> HIDE DEF cap
  <2> QED BY <1>1, <1>5, <2>1, LandStep
<1>7. CASE canon' = canon
  BY <1>1, <1>7, QuietSilent
<1> QED BY <1>2, <1>6, <1>7 DEF IntegratePush

LEMMA OutsidePushLands ==
  ASSUME IInv, Based, IInv', Based', ForeignPush \/ \E t \in Tasks : LandByHand(t)
  PROVE  Board!BNext
<1>1. /\ UNCHANGED <<ph, rcpt, contract>>
      /\ \E u, c, b : canon' = Append(canon, Landing(u, c, b, 0))
  BY DEF ForeignPush, LandByHand, tables
<1>2. PICK u, c, b : canon' = Append(canon, Landing(u, c, b, 0))
  BY <1>1
<1>3. ~(Landing(u, c, b, 0).rev > 0)
  BY DEF Landing
<1> QED BY <1>1, <1>2, <1>3, OutsideStep

LEMMA IntegrationLands ==
  ASSUME IInv, Based, IInv', Based', IntegrateRecord \/ HistoricalRecord
  PROVE  Silent \/ Board!BNext
<1>1. /\ mu.t \in Tasks /\ st[mu.t] # None /\ UNCHANGED <<canon, rcpt, contract>>
      /\ mu.h = "integrate" \/ mu.h = "historical"
  BY DEF IntegrateRecord, HistoricalRecord, git, IInv, HolderFits
<1>2. IntegrationPhases(mu.t) = {}
  <2>1. mu.h = "integrate" => st[mu.t].status = "integrating"
    BY DEF IInv, HolderFits, IntegrateFits, Status
  <2>2. mu.h = "historical" =>
          st[mu.t].status \in {"ready_for_verification", "verified", "dispatched", "blocked"}
    BY DEF IInv, HolderFits, HistoricalFits, Status
  <2> QED BY <1>1, <2>1, <2>2, NotIntegrated DEF IInv
<1>3. \/ \E c, note : TransitionWith(mu.t, Step(mu.t, "integrated"),
                           IntegrationPhase(Step(mu.t, "integrated"), c, note))
      \/ ph' = ph
  BY DEF IntegrateRecord, HistoricalRecord
<1>4. CASE ph' = ph
  BY <1>1, <1>4, QuietSilent
<1>5. ASSUME NEW c, NEW note,
             TransitionWith(mu.t, Step(mu.t, "integrated"),
                            IntegrationPhase(Step(mu.t, "integrated"), c, note))
      PROVE  Board!BNext
  <2> DEFINE q == IntegrationPhase(Step(mu.t, "integrated"), c, note)
  <2>1. q.stage = "integration" /\ ph' = [ph EXCEPT ![mu.t] = Append(@, q)]
    BY <1>5 DEF IntegrationPhase, TransitionWith
  <2> HIDE DEF q
  <2>2. PICK t \in Tasks : t = mu.t
    BY <1>1
  <2> QED BY <1>1, <1>2, <2>1, <2>2, RecordStep
<1> QED BY <1>3, <1>4, <1>5

LEMMA CompletionLands ==
  ASSUME IInv, Based, IInv', Based',
         \/ PreExecutionRecord
         \/ \E t \in Tasks : \E mode \in {"non_code", "integrated", "historical"} :
              TaskComplete(t, mode)
  PROVE  UNCHANGED Board!bvars \/ Board!BNext
<1>1. CASE PreExecutionRecord
  <2>1. PICK t \in Tasks : t = mu.t /\ IntegrationPhases(t) # {}
    BY <1>1 DEF PreExecutionRecord, IInv, HolderFits, PreExecutionFits
  <2>2. /\ UNCHANGED <<ph, rcpt, canon>>
        /\ \/ CommitTaskCompletion(t, "pre_execution", TheIntegration(t).head)
           \/ contract' = contract
    BY <1>1, <2>1 DEF PreExecutionRecord, git
  <2> QED BY <2>1, <2>2, CloseStep, QuietSilent, SilentStep
<1>2. ASSUME NEW t \in Tasks, NEW mode, mode = "integrated" \/ mode = "historical",
             TaskComplete(t, mode)
      PROVE  Board!BNext
  <2>1. /\ UNCHANGED <<ph, rcpt, canon>> /\ Cardinality(IntegrationPhases(t)) = 1
        /\ CommitTaskCompletion(t, mode, TheIntegration(t).head)
    BY <1>2 DEF TaskComplete, git
  <2>2. IntegrationPhases(t) # {}
    BY <2>1, FS_EmptySet
  <2> QED BY <1>2, <2>1, <2>2, CloseStep
<1>3. ASSUME NEW t \in Tasks, TaskComplete(t, "non_code") PROVE UNCHANGED Board!bvars
  <2> DEFINE c == [mode |-> "non_code", head |-> None]
  <2>1. /\ UNCHANGED <<ph, rcpt, canon>> /\ contract[t] = None
        /\ contract' = [contract EXCEPT ![t] = c]
    BY <1>3 DEF TaskComplete, CommitTaskCompletion, git
  <2>2. c.mode = "non_code"
    OBVIOUS
  <2> HIDE DEF c
  <2>3. contract'[t] = c /\ \A u \in Tasks \ {t} : contract'[u] = contract[u]
    BY <2>1 DEF IInv, TypeOK
  <2>4. Closed' = Closed
    BY <2>1, <2>2, <2>3 DEF Closed
  <2> QED
    BY <2>1, <2>4, NoPhase, RecordsKept, ProvenKept, BranchKept
       DEF Board!bvars, RecordedOf, Branch, Closed
<1> QED BY <1>1, <1>2, <1>3

LEMMA TaskCallLands ==
  ASSUME IInv, Based, IInv', Based', NEW t \in Tasks, TaskCall(t)
  PROVE  UNCHANGED Board!bvars \/ Board!BNext
<1>1. CASE \/ (\E a \in Agents : DispatchLane(t, a)) \/ SubmitPublish(t) \/ RefreshLane(t)
           \/ ResetResume(t) \/ TestAdmit(t) \/ TestRun(t) \/ TestFail(t) \/ TestFinish(t)
           \/ HistoricalAdmit(t, "legacy") \/ HistoricalAdmit(t, "bootstrap_full")
           \/ DebugReconcileBootstrappedTask(t) \/ DebugReconcilePreExecutionTask(t)
  BY <1>1, CallsQuiet, SilentStep
<1>2. CASE \/ (\E dec \in {"accept", "reject"} : TaskExecutionReviewDecide(t, dec))
           \/ (\E stage \in Stages : TaskExecutionRework(t, stage))
           \/ TaskExecutionBlock(t) \/ TaskExecutionResume(t) \/ ResetBegin(t)
  BY <1>2, CallsSilent, SilentStep
<1>3. CASE \E mode \in {"non_code", "integrated", "historical"} : TaskComplete(t, mode)
  BY <1>3, CompletionLands
<1> QED BY <1>1, <1>2, <1>3 DEF TaskCall

LEMMA NextLands ==
  IInv /\ Based /\ IInv' /\ Based' /\ [Next]_vars => [Board!BNext]_(Board!bvars)
<1> SUFFICES ASSUME IInv, Based, IInv', Based', [Next]_vars
             PROVE  UNCHANGED Board!bvars \/ Board!BNext
  OBVIOUS
<1>1. CASE HandlerStep
  <2>1. CASE \/ DispatchRecord \/ DispatchUndo \/ ResetRemove \/ ResetRefuse \/ ReconcileLane
             \/ IntegrateCapture \/ IntegratePrepare \/ IntegrateCheck \/ IntegrateReread
    BY <2>1, StepsQuiet, SilentStep
  <2>2. CASE SubmitRecord \/ RefreshRecord \/ ResetFinish \/ ReconcileRecord
    BY <2>2, StepsSilent, SilentStep
  <2>3. CASE VerifyRecord
    BY <2>3, ProveStep
  <2>4. CASE IntegratePush
    BY <2>4, IntegratePushLands, SilentStep
  <2>5. CASE IntegrateRecord \/ HistoricalRecord
    BY <2>5, IntegrationLands, SilentStep
  <2>6. CASE PreExecutionRecord
    BY <2>6, CompletionLands
  <2> QED BY <1>1, <2>1, <2>2, <2>3, <2>4, <2>5, <2>6 DEF HandlerStep
<1>2. CASE \E t \in Tasks : TaskCall(t)
  BY <1>2, TaskCallLands
<1>3. CASE \E o \in Ops : IntegrateRequest(o) \/ IntegrateStart(o)
  BY <1>3, StepsQuiet, SilentStep
<1>4. CASE Environment
  <2>1. CASE ProfileChange \/ Crash \/ HandlerFault
    BY <2>1, StepsQuiet, SilentStep
  <2>2. CASE \E t \in Tasks : WorkerCommit(t) \/ WorkerRebase(t) \/ JournalAppend(t)
    BY <2>2, CallsQuiet, SilentStep
  <2>3. CASE ForeignPush \/ \E t \in Tasks : LandByHand(t)
    BY <2>3, OutsidePushLands
  <2> QED BY <1>4, <2>1, <2>2, <2>3 DEF Environment
<1>5. CASE UNCHANGED vars
  BY <1>5, StepsQuiet, SilentStep
<1> QED BY <1>1, <1>2, <1>3, <1>4, <1>5 DEF Next

LEMMA InitLands == Init => Board!BInit
<1> SUFFICES ASSUME Init PROVE Board!BInit
  OBVIOUS
<1>1. /\ canon = <<>> /\ (\A t \in Tasks : rcpt[t] = <<>> /\ ph[t] = <<>> /\ contract[t] = None)
  BY DEF Init
<1>2. IInv /\ Based
  BY InitInv, InitBased
<1>3. Branch = <<>>
  <2>1. Len(Branch) = 0 /\ DOMAIN Branch = {}
    BY <1>1, <1>2, BranchSequence DEF Canonical
  <2> QED BY <1>2, <2>1, BranchSequence
<1>4. ReviewedReceipts = {}
  <2>1. Receipts = {}
    BY <1>1 DEF Receipts
  <2> QED BY <1>2, <2>1, EveryReceiptProven DEF AllProven
<1>5. \A t \in Tasks : RecordedAt(t) = None
  <2>1. \A t \in Tasks : IntegrationPhases(t) = {}
    BY <1>1 DEF IntegrationPhases, Evidence
  <2> QED BY <1>2, <2>1, EveryIntegrationRecorded DEF AllRecorded
<1>6. Closed = {}
  BY <1>1 DEF Closed
<1> QED BY <1>3, <1>4, <1>5, <1>6 DEF Board!BInit, Branch, Closed

\* What task/integrate pushes is what a receipt and the review of that candidate
\* cover, on the parent they cover, once; what task/complete closes has landed
\* and is recorded, whatever crashes, faults, retries and foreign pushes
\* intervene: the handlers implement the canonical branch.
THEOREM LandsProvenWork == Spec => LandsOnlyProvenWork
<1>1. Init => IInv /\ Based /\ Board!BInit
  BY InitInv, InitBased, InitLands
<1>2. IInv /\ Based /\ [Next]_vars => IInv' /\ Based' /\ [Board!BNext]_(Board!bvars)
  BY NextInv, NextBased, NextLands
<1> QED BY <1>1, <1>2, PTL DEF Spec, LandsOnlyProvenWork, Board!BSpec

============================================================================
