--------------------------- MODULE TaskExecution ---------------------------
(***************************************************************************)
(* The execution lifecycle of Tasks (internal/service/task_execution_*.go, *)
(* task_complete.go) over the execution tables (internal/sqlitestore/      *)
(* task_execution_phases.go, task_execution_verification.go) and the git   *)
(* operations it is built on (internal/gitx).                              *)
(*                                                                         *)
(* taskExecutionMu serialises the handlers, so a handler is a sequence of  *)
(* steps that only the mutex holder takes: one step per durable write or   *)
(* remote effect, because the process can crash between any two of them.   *)
(* The remote repository, the Worker's lane and the verification Procedure *)
(* (which runs without the mutex) move meanwhile.                          *)
(*                                                                         *)
(* A commit of a lane is [base, n]: n changes on top of the commit at      *)
(* position base of the default branch.  The default branch is a sequence, *)
(* so a position names a commit; [base |-> b, n |-> 0] is the commit at b. *)
(***************************************************************************)
EXTENDS Naturals, Sequences, FiniteSets, FiniteSetsExt

CONSTANTS
  Tasks, Agents,
  Ops,        \* task/integrate requests: one durable Operation each
  OpTask,     \* the Task each of them names
  Loads,      \* the workloads: bounds, and the optional calls in play
  None

ASSUME OpTaskAssumption == OpTask \in [Ops -> Tasks]

VARIABLES
  load,       \* the workload of this behaviour
  st,         \* task_execution_states: one row per Task, or None
  ph,         \* task_execution_phases in insertion order
  rcpt,       \* task_execution_verifications in insertion order
  authoring,  \* the Task's authoring status: planned or done
  contract,   \* its completion event: None, or how it was completed
  journal,    \* how many Journal entries vouch for the Task's landing
  canon,      \* the remote default branch: what was landed at 1, 2, ...
  lane,       \* the Task's worktree: None or [head, mid] (mid: in a rebase)
  rlane,      \* the lane ref on the remote: None or a candidate
  profile,    \* identity of the pre_task_verify Procedure
  mu,         \* taskExecutionMu and the locals of its holder
  iop,        \* durable integrate Operations: [status, cap]
  top,        \* admitted task/test identity, in its durable Operation
  ver,        \* taskExecutionVerifyInFlight: what the running Procedure saw
  spent       \* how much of the bounds is used

tables == <<st, ph, rcpt, authoring, contract, journal>>
git == <<canon, lane, rlane>>
vars == <<load, st, ph, rcpt, authoring, contract, journal, canon, lane, rlane,
          profile, mu, iop, top, ver, spent>>

Free == [h |-> "free", t |-> None, pc |-> "none", x |-> None]
Hold(h, t, pc, x) == mu' = [h |-> h, t |-> t, pc |-> pc, x |-> x]
Release == mu' = Free

Commit(b, n) == [base |-> b, n |-> n]
Canonical == Len(canon)
(* MergeBase/IsAncestor over the histories this model can build.           *)
Ancestor(a, c) == IF a.n = 0 THEN a.base <= c.base
                  ELSE a.base = c.base /\ a.n <= c.n

Stages == {"code", "tests", "rebase"}
Terminal == {"done", "failed", "abandoned"}
Actionable(s) == s # None /\ s.stage \in Stages
                 /\ s.status \in {"dispatched", "in_progress",
                                  "changes_requested"}
Reworkable == {"dispatched", "in_progress", "awaiting_review",
               "changes_requested", "ready_for_verification", "verified",
               "blocked"}

Statuses == {"dispatched", "in_progress", "awaiting_review",
             "changes_requested", "ready_for_verification", "verifying",
             "verified", "integrating", "integrated", "blocked",
             "resetting"} \cup Terminal

(* Rows, lanes, commits and Operations.                                    *)
CommitRecord == [base : Nat, n : Nat]
LandingRecord == [task : Tasks \cup {None}, cand : CommitRecord \cup {None},
                  base : Nat, rev : Nat]
StateRecord == [status : Statuses, stage : Stages, base : Nat,
                head : CommitRecord, agent : Agents, rev : Nat \ {0}]
PhaseRecord == [kind : {"submission", "review", "rework", "block", "resume",
                        "refresh", "reset_start", "reset", "integration"},
                stage : Stages \cup {"integration"},
                dec : Statuses \cup {"", "accept", "reject"},
                head : CommitRecord \cup LandingRecord, rev : Nat,
                note : {"", "reconcile", "historical"}]
ReceiptRecord == [base : Nat, head : CommitRecord, profile : Nat,
                  attempt : Nat]
CompletionRecord == [mode : {"non_code", "integrated", "historical",
                             "pre_execution"},
                     head : {None} \cup LandingRecord]
LaneRecord == [head : CommitRecord, mid : BOOLEAN]
CaptureRecord == [rev : Nat, base : Nat, head : CommitRecord,
                  commit : {None} \cup LandingRecord]
OpRecord == [status : {"idle", "accepted", "completed", "failed"},
             cap : {None} \cup CaptureRecord]

ASSUME ShapeAssumption ==
  /\ \A l \in Loads : l.work \in Nat
  /\ None \notin StateRecord \cup PhaseRecord \cup CompletionRecord
              \cup LaneRecord \cup CommitRecord \cup LandingRecord
              \cup CaptureRecord \cup Nat \cup Tasks

Init ==
  /\ load \in Loads
  /\ st = [t \in Tasks |-> None]
  /\ ph = [t \in Tasks |-> <<>>]
  /\ rcpt = [t \in Tasks |-> <<>>]
  /\ authoring = [t \in Tasks |-> "planned"]
  /\ contract = [t \in Tasks |-> None]
  /\ journal = [t \in Tasks |-> 0]
  /\ canon = <<>>
  /\ lane = [t \in Tasks |-> None]
  /\ rlane = [t \in Tasks |-> None]
  /\ profile = 0
  /\ mu = Free
  /\ iop = [o \in Ops |-> [status |-> "idle", cap |-> None]]
  /\ top = [t \in Tasks |-> None]
  /\ ver = [t \in Tasks |-> None]
  /\ spent = [moves |-> 0, crashes |-> 0, faults |-> 0, hands |-> 0,
              notes |-> 0, profiles |-> 0]

Spend(what) == /\ spent[what] < load[what]
               /\ spent' = [spent EXCEPT ![what] = @ + 1]

----------------------------------------------------------------------------
(* The execution tables.  Every write names the revision it read and       *)
(* stores the next one, together with its phase row when it has one.       *)

Phase(s, kind, dec, note) ==
  [kind |-> kind, stage |-> s.stage, dec |-> dec, head |-> s.head,
   rev |-> s.rev, note |-> note]
(* The newest of some phase rows, and of all receipts.                     *)
LatestOf(t, rows) == IF rows = {} THEN None ELSE ph[t][Max(rows)]
Latest(s) == IF s = <<>> THEN None ELSE s[Len(s)]
LatestPhase(t, stage) ==
  LatestOf(t, {i \in DOMAIN ph[t] : ph[t][i].stage = stage})
Accepts(p, stage) == p.stage = stage /\ p.kind = "review" /\ p.dec = "accept"
LatestAccepted(t, stage) ==
  LatestOf(t, {i \in DOMAIN ph[t] : Accepts(ph[t][i], stage)})
LatestKind(t, kinds) ==
  LatestOf(t, {i \in DOMAIN ph[t] : ph[t][i].kind \in kinds})
ResetRev(t) == LET p == LatestKind(t, {"reset"})
               IN IF p = None THEN 0 ELSE p.rev
Evidence(t) == {ph[t][i] : i \in DOMAIN ph[t]}

(* UpdateTaskExecutionState: the row alone.                                *)
UpdateState(t, s) == st' = [st EXCEPT ![t] = s]
(* TransitionTaskExecutionState: the row and its phase, atomically.        *)
TransitionWith(t, s, phase) ==
  /\ UpdateState(t, s)
  /\ ph' = [ph EXCEPT ![t] = Append(@, phase)]
Transition(t, s, kind, dec) == TransitionWith(t, s, Phase(s, kind, dec, ""))
Step(t, status) == [st[t] EXCEPT !.status = status, !.rev = @ + 1]

(* The bound on rounds: a call that starts one is not made beyond it.      *)
Within(t) == st[t] # None => st[t].rev < load.rev

(* Mutant: the Worker's other Tasks are not looked at.                     *)
MutantSlot(a, t) == TRUE
(* ensureWorkerActionableSlot                                              *)
Slot(a, t) == \A u \in Tasks \ {t} : ~(Actionable(st[u]) /\ st[u].agent = a)

(* resolveTaskExecutionTaskForAgent: the one Task the Worker's call means. *)
CurrentTask(a, t) == {u \in Tasks : Actionable(st[u]) /\ st[u].agent = a}
                       = {t}

----------------------------------------------------------------------------
(* createManagedWorktree: a fresh lane, never over an existing one.        *)
NewLane(b) == [head |-> Commit(b, 0), mid |-> FALSE]

(* task/dispatch: the lane is created on disk, then the row is written.    *)

DispatchLane(t, a) ==
  /\ mu = Free /\ Within(t)
  /\ t \in load.tasks
  /\ authoring[t] = "planned"
  /\ st[t] # None => /\ st[t].status = "abandoned"
                      /\ LatestKind(t, {"reset", "reset_start"}).kind
                           = "reset"
  /\ Slot(a, t)
  /\ lane[t] = None
  /\ lane' = [lane EXCEPT ![t] = NewLane(Canonical)]
  /\ Hold("dispatch", t, "created", [agent |-> a, base |-> Canonical])
  /\ UNCHANGED <<load, tables, canon, rlane, profile, iop, top, ver, spent>>

DispatchRecord ==
  LET t == mu.t IN
  /\ mu.h = "dispatch"
  /\ UpdateState(t, [status |-> "dispatched", stage |-> "code",
                     base |-> mu.x.base, head |-> Commit(mu.x.base, 0),
                     agent |-> mu.x.agent,
                     rev |-> IF st[t] = None THEN 1 ELSE st[t].rev + 1])
  /\ Release
  /\ UNCHANGED <<load, ph, rcpt, authoring, contract, journal, git, profile,
                 iop, top, ver, spent>>

(* The row could not be written: the fresh lane is removed if untouched.   *)
DispatchUndo ==
  /\ mu.h = "dispatch"
  /\ Spend("faults")
  /\ lane' = [lane EXCEPT ![mu.t] =
                IF @ = NewLane(mu.x.base) THEN None ELSE @]
  /\ Release
  /\ UNCHANGED <<load, tables, canon, rlane, profile, iop, top, ver>>

----------------------------------------------------------------------------
(* Submission: the lane is published on the remote, then the phase is      *)
(* recorded.                                                               *)

ExpectedRemote(t) == LET p == LatestKind(t, {"submission"})
                     IN IF p = None THEN None ELSE p.head

(* publishTaskSubmissionLane up to the compare-and-swap: the remote holds  *)
(* the candidate, the last recorded submission, or one that landed before  *)
(* it could be recorded.                                                   *)
Publishable(t, c) ==
  \/ rlane[t] = c
  \/ rlane[t] = ExpectedRemote(t)
  \/ rlane[t] # None /\ Ancestor(rlane[t], c)

(* A rebase submission needs the accepted stage before it and must descend *)
(* from the refreshed base.                                                *)
RebaseReady(t) ==
  LET previous == IF LatestAccepted(t, "tests") # None THEN "tests"
                  ELSE "code"
      p == LatestPhase(t, previous)
  IN /\ p # None
     /\ p.kind = "review" /\ p.dec = "accept"
     /\ Ancestor(Commit(st[t].base, 0), lane[t].head)

SubmitPublish(t) ==
  LET s == st[t] IN
  /\ mu = Free /\ Within(t)
  /\ s # None
  /\ s.status \in {"dispatched", "changes_requested"}
  /\ s.stage \in {"code", "rebase"}
  /\ CurrentTask(s.agent, t)
  /\ lane[t] # None /\ ~lane[t].mid
  /\ s.stage = "rebase" => RebaseReady(t)
  /\ Publishable(t, lane[t].head)
  /\ rlane' = [rlane EXCEPT ![t] = lane[t].head]
  /\ Hold("submit", t, "published", lane[t].head)
  /\ UNCHANGED <<load, tables, canon, lane, profile, iop, top, ver, spent>>

SubmitRecord ==
  /\ mu.h = "submit"
  /\ Transition(mu.t, [Step(mu.t, "awaiting_review") EXCEPT !.head = mu.x],
                "submission", "")
  /\ Release
  /\ UNCHANGED <<load, rcpt, authoring, contract, journal, git, profile, iop,
                 top, ver, spent>>

----------------------------------------------------------------------------
(* Review and rework                                                       *)

TaskExecutionReviewDecide(t, dec) ==
  LET s == st[t] IN
  /\ mu = Free /\ Within(t)
  /\ s # None
  /\ s.status = "awaiting_review"
  /\ LatestPhase(t, s.stage) # None /\ LatestPhase(t, s.stage).dec = ""
  /\ dec = "reject" => Slot(s.agent, t)
  /\ Transition(t, Step(t, IF dec = "accept" THEN "ready_for_verification"
                           ELSE "changes_requested"), "review", dec)
  /\ UNCHANGED <<load, rcpt, authoring, contract, journal, git, profile, mu,
                 iop, top, ver, spent>>

TaskExecutionRework(t, stage) ==
  LET s == st[t] IN
  /\ "rework" \in load.calls
  /\ mu = Free /\ Within(t)
  /\ s # None /\ s.status \in Reworkable
  /\ stage = "tests" => s.stage \in {"tests", "rebase"}
  /\ stage = "rebase" => s.stage = "rebase"
  /\ ~(s.status = "changes_requested" /\ LatestPhase(t, stage) # None
       /\ LatestPhase(t, stage).kind = "rework")
  /\ Slot(s.agent, t)
  /\ Transition(t, [Step(t, "changes_requested") EXCEPT !.stage = stage],
                "rework", "")
  /\ UNCHANGED <<load, rcpt, authoring, contract, journal, git, profile, mu,
                 iop, top, ver, spent>>

----------------------------------------------------------------------------
(* Park, refresh and reset                                                 *)

TaskExecutionBlock(t) ==
  /\ "block" \in load.calls
  /\ mu = Free /\ Within(t)
  /\ Actionable(st[t])
  /\ Transition(t, Step(t, "blocked"), "block", st[t].status)
  /\ UNCHANGED <<load, rcpt, authoring, contract, journal, git, profile, mu,
                 iop, top, ver, spent>>

TaskExecutionResume(t) ==
  LET p == LatestKind(t, {"block", "resume"}) IN
  /\ mu = Free /\ Within(t)
  /\ st[t] # None /\ st[t].status = "blocked"
  /\ p # None /\ p.kind = "block"
  /\ Slot(st[t].agent, t)
  /\ Transition(t, Step(t, p.dec), "resume", p.dec)
  /\ UNCHANGED <<load, rcpt, authoring, contract, journal, git, profile, mu,
                 iop, top, ver, spent>>

(* Only parking and refreshing happened since the last reset.              *)
Untouched(t) ==
  /\ \A p \in Evidence(t) :
       p.rev <= ResetRev(t) \/ p.kind \in {"block", "resume", "refresh"}
  /\ rcpt[t] = <<>>

Refreshable(t) ==
  /\ st[t] # None
  /\ st[t].status \in {"dispatched", "in_progress", "blocked"}
  /\ st[t].head = Commit(st[t].base, 0)
  /\ Untouched(t)

(* The lane moves first; a lane already at the branch head is what an      *)
(* interrupted refresh left behind.                                        *)
RefreshLane(t) ==
  /\ "refresh" \in load.calls
  /\ mu = Free /\ Within(t)
  /\ Refreshable(t)
  /\ lane[t] # None /\ ~lane[t].mid
  /\ st[t].base # Canonical
  /\ lane[t].head \in {st[t].head, Commit(Canonical, 0)}
  /\ lane' = [lane EXCEPT ![t].head = Commit(Canonical, 0)]
  /\ Hold("refresh", t, "moved", Canonical)
  /\ UNCHANGED <<load, tables, canon, rlane, profile, iop, top, ver, spent>>

RefreshRecord ==
  LET t == mu.t IN
  /\ mu.h = "refresh"
  /\ Transition(t, [Step(t, st[t].status) EXCEPT !.base = mu.x,
                                         !.head = Commit(mu.x, 0)],
                "refresh", "")
  /\ Release
  /\ UNCHANGED <<load, rcpt, authoring, contract, journal, git, profile, iop,
                 top, ver, spent>>

(* ensureTaskExecutionResetSafe; the lane may be gone when resuming.       *)
ResetSafe(t, resuming) ==
  /\ \A p \in Evidence(t) :
       \/ p.rev <= ResetRev(t)
       \/ p.kind \in {"block", "resume", "refresh", "reset_start"}
  /\ rcpt[t] = <<>> /\ contract[t] = None
  /\ top[t] = None
  /\ \A o \in Ops : OpTask[o] = t => iop[o].status # "accepted"
  /\ \/ resuming /\ lane[t] = None
     \/ lane[t] = [head |-> st[t].head, mid |-> FALSE]
        /\ st[t].head = Commit(st[t].base, 0)

(* The durable intent comes before the lane is touched.                    *)
ResetBegin(t) ==
  LET s == st[t] IN
  /\ "reset" \in load.calls
  /\ mu = Free /\ Within(t)
  /\ ver[t] = None
  /\ s # None
  /\ s.status \in {"dispatched", "in_progress", "blocked"}
  /\ s.stage = "code"
  /\ LET p == LatestKind(t, {"reset", "reset_start"})
     IN p # None => p.kind = "reset"
  /\ ResetSafe(t, FALSE)
  /\ Transition(t, Step(t, "resetting"), "reset_start", s.status)
  /\ Hold("reset", t, "begun", None)
  /\ UNCHANGED <<load, rcpt, authoring, contract, journal, git, profile, iop,
                 top, ver, spent>>

(* The same call again, after a crash or an error.                         *)
ResetResume(t) ==
  /\ mu = Free
  /\ st[t] # None /\ st[t].status = "resetting"
  /\ ver[t] = None
  /\ LatestKind(t, {"reset", "reset_start"}).kind = "reset_start"
  /\ Hold("reset", t, "begun", None)
  /\ UNCHANGED <<load, tables, git, profile, iop, top, ver, spent>>

ResetRemove ==
  /\ mu.h = "reset" /\ mu.pc = "begun"
  /\ ResetSafe(mu.t, TRUE)
  /\ lane' = [lane EXCEPT ![mu.t] = None]
  /\ Hold("reset", mu.t, "removed", None)
  /\ UNCHANGED <<load, tables, canon, rlane, profile, iop, top, ver, spent>>

ResetFinish ==
  /\ mu.h = "reset" /\ mu.pc = "removed"
  /\ Transition(mu.t, Step(mu.t, "abandoned"), "reset",
                LatestKind(mu.t, {"reset_start"}).dec)
  /\ Release
  /\ UNCHANGED <<load, rcpt, authoring, contract, journal, git, profile, iop,
                 top, ver, spent>>

(* The lane is no longer what the reset may remove: the call fails.        *)
ResetRefuse ==
  /\ mu.h = "reset" /\ mu.pc = "begun"
  /\ ~ResetSafe(mu.t, TRUE)
  /\ Release
  /\ UNCHANGED <<load, tables, git, profile, iop, top, ver, spent>>

----------------------------------------------------------------------------
(* task/test                                                               *)

(* taskExecutionVerificationReviews: the code review always, the review of *)
(* the current stage for exactly the current head.                         *)
Reviewed(t) ==
  \A stage \in {"code", st[t].stage} :
    /\ LatestAccepted(t, stage) # None
    /\ stage = st[t].stage => LatestAccepted(t, stage).head = st[t].head

(* computeTaskExecutionVerificationAdmission                               *)
Admissible(t) ==
  /\ st[t] # None
  /\ Reviewed(t)
  /\ lane[t] = [head |-> st[t].head, mid |-> FALSE]

TestIdentity(t) ==
  [stage |-> st[t].stage, base |-> st[t].base, head |-> st[t].head,
   agent |-> st[t].agent, code |-> LatestAccepted(t, "code").rev,
   current |-> LatestAccepted(t, st[t].stage).rev,
   profile |-> profile, canonical |-> Canonical]
SameButCanonical(a, b) == [a EXCEPT !.canonical = b.canonical] = b

Testable(t) == Admissible(t) /\ st[t].status \in {"ready_for_verification",
                                                   "verifying", "verified"}

(* taskExecutionVerificationProofCurrent                                   *)
ProofCurrent(t) ==
  /\ rcpt[t] # <<>>
  /\ LET r == Latest(rcpt[t]) IN
     /\ r.base = st[t].base /\ r.head = st[t].head
     /\ r.profile = profile
     /\ \A stage \in Stages :
          LatestPhase(t, stage) # None
          => LatestPhase(t, stage).rev <= r.attempt + 1

(* reuseCurrentTaskExecutionVerification, and the "live" test of the run.  *)
ProofLive(t) == /\ ProofCurrent(t)
                /\ Latest(rcpt[t]).base = Canonical

TestAdmit(t) ==
  /\ mu = Free /\ Within(t)
  /\ top[t] = None
  /\ Testable(t)
  /\ ~(st[t].status = "verified" /\ ProofLive(t))
  /\ top' = [top EXCEPT ![t] = TestIdentity(t)]
  /\ UNCHANGED <<load, tables, git, profile, mu, iop, ver, spent>>

EndTest(t) == /\ top' = [top EXCEPT ![t] = None]
              /\ ver' = [ver EXCEPT ![t] = None]

(* The canonical branch moved: the lane is rebased under the mutex.        *)
NeedsRebase(t, id) ==
  /\ Testable(t)
  /\ SameButCanonical(id, TestIdentity(t))
  /\ \/ id.canonical # Canonical
     \/ st[t].base # Canonical
        /\ ~(st[t].status = "verified" /\ ProofLive(t))

(* taskExecutionTestRun up to the Procedure.                               *)
TestRun(t) ==
  /\ mu = Free
  /\ top[t] # None /\ ver[t] = None
  /\ \/ /\ NeedsRebase(t, top[t])
        /\ Hold("reconcile", t, "lane", Canonical)
        /\ EndTest(t)
     \/ /\ Testable(t)
        /\ top[t] = TestIdentity(t)
        /\ st[t].base = Canonical
        /\ st[t].status # "verified"
        /\ ver' = [ver EXCEPT ![t] = [id |-> top[t], rev |-> st[t].rev,
                                      status |-> st[t].status]]
        /\ UNCHANGED <<top, mu>>
     \/ /\ Testable(t) /\ SameButCanonical(top[t], TestIdentity(t)) =>
             /\ top[t] = TestIdentity(t)
             /\ st[t].base = Canonical
             /\ st[t].status = "verified"
        /\ EndTest(t)
        /\ UNCHANGED mu
  /\ UNCHANGED <<load, tables, git, profile, iop, spent>>

(* The Procedure fails, or the Operation does.                             *)
TestFail(t) ==
  /\ top[t] # None
  /\ Spend("faults")
  /\ EndTest(t)
  /\ UNCHANGED <<load, tables, git, profile, mu, iop>>

(* The mutex again: the state, the admission and the canonical head are    *)
(* read afresh and must be what the Procedure ran on.                      *)
TestFinish(t) ==
  LET seen == ver[t]
      same == /\ Testable(t)
              /\ st[t].status = seen.status /\ st[t].rev = seen.rev
  IN
  /\ mu = Free
  /\ seen # None
  /\ \/ /\ same /\ seen.id = TestIdentity(t)
        /\ IF st[t].status = "ready_for_verification"
           THEN UpdateState(t, Step(t, "verifying"))
           ELSE UNCHANGED st
        /\ Hold("verify", t, "record", seen.id)
     \/ /\ same /\ seen.id.canonical # Canonical
        /\ Hold("reconcile", t, "lane", Canonical)
        /\ UNCHANGED st
     \/ /\ same => seen.id.canonical = Canonical
                   /\ seen.id # TestIdentity(t)
        /\ UNCHANGED <<st, mu>>
  /\ EndTest(t)
  /\ UNCHANGED <<load, ph, rcpt, authoring, contract, journal, git, profile,
                 iop, spent>>

(* FinishTaskExecutionVerification: the receipt and the row, atomically.   *)
VerifyRecord ==
  LET t == mu.t IN
  /\ mu.h = "verify"
  /\ UpdateState(t, Step(t, "verified"))
  /\ rcpt' = [rcpt EXCEPT ![t] = Append(@,
       [base |-> st[t].base, head |-> st[t].head, profile |-> mu.x.profile,
        attempt |-> st[t].rev])]
  /\ Release
  /\ UNCHANGED <<load, ph, authoring, contract, journal, git, profile, iop,
                 top, ver, spent>>

(* reconcileTaskExecutionBase: the lane, which may stop on a conflict or   *)
(* be restored, then the row and its rework phase.  No slot is asked for.  *)
ReconcileLane ==
  LET t == mu.t
      moved == Commit(mu.x, lane[t].head.n)
  IN
  /\ mu.h = "reconcile" /\ mu.pc = "lane"
  /\ \E ok, mid \in BOOLEAN :
       /\ ok => ~mid
       /\ lane' = [lane EXCEPT ![t] =
            [head |-> IF ok THEN moved ELSE @.head, mid |-> mid]]
       /\ Hold("reconcile", t, IF ok THEN "moved" ELSE "failed", moved)
  /\ UNCHANGED <<load, tables, canon, rlane, profile, iop, top, ver, spent>>

(* Mutant: the rebased candidate keeps the review of the old one.          *)
MutantReconcileRecord ==
  LET t == mu.t IN
  /\ mu.h = "reconcile" /\ mu.pc \in {"moved", "failed"}
  /\ UpdateState(t, [Step(t, "ready_for_verification") EXCEPT
       !.base = mu.x.base,
       !.head = IF mu.pc = "moved" THEN mu.x ELSE @])
  /\ Release
  /\ UNCHANGED <<load, ph, rcpt, authoring, contract, journal, git, profile,
                 iop, top, ver, spent>>

(* The row names the head the rebase left in the lane, whatever the Worker *)
(* had committed there since the recorded one.                             *)
ReconcileRecord ==
  LET t == mu.t IN
  /\ mu.h = "reconcile" /\ mu.pc \in {"moved", "failed"}
  /\ LET s == [Step(t, "changes_requested") EXCEPT
                 !.base = mu.x.base, !.stage = "rebase",
                 !.head = IF mu.pc = "moved" THEN mu.x ELSE @]
     IN TransitionWith(t, s, Phase(s, "rework", "", "reconcile"))
  /\ Release
  /\ UNCHANGED <<load, rcpt, authoring, contract, journal, git, profile, iop,
                 top, ver, spent>>

----------------------------------------------------------------------------
(* task/integrate.  The Operation's captured state is written ahead of     *)
(* every effect it describes, and survives a failure of the Operation.     *)

(* A landed commit: what, on which parent, prepared at which revision.     *)
Landing(t, cand, base, rev) ==
  [task |-> t, cand |-> cand, base |-> base, rev |-> rev]
(* taskIntegrationCommitOnCanonical                                        *)
OnCanonical(c) == c.base < Canonical /\ canon[c.base + 1] = c

Capture(t) == [rev |-> st[t].rev, base |-> st[t].base, head |-> st[t].head,
               commit |-> None]
(* taskExecutionIntegrationCaptureBindsState                               *)
Binds(cap, t) == /\ cap # None
                 /\ cap.rev = st[t].rev
                 /\ cap.base = st[t].base /\ cap.head = st[t].head

EndOp(o, status) == iop' = [iop EXCEPT ![o].status = status]
SaveCapture(o, cap) == iop' = [iop EXCEPT ![o].cap = cap]

(* enqueueTypedDurableMutation: a failed request is reopened with the      *)
(* state it captured.                                                      *)
IntegrateRequest(o) ==
  /\ iop[o].status \in {"idle", "failed"}
  /\ st[OpTask[o]] # None
  /\ iop[o].status = "failed" => Spend("faults")
  /\ iop[o].status = "idle" => UNCHANGED spent
  /\ EndOp(o, "accepted")
  /\ UNCHANGED <<load, tables, git, profile, mu, top, ver>>

(* Mutant: the claim is released but the Operation stays to be retried.    *)
MutantReject(o, t) ==
  /\ IF st[t].status = "integrating"
     THEN UpdateState(t, Step(t, "verified")) ELSE UNCHANGED st
  /\ UNCHANGED iop
  /\ Release

(* rejectTaskExecutionIntegration: the claim is released.                  *)
Reject(o, t) ==
  /\ IF st[t].status = "integrating"
     THEN UpdateState(t, Step(t, "verified")) ELSE UNCHANGED st
  /\ EndOp(o, "failed")
  /\ Release

(* Mutant: a retry starts over without asking whether the commit landed.   *)
MutantLanded(cap) == FALSE

(* What the captured commit says before anything is decided.               *)
Recorded(cap) == cap # None /\ cap.commit # None
Landed(cap) == Recorded(cap) /\ OnCanonical(cap.commit)

(* An attempt may continue on its capture, or on a proof of exactly the    *)
(* candidate on exactly the current default branch.                        *)
ResumesCapture(cap, t) == /\ Admissible(t)
                          /\ Binds(cap, t)
                          /\ cap.base = Canonical
FreshProof(t) == Admissible(t) /\ ProofLive(t)

IntegrateStart(o) ==
  LET t == OpTask[o]
      cap == iop[o].cap
      open == st[t] # None /\ st[t].status \in {"verified", "integrating"}
  IN
  /\ mu = Free
  /\ iop[o].status = "accepted"
  /\ \/ /\ ~open
        /\ EndOp(o, IF st[t] # None /\ st[t].status = "integrated"
                    THEN "completed" ELSE "failed")
        /\ UNCHANGED <<st, mu>>
     \/ /\ open /\ Landed(cap) /\ ~Binds(cap, t)
        /\ EndOp(o, "failed")
        /\ UNCHANGED <<st, mu>>
     \/ /\ open /\ Landed(cap) /\ Binds(cap, t)
        /\ Hold("integrate", t, "landed", o)
        /\ UNCHANGED <<st, iop>>
     \/ /\ open /\ ~Landed(cap)
        /\ ResumesCapture(cap, t)
        /\ Hold("integrate", t, IF Recorded(cap) THEN "prepared"
                                ELSE "captured", o)
        /\ UNCHANGED <<st, iop>>
     \/ /\ open /\ ~Landed(cap)
        /\ ~ResumesCapture(cap, t) /\ FreshProof(t)
        /\ IF st[t].status = "verified"
           THEN UpdateState(t, Step(t, "integrating")) ELSE UNCHANGED st
        /\ Hold("integrate", t, "claimed", o)
        /\ UNCHANGED iop
     \/ /\ open /\ ~Landed(cap)
        /\ ~ResumesCapture(cap, t) /\ ~FreshProof(t)
        /\ Reject(o, t)
  /\ UNCHANGED <<load, ph, rcpt, authoring, contract, journal, git, profile,
                 top, ver, spent>>

IntegrateCapture ==
  /\ mu.h = "integrate" /\ mu.pc = "claimed"
  /\ SaveCapture(mu.x, Capture(mu.t))
  /\ Hold("integrate", mu.t, "captured", mu.x)
  /\ UNCHANGED <<load, tables, git, profile, top, ver, spent>>

(* PrepareTaskIntegrationCommit and its write-ahead record.                *)
IntegratePrepare ==
  LET cap == iop[mu.x].cap IN
  /\ mu.h = "integrate" /\ mu.pc = "captured"
  /\ SaveCapture(mu.x, [cap EXCEPT !.commit =
                          Landing(mu.t, cap.head, cap.base, cap.rev)])
  /\ Hold("integrate", mu.t, "prepared", mu.x)
  /\ UNCHANGED <<load, tables, git, profile, top, ver, spent>>

(* The last look at the default branch before publishing.                  *)
IntegrateCheck ==
  LET cap == iop[mu.x].cap IN
  /\ mu.h = "integrate" /\ mu.pc = "prepared"
  /\ \/ /\ Canonical = cap.base
        /\ Hold("integrate", mu.t, "publishing", mu.x)
        /\ UNCHANGED <<st, iop>>
     \/ /\ Canonical # cap.base /\ OnCanonical(cap.commit)
        /\ Hold("integrate", mu.t, "landed", mu.x)
        /\ UNCHANGED <<st, iop>>
     \/ /\ Canonical # cap.base /\ ~OnCanonical(cap.commit)
        /\ Reject(mu.x, mu.t)
  /\ UNCHANGED <<load, ph, rcpt, authoring, contract, journal, git, profile,
                 top, ver, spent>>

(* PushTaskIntegrationCAS with an expected-old lease: it lands, the remote *)
(* refuses it as stale, or the transport fails before or after it landed.  *)
IntegratePush ==
  LET cap == iop[mu.x].cap IN
  /\ mu.h = "integrate" /\ mu.pc = "publishing"
  /\ \/ /\ Canonical = cap.base
        /\ canon' = Append(canon, cap.commit)
        /\ \/ Hold("integrate", mu.t, "sent", mu.x) /\ UNCHANGED spent
           \/ Hold("integrate", mu.t, "unknown", mu.x) /\ Spend("faults")
     \/ /\ Canonical # cap.base
        /\ Hold("integrate", mu.t, "stale", mu.x)
        /\ UNCHANGED <<canon, spent>>
     \/ /\ Hold("integrate", mu.t, "unknown", mu.x)
        /\ Spend("faults")
        /\ UNCHANGED canon
  /\ UNCHANGED <<load, tables, lane, rlane, profile, iop, top, ver>>

(* The branch is read again and decides; only a refusal releases the claim.*)
IntegrateReread ==
  LET cap == iop[mu.x].cap
      atHead == cap.base + 1 = Canonical /\ OnCanonical(cap.commit)
  IN
  /\ mu.h = "integrate" /\ mu.pc \in {"sent", "unknown", "stale"}
  /\ \/ /\ atHead
        /\ Hold("integrate", mu.t, "landed", mu.x)
        /\ UNCHANGED <<st, iop>>
     \/ /\ ~atHead
        /\ OnCanonical(cap.commit) \/ mu.pc # "stale"
        /\ EndOp(mu.x, "failed")
        /\ Release
        /\ UNCHANGED st
     \/ /\ ~OnCanonical(cap.commit) /\ mu.pc = "stale"
        /\ Reject(mu.x, mu.t)
  /\ UNCHANGED <<load, ph, rcpt, authoring, contract, journal, git, profile,
                 top, ver, spent>>

(* The checkout follows the landed head, then the integration is recorded. *)
IntegrationPhase(s, commit, note) ==
  [kind |-> "integration", stage |-> "integration", dec |-> "accept",
   head |-> commit, rev |-> s.rev, note |-> note]
IntegrateRecord ==
  LET t == mu.t
      s == Step(t, "integrated")
  IN
  /\ mu.h = "integrate" /\ mu.pc = "landed"
  /\ TransitionWith(t, s, IntegrationPhase(s, iop[mu.x].cap.commit, ""))
  /\ EndOp(mu.x, "completed")
  /\ Release
  /\ UNCHANGED <<load, rcpt, authoring, contract, journal, git, profile, top,
                 ver, spent>>

(* Any error of a holder of the mutex: it returns, and what it wrote stays.*)
HandlerFault ==
  /\ mu.h \in {"submit", "refresh", "reset", "reconcile", "verify",
               "integrate", "historical", "pre_execution"}
  /\ Spend("faults")
  /\ IF mu.h = "integrate" THEN EndOp(mu.x, "failed") ELSE UNCHANGED iop
  /\ Release
  /\ UNCHANGED <<load, tables, git, profile, top, ver>>

----------------------------------------------------------------------------
(* Landings outside the lifecycle, and completion                          *)

IntegrationPhases(t) == {p \in Evidence(t) : p.stage = "integration"}
(* Commits of this Task on the default branch, the ones landed by hand     *)
(* included: what Journal evidence can refer to.                           *)
LandedCommits(t) == {canon[i] : i \in {j \in DOMAIN canon :
                       canon[j].task = t}}

(* taskExecutionHistoricalBootstrapProof: the assigned clean lane holds    *)
(* the landed candidate, on the frozen base and under the current gates.   *)
BootstrapProof(t, c) ==
  /\ st[t].base = c.base
  /\ lane[t] = [head |-> c.cand, mid |-> FALSE]
  /\ st[t].status \in {"ready_for_verification", "verified"}
       => st[t].head = c.cand

(* taskExecutionHistoricalIntegrate up to its last reads: the evidence of  *)
(* an active Planner names a commit that is already on the branch.         *)
HistoricalAdmit(t, prof) ==
  /\ mu = Free
  /\ st[t] # None
  /\ journal[t] > 0
  /\ IntegrationPhases(t) = {}
  /\ st[t].status \in {"ready_for_verification", "verified"}
       \cup IF prof = "bootstrap_full" THEN {"dispatched"} ELSE {}
  /\ \E c \in LandedCommits(t) :
       /\ prof = "bootstrap_full" => BootstrapProof(t, c)
       /\ Hold("historical", t, prof,
               [commit |-> c, canonical |-> Canonical, lane |-> lane[t],
                journal |-> journal[t]])
  /\ UNCHANGED <<load, tables, git, profile, iop, top, ver, spent>>

(* proveTSK678BootstrapSource: the same, and the commit is on the branch.  *)
BootstrapSource(t, c) == BootstrapProof(t, c) /\ OnCanonical(c)

(* readTSK678JournalEvidence: the Planner's authorization and the Lead's   *)
(* review.                                                                 *)
JournalEvidence(t) == journal[t] > 1

(* validateTSK678Execution: parked at once, nothing submitted or verified. *)
NeverStarted(t) ==
  /\ st[t].status = "blocked" /\ st[t].rev = 2
  /\ Len(ph[t]) = 1 /\ rcpt[t] = <<>>

(* DebugReconcileBootstrappedTask up to its last reads.                    *)
DebugReconcileBootstrappedTask(t) ==
  /\ mu = Free
  /\ st[t] # None /\ NeverStarted(t)
  /\ JournalEvidence(t)
  /\ \E c \in LandedCommits(t) :
       /\ BootstrapSource(t, c)
       /\ Hold("historical", t, "bootstrap",
               [commit |-> c, canonical |-> Canonical, lane |-> lane[t],
                journal |-> journal[t]])
  /\ UNCHANGED <<load, tables, git, profile, iop, top, ver, spent>>

(* Both read the branch, and the lane when it is part of the proof, once   *)
(* more, and record what was landed; neither publishes anything.           *)
HistoricalRecord ==
  LET t == mu.t
      s == Step(t, "integrated")
  IN
  /\ mu.h = "historical"
  /\ IF /\ Canonical = mu.x.canonical
        /\ mu.pc # "legacy" => lane[t] = mu.x.lane
        /\ mu.pc = "bootstrap" => journal[t] = mu.x.journal
     THEN TransitionWith(t, s, IntegrationPhase(s, mu.x.commit, "historical"))
     ELSE UNCHANGED <<st, ph>>
  /\ Release
  /\ UNCHANGED <<load, rcpt, authoring, contract, journal, git, profile, iop,
                 top, ver, spent>>

TheIntegration(t) == CHOOSE p \in IntegrationPhases(t) : TRUE

(* taskCompleteIntegratedAcceptedTrackProof: the gate has changed since,   *)
(* and the Track that holds the Task was accepted.                         *)
AcceptedTrackProof(t) ==
  /\ "track" \in load.calls
  /\ rcpt[t] # <<>> => Latest(rcpt[t]).profile # profile

(* taskCompleteIntegratedProof: the current verification of exactly what   *)
(* landed, on exactly the base it was verified on, or the accepted Track.  *)
IntegratedProof(t) ==
  LET p == TheIntegration(t) IN
  /\ p.note = ""
  /\ \/ /\ ProofCurrent(t)
        /\ p.head.base = Latest(rcpt[t]).base
        /\ p.head.cand = Latest(rcpt[t]).head
     \/ AcceptedTrackProof(t)

(* taskCompleteHistoricalProof                                             *)
HistoricalProof(t) == TheIntegration(t).note = "historical"

(* CommitTaskCompletion: the Task, its event and the execution row in one  *)
(* transaction.                                                            *)
CommitTaskCompletion(t, mode, head) ==
  /\ authoring' = [authoring EXCEPT ![t] = "done"]
  /\ contract' = [contract EXCEPT ![t] = [mode |-> mode, head |-> head]]

(* readLegacyVerification: a receipt of an earlier gate for what landed.   *)
LegacyVerification(t) ==
  /\ rcpt[t] # <<>>
  /\ Latest(rcpt[t]).head = TheIntegration(t).head.cand
  /\ Latest(rcpt[t]).profile # profile

(* validateReconcileState: the integrated lifecycle, never reset.          *)
PreExecutionLifecycle(t) ==
  /\ st[t].status = "integrated"
  /\ Cardinality(IntegrationPhases(t)) = 1
  /\ LatestKind(t, {"reset", "reset_start"}) = None

(* readJournalEvidence, readLeadGateEvidence: the Planner's authorization  *)
(* and a later Lead record of the gates.                                   *)
LeadGateEvidence(t) == journal[t] > 1

(* proveLandedSource                                                       *)
LandedSource(t) == OnCanonical(TheIntegration(t).head)

(* DebugReconcilePreExecutionTask up to its last reads, and after them.    *)
DebugReconcilePreExecutionTask(t) ==
  /\ mu = Free
  /\ st[t] # None
  /\ authoring[t] = "planned" /\ contract[t] = None
  /\ LeadGateEvidence(t)
  /\ PreExecutionLifecycle(t) /\ LegacyVerification(t) /\ LandedSource(t)
  /\ Hold("pre_execution", t, "admitted",
          [canonical |-> Canonical, journal |-> journal[t]])
  /\ UNCHANGED <<load, tables, git, profile, iop, top, ver, spent>>

PreExecutionRecord ==
  LET t == mu.t IN
  /\ mu.h = "pre_execution"
  /\ IF mu.x = [canonical |-> Canonical, journal |-> journal[t]]
     THEN /\ UpdateState(t, Step(t, "done"))
          /\ CommitTaskCompletion(t, "pre_execution", TheIntegration(t).head)
     ELSE UNCHANGED <<st, authoring, contract>>
  /\ Release
  /\ UNCHANGED <<load, ph, rcpt, git, profile, iop, top, ver, journal, spent>>

(* task/complete.  The Journal review it must name (taskCompleteReviewProof)*)
(* is the caller's to supply: a call without one is refused.               *)
TaskComplete(t, mode) ==
  /\ mu = Free
  /\ authoring[t] = "planned" /\ contract[t] = None
  /\ \/ /\ mode = "non_code"
        /\ "non_code" \in load.calls /\ t \in load.tasks
        /\ st[t] = None /\ IntegrationPhases(t) = {}
        /\ UNCHANGED st
     \/ /\ mode # "non_code"
        /\ st[t] # None /\ st[t].status = "integrated"
        /\ Cardinality(IntegrationPhases(t)) = 1
        /\ IF mode = "integrated" THEN IntegratedProof(t)
           ELSE HistoricalProof(t)
        /\ OnCanonical(TheIntegration(t).head)
        /\ UpdateState(t, Step(t, "done"))
  /\ CommitTaskCompletion(t, mode, IF mode = "non_code" THEN None
                                   ELSE TheIntegration(t).head)
  /\ UNCHANGED <<load, ph, rcpt, git, profile, journal, mu, iop, top, ver,
                 spent>>

----------------------------------------------------------------------------
(* The world around it                                                     *)

(* The Worker changes its lane, whatever the Task's status says.           *)
WorkerCommit(t) ==
  /\ lane[t] # None /\ ~lane[t].mid
  /\ lane[t].head.n < load.work
  /\ lane' = [lane EXCEPT ![t].head.n = @ + 1]
  /\ UNCHANGED <<load, tables, canon, rlane, profile, mu, iop, top, ver,
                 spent>>

(* The Worker finishes, or redoes, a rebase the gateway could not.         *)
WorkerRebase(t) ==
  /\ lane[t] # None
  /\ st[t] # None /\ st[t].stage = "rebase" /\ Actionable(st[t])
  /\ lane[t].mid \/ lane[t].head.base < st[t].base
  /\ lane' = [lane EXCEPT ![t] =
                [head |-> Commit(st[t].base, @.head.n), mid |-> FALSE]]
  /\ UNCHANGED <<load, tables, canon, rlane, profile, mu, iop, top, ver,
                 spent>>

(* Somebody else pushes to the default branch.                             *)
ForeignPush ==
  /\ Spend("moves")
  /\ canon' = Append(canon, Landing(None, None, Canonical, 0))
  /\ UNCHANGED <<load, tables, lane, rlane, profile, mu, iop, top, ver>>

(* The Lead lands a Task's candidate by hand.                              *)
LandByHand(t) ==
  /\ lane[t] # None /\ st[t] # None
  /\ st[t].base = Canonical /\ lane[t].head.base = Canonical
  /\ Spend("hands")
  /\ canon' = Append(canon, Landing(t, lane[t].head, Canonical, 0))
  /\ UNCHANGED <<load, tables, lane, rlane, profile, mu, iop, top, ver>>

(* The Planner or the Lead writes a Journal entry about the Task.          *)
JournalAppend(t) ==
  /\ st[t] # None /\ LandedCommits(t) # {}
  /\ Spend("notes")
  /\ journal' = [journal EXCEPT ![t] = @ + 1]
  /\ UNCHANGED <<load, st, ph, rcpt, authoring, contract, git, profile, mu,
                 iop, top, ver>>

(* A project/configuration update changes the verification Procedure.      *)
ProfileChange ==
  /\ Spend("profiles")
  /\ profile' = profile + 1
  /\ UNCHANGED <<load, tables, git, mu, iop, top, ver>>

(* The process dies: the mutex and the in-flight map go, the Operations    *)
(* stay and are run again.                                                 *)
Crash ==
  /\ Spend("crashes")
  /\ Release
  /\ ver' = [t \in Tasks |-> None]
  /\ UNCHANGED <<load, tables, git, profile, iop, top>>

----------------------------------------------------------------------------
HandlerStep ==
  \/ DispatchRecord \/ DispatchUndo \/ SubmitRecord
  \/ RefreshRecord \/ ResetRemove \/ ResetFinish \/ ResetRefuse
  \/ VerifyRecord \/ ReconcileLane \/ ReconcileRecord
  \/ IntegrateCapture \/ IntegratePrepare \/ IntegrateCheck
  \/ IntegratePush \/ IntegrateReread \/ IntegrateRecord
  \/ HistoricalRecord \/ PreExecutionRecord

TaskCall(t) ==
  \/ \E a \in Agents : DispatchLane(t, a)
  \/ SubmitPublish(t)
  \/ \E dec \in {"accept", "reject"} : TaskExecutionReviewDecide(t, dec)
  \/ \E stage \in Stages : TaskExecutionRework(t, stage)
  \/ TaskExecutionBlock(t) \/ TaskExecutionResume(t)
  \/ RefreshLane(t) \/ ResetBegin(t) \/ ResetResume(t)
  \/ TestAdmit(t) \/ TestRun(t) \/ TestFail(t) \/ TestFinish(t)
  \/ HistoricalAdmit(t, "legacy") \/ HistoricalAdmit(t, "bootstrap_full")
  \/ DebugReconcileBootstrappedTask(t) \/ DebugReconcilePreExecutionTask(t)
  \/ \E mode \in {"non_code", "integrated", "historical"} :
       TaskComplete(t, mode)

Environment ==
  \/ \E t \in Tasks : WorkerCommit(t) \/ WorkerRebase(t) \/ LandByHand(t)
                   \/ JournalAppend(t)
  \/ ForeignPush \/ ProfileChange \/ Crash \/ HandlerFault

Next ==
  \/ HandlerStep
  \/ \E t \in Tasks : TaskCall(t)
  \/ \E o \in Ops : IntegrateRequest(o) \/ IntegrateStart(o)
  \/ Environment

(* The mutex holder runs on, and accepted Operations are taken by a        *)
(* worker, now or after the restart.                                       *)
Fairness ==
  /\ WF_vars(HandlerStep)
  /\ \A o \in Ops : SF_vars(IntegrateStart(o))

Spec == Init /\ [][Next]_vars /\ Fairness

----------------------------------------------------------------------------
(* Properties                                                              *)

(* The shape of the tables, the branch, the lanes and the Operations.      *)
TypeOK ==
  /\ load \in Loads
  /\ st \in [Tasks -> {None} \cup StateRecord]
  /\ ph \in [Tasks -> Seq(PhaseRecord)]
  /\ rcpt \in [Tasks -> Seq(ReceiptRecord)]
  /\ authoring \in [Tasks -> {"planned", "done"}]
  /\ contract \in [Tasks -> {None} \cup CompletionRecord]
  /\ journal \in [Tasks -> Nat]
  /\ canon \in Seq(LandingRecord)
  /\ lane \in [Tasks -> {None} \cup LaneRecord]
  /\ profile \in Nat
  /\ iop \in [Ops -> OpRecord]
  /\ mu.t \in Tasks \cup {None}
  /\ \A t \in Tasks :
       /\ st[t] # None => st[t].base <= Canonical
       /\ \A p \in Evidence(t) : st[t] # None /\ p.rev <= st[t].rev
       /\ \A i \in DOMAIN rcpt[t] : rcpt[t][i].attempt < st[t].rev
       /\ lane[t] # None => lane[t].head.base <= Canonical

(* task/rework may take a Task whose controlled rebase failed back to its  *)
(* code stage: only a rebase submission has to descend from the refreshed  *)
(* base (TaskExecutionSubmit), so from there on its candidate need not.    *)
Strayed(t) ==
  \E p, q \in Evidence(t) :
    /\ p.note = "reconcile" /\ p.rev < q.rev
    /\ q.kind = "rework" /\ q.stage # "rebase"

(* A receipt counts when the accepted review of its very candidate was     *)
(* recorded before the attempt, and the candidate is built on the base it  *)
(* was verified for, unless the Task was taken back as above.              *)
Candidates ==
  {[task |-> t, cand |-> Commit(b, n), base |-> c] :
     t \in Tasks, b, c \in 0..Canonical, n \in 0..load.work}
ReviewedReceipts ==
  {x \in Candidates :
     /\ \E i \in DOMAIN rcpt[x.task] :
          LET r == rcpt[x.task][i] IN
          /\ r.base = x.base /\ r.head = x.cand
          /\ \E p \in Evidence(x.task) :
               p.kind = "review" /\ p.dec = "accept"
               /\ p.head = r.head /\ p.rev <= r.attempt
     /\ x.cand.base = x.base \/ Strayed(x.task)}

(* Where a Task's only integration phase says it landed.                   *)
RecordedAt(t) ==
  IF IntegrationPhases(t) = {} THEN None
  ELSE LET c == TheIntegration(t).head
       IN IF Cardinality(IntegrationPhases(t)) = 1 /\ OnCanonical(c)
          THEN c.base + 1 ELSE 0

Board == INSTANCE CanonicalBranch WITH
  branch <- [i \in DOMAIN canon |-> [task |-> canon[i].task,
                                     cand |-> canon[i].cand,
                                     own |-> canon[i].rev > 0]],
  proven <- ReviewedReceipts,
  recorded <- [t \in Tasks |-> RecordedAt(t)],
  closed <- {t \in Tasks : contract[t] # None
                           /\ contract[t].mode # "non_code"}

(* The handlers, with everything that can interrupt them, implement the    *)
(* abstract branch: what TaskExecutionIntegrate pushes is what a receipt   *)
(* of taskExecutionTestRun and the review of that candidate cover, on the  *)
(* parent they cover, and task/complete closes what has landed.            *)
LandsOnlyProvenWork == Board!BSpec

(* Two task/integrate Operations for one Task do not know of each other's  *)
(* captures: the second rejects what the first may have landed.            *)
RequestedTwice(t) ==
  \E o, p \in Ops : /\ o # p /\ OpTask[o] = t /\ OpTask[p] = t
                    /\ iop[o].status # "idle" /\ iop[p].status # "idle"

(* task_execution_integrate.go: a fault after the advance is finished by   *)
(* the same Operation.  A landed commit that is not recorded yet is in its *)
(* write-ahead capture and the capture still binds the row, so no crash,   *)
(* lost answer or retry can strand it or land it twice, unless a second    *)
(* Operation integrates the Task.                                          *)
LandingRecoverable ==
  \A i \in {j \in DOMAIN canon : canon[j].rev > 0} :
    LET l == canon[i] IN
    \/ \E p \in IntegrationPhases(l.task) : p.head = l
    \/ \E o \in Ops : /\ OpTask[o] = l.task
                     /\ iop[o].cap # None
                     /\ iop[o].cap.commit = l
                     /\ Binds(iop[o].cap, l.task)
    \/ RequestedTwice(l.task)

(* ensureWorkerActionableSlot is asked for by dispatch, rejection, rework  *)
(* and resume: of two open Tasks of one Worker, one was opened by a        *)
(* controlled rebase (reconcileTaskExecutionBase).                         *)
OpenedByRebase(t) == \E p \in Evidence(t) : p.note = "reconcile"
SecondTaskOnlyByRebase ==
  \A t, u \in Tasks :
    /\ t # u /\ Actionable(st[t]) /\ Actionable(st[u])
    /\ st[t].agent = st[u].agent
    => OpenedByRebase(t) \/ OpenedByRebase(u)

(* An accepted task/integrate Operation settles, and the mutex is handed   *)
(* back, whatever fails (DurableMutation models how it is taken).          *)
IntegrateSettles ==
  /\ \A o \in Ops : iop[o].status = "accepted" ~> iop[o].status # "accepted"
  /\ []<>(mu = Free)

============================================================================
