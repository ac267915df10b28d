--------------------------- MODULE DurableMutation ---------------------------
(***************************************************************************)
(* The durable asynchronous mutation queue of the Gateway                  *)
(* (internal/service/durable_mutation_*.go, task_lifecycle_hooks.go,       *)
(* procedure_execution.go and internal/sqlitestore/local_operations.go).   *)
(*                                                                         *)
(* Every admitted mutation is one Operation with two durable copies: a     *)
(* JSON record, written by an atomic rename and read by admission and by   *)
(* the workers, and a row of local_operations, the only copy operation/    *)
(* read and operation/await look at.  The copies are written one after the *)
(* other, so the process can die between the two.  The wake channel, the   *)
(* set of active Operations, the mutex and the workers are lost with it.   *)
(*                                                                         *)
(* Data abstraction.  A request stands for everything the digest of a call *)
(* covers (kind, Session, input and captured identity); an Operation is    *)
(* its number in the project's sequence.  Results and error texts are left *)
(* out, except the Hook attempts that are stored inside the result.        *)
(* Legacy "mutation-<digest>" records are left out: no such file exists in *)
(* a state directory that this version created.                            *)
(***************************************************************************)
EXTENDS Naturals, Sequences, FiniteSets

CONSTANTS
  Requests,     \* distinct admitted requests
  Workloads,    \* the sets of requests that are made in one behaviour
  Policy,       \* Policy[r]: which admission function the request goes through
  Coord,        \* Coord[r]: its admission coordinate (kind, Session, input)
  HookPhases,   \* HookPhases[r]: the lifecycle Hooks bound for its kind
  Workers,      \* the goroutines of durableMutationWorker
  WakeCap,      \* capacity of the channel durableMutationWake
  MaxAttempts,  \* maxTaskVerificationAttempts
  MaxOps,       \* bound: Operations of the project's sequence
  MaxCrashes,   \* bound: times the process dies
  MaxFaults,    \* bound: failed updates of a local_operations row
  Limits        \* the same bounds for the behaviours with a request in them

(***************************************************************************)
(* "reuse": enqueueTypedDurableMutation, one Operation per digest for ever.*)
(* "repeatable": enqueueRepeatableAgentMutation, a fresh Operation once    *)
(* the latest equivalent one completed.  "verify": enqueueTaskVerification-*)
(* Attempt.  "procedure": allocateProcedureExecution, always fresh.        *)
(***************************************************************************)
Policies == {"reuse", "repeatable", "verify", "procedure"}
Phases == {"before", "after"}

ASSUME RequestAssumption ==
  /\ Workloads \subseteq SUBSET Requests
  /\ Policy \in [Requests -> Policies]
  /\ HookPhases \in [Requests -> SUBSET Phases]
  /\ \A r, s \in Requests : Coord[r] = Coord[s] => Policy[r] = Policy[s]
  \* Only a verification captures an identity beyond its coordinate.
  /\ \A r, s \in Requests :
        Coord[r] = Coord[s] /\ Policy[r] # "verify" => r = s

ASSUME BoundAssumption ==
  /\ WakeCap \in Nat \ {0}
  /\ MaxAttempts \in Nat \ {0}
  /\ MaxOps \in Nat \ {0}
  /\ MaxCrashes \in Nat
  /\ MaxFaults \in Nat
  /\ Limits \in [Requests -> [ops : Nat, crashes : Nat, faults : Nat,
                             workers : SUBSET Workers]]

Ops == 1 .. MaxOps
NoOp == 0
NoRequest == "no request"
Free == "free"

ASSUME NameAssumption ==
  /\ NoRequest \notin Requests
  /\ Free \notin Requests \cup Workers
  /\ Requests \cap Workers = {}

Terminal == {"completed", "failed", "outcome_unknown"}
Status == {"accepted", "running"} \cup Terminal
Attempts == {"none", "pending", "completed", "failed", "outcome_unknown"}

VARIABLES
  fileStatus,   \* durable: status of the JSON record, "none" when absent
  rowStatus,    \* durable: status of the local_operations row, or "none"
  attempt,      \* durable: attempt[o][ph], the Hook attempt in the record
  origin,       \* durable: the request an Operation was allocated for
  fresh,        \* durable: Operations whose mutation identity is random
  retriedFrom,  \* durable: link of a verification attempt to the failed one
  next,         \* durable: next_number of local_operation_sequences
  wake,         \* channel durableMutationWake
  active,       \* map durableMutationActive
  mu,           \* holder of durableMutationMu
  call,         \* call[r]: the admission call in progress for r
  wpc,          \* wpc[w]: where worker w is
  wop,          \* wop[w]: the Operation it holds
  wres,         \* wres[w]: status its handler's return decides
  phase,        \* the start-up replay: "starting", "scanning", "serving"
  scan,         \* records the replay has still to look at
  reading,      \* the record the replay is working on, as it read it
  runs,         \* history: handler invocations (0, 1, or 2 for more)
  hookRuns,     \* history: Hook launches (0, 1, or 2 for more)
  stranded,     \* history: Operations a full channel or a failed row
                \* update left without a wake-up, until a worker ends them
  crashes, faults

durable == <<fileStatus, rowStatus, attempt, origin, fresh, retriedFrom, next>>
workerVars == <<wpc, wop, wres>>
scanVars == <<phase, scan, reading>>
history == <<runs, hookRuns>>
bounds == <<crashes, faults>>
vars == <<durable, wake, active, mu, call, workerVars, scanVars, history,
          stranded, bounds>>

NoCall == [pc |-> "idle", op |-> NoOp]
NoCaller == [pc |-> "unused", op |-> NoOp]
NotReading == [pc |-> "none", op |-> NoOp, saw |-> "none"]

Init ==
  /\ fileStatus = [o \in Ops |-> "none"]
  /\ rowStatus = [o \in Ops |-> "none"]
  /\ attempt = [o \in Ops |-> [ph \in Phases |-> "none"]]
  /\ origin = [o \in Ops |-> NoRequest]
  /\ fresh = {}
  /\ retriedFrom = [o \in Ops |-> NoOp]
  /\ next = 1
  /\ wake = <<>>
  /\ active = {}
  /\ mu = Free
  /\ \E W \in Workloads :
       call = [r \in Requests |-> IF r \in W THEN NoCall ELSE NoCaller]
  /\ wpc = [w \in Workers |-> "idle"]
  /\ wop = [w \in Workers |-> NoOp]
  /\ wres = [w \in Workers |-> "none"]
  /\ phase = "starting"
  /\ scan = {}
  /\ reading = NotReading
  /\ runs = [o \in Ops |-> 0]
  /\ hookRuns = [o \in Ops |-> [ph \in Phases |-> 0]]
  /\ stranded = {}
  /\ crashes = 0
  /\ faults = 0

-----------------------------------------------------------------------------
(* Helpers                                                                 *)

(* The requests of this behaviour, and what the environment may still do.  *)
Called == {r \in Requests : call[r] # NoCaller}
MayAllocate(r) == next <= MaxOps /\ next <= Limits[r].ops
MayCrash == crashes < MaxCrashes /\ \A r \in Called : crashes < Limits[r].crashes
MayFault == faults < MaxFaults /\ \A r \in Called : faults < Limits[r].faults

InWake(o) == \E i \in DOMAIN wake : wake[i] = o

(* A history counter tells none, one and several apart.                    *)
Bump(n) == IF n = 0 THEN 1 ELSE 2

(* enqueueDurableMutation: a send that never blocks.                       *)
Enqueue(o) ==
  IF Len(wake) < WakeCap
  THEN /\ wake' = Append(wake, o)
       /\ stranded' = stranded \ {o}
  ELSE /\ stranded' = stranded \cup {o}
       /\ UNCHANGED wake

(* AllocateLocalOperation for a mutation identity nobody has used: the row *)
(* and the sequence advance in one SQLite batch.                           *)
Allocate(r, isFresh, from) ==
  /\ MayAllocate(r)
  /\ rowStatus' = [rowStatus EXCEPT ![next] = "accepted"]
  /\ origin' = [origin EXCEPT ![next] = r]
  /\ fresh' = IF isFresh THEN fresh \cup {next} ELSE fresh
  /\ retriedFrom' = [retriedFrom EXCEPT ![next] = from]
  /\ next' = next + 1

(* The Operation of the deterministic digest of r, if it was allocated.    *)
Base(r) == {o \in Ops : origin[o] = r /\ o \notin fresh}

(* ListLocalOperationsByAdmissionCoordinate                                *)
Equivalents(r) ==
  {o \in Ops : rowStatus[o] # "none" /\ Coord[origin[o]] = Coord[r]}

(* Mutant: the oldest Operation is taken for the latest.                   *)
MutantLatest(S) == {o \in S : \A p \in S : o <= p}

(* durableMutationTurnAfter orders Operations of one project by number.    *)
Latest(S) == {o \in S : \A p \in S : p <= o}

(* equivalentDurableMutation fails closed on a row without its record.     *)
Corrupt(S) == \E o \in S : fileStatus[o] = "none"

-----------------------------------------------------------------------------
(* Admission                                                               *)

(* A call takes durableMutationMu and allocates, or finds, the Operation   *)
(* of the request's own digest.                                            *)
AdmitStart(r) ==
  /\ Policy[r] # "procedure"
  /\ call[r] = NoCall
  /\ mu = Free
  /\ \/ /\ Base(r) = {}
        /\ Allocate(r, FALSE, NoOp)
        /\ call' = [call EXCEPT ![r] = [pc |-> "allocated", op |-> next]]
     \/ /\ \E o \in Base(r) :
             call' = [call EXCEPT ![r] = [pc |-> "allocated", op |-> o]]
        /\ UNCHANGED <<rowStatus, origin, fresh, retriedFrom, next>>
  /\ mu' = r
  /\ UNCHANGED <<fileStatus, attempt, wake, active, workerVars, scanVars,
                 history, stranded, bounds>>

(* The call ends: an error, or a receipt that needs no wake-up.            *)
Return(r) ==
  /\ call' = [call EXCEPT ![r] = NoCall]
  /\ mu' = Free
  /\ UNCHANGED <<durable, stranded>>

(* The record already carries the admission: only the wake-up is left.     *)
Attach(r, o) ==
  /\ call' = [call EXCEPT ![r] = [pc |-> "ready", op |-> o]]
  /\ UNCHANGED <<durable, mu, stranded>>

(* A new record, or a failed or unproven one admitted again.               *)
WriteAccepted(r, o) ==
  /\ fileStatus' = [fileStatus EXCEPT ![o] = "accepted"]
  /\ call' = [call EXCEPT ![r] = [pc |-> "filed", op |-> o]]
  /\ UNCHANGED <<rowStatus, attempt, origin, fresh, retriedFrom, next, mu,
                 stranded>>

(* A second allocation within the call, under a random identity.  It may   *)
(* fail, and then the call does; here it fails when the bound is reached.  *)
AllocateFresh(r, from) ==
  \/ /\ Allocate(r, TRUE, from)
     /\ call' = [call EXCEPT ![r] = [pc |-> "allocated", op |-> next]]
     /\ UNCHANGED <<fileStatus, attempt, mu, stranded>>
  \/ ~MayAllocate(r) /\ Return(r)

(* enqueueTypedDurableMutationWithPolicy, freshAfterTerminal = false.      *)
AdmitReuse(r, o) ==
  \/ fileStatus[o] \in {"failed", "outcome_unknown"} /\ WriteAccepted(r, o)
  \/ fileStatus[o] \in {"accepted", "running", "completed"} /\ Attach(r, o)

(* The same function with freshAfterTerminal = true.                       *)
AdmitRepeatable(r, o) ==
  LET S == Equivalents(r)
  IN \/ fileStatus[o] \notin Terminal /\ Attach(r, o)
     \/ fileStatus[o] \in Terminal /\ Corrupt(S) /\ Return(r)
     \/ /\ fileStatus[o] \in Terminal
        /\ ~Corrupt(S)
        /\ \E l \in Latest(S) :
             \/ fileStatus[l] = "completed" /\ AllocateFresh(r, NoOp)
             \/ /\ fileStatus[l] \in {"failed", "outcome_unknown"}
                /\ WriteAccepted(r, l)
             \/ fileStatus[l] \notin Terminal /\ Attach(r, l)

(* maxTaskVerificationAttempts                                             *)
AttemptsLeft(S) == Cardinality(S) < MaxAttempts

(* A replay of the attempt's receipt answers the call.                     *)
Proven(o) == fileStatus[o] \in {"completed", "outcome_unknown"}

(* enqueueTaskVerificationAttempt once the first attempt of the exact      *)
(* identity has failed: attach to its latest attempt, replay a proven one, *)
(* or allocate a fresh one linked to it, within the bound.  Only the       *)
(* latest attempt of any identity is asked whether it is in flight: when   *)
(* that one is another identity's and terminal, the latest of this         *)
(* identity is retried although it may still be accepted or running.       *)
AdmitRetry(r) ==
  LET S == Equivalents(r)
      Same == {p \in S : origin[p] = r}
  IN \/ Corrupt(S) /\ Return(r)
     \/ /\ ~Corrupt(S)
        /\ \E l \in Latest(S), same \in Latest(Same) :
             \/ fileStatus[l] \notin Terminal /\ same = l /\ Attach(r, l)
             \/ fileStatus[l] \notin Terminal /\ same # l /\ Return(r)
             \/ /\ fileStatus[l] \in Terminal
                /\ Proven(same) \/ ~AttemptsLeft(S)
                /\ Return(r)
             \/ /\ fileStatus[l] \in Terminal
                /\ ~Proven(same)
                /\ AttemptsLeft(S)
                /\ AllocateFresh(r, same)

(* Attempts in flight are attached to, proven ones are replayed as they    *)
(* are, and a failed one is never reopened.                                *)
AdmitVerify(r, o) ==
  \/ fileStatus[o] \notin Terminal /\ Attach(r, o)
  \/ fileStatus[o] \in Terminal \ {"failed"} /\ Return(r)
  \/ fileStatus[o] = "failed" /\ AdmitRetry(r)

(* What the call does once it knows its Operation.                         *)
AdmitDecide(r) ==
  LET o == call[r].op IN
  /\ Policy[r] # "procedure"
  /\ call[r].pc = "allocated"
  /\ \/ fileStatus[o] = "none" /\ WriteAccepted(r, o)
     \/ /\ fileStatus[o] # "none"
        /\ \/ Policy[r] = "reuse" /\ AdmitReuse(r, o)
           \/ Policy[r] = "repeatable" /\ AdmitRepeatable(r, o)
           \/ Policy[r] = "verify" /\ AdmitVerify(r, o)
  /\ UNCHANGED <<wake, active, workerVars, scanVars, history, bounds>>

(* allocateProcedureExecution starts the workers first and takes no mutex. *)
ProcedureStart(r) ==
  /\ Policy[r] = "procedure"
  /\ phase = "serving"
  /\ call[r] = NoCall
  /\ Allocate(r, TRUE, NoOp)
  /\ call' = [call EXCEPT ![r] = [pc |-> "allocated", op |-> next]]
  /\ UNCHANGED <<fileStatus, attempt, wake, active, mu, workerVars, scanVars,
                 history, stranded, bounds>>

ProcedureFile(r) ==
  /\ Policy[r] = "procedure"
  /\ call[r].pc = "allocated"
  /\ WriteAccepted(r, call[r].op)
  /\ UNCHANGED <<wake, active, workerVars, scanVars, history, bounds>>

(* writeDurableMutation's second half.                                     *)
AdmitRow(r) ==
  LET o == call[r].op IN
  /\ call[r].pc = "filed"
  /\ rowStatus' = [rowStatus EXCEPT ![o] = fileStatus[o]]
  /\ call' = [call EXCEPT ![r].pc = "ready"]
  /\ UNCHANGED <<fileStatus, attempt, origin, fresh, retriedFrom, next, wake,
                 active, mu, workerVars, scanVars, history, stranded, bounds>>

(* Its error path: the call fails, and the record it wrote stays behind    *)
(* without a wake-up.  A Procedure marks its row failed.                   *)
AdmitRowFails(r) ==
  LET o == call[r].op IN
  /\ call[r].pc = "filed"
  /\ MayFault
  /\ faults' = faults + 1
  /\ \/ /\ Policy[r] = "procedure"
        /\ rowStatus' = [rowStatus EXCEPT ![o] = "failed"]
     \/ UNCHANGED rowStatus
  /\ call' = [call EXCEPT ![r] = NoCall]
  /\ mu' = IF mu = r THEN Free ELSE mu
  /\ stranded' = stranded \cup {o}
  /\ UNCHANGED <<fileStatus, attempt, origin, fresh, retriedFrom, next, wake,
                 active, workerVars, scanVars, history, crashes>>

(* startDurableMutationWorker (a sync.Once) blocks until the replay ended. *)
AdmitFinish(r) ==
  /\ call[r].pc = "ready"
  /\ phase = "serving"
  /\ Enqueue(call[r].op)
  /\ call' = [call EXCEPT ![r] = NoCall]
  /\ mu' = IF mu = r THEN Free ELSE mu
  /\ UNCHANGED <<durable, active, workerVars, scanVars, history, bounds>>

Admission(r) ==
  \/ AdmitStart(r) \/ AdmitDecide(r) \/ ProcedureStart(r) \/ ProcedureFile(r)
  \/ AdmitRow(r) \/ AdmitRowFails(r) \/ AdmitFinish(r)

-----------------------------------------------------------------------------
(* Workers: processDurableMutation                                         *)

Goto(w, pc) == wpc' = [wpc EXCEPT ![w] = pc]
RowFault == MayFault /\ faults' = faults + 1 /\ UNCHANGED crashes
SetFile(o, st) == fileStatus' = [fileStatus EXCEPT ![o] = st]
SetRow(o, st) == rowStatus' = [rowStatus EXCEPT ![o] = st]
KeepRest == UNCHANGED <<origin, fresh, retriedFrom, next, call, scanVars>>

Take(w) ==
  /\ \A r \in Called : w \in Limits[r].workers
  /\ phase = "serving"
  /\ wpc[w] = "idle"
  /\ wake # <<>>
  /\ wop' = [wop EXCEPT ![w] = Head(wake)]
  /\ wake' = Tail(wake)
  /\ Goto(w, "taken")
  /\ UNCHANGED <<durable, active, mu, call, wres, scanVars, history, stranded,
                 bounds>>

(* The record is gone or terminal, or another worker is on it.             *)
Skip(w) ==
  /\ wpc[w] = "taken"
  /\ mu = Free
  /\ \/ fileStatus[wop[w]] \in Terminal \cup {"none"}
     \/ wop[w] \in active
  /\ Goto(w, "idle")
  /\ wop' = [wop EXCEPT ![w] = NoOp]
  /\ UNCHANGED <<durable, wake, active, mu, call, wres, scanVars, history,
                 stranded, bounds>>

(* Mutant: the active map is not looked at.                                *)
MutantClaim(w) ==
  LET o == wop[w] IN
  /\ wpc[w] = "taken"
  /\ mu = Free
  /\ fileStatus[o] \in {"accepted", "running"}
  /\ active' = active \cup {o}
  /\ SetFile(o, "running")
  /\ mu' = w
  /\ Goto(w, "claimed")
  /\ stranded' = stranded \ {o}
  /\ KeepRest
  /\ UNCHANGED <<rowStatus, attempt, wake, wop, wres, history, bounds>>

Claim(w) ==
  LET o == wop[w] IN
  /\ wpc[w] = "taken"
  /\ mu = Free
  /\ fileStatus[o] \in {"accepted", "running"}
  /\ o \notin active
  /\ active' = active \cup {o}
  /\ SetFile(o, "running")
  /\ mu' = w
  /\ Goto(w, "claimed")
  /\ stranded' = stranded \ {o}
  /\ KeepRest
  /\ UNCHANGED <<rowStatus, attempt, wake, wop, wres, history, bounds>>

ClaimRow(w) ==
  /\ wpc[w] = "claimed"
  /\ SetRow(wop[w], "running")
  /\ mu' = Free
  /\ Goto(w, "before")
  /\ KeepRest
  /\ UNCHANGED <<fileStatus, attempt, wake, active, wop, wres, history,
                 stranded, bounds>>

(* The claim's row update fails: the worker drops the Operation.           *)
ClaimRowFails(w) ==
  /\ wpc[w] = "claimed"
  /\ RowFault
  /\ active' = active \ {wop[w]}
  /\ mu' = Free
  /\ stranded' = stranded \cup {wop[w]}
  /\ Goto(w, "idle")
  /\ wop' = [wop EXCEPT ![w] = NoOp]
  /\ KeepRest
  /\ UNCHANGED <<fileStatus, rowStatus, attempt, wake, wres, history>>

(* The handler returns; res is the status its error value decides.         *)
Returns(w, res) ==
  /\ wres' = [wres EXCEPT ![w] = res]
  /\ Goto(w, "returned")

PendingPc == [before |-> "beforePending", after |-> "afterPending"]
LaunchedPc == [before |-> "beforeLaunched", after |-> "afterLaunched"]

Bound(w, ph) == ph \in HookPhases[origin[wop[w]]]

(* A Hook attempt is written pending before its Procedure is launched.  An *)
(* attempt write leaves both statuses as they are.                         *)
HookPending(w, ph) ==
  /\ wpc[w] = ph
  /\ Bound(w, ph)
  /\ attempt[wop[w]][ph] = "none"
  /\ attempt' = [attempt EXCEPT ![wop[w]][ph] = "pending"]
  /\ \/ Goto(w, PendingPc[ph]) /\ UNCHANGED <<wres, bounds>>
     \* The write reports an error after the record was replaced.
     \/ RowFault /\ Returns(w, IF ph = "before" THEN "failed" ELSE "completed")
  /\ KeepRest
  /\ UNCHANGED <<fileStatus, rowStatus, wake, active, mu, wop, history,
                 stranded>>

HookLaunch(w, ph) ==
  /\ wpc[w] = PendingPc[ph]
  /\ hookRuns' = [hookRuns EXCEPT ![wop[w]][ph] = Bump(@)]
  /\ Goto(w, LaunchedPc[ph])
  /\ UNCHANGED <<durable, wake, active, mu, call, wop, wres, scanVars, runs,
                 stranded, bounds>>

(* The outcome of the Hook's Procedure; "failed" also without a launch.    *)
HookEnd(w, ph, outcome) ==
  /\ \/ wpc[w] = LaunchedPc[ph]
     \/ wpc[w] = PendingPc[ph] /\ outcome = "failed"
  /\ attempt' = [attempt EXCEPT ![wop[w]][ph] = outcome]
  /\ \/ ph = "before" /\ outcome = "completed" /\ Goto(w, "effect")
        /\ UNCHANGED wres
     \/ ph = "before" /\ outcome # "completed" /\ Returns(w, "failed")
     \/ ph = "after" /\ Returns(w, "completed")
  /\ KeepRest
  /\ UNCHANGED <<fileStatus, rowStatus, wake, active, mu, wop, history,
                 stranded, bounds>>

(* No Hook is bound, or an earlier claim of the Operation attempted it.    *)
HookPassed(w, ph) ==
  /\ wpc[w] = ph
  /\ \/ /\ ph = "before"
        /\ Bound(w, ph) => attempt[wop[w]][ph] = "completed"
        /\ Goto(w, "effect")
        /\ UNCHANGED wres
     \/ /\ ph = "before"
        /\ Bound(w, ph)
        /\ attempt[wop[w]][ph] \notin {"none", "completed"}
        /\ Returns(w, "failed")
     \/ /\ ph = "after"
        /\ attempt[wop[w]][ph] # "none"
        /\ Returns(w, "completed")
  /\ UNCHANGED <<durable, wake, active, mu, call, wop, scanVars, history,
                 stranded, bounds>>

Hook(w) ==
  \E ph \in Phases :
    \/ HookPending(w, ph) \/ HookLaunch(w, ph) \/ HookPassed(w, ph)
    \/ \E out \in Attempts \ {"none", "pending"} : HookEnd(w, ph, out)

(* executeDurableMutation: the handler's effect takes place.               *)
Execute(w) ==
  /\ wpc[w] = "effect"
  /\ runs' = [runs EXCEPT ![wop[w]] = Bump(@)]
  /\ Goto(w, "applied")
  /\ UNCHANGED <<durable, wake, active, mu, call, wop, wres, scanVars,
                 hookRuns, stranded, bounds>>

(* The handler refuses before its effect, or loses its answer after it.    *)
HandlerFails(w, res) ==
  /\ wpc[w] \in {"effect", "applied"}
  /\ Returns(w, res)
  /\ UNCHANGED <<durable, wake, active, mu, call, wop, scanVars, history,
                 stranded, bounds>>

(* Success without an after-Hook (none bound, or its configuration cannot  *)
(* be read).                                                               *)
HandlerSucceeds(w) ==
  /\ wpc[w] = "applied"
  /\ Returns(w, "completed")
  /\ UNCHANGED <<durable, wake, active, mu, call, wop, scanVars, history,
                 stranded, bounds>>

(* persistTaskLifecycleParentOutcome: an after-Hook only starts once its   *)
(* parent's record is completed.  It takes no mutex.                       *)
PersistParent(w) ==
  /\ wpc[w] = "applied"
  /\ Bound(w, "after")
  /\ SetFile(wop[w], "completed")
  /\ Goto(w, "parentFiled")
  /\ KeepRest
  /\ UNCHANGED <<rowStatus, attempt, wake, active, mu, wop, wres, history,
                 stranded, bounds>>

ParentRow(w) ==
  /\ wpc[w] = "parentFiled"
  /\ SetRow(wop[w], "completed")
  /\ Goto(w, "after")
  /\ KeepRest
  /\ UNCHANGED <<fileStatus, attempt, wake, active, mu, wop, wres, history,
                 stranded, bounds>>

(* The row update fails: the Hook is left out.                             *)
ParentRowFails(w) ==
  /\ wpc[w] = "parentFiled"
  /\ RowFault
  /\ Returns(w, "completed")
  /\ KeepRest
  /\ UNCHANGED <<fileStatus, rowStatus, attempt, wake, active, mu, wop,
                 history, stranded>>

Finish(w) ==
  /\ wpc[w] = "returned"
  /\ mu = Free
  /\ SetFile(wop[w], wres[w])
  /\ mu' = w
  /\ Goto(w, "finished")
  /\ stranded' = stranded \ {wop[w]}
  /\ KeepRest
  /\ UNCHANGED <<rowStatus, attempt, wake, active, wop, wres, history, bounds>>

(* Mutant: the mutex is not released.                                      *)
MutantFinishRow(w) ==
  /\ wpc[w] = "finished"
  /\ SetRow(wop[w], wres[w])
  /\ Goto(w, "leaving")
  /\ KeepRest
  /\ UNCHANGED <<fileStatus, attempt, wake, active, mu, wop, wres, history,
                 stranded, bounds>>

FinishRow(w) ==
  /\ wpc[w] = "finished"
  /\ \/ SetRow(wop[w], wres[w]) /\ UNCHANGED bounds
     \/ RowFault /\ UNCHANGED rowStatus
  /\ mu' = Free
  /\ Goto(w, "leaving")
  /\ KeepRest
  /\ UNCHANGED <<fileStatus, attempt, wake, active, wop, wres, history,
                 stranded>>

(* The deferred delete takes the mutex a second time.                      *)
Leave(w) ==
  /\ wpc[w] = "leaving"
  /\ mu = Free
  /\ active' = active \ {wop[w]}
  /\ Goto(w, "idle")
  /\ wop' = [wop EXCEPT ![w] = NoOp]
  /\ wres' = [wres EXCEPT ![w] = "none"]
  /\ UNCHANGED <<durable, wake, mu, call, scanVars, history, stranded, bounds>>

Worker(w) ==
  \/ Take(w) \/ Skip(w) \/ Claim(w) \/ ClaimRow(w) \/ ClaimRowFails(w)
  \/ Hook(w) \/ Execute(w) \/ HandlerSucceeds(w)
  \/ \E res \in {"failed", "outcome_unknown"} : HandlerFails(w, res)
  \/ PersistParent(w) \/ ParentRow(w) \/ ParentRowFails(w)
  \/ Finish(w) \/ FinishRow(w) \/ Leave(w)

-----------------------------------------------------------------------------
(* Process death and start-up replay: startDurableMutationWorker           *)

Crash ==
  /\ MayCrash
  /\ crashes' = crashes + 1
  /\ wake' = <<>>
  /\ active' = {}
  /\ mu' = Free
  /\ call' = [r \in Requests |->
                IF call[r] = NoCaller THEN NoCaller ELSE NoCall]
  /\ wpc' = [w \in Workers |-> "idle"]
  /\ wop' = [w \in Workers |-> NoOp]
  /\ wres' = [w \in Workers |-> "none"]
  /\ phase' = "starting"
  /\ scan' = {}
  /\ reading' = NotReading
  /\ stranded' = {}
  /\ UNCHANGED <<durable, history, faults>>

ScanStart ==
  /\ phase = "starting"
  /\ phase' = "scanning"
  /\ scan' = {o \in Ops : fileStatus[o] # "none"}
  /\ UNCHANGED <<durable, wake, active, mu, call, workerVars, reading, history,
                 stranded, bounds>>

(* The replay reads the next record; admissions may already be running.    *)
ScanRead(o) ==
  /\ phase = "scanning"
  /\ reading = NotReading
  /\ o \in scan
  /\ scan' = scan \ {o}
  /\ reading' = [pc |-> "read", op |-> o, saw |-> fileStatus[o]]
  /\ UNCHANGED <<durable, wake, active, mu, call, workerVars, phase, history,
                 stranded, bounds>>

Pending(o) == \E ph \in Phases : attempt[o][ph] = "pending"

(* reconcilePendingTaskLifecycleHook                                       *)
Reconcile(o) ==
  attempt' = [attempt EXCEPT ![o] =
                [ph \in Phases |-> IF @[ph] = "pending" THEN "outcome_unknown"
                                   ELSE @[ph]]]

(* Mutant: a Procedure is retried like any other mutation.                 *)
MutantRecovered(o, saw) ==
  IF saw \in Terminal THEN saw
  ELSE IF saw = "running" /\ Pending(o) THEN "outcome_unknown" ELSE "accepted"

(* What the replay writes back: a pending Hook is never replayed, neither  *)
(* is a Procedure; any other running record is accepted again.             *)
Recovered(o, saw) ==
  IF saw \in Terminal THEN saw
  ELSE IF Policy[origin[o]] = "procedure" \/ (saw = "running" /\ Pending(o))
  THEN "outcome_unknown"
  ELSE "accepted"

NeedsWrite(o, saw) ==
  \/ saw \in Terminal /\ Pending(o)
  \/ saw \notin Terminal /\ Policy[origin[o]] = "procedure"
  \/ saw = "running"

ScanWrite ==
  LET o == reading.op IN
  /\ reading.pc = "read"
  /\ \/ /\ NeedsWrite(o, reading.saw)
        /\ SetFile(o, Recovered(o, reading.saw))
        /\ Reconcile(o)
        /\ reading' = [reading EXCEPT !.pc = "filed",
                                      !.saw = Recovered(o, reading.saw)]
     \/ /\ ~NeedsWrite(o, reading.saw)
        /\ reading' = [reading EXCEPT !.pc = "written"]
        /\ UNCHANGED <<fileStatus, attempt>>
  /\ UNCHANGED <<rowStatus, origin, fresh, retriedFrom, next, wake, active, mu,
                 call, workerVars, phase, scan, history, stranded, bounds>>

(* The row half; when it fails the record is not put on the channel.       *)
ScanRow ==
  LET o == reading.op IN
  /\ reading.pc = "filed"
  /\ \/ /\ SetRow(o, reading.saw)
        /\ reading' = [reading EXCEPT !.pc = "written"]
        /\ UNCHANGED <<bounds, stranded>>
     \/ /\ RowFault
        /\ reading' = NotReading
        /\ stranded' = IF reading.saw = "accepted" THEN stranded \cup {o}
                       ELSE stranded
        /\ UNCHANGED rowStatus
  /\ UNCHANGED <<fileStatus, attempt, origin, fresh, retriedFrom, next, wake,
                 active, mu, call, workerVars, phase, scan, history>>

ScanEnqueue ==
  /\ reading.pc = "written"
  /\ \/ reading.saw = "accepted" /\ Enqueue(reading.op)
     \/ reading.saw # "accepted" /\ UNCHANGED <<wake, stranded>>
  /\ reading' = NotReading
  /\ UNCHANGED <<durable, active, mu, call, workerVars, phase, scan, history,
                 bounds>>

ScanDone ==
  /\ phase = "scanning"
  /\ scan = {}
  /\ reading = NotReading
  /\ phase' = "serving"
  /\ UNCHANGED <<durable, wake, active, mu, call, workerVars, scan, reading,
                 history, stranded, bounds>>

Replay ==
  \/ ScanStart \/ (\E o \in Ops : ScanRead(o)) \/ ScanWrite \/ ScanRow
  \/ ScanEnqueue \/ ScanDone

Next ==
  \/ \E r \in Requests : Admission(r)
  \/ \E w \in Workers : Worker(w)
  \/ Replay
  \/ Crash

Spec == Init /\ [][Next]_vars

(***************************************************************************)
(* Fairness.  The runtime schedules every goroutine; a context bounds each *)
(* handler and each Hook; and Go's mutex hands itself to a waiter that has *)
(* starved, so a step that waits for it is strongly fair.  Nothing forces  *)
(* a caller to start a call, and nothing forces a fault or a crash.        *)
(***************************************************************************)
CallStep(r) ==
  \/ AdmitDecide(r) \/ ProcedureFile(r) \/ AdmitRow(r) \/ AdmitFinish(r)
MutexStep(w) == Skip(w) \/ Claim(w) \/ Finish(w) \/ Leave(w)

Fairness ==
  /\ WF_vars(Replay)
  /\ \A r \in Requests : WF_vars(CallStep(r))
  /\ \A w \in Workers : WF_vars(Worker(w)) /\ SF_vars(MutexStep(w))

FairSpec == Spec /\ Fairness

-----------------------------------------------------------------------------
(* Properties                                                              *)

Held == {"claimed", "before", "beforePending", "beforeLaunched", "effect",
         "applied", "parentFiled", "after", "afterPending", "afterLaunched",
         "returned", "finished", "leaving"}

(* The worker is between its claim of the Operation and the deferred       *)
(* delete from durableMutationActive.                                      *)
Holds(w, o) == wpc[w] \in Held /\ wop[w] = o

TypeDurable ==
  /\ fileStatus \in [Ops -> Status \cup {"none"}]
  /\ rowStatus \in [Ops -> Status \cup {"none"}]
  /\ attempt \in [Ops -> [Phases -> Attempts]]
  /\ origin \in [Ops -> Requests \cup {NoRequest}]
  /\ fresh \subseteq Ops
  /\ retriedFrom \in [Ops -> Ops \cup {NoOp}]
  /\ next \in 1 .. MaxOps + 1

TypeQueue ==
  /\ wake \in Seq(Ops)
  /\ active \subseteq Ops
  /\ mu \in Requests \cup Workers \cup {Free}
  /\ stranded \subseteq Ops

CallPcs == {"unused", "idle", "allocated", "filed", "ready"}
TypeCalls == call \in [Requests -> [pc : CallPcs, op : Ops \cup {NoOp}]]

TypeWorkers ==
  /\ wpc \in [Workers -> Held \cup {"idle", "taken"}]
  /\ wop \in [Workers -> Ops \cup {NoOp}]
  /\ wres \in [Workers -> Terminal \cup {"none"}]

ReadPcs == {"none", "read", "filed", "written"}
TypeReplay ==
  /\ phase \in {"starting", "scanning", "serving"}
  /\ scan \subseteq Ops
  /\ reading \in [pc : ReadPcs, op : Ops \cup {NoOp},
                  saw : Status \cup {"none"}]

TypeHistory ==
  /\ runs \in [Ops -> 0 .. 2]
  /\ hookRuns \in [Ops -> [Phases -> 0 .. 2]]
  /\ crashes \in 0 .. MaxCrashes
  /\ faults \in 0 .. MaxFaults

(* Type invariant of the queue.                                            *)
TypeOK ==
  /\ TypeDurable /\ TypeQueue /\ TypeCalls
  /\ TypeWorkers /\ TypeReplay /\ TypeHistory

(* However often an Operation is put on the channel, at most one of the    *)
(* workers is between claiming and releasing it (durableMutationActive).   *)
ExclusiveExecution ==
  \A v, w \in Workers : \A o \in Ops : Holds(v, o) /\ Holds(w, o) => v = w

(* A Procedure's script is started at most once per Operation, whatever    *)
(* crashes and replays happen (recoverNonReplayableProcedureOperation).    *)
ProcedureRunsOnce ==
  \A o \in Ops :
    origin[o] # NoRequest /\ Policy[origin[o]] = "procedure" => runs[o] <= 1

(* A claimed Hook invocation is never replayed: over every re-admission,   *)
(* replay and crash, an Operation launches each of its Hooks at most once. *)
HookLaunchedOnce == \A o \in Ops, ph \in Phases : hookRuns[o][ph] <= 1

(* The after-Hook of an Operation runs only when the record of its parent  *)
(* is completed, in this process and in every later one.                   *)
AfterHookFollowsOutcome ==
  \A o \in Ops : hookRuns[o]["after"] > 0 => fileStatus[o] = "completed"

(* The projection that operation/read serves is never ahead of the record  *)
(* admission and replay trust: a completed row has a completed record, and *)
(* the effect took place.                                                  *)
ProjectionNotAhead ==
  \A o \in Ops :
    rowStatus[o] = "completed" => fileStatus[o] = "completed" /\ runs[o] > 0

(* What an Operation did to the world agrees with what its record says, in *)
(* this process and in every later one: scripts and Hooks are not replayed,*)
(* an after-Hook saw its parent completed, and the projection is behind    *)
(* the record, never ahead (processDurableMutation, its start-up replay).  *)
EffectsMatchRecord ==
  /\ ProcedureRunsOnce /\ HookLaunchedOnce
  /\ AfterHookFollowsOutcome /\ ProjectionNotAhead

IsVerify(o) == origin[o] # NoRequest /\ Policy[origin[o]] = "verify"

(* A later attempt of another identity has ended before o was allocated.   *)
Overtaken(a, o) ==
  \E q \in Ops :
    /\ a < q /\ q < o
    /\ IsVerify(q) /\ Coord[origin[q]] = Coord[origin[a]]
    /\ origin[q] # origin[a]
    /\ fileStatus[q] \in Terminal

(* The attempts of one verification request form one chain: each retry is  *)
(* linked to the attempt of the same identity before it, and no attempt is *)
(* retried twice.  A retry is made past a failed attempt only, and no two  *)
(* attempts of an identity are open together, but where an attempt of      *)
(* another identity came in between and ended first.                       *)
VerifyChain ==
  \A o, p \in Ops :
    IsVerify(o) /\ fileStatus[o] # "none" =>
      /\ retriedFrom[o] # NoOp =>
           /\ retriedFrom[o] < o
           /\ origin[retriedFrom[o]] = origin[o]
           /\ fileStatus[retriedFrom[o]] # "failed" => Overtaken(retriedFrom[o], o)
      /\ IsVerify(p) /\ o < p /\ origin[p] = origin[o] /\ fileStatus[p] # "none"
           => /\ retriedFrom[o] # retriedFrom[p]
              /\ {fileStatus[o], fileStatus[p]} \cap Terminal = {} => Overtaken(o, p)

(* A Session never holds more than maxTaskVerificationAttempts - 1 retries *)
(* of one request, over all the identities it was admitted with.           *)
RetriesBounded ==
  \A r \in Requests :
    Policy[r] = "verify" =>
      Cardinality({o \in Equivalents(r) : o \in fresh}) < MaxAttempts

(* An Agent request gets a fresh turn only after every earlier one         *)
(* completed (freshAfterTerminal): a failed or unproven turn is reopened,  *)
(* never bypassed.                                                         *)
TurnsInOrder ==
  \A o, p \in Ops :
    /\ origin[o] # NoRequest
    /\ origin[o] = origin[p]
    /\ Policy[origin[o]] = "repeatable"
    /\ o < p
    => fileStatus[o] = "completed"

(* A fresh allocation whose record was lost by a crash stays closed: no    *)
(* later turn or attempt of its coordinate is allocated past it.           *)
CorruptFailsClosed ==
  \A o, p \in fresh :
    /\ Policy[origin[o]] \in {"repeatable", "verify"}
    /\ Coord[origin[o]] = Coord[origin[p]]
    /\ o < p
    => fileStatus[o] # "none"

(* Repeated calls of one coordinate, over failures, crashes and changing   *)
(* identities, leave one chain of attempts (durableMutationTurnAfter,      *)
(* enqueueTaskVerificationAttempt): retries are linked and bounded, turns  *)
(* are in order, and nothing is allocated past a lost record.              *)
AttemptsChain ==
  VerifyChain /\ RetriesBounded /\ TurnsInOrder /\ CorruptFailsClosed

(* An Operation of an admission that never reopens a record, once on the   *)
(* channel, reaches a terminal status or is dropped by a full channel or a *)
(* failed row write, even when the process dies on the way.                *)
EventuallyServed ==
  \A o \in Ops :
    (InWake(o) /\ Policy[origin[o]] \in {"verify", "procedure"})
      ~> (fileStatus[o] \in Terminal \/ o \in stranded)
=============================================================================
