----------------------- MODULE DurableMutationProofs -----------------------
(***************************************************************************)
(* Proofs about the durable mutation queue, for every set of requests and  *)
(* workers, every capacity and every bound.                                *)
(***************************************************************************)
EXTENDS DurableMutation, FiniteSetTheorems, TLAPS

(* What the type invariant needs to be inductive: a call, a worker or the  *)
(* replay that is under way has an Operation, and a handler that returned  *)
(* has decided a terminal status.                                          *)
ShapeCalls ==
  \A r \in Requests : call[r].pc \notin {"idle", "unused"} => call[r].op \in Ops
ShapeWorkers ==
  \A w \in Workers :
    /\ wpc[w] # "idle" => wop[w] \in Ops
    /\ wpc[w] \in {"returned", "finished"} => wres[w] \in Terminal
ShapeReplay == reading.pc # "none" => reading.op \in Ops

Typed == TypeOK /\ ShapeCalls /\ ShapeWorkers /\ ShapeReplay

LEMMA ConstantsTyped ==
  /\ MaxOps \in Nat /\ WakeCap \in Nat /\ MaxCrashes \in Nat /\ MaxFaults \in Nat
  /\ \A o \in Ops : o \in Nat
BY BoundAssumption DEF Ops

LEMMA InitTyped == Init => Typed
<1> SUFFICES ASSUME Init PROVE Typed
  OBVIOUS
<1> USE ConstantsTyped DEF Init, NoCall, NoCaller, NotReading, NoOp, Status, Attempts, Terminal
<1>1. TypeDurable
  BY DEF TypeDurable
<1>2. TypeQueue
  BY DEF TypeQueue
<1>3. TypeCalls /\ ShapeCalls
  BY DEF TypeCalls, CallPcs, ShapeCalls
<1>4. TypeWorkers /\ ShapeWorkers
  BY DEF TypeWorkers, ShapeWorkers
<1>5. TypeReplay /\ ShapeReplay
  BY DEF TypeReplay, ShapeReplay, ReadPcs
<1>6. TypeHistory
  BY DEF TypeHistory
<1> QED BY <1>1, <1>2, <1>3, <1>4, <1>5, <1>6 DEF Typed, TypeOK

(* An allocation advances the sequence within its bound.                   *)
LEMMA AllocateTyped ==
  ASSUME TypeDurable, NEW r \in Requests, NEW b \in BOOLEAN,
         NEW from \in Ops \cup {NoOp}, Allocate(r, b, from),
         UNCHANGED <<fileStatus, attempt>>
  PROVE  TypeDurable' /\ next \in Ops
<1> USE ConstantsTyped
<1>1. next \in Ops
  BY DEF Allocate, MayAllocate, Ops, TypeDurable
<1>2. next' \in 1 .. MaxOps + 1
  BY DEF Allocate, MayAllocate, TypeDurable
<1>3. fresh' \subseteq Ops
  BY <1>1 DEF Allocate, TypeDurable
<1>4. rowStatus' \in [Ops -> Status \cup {"none"}]
  BY <1>1 DEF Allocate, TypeDurable, Status
<1>5. origin' \in [Ops -> Requests \cup {NoRequest}]
  BY <1>1 DEF Allocate, TypeDurable
<1>6. retriedFrom' \in [Ops -> Ops \cup {NoOp}]
  BY <1>1 DEF Allocate, TypeDurable
<1> QED BY <1>1, <1>2, <1>3, <1>4, <1>5, <1>6 DEF TypeDurable

(* The four ways a decision of an admission call ends.                     *)
LEMMA DecisionTyped ==
  ASSUME TypeDurable, TypeQueue, TypeCalls, ShapeCalls,
         NEW r \in Requests, NEW o \in Ops, NEW from \in Ops \cup {NoOp},
         UNCHANGED <<wake, active>>,
         Return(r) \/ Attach(r, o) \/ WriteAccepted(r, o) \/ AllocateFresh(r, from)
  PROVE  (TypeDurable /\ TypeQueue /\ TypeCalls /\ ShapeCalls)'
<1>1. CASE Return(r)
  BY <1>1 DEF Return, durable, TypeDurable, TypeQueue, TypeCalls, ShapeCalls,
     CallPcs, NoCall
<1>2. CASE Attach(r, o)
  BY <1>2 DEF Attach, durable, TypeDurable, TypeQueue, TypeCalls, ShapeCalls,
     CallPcs
<1>3. CASE WriteAccepted(r, o)
  BY <1>3 DEF WriteAccepted, TypeDurable, TypeQueue, TypeCalls, ShapeCalls,
     CallPcs, Status
<1>4. CASE AllocateFresh(r, from)
  <2>1. CASE Return(r)
    BY <1>1, <2>1
  <2>2. CASE /\ Allocate(r, TRUE, from)
             /\ call' = [call EXCEPT ![r] = [pc |-> "allocated", op |-> next]]
             /\ UNCHANGED <<fileStatus, attempt, mu, stranded>>
    <3>1. TypeDurable' /\ next \in Ops
      BY <2>2, AllocateTyped
    <3>2. (TypeQueue /\ TypeCalls /\ ShapeCalls)'
      BY <2>2, <3>1 DEF TypeQueue, TypeCalls, ShapeCalls, CallPcs
    <3> QED BY <3>1, <3>2
  <2> QED BY <1>4, <2>1, <2>2 DEF AllocateFresh
<1> QED BY <1>1, <1>2, <1>3, <1>4

LEMMA EnqueueTyped ==
  ASSUME TypeQueue, NEW o \in Ops, Enqueue(o), UNCHANGED active,
         mu' \in Requests \cup Workers \cup {Free}
  PROVE  TypeQueue'
BY DEF Enqueue, TypeQueue

(* Every step of an admission call.                                        *)
LEMMA AdmissionTyped ==
  ASSUME Typed, NEW r \in Requests, Admission(r) PROVE Typed'
<1> USE ConstantsTyped DEF Typed, TypeOK
<1>a. workerVars' = workerVars => (TypeWorkers /\ ShapeWorkers)'
  BY DEF workerVars, TypeWorkers, ShapeWorkers
<1>b. scanVars' = scanVars => (TypeReplay /\ ShapeReplay)'
  BY DEF scanVars, TypeReplay, ShapeReplay
<1>c. history' = history /\ bounds' = bounds => TypeHistory'
  BY DEF history, bounds, TypeHistory
<1>d. durable' = durable => TypeDurable'
  BY DEF durable, TypeDurable
<1>1. CASE AdmitStart(r)
  <2>1. PICK o \in Ops : call' = [call EXCEPT ![r] = [pc |-> "allocated", op |-> o]]
    BY <1>1, AllocateTyped DEF AdmitStart, Base, NoOp
  <2>2. TypeDurable'
    <3>1. CASE Allocate(r, FALSE, NoOp)
      BY <1>1, <3>1, AllocateTyped DEF AdmitStart
    <3>2. CASE UNCHANGED <<rowStatus, origin, fresh, retriedFrom, next>>
      BY <1>1, <3>2, <1>d DEF AdmitStart, durable
    <3> QED BY <1>1, <3>1, <3>2 DEF AdmitStart
  <2>3. TypeQueue'
    BY <1>1 DEF AdmitStart, TypeQueue
  <2>4. TypeCalls' /\ ShapeCalls'
    BY <2>1 DEF TypeCalls, ShapeCalls, CallPcs
  <2> QED BY <1>1, <2>2, <2>3, <2>4, <1>a, <1>b, <1>c DEF AdmitStart
<1>2. CASE AdmitDecide(r)
  <2>1. call[r].op \in Ops
    BY <1>2 DEF AdmitDecide, ShapeCalls
  <2>2. \E o \in Ops, from \in Ops \cup {NoOp} :
          Return(r) \/ Attach(r, o) \/ WriteAccepted(r, o) \/ AllocateFresh(r, from)
    <3>1. CASE AdmitRepeatable(r, call[r].op)
      BY <2>1, <3>1 DEF AdmitRepeatable, Equivalents, Latest
    <3>2. CASE AdmitVerify(r, call[r].op)
      BY <2>1, <3>2 DEF AdmitVerify, AdmitRetry, Equivalents, Latest
    <3>3. CASE AdmitReuse(r, call[r].op)
      BY <2>1, <3>3 DEF AdmitReuse
    <3> QED BY <1>2, <2>1, <3>1, <3>2, <3>3 DEF AdmitDecide
  <2>3. (TypeDurable /\ TypeQueue /\ TypeCalls /\ ShapeCalls)'
    BY <1>2, <2>2, DecisionTyped DEF AdmitDecide
  <2> QED BY <1>2, <2>3, <1>a, <1>b, <1>c DEF AdmitDecide
<1>3. CASE ProcedureStart(r)
  <2>1. TypeDurable' /\ next \in Ops
    BY <1>3, AllocateTyped DEF ProcedureStart
  <2>2. (TypeQueue /\ TypeCalls /\ ShapeCalls)'
    BY <1>3, <2>1 DEF ProcedureStart, TypeQueue, TypeCalls, ShapeCalls, CallPcs
  <2> QED BY <1>3, <2>1, <2>2, <1>a, <1>b, <1>c DEF ProcedureStart
<1>4. CASE ProcedureFile(r)
  <2>1. call[r].op \in Ops
    BY <1>4 DEF ProcedureFile, ShapeCalls
  <2>2. (TypeDurable /\ TypeQueue /\ TypeCalls /\ ShapeCalls)'
    BY <1>4, <2>1, DecisionTyped DEF ProcedureFile
  <2> QED BY <1>4, <2>2, <1>a, <1>b, <1>c DEF ProcedureFile
<1>5. CASE AdmitRow(r)
  <2>1. call[r].op \in Ops
    BY <1>5 DEF AdmitRow, ShapeCalls
  <2>2. TypeDurable'
    BY <1>5, <2>1 DEF AdmitRow, TypeDurable
  <2>3. (TypeQueue /\ TypeCalls /\ ShapeCalls)'
    BY <1>5, <2>1 DEF AdmitRow, TypeQueue, TypeCalls, ShapeCalls, CallPcs
  <2> QED BY <1>5, <2>2, <2>3, <1>a, <1>b, <1>c DEF AdmitRow
<1>6. CASE AdmitRowFails(r)
  <2>1. call[r].op \in Ops
    BY <1>6 DEF AdmitRowFails, ShapeCalls
  <2>2. TypeDurable'
    BY <1>6, <2>1 DEF AdmitRowFails, TypeDurable, Status, Terminal
  <2>3. (TypeQueue /\ TypeCalls /\ ShapeCalls)'
    BY <1>6, <2>1 DEF AdmitRowFails, TypeQueue, TypeCalls, ShapeCalls, CallPcs, NoCall
  <2>4. TypeHistory'
    BY <1>6 DEF AdmitRowFails, MayFault, TypeHistory, history
  <2> QED BY <1>6, <2>2, <2>3, <2>4, <1>a, <1>b DEF AdmitRowFails
<1>7. CASE AdmitFinish(r)
  <2>1. call[r].op \in Ops
    BY <1>7 DEF AdmitFinish, ShapeCalls
  <2>2. TypeQueue'
    BY <1>7, <2>1, EnqueueTyped DEF AdmitFinish, TypeQueue
  <2>3. (TypeCalls /\ ShapeCalls)'
    BY <1>7 DEF AdmitFinish, TypeCalls, ShapeCalls, CallPcs, NoCall
  <2> QED BY <1>7, <2>2, <2>3, <1>a, <1>b, <1>c, <1>d DEF AdmitFinish
<1> QED BY <1>1, <1>2, <1>3, <1>4, <1>5, <1>6, <1>7 DEF Admission

(* A worker that moves to a status-free position keeps the worker part.    *)
LEMMA GotoTyped ==
  ASSUME TypeWorkers, ShapeWorkers, NEW w \in Workers,
         NEW pc \in Held \ {"returned", "finished"}, Goto(w, pc),
         wop[w] \in Ops, UNCHANGED <<wop, wres>>
  PROVE  (TypeWorkers /\ ShapeWorkers)'
BY DEF Goto, TypeWorkers, ShapeWorkers

LEMMA ReturnsTyped ==
  ASSUME TypeWorkers, ShapeWorkers, NEW w \in Workers, NEW res \in Terminal,
         Returns(w, res), wop[w] \in Ops, UNCHANGED wop
  PROVE  (TypeWorkers /\ ShapeWorkers)'
BY DEF Returns, Goto, TypeWorkers, ShapeWorkers, Held

LEMMA SetFileTyped ==
  ASSUME TypeDurable, NEW o \in Ops, NEW st \in Status, SetFile(o, st),
         UNCHANGED <<rowStatus, attempt, origin, fresh, retriedFrom, next>>
  PROVE  TypeDurable'
BY DEF SetFile, TypeDurable

LEMMA SetRowTyped ==
  ASSUME TypeDurable, NEW o \in Ops, NEW st \in Status, SetRow(o, st),
         UNCHANGED <<fileStatus, attempt, origin, fresh, retriedFrom, next>>
  PROVE  TypeDurable'
BY DEF SetRow, TypeDurable

LEMMA SetAttemptTyped ==
  ASSUME TypeDurable, NEW o \in Ops, NEW ph \in Phases, NEW a \in Attempts,
         attempt' = [attempt EXCEPT ![o][ph] = a],
         UNCHANGED <<fileStatus, rowStatus, origin, fresh, retriedFrom, next>>
  PROVE  TypeDurable'
BY DEF TypeDurable

LEMMA FaultTyped ==
  ASSUME TypeHistory, RowFault, UNCHANGED history PROVE TypeHistory'
BY ConstantsTyped DEF RowFault, MayFault, TypeHistory, history

(* Every Hook step of a worker.                                            *)
LEMMA HookTyped ==
  ASSUME Typed, NEW w \in Workers, Hook(w) PROVE Typed'
<1> USE ConstantsTyped DEF Typed, TypeOK
<1>c. call' = call => (TypeCalls /\ ShapeCalls)'
  BY DEF TypeCalls, ShapeCalls
<1>r. scanVars' = scanVars => (TypeReplay /\ ShapeReplay)'
  BY DEF scanVars, TypeReplay, ShapeReplay
<1>h. history' = history /\ bounds' = bounds => TypeHistory'
  BY DEF history, bounds, TypeHistory
<1>d. durable' = durable => TypeDurable'
  BY DEF durable, TypeDurable
<1>q. UNCHANGED <<wake, active, mu, stranded>> => TypeQueue'
  BY DEF TypeQueue
<1>1. PICK ph \in Phases :
        \/ HookPending(w, ph) \/ HookLaunch(w, ph) \/ HookPassed(w, ph)
        \/ \E out \in Attempts \ {"none", "pending"} : HookEnd(w, ph, out)
  BY DEF Hook
<1>2. ph \in {"before", "after"}
  BY DEF Phases
<1>3. /\ PendingPc[ph] \in Held \ {"returned", "finished"}
      /\ LaunchedPc[ph] \in Held \ {"returned", "finished"}
      /\ PendingPc[ph] # "idle" /\ LaunchedPc[ph] # "idle" /\ ph # "idle"
  BY <1>2 DEF PendingPc, LaunchedPc, Held
<1>4. {"failed", "completed", "outcome_unknown"} \subseteq Terminal
  BY DEF Terminal
<1>5. CASE HookPending(w, ph)
  <2>1. wop[w] \in Ops
    BY <1>5, <1>3 DEF HookPending, ShapeWorkers
  <2>2. TypeDurable'
    BY <1>5, <2>1, SetAttemptTyped DEF HookPending, KeepRest, Attempts
  <2>3. (TypeWorkers /\ ShapeWorkers)' /\ TypeHistory'
    <3>1. CASE Goto(w, PendingPc[ph]) /\ UNCHANGED <<wres, bounds>>
      BY <1>5, <3>1, <2>1, <1>3, <1>h, GotoTyped DEF HookPending
    <3>2. CASE RowFault /\ Returns(w, IF ph = "before" THEN "failed" ELSE "completed")
      BY <1>5, <3>2, <2>1, <1>4, FaultTyped, ReturnsTyped DEF HookPending
    <3> QED BY <1>5, <3>1, <3>2 DEF HookPending
  <2> QED BY <1>5, <2>2, <2>3, <1>c, <1>r, <1>q DEF HookPending, KeepRest
<1>6. CASE HookLaunch(w, ph)
  <2>1. wop[w] \in Ops
    BY <1>6, <1>3 DEF HookLaunch, ShapeWorkers
  <2>2. TypeHistory'
    BY <1>6, <2>1 DEF HookLaunch, TypeHistory, bounds, Bump
  <2>3. (TypeWorkers /\ ShapeWorkers)'
    BY <1>6, <2>1, <1>3, GotoTyped DEF HookLaunch
  <2> QED BY <1>6, <2>2, <2>3, <1>c, <1>r, <1>q, <1>d DEF HookLaunch
<1>7. CASE HookPassed(w, ph)
  <2>1. wop[w] \in Ops
    BY <1>7, <1>3 DEF HookPassed, ShapeWorkers
  <2>2. (TypeWorkers /\ ShapeWorkers)'
    <3>1. CASE Goto(w, "effect") /\ UNCHANGED wres
      BY <1>7, <3>1, <2>1, GotoTyped DEF HookPassed, Held
    <3>2. CASE Returns(w, "failed") \/ Returns(w, "completed")
      BY <1>7, <3>2, <2>1, <1>4, ReturnsTyped DEF HookPassed
    <3> QED BY <1>7, <3>1, <3>2 DEF HookPassed
  <2> QED BY <1>7, <2>2, <1>c, <1>r, <1>q, <1>d, <1>h DEF HookPassed
<1>8. ASSUME NEW out \in Attempts \ {"none", "pending"}, HookEnd(w, ph, out)
      PROVE  Typed'
  <2>1. wop[w] \in Ops
    BY <1>8, <1>3 DEF HookEnd, ShapeWorkers
  <2>2. TypeDurable'
    BY <1>8, <2>1, SetAttemptTyped DEF HookEnd, KeepRest
  <2>3. (TypeWorkers /\ ShapeWorkers)'
    <3>1. CASE Goto(w, "effect") /\ UNCHANGED wres
      BY <1>8, <3>1, <2>1, GotoTyped DEF HookEnd, Held
    <3>2. CASE Returns(w, "failed") \/ Returns(w, "completed")
      BY <1>8, <3>2, <2>1, <1>4, ReturnsTyped DEF HookEnd
    <3> QED BY <1>8, <3>1, <3>2 DEF HookEnd
  <2> QED BY <1>8, <2>2, <2>3, <1>c, <1>r, <1>q, <1>h DEF HookEnd, KeepRest
<1> QED BY <1>1, <1>5, <1>6, <1>7, <1>8

(* Every other step of a worker.                                           *)
LEMMA WorkerTyped ==
  ASSUME Typed, NEW w \in Workers, Worker(w) PROVE Typed'
<1> USE ConstantsTyped DEF Typed, TypeOK
<1>c. call' = call => (TypeCalls /\ ShapeCalls)'
  BY DEF TypeCalls, ShapeCalls
<1>r. scanVars' = scanVars => (TypeReplay /\ ShapeReplay)'
  BY DEF scanVars, TypeReplay, ShapeReplay
<1>h. history' = history /\ bounds' = bounds => TypeHistory'
  BY DEF history, bounds, TypeHistory
<1>d. durable' = durable => TypeDurable'
  BY DEF durable, TypeDurable
<1>q. UNCHANGED <<wake, active, mu, stranded>> => TypeQueue'
  BY DEF TypeQueue
<1>s. {"running", "completed", "failed", "outcome_unknown"} \subseteq Status
  BY DEF Status, Terminal
<1>t. Terminal = {"completed", "failed", "outcome_unknown"} /\ Terminal \subseteq Status
  BY DEF Status, Terminal
<1>1. CASE Take(w)
  <2>1. Head(wake) \in Ops /\ Tail(wake) \in Seq(Ops)
    BY <1>1 DEF Take, TypeQueue
  <2>2. (TypeWorkers /\ ShapeWorkers)'
    BY <1>1, <2>1 DEF Take, Goto, TypeWorkers, ShapeWorkers
  <2>3. TypeQueue'
    BY <1>1, <2>1 DEF Take, TypeQueue
  <2> QED BY <1>1, <2>2, <2>3, <1>c, <1>r, <1>h, <1>d DEF Take
<1>2. CASE Skip(w)
  <2>1. (TypeWorkers /\ ShapeWorkers)'
    BY <1>2 DEF Skip, Goto, TypeWorkers, ShapeWorkers
  <2> QED BY <1>2, <2>1, <1>c, <1>r, <1>h, <1>d, <1>q DEF Skip
<1>3. CASE Claim(w)
  <2>1. wop[w] \in Ops
    BY <1>3 DEF Claim, ShapeWorkers
  <2>2. TypeDurable'
    BY <1>3, <2>1, <1>s, SetFileTyped DEF Claim, KeepRest
  <2>3. (TypeWorkers /\ ShapeWorkers)'
    BY <1>3, <2>1, GotoTyped DEF Claim, Held
  <2>4. TypeQueue'
    BY <1>3, <2>1 DEF Claim, TypeQueue
  <2> QED BY <1>3, <2>2, <2>3, <2>4, <1>c, <1>r, <1>h DEF Claim, KeepRest
<1>4. CASE ClaimRow(w)
  <2>1. wop[w] \in Ops
    BY <1>4 DEF ClaimRow, ShapeWorkers
  <2>2. TypeDurable'
    BY <1>4, <2>1, <1>s, SetRowTyped DEF ClaimRow, KeepRest
  <2>3. (TypeWorkers /\ ShapeWorkers)'
    BY <1>4, <2>1, GotoTyped DEF ClaimRow, Held
  <2>4. TypeQueue'
    BY <1>4 DEF ClaimRow, TypeQueue
  <2> QED BY <1>4, <2>2, <2>3, <2>4, <1>c, <1>r, <1>h DEF ClaimRow, KeepRest
<1>5. CASE ClaimRowFails(w)
  <2>1. wop[w] \in Ops
    BY <1>5 DEF ClaimRowFails, ShapeWorkers
  <2>2. TypeDurable' /\ TypeHistory'
    BY <1>5, <1>d, FaultTyped DEF ClaimRowFails, KeepRest, durable
  <2>3. (TypeWorkers /\ ShapeWorkers)'
    BY <1>5 DEF ClaimRowFails, Goto, TypeWorkers, ShapeWorkers
  <2>4. TypeQueue'
    BY <1>5, <2>1 DEF ClaimRowFails, TypeQueue
  <2> QED BY <1>5, <2>2, <2>3, <2>4, <1>c, <1>r DEF ClaimRowFails, KeepRest
<1>6. CASE Hook(w)
  BY <1>6, HookTyped
<1>7. CASE Execute(w)
  <2>1. wop[w] \in Ops
    BY <1>7 DEF Execute, ShapeWorkers
  <2>2. TypeHistory'
    BY <1>7, <2>1 DEF Execute, TypeHistory, bounds, Bump
  <2>3. (TypeWorkers /\ ShapeWorkers)'
    BY <1>7, <2>1, GotoTyped DEF Execute, Held
  <2> QED BY <1>7, <2>2, <2>3, <1>c, <1>r, <1>d, <1>q DEF Execute
<1>8. ASSUME NEW res \in Terminal, wpc[w] # "idle", Returns(w, res),
             UNCHANGED <<durable, wake, active, mu, call, wop, scanVars,
                         history, stranded, bounds>>
      PROVE  Typed'
  BY <1>8, <1>c, <1>r, <1>h, <1>d, <1>q, ReturnsTyped DEF ShapeWorkers
<1>9. CASE HandlerSucceeds(w)
  BY <1>9, <1>8, <1>t DEF HandlerSucceeds
<1>10. ASSUME NEW res \in {"failed", "outcome_unknown"}, HandlerFails(w, res)
       PROVE  Typed'
  BY <1>10, <1>8, <1>t DEF HandlerFails
<1>11. CASE PersistParent(w)
  <2>1. wop[w] \in Ops
    BY <1>11 DEF PersistParent, ShapeWorkers
  <2>2. TypeDurable'
    BY <1>11, <2>1, <1>s, SetFileTyped DEF PersistParent, KeepRest
  <2>3. (TypeWorkers /\ ShapeWorkers)'
    BY <1>11, <2>1, GotoTyped DEF PersistParent, Held
  <2> QED BY <1>11, <2>2, <2>3, <1>c, <1>r, <1>h, <1>q DEF PersistParent, KeepRest
<1>12. CASE ParentRow(w)
  <2>1. wop[w] \in Ops
    BY <1>12 DEF ParentRow, ShapeWorkers
  <2>2. TypeDurable'
    BY <1>12, <2>1, <1>s, SetRowTyped DEF ParentRow, KeepRest
  <2>3. (TypeWorkers /\ ShapeWorkers)'
    BY <1>12, <2>1, GotoTyped DEF ParentRow, Held
  <2> QED BY <1>12, <2>2, <2>3, <1>c, <1>r, <1>h, <1>q DEF ParentRow, KeepRest
<1>13. CASE ParentRowFails(w)
  <2>1. wop[w] \in Ops
    BY <1>13 DEF ParentRowFails, ShapeWorkers
  <2>2. TypeDurable' /\ TypeHistory'
    BY <1>13, <1>d, FaultTyped DEF ParentRowFails, KeepRest, durable
  <2>3. (TypeWorkers /\ ShapeWorkers)'
    BY <1>13, <2>1, <1>t, ReturnsTyped DEF ParentRowFails
  <2> QED BY <1>13, <2>2, <2>3, <1>c, <1>r, <1>q DEF ParentRowFails, KeepRest
<1>14. CASE Finish(w)
  <2>1. wop[w] \in Ops /\ wres[w] \in Terminal
    BY <1>14 DEF Finish, ShapeWorkers
  <2>2. TypeDurable'
    BY <1>14, <2>1, <1>t, SetFileTyped DEF Finish, KeepRest
  <2>3. (TypeWorkers /\ ShapeWorkers)'
    BY <1>14, <2>1 DEF Finish, Goto, TypeWorkers, ShapeWorkers, Held
  <2>4. TypeQueue'
    BY <1>14 DEF Finish, TypeQueue
  <2> QED BY <1>14, <2>2, <2>3, <2>4, <1>c, <1>r, <1>h DEF Finish, KeepRest
<1>15. CASE FinishRow(w)
  <2>1. wop[w] \in Ops /\ wres[w] \in Terminal
    BY <1>15 DEF FinishRow, ShapeWorkers
  <2>2. TypeDurable' /\ TypeHistory'
    <3>1. CASE SetRow(wop[w], wres[w]) /\ UNCHANGED bounds
      BY <1>15, <3>1, <2>1, <1>t, <1>h, SetRowTyped DEF FinishRow, KeepRest
    <3>2. CASE RowFault /\ UNCHANGED rowStatus
      BY <1>15, <3>2, <1>d, FaultTyped DEF FinishRow, KeepRest, durable
    <3> QED BY <1>15, <3>1, <3>2 DEF FinishRow
  <2>3. (TypeWorkers /\ ShapeWorkers)'
    BY <1>15, <2>1, GotoTyped DEF FinishRow, Held
  <2>4. TypeQueue'
    BY <1>15 DEF FinishRow, TypeQueue
  <2> QED BY <1>15, <2>2, <2>3, <2>4, <1>c, <1>r DEF FinishRow, KeepRest
<1>16. CASE Leave(w)
  <2>1. (TypeWorkers /\ ShapeWorkers)'
    BY <1>16 DEF Leave, Goto, TypeWorkers, ShapeWorkers
  <2>2. TypeQueue'
    BY <1>16 DEF Leave, TypeQueue
  <2> QED BY <1>16, <2>1, <2>2, <1>c, <1>r, <1>h, <1>d DEF Leave
<1> QED
  BY <1>1, <1>2, <1>3, <1>4, <1>5, <1>6, <1>7, <1>9, <1>10, <1>11, <1>12,
     <1>13, <1>14, <1>15, <1>16 DEF Worker

(* Every step of the start-up replay.                                      *)
LEMMA ReplayTyped ==
  ASSUME Typed, Replay PROVE Typed'
<1> USE ConstantsTyped DEF Typed, TypeOK
<1>c. call' = call => (TypeCalls /\ ShapeCalls)'
  BY DEF TypeCalls, ShapeCalls
<1>w. workerVars' = workerVars => (TypeWorkers /\ ShapeWorkers)'
  BY DEF workerVars, TypeWorkers, ShapeWorkers
<1>h. history' = history /\ bounds' = bounds => TypeHistory'
  BY DEF history, bounds, TypeHistory
<1>d. durable' = durable => TypeDurable'
  BY DEF durable, TypeDurable
<1>q. UNCHANGED <<wake, active, mu, stranded>> => TypeQueue'
  BY DEF TypeQueue
<1>1. CASE ScanStart
  <2>1. (TypeReplay /\ ShapeReplay)'
    BY <1>1 DEF ScanStart, TypeReplay, ShapeReplay
  <2> QED BY <1>1, <2>1, <1>c, <1>w, <1>h, <1>d, <1>q DEF ScanStart
<1>2. ASSUME NEW o \in Ops, ScanRead(o) PROVE Typed'
  <2>1. (TypeReplay /\ ShapeReplay)'
    BY <1>2 DEF ScanRead, TypeReplay, ShapeReplay, ReadPcs, TypeDurable
  <2> QED BY <1>2, <2>1, <1>c, <1>w, <1>h, <1>d, <1>q DEF ScanRead
<1>3. CASE ScanWrite
  <2> DEFINE o == reading.op
             st == Recovered(o, reading.saw)
  <2>1. o \in Ops /\ reading.saw \in Status \cup {"none"}
    BY <1>3 DEF ScanWrite, ShapeReplay, TypeReplay
  <2>2. st \in Status
    BY <2>1 DEF Recovered, Status, Terminal
  <2>3. (TypeReplay /\ ShapeReplay)'
    BY <1>3, <2>1, <2>2 DEF ScanWrite, TypeReplay, ShapeReplay, ReadPcs
  <2>4. TypeDurable'
    <3>1. CASE UNCHANGED <<fileStatus, attempt>>
      BY <1>3, <3>1, <1>d DEF ScanWrite, durable
    <3>2. CASE SetFile(o, st) /\ Reconcile(o)
      <4>1. fileStatus' \in [Ops -> Status \cup {"none"}]
        BY <3>2, <2>1, <2>2 DEF SetFile, TypeDurable
      <4>2. attempt' \in [Ops -> [Phases -> Attempts]]
        BY <3>2, <2>1 DEF Reconcile, TypeDurable, Attempts
      <4> QED BY <1>3, <4>1, <4>2 DEF ScanWrite, TypeDurable
    <3> QED BY <1>3, <3>1, <3>2 DEF ScanWrite
  <2> QED BY <1>3, <2>3, <2>4, <1>c, <1>w, <1>h, <1>q DEF ScanWrite
<1>4. CASE ScanRow
  <2>1. reading.op \in Ops /\ reading.saw \in Status \cup {"none"}
    BY <1>4 DEF ScanRow, ShapeReplay, TypeReplay
  <2>2. (TypeReplay /\ ShapeReplay)'
    BY <1>4, <2>1 DEF ScanRow, TypeReplay, ShapeReplay, ReadPcs, NotReading
  <2>3. TypeDurable' /\ TypeHistory'
    <3>1. CASE SetRow(reading.op, reading.saw) /\ UNCHANGED bounds
      BY <1>4, <3>1, <2>1, <1>h DEF ScanRow, SetRow, TypeDurable
    <3>2. CASE RowFault /\ UNCHANGED rowStatus
      BY <1>4, <3>2, <1>d, FaultTyped DEF ScanRow, durable
    <3> QED BY <1>4, <3>1, <3>2 DEF ScanRow
  <2>4. TypeQueue'
    BY <1>4, <2>1 DEF ScanRow, TypeQueue
  <2> QED BY <1>4, <2>2, <2>3, <2>4, <1>c, <1>w DEF ScanRow
<1>5. CASE ScanEnqueue
  <2>1. reading.op \in Ops
    BY <1>5 DEF ScanEnqueue, ShapeReplay
  <2>2. (TypeReplay /\ ShapeReplay)'
    BY <1>5 DEF ScanEnqueue, TypeReplay, ShapeReplay, ReadPcs, NotReading
  <2>3. TypeQueue'
    BY <1>5, <2>1, <1>q, EnqueueTyped DEF ScanEnqueue, TypeQueue
  <2> QED BY <1>5, <2>2, <2>3, <1>c, <1>w, <1>h, <1>d DEF ScanEnqueue
<1>6. CASE ScanDone
  <2>1. (TypeReplay /\ ShapeReplay)'
    BY <1>6 DEF ScanDone, TypeReplay, ShapeReplay
  <2> QED BY <1>6, <2>1, <1>c, <1>w, <1>h, <1>d, <1>q DEF ScanDone
<1> QED BY <1>1, <1>2, <1>3, <1>4, <1>5, <1>6 DEF Replay

LEMMA CrashTyped ==
  ASSUME Typed, Crash PROVE Typed'
<1> USE ConstantsTyped DEF Typed, TypeOK, Crash
<1>1. TypeDurable'
  BY DEF durable, TypeDurable
<1>2. TypeQueue'
  BY DEF TypeQueue
<1>3. (TypeCalls /\ ShapeCalls)'
  BY DEF TypeCalls, ShapeCalls, CallPcs, NoCall, NoCaller
<1>4. (TypeWorkers /\ ShapeWorkers)'
  BY DEF TypeWorkers, ShapeWorkers
<1>5. (TypeReplay /\ ShapeReplay)'
  BY DEF TypeReplay, ShapeReplay, ReadPcs, NotReading
<1>6. TypeHistory'
  BY DEF TypeHistory, history, MayCrash
<1> QED BY <1>1, <1>2, <1>3, <1>4, <1>5, <1>6

LEMMA StutterTyped ==
  ASSUME Typed, UNCHANGED vars PROVE Typed'
BY DEF Typed, TypeOK, vars, durable, workerVars, scanVars, history, bounds,
   TypeDurable, TypeQueue, TypeCalls, TypeWorkers, TypeReplay, TypeHistory,
   ShapeCalls, ShapeWorkers, ShapeReplay

LEMMA TypedInvariant == Spec => []Typed
<1>1. Typed /\ [Next]_vars => Typed'
  BY AdmissionTyped, WorkerTyped, ReplayTyped, CrashTyped, StutterTyped DEF Next
<1> QED BY InitTyped, <1>1, PTL DEF Spec

(* The queue is type correct for every number of requests, workers,        *)
(* Operations, crashes and faults.                                         *)
THEOREM TypeCorrect == Spec => []TypeOK
<1>1. Typed => TypeOK
  BY DEF Typed
<1> QED BY TypedInvariant, <1>1, PTL

-----------------------------------------------------------------------------
(* One execution at a time                                                 *)

(* The inductive invariant: a worker between its claim and its release has *)
(* its Operation in durableMutationActive, so the guard of Claim keeps     *)
(* every other worker out until the deferred delete.                       *)
Exclusive ==
  /\ \A w \in Workers : wpc[w] \in Held => wop[w] \in active
  /\ \A v, w \in Workers :
       wpc[v] \in Held /\ wpc[w] \in Held /\ wop[v] = wop[w] => v = w

(* A step that leaves active and wop alone and moves one worker within     *)
(* Held keeps the invariant.                                               *)
LEMMA MoveWithinHeld ==
  ASSUME TypeWorkers, Exclusive, NEW w \in Workers, wpc[w] \in Held,
         NEW pc \in Held, Goto(w, pc), UNCHANGED <<wop, active>>
  PROVE  Exclusive'
BY DEF TypeWorkers, Exclusive, Goto

LEMMA LeaveHeld ==
  ASSUME TypeWorkers, Exclusive, NEW w \in Workers, wpc[w] \in Held,
         Goto(w, "idle"), wop' = [wop EXCEPT ![w] = NoOp],
         active' = active \ {wop[w]}
  PROVE  Exclusive'
<1>1. "idle" \notin Held
  BY DEF Held
<1>2. \A v \in Workers : wpc'[v] \in Held => v # w /\ wpc[v] \in Held /\ wop'[v] = wop[v]
  BY <1>1 DEF TypeWorkers, Goto
<1> QED BY <1>2 DEF Exclusive

LEMMA HookExclusive ==
  ASSUME Typed, Exclusive, NEW w \in Workers, Hook(w) PROVE Exclusive'
<1>1. PICK ph \in Phases :
        \/ HookPending(w, ph) \/ HookLaunch(w, ph) \/ HookPassed(w, ph)
        \/ \E out \in Attempts \ {"none", "pending"} : HookEnd(w, ph, out)
  BY DEF Hook
<1>2. ph \in {"before", "after"}
  BY DEF Phases
<1>3. {ph, PendingPc[ph], LaunchedPc[ph], "effect", "returned"} \subseteq Held
  BY <1>2 DEF PendingPc, LaunchedPc, Held
<1>4. wpc[w] \in Held /\ UNCHANGED <<wop, active>>
  BY <1>1, <1>3 DEF HookPending, HookLaunch, HookPassed, HookEnd
<1>5. \E pc \in Held : Goto(w, pc)
  BY <1>1, <1>3 DEF HookPending, HookLaunch, HookPassed, HookEnd, Returns
<1> QED BY <1>4, <1>5, MoveWithinHeld DEF Typed, TypeOK

LEMMA WorkerExclusive ==
  ASSUME Typed, Exclusive, NEW w \in Workers, Worker(w) PROVE Exclusive'
<1> USE DEF Typed, TypeOK
<1>h. /\ {"claimed", "before", "effect", "applied", "parentFiled", "after",
         "returned", "finished", "leaving"} \subseteq Held
      /\ "idle" \notin Held /\ "taken" \notin Held
  BY DEF Held
<1>1. CASE Take(w) \/ Skip(w)
  <2>1. wpc[w] \notin Held /\ wpc'[w] \notin Held
    BY <1>1, <1>h DEF Take, Skip, Goto, TypeWorkers
  <2>2. \A v \in Workers : wpc'[v] \in Held => wpc[v] \in Held /\ wop'[v] = wop[v]
    BY <1>1, <2>1 DEF Take, Skip, Goto, TypeWorkers
  <2> QED BY <1>1, <2>2 DEF Take, Skip, Exclusive
<1>2. CASE Claim(w)
  <2>1. wpc[w] \notin Held /\ wop[w] \notin active /\ active' = active \cup {wop[w]}
    BY <1>2, <1>h DEF Claim
  <2>2. \A v \in Workers : wpc'[v] \in Held => v = w \/ wpc[v] \in Held
    BY <1>2 DEF Claim, Goto, TypeWorkers
  <2>3. wop' = wop
    BY <1>2 DEF Claim
  <2> QED BY <2>1, <2>2, <2>3 DEF Exclusive
<1>3. CASE ClaimRowFails(w) \/ Leave(w)
  BY <1>3, <1>h, LeaveHeld DEF ClaimRowFails, Leave
<1>4. CASE Hook(w)
  BY <1>4, HookExclusive
<1>5. CASE \/ ClaimRow(w) \/ Execute(w) \/ HandlerSucceeds(w)
           \/ (\E res \in {"failed", "outcome_unknown"} : HandlerFails(w, res))
           \/ PersistParent(w) \/ ParentRow(w) \/ ParentRowFails(w)
           \/ Finish(w) \/ FinishRow(w)
  <2>1. wpc[w] \in Held /\ UNCHANGED <<wop, active>>
    BY <1>5, <1>h DEF ClaimRow, Execute, HandlerSucceeds, HandlerFails,
       PersistParent, ParentRow, ParentRowFails, Finish, FinishRow
  <2>2. \E pc \in Held : Goto(w, pc)
    BY <1>5, <1>h DEF ClaimRow, Execute, HandlerSucceeds, HandlerFails,
       PersistParent, ParentRow, ParentRowFails, Finish, FinishRow, Returns
  <2> QED BY <2>1, <2>2, MoveWithinHeld
<1> QED BY <1>1, <1>2, <1>3, <1>4, <1>5 DEF Worker

LEMMA OtherExclusive ==
  ASSUME Exclusive,
         \/ \E r \in Requests : Admission(r)
         \/ Replay \/ UNCHANGED vars
  PROVE  Exclusive'
<1>1. UNCHANGED <<wpc, wop, active>>
  <2>1. ASSUME NEW r \in Requests, Admission(r) PROVE UNCHANGED <<wpc, wop, active>>
    BY <2>1 DEF Admission, AdmitStart, AdmitDecide, ProcedureStart,
       ProcedureFile, AdmitRow, AdmitRowFails, AdmitFinish, workerVars
  <2>2. CASE Replay
    BY <2>2 DEF Replay, ScanStart, ScanRead, ScanWrite, ScanRow, ScanEnqueue,
       ScanDone, workerVars
  <2>3. CASE UNCHANGED vars
    BY <2>3 DEF vars, workerVars
  <2> QED BY <2>1, <2>2, <2>3
<1> QED BY <1>1 DEF Exclusive

LEMMA ExclusiveInvariant == Spec => []Exclusive
<1>1. Init => Exclusive
  BY DEF Init, Exclusive, Held
<1>2. Typed /\ Exclusive /\ [Next]_vars => Exclusive'
  <2>1. ASSUME Crash PROVE Exclusive'
    BY <2>1 DEF Crash, Exclusive, Held
  <2> QED BY <2>1, WorkerExclusive, OtherExclusive DEF Next
<1> QED BY TypedInvariant, <1>1, <1>2, PTL DEF Spec

(* However many wake-ups, re-admissions, replays and crashes there are, no *)
(* two workers are ever between claim and release of the same Operation.   *)
THEOREM OneExecutionAtATime == Spec => []ExclusiveExecution
<1>1. Exclusive => ExclusiveExecution
  BY DEF Exclusive, ExclusiveExecution, Holds
<1> QED BY ExclusiveInvariant, <1>1, PTL

-----------------------------------------------------------------------------
(* What an Operation did and what its record says                          *)

(* The policy an Operation was admitted under.                             *)
Kind(o) == IF origin[o] \in Requests THEN Policy[origin[o]] ELSE "none"

(* Workers exist only after the replay, and the replay works only on the   *)
(* records of its scan.                                                    *)
Phased ==
  /\ \A w \in Workers : wpc[w] # "idle" => phase = "serving"
  /\ reading.pc # "none" => phase = "scanning"

(* What has a record has a row and a request, and whoever works on an      *)
(* Operation found its record.                                             *)
Allocated ==
  /\ \A o \in Ops :
       /\ origin[o] \in Requests <=> o < next
       /\ rowStatus[o] # "none" <=> o < next
       /\ fileStatus[o] # "none" => o < next
  /\ \A r \in Requests :
       /\ call[r].pc \notin {"idle", "unused"} => origin[call[r].op] = r
       /\ call[r].pc = "filed" => fileStatus[call[r].op] # "none"
  /\ \A w \in Workers : wpc[w] \in Held => fileStatus[wop[w]] # "none"
  /\ \A o \in scan : fileStatus[o] # "none"
  /\ reading.pc # "none" =>
       fileStatus[reading.op] # "none" /\ reading.saw # "none"

(* What holds of one Operation: f and row are the statuses of its record   *)
(* and its row, n its executions, hk and at the launches and the attempts  *)
(* of its Hooks, kind its policy.                                          *)
Kept(f, row, n, hk, at, kind) ==
  /\ n > 0 => f # "none"
  /\ f = "completed" => n > 0
  /\ row = "completed" => f = "completed"
  /\ hk["after"] > 0 => f = "completed"
  /\ \A ph \in Phases : hk[ph] <= 1 /\ (at[ph] = "none" => hk[ph] = 0)
  /\ kind = "procedure" => n <= 1

BeforeEffect == {"claimed", "before", "beforePending", "beforeLaunched", "effect"}
Reported == {"parentFiled", "after", "afterPending", "afterLaunched"}

(* What a worker at pc with the answer res may rely on.                    *)
Doing(pc, res, f, n, hk, at, kind) ==
  /\ pc \in BeforeEffect \cup {"applied"} => f = "running"
  /\ pc = "applied" => n > 0
  /\ pc \in Reported => f = "completed"
  /\ pc = "returned" => \/ f = "running" /\ (res = "completed" => n > 0)
                        \/ f = "completed" /\ res = "completed"
  /\ pc = "finished" /\ res = "completed" => f = "completed"
  /\ pc = "beforePending" => hk["before"] = 0 /\ at["before"] # "none"
  /\ pc = "afterPending" => hk["after"] = 0 /\ at["after"] # "none"
  /\ kind = "procedure" =>
       /\ pc \in BeforeEffect => n = 0
       /\ pc \in {"finished", "leaving"} => f \in Terminal

(* The record the replay has read: only a failed or unproven one may have  *)
(* been admitted again meanwhile, and never a verification or a Procedure. *)
Seen(pc, saw, f, kind) ==
  /\ pc = "read" => \/ saw = f
                    \/ /\ saw \in {"failed", "outcome_unknown"}
                       /\ f = "accepted"
                       /\ kind \notin {"verify", "procedure"}
  /\ pc = "filed" /\ saw = "completed" => f = "completed"

(* A Procedure whose script was started and whose outcome is not recorded  *)
(* is still executing, or the replay has it before it.                     *)
Unfinished ==
  \A o \in Ops :
    Kind(o) = "procedure" /\ runs[o] > 0 /\ fileStatus[o] \notin Terminal =>
      \/ phase = "starting"
      \/ phase = "scanning" /\ (o \in scan \/ (reading.pc = "read" /\ reading.op = o))
      \/ phase = "serving" /\ o \in active

(* A Procedure's record is written once.                                   *)
ProcedureUnfiled ==
  \A r \in Requests : call[r].pc = "allocated" /\ Policy[r] = "procedure" =>
    fileStatus[call[r].op] = "none"

Truthful ==
  /\ \A o \in Ops :
       Kept(fileStatus[o], rowStatus[o], runs[o], hookRuns[o], attempt[o], Kind(o))
  /\ \A w \in Workers : wpc[w] \in Held =>
       Doing(wpc[w], wres[w], fileStatus[wop[w]], runs[wop[w]],
             hookRuns[wop[w]], attempt[wop[w]], Kind(wop[w]))
  /\ reading.pc # "none" =>
       Seen(reading.pc, reading.saw, fileStatus[reading.op], Kind(reading.op))
  /\ ProcedureUnfiled
  /\ Unfinished

(* The attempts of one request: its first Operation has the identity of    *)
(* the digest and every later one is fresh; a verification names the one   *)
(* before it, which failed or was overtaken by another identity's.         *)
Chained ==
  /\ \A o \in fresh : o < next
  /\ \A o, p \in Ops \ fresh :
       origin[o] \in Requests /\ origin[o] = origin[p] => o = p
  /\ \A o \in Ops : Kind(o) \notin {"none", "procedure"} =>
       \E p \in Ops \ fresh : origin[p] = origin[o]
  /\ \A o \in Ops : Kind(o) = "verify" =>
       /\ o \notin fresh <=> retriedFrom[o] = NoOp
       /\ retriedFrom[o] # NoOp =>
            retriedFrom[o] < o /\ origin[retriedFrom[o]] = origin[o]
  /\ \A o, p \in Ops : Kind(o) = "verify" /\ origin[o] = origin[p] /\ o < p =>
       o <= retriedFrom[p] /\ (fileStatus[o] = "failed" \/ Overtaken(o, p))
  /\ RetriesBounded /\ TurnsInOrder /\ CorruptFailsClosed

(* The policy of an Operation is the policy of its request.                *)
LEMMA KindOf ==
  ASSUME Typed, NEW o \in Ops
  PROVE  /\ origin[o] \in Requests => Kind(o) = Policy[origin[o]]
         /\ origin[o] \notin Requests => Kind(o) = "none" /\ origin[o] = NoRequest
         /\ Kind(o) = "procedure" <=> origin[o] # NoRequest /\ Policy[origin[o]] = "procedure"
         /\ Kind(o) = "verify" <=> IsVerify(o)
BY NameAssumption DEF Typed, TypeOK, TypeDurable, Kind, IsVerify

(* Admission of the coordinate of a request finds its own Operations, and  *)
(* those of other identities only for a verification.                      *)
LEMMA EquivalentsOf ==
  ASSUME Typed, Allocated, NEW r \in Requests, NEW o \in Equivalents(r)
  PROVE  /\ o \in Ops /\ o < next /\ origin[o] \in Requests
         /\ Policy[origin[o]] = Policy[r]
         /\ Policy[r] # "verify" => origin[o] = r
<1>1. o \in Ops /\ o < next /\ origin[o] \in Requests /\ Coord[origin[o]] = Coord[r]
  BY DEF Equivalents, Allocated
<1> QED BY <1>1, RequestAssumption

LEMMA OwnEquivalents ==
  ASSUME Typed, Allocated, NEW r \in Requests, NEW o \in Ops, origin[o] = r
  PROVE  o \in Equivalents(r)
BY DEF Equivalents, Allocated

(* A record admitted again, a fresh turn and a retry, with what the call   *)
(* has found out about them under the mutex.                               *)
Reopens(r, o) ==
  /\ origin[o] = r
  /\ fileStatus[o] \in {"none", "failed", "outcome_unknown"}
  /\ Policy[r] \in {"verify", "procedure"} => fileStatus[o] = "none"
MayTurn(r) ==
  /\ Policy[r] = "repeatable"
  /\ ~Corrupt(Equivalents(r))
  /\ \E l \in Latest(Equivalents(r)) : fileStatus[l] = "completed"
MayRetry(r, q) ==
  /\ Policy[r] = "verify"
  /\ ~Corrupt(Equivalents(r))
  /\ q \in Latest({p \in Equivalents(r) : origin[p] = r})
  /\ ~Proven(q)
  /\ \E l \in Latest(Equivalents(r)) : fileStatus[l] \in Terminal
  /\ AttemptsLeft(Equivalents(r))

(* The ways an admission call can decide.                                  *)
LEMMA DecideCases ==
  ASSUME Typed, Allocated, NEW r \in Requests, AdmitDecide(r)
  PROVE  \/ Return(r)
         \/ \E o \in Ops : origin[o] = r /\ Attach(r, o)
         \/ \E o \in Ops : Reopens(r, o) /\ WriteAccepted(r, o)
         \/ MayTurn(r) /\ AllocateFresh(r, NoOp)
         \/ \E q \in Ops : MayRetry(r, q) /\ AllocateFresh(r, q)
<1> DEFINE o == call[r].op
           S == Equivalents(r)
<1>1. o \in Ops /\ origin[o] = r /\ Policy[r] # "procedure"
  BY DEF AdmitDecide, Typed, ShapeCalls, Allocated
<1>2. CASE fileStatus[o] = "none" /\ WriteAccepted(r, o)
  BY <1>1, <1>2 DEF Reopens
<1>3. CASE Policy[r] = "reuse" /\ AdmitReuse(r, o)
  BY <1>1, <1>3 DEF Reopens, AdmitReuse
<1>4. CASE Policy[r] = "repeatable" /\ AdmitRepeatable(r, o)
  <2>1. \A l \in Latest(S) : l \in Ops /\ origin[l] = r
    BY <1>4, EquivalentsOf DEF Latest
  <2>2. CASE \E l \in Latest(S) : fileStatus[l] = "completed" /\ ~Corrupt(S)
               /\ AllocateFresh(r, NoOp)
    BY <1>4, <2>2 DEF MayTurn
  <2>3. CASE \E l \in Latest(S) : fileStatus[l] \in {"failed", "outcome_unknown"}
               /\ WriteAccepted(r, l)
    BY <1>4, <2>1, <2>3 DEF Reopens
  <2>4. CASE Return(r) \/ Attach(r, o) \/ \E l \in Latest(S) : Attach(r, l)
    BY <1>1, <2>1, <2>4
  <2> QED BY <1>4, <2>2, <2>3, <2>4 DEF AdmitRepeatable
<1>5. CASE Policy[r] = "verify" /\ AdmitVerify(r, o)
  <2>1. CASE Attach(r, o) \/ Return(r)
    BY <1>1, <2>1
  <2>2. CASE AdmitRetry(r)
    <3> DEFINE Same == {p \in S : origin[p] = r}
    <3>1. \A l \in Latest(S), q \in Latest(Same) : l \in Ops /\ q \in Ops /\ origin[q] = r
      BY EquivalentsOf DEF Latest
    <3>2. CASE \E l \in Latest(S), q \in Latest(Same) : q = l /\ Attach(r, l)
      BY <3>1, <3>2
    <3>3. CASE \E l \in Latest(S), q \in Latest(Same) :
                 ~Corrupt(S) /\ fileStatus[l] \in Terminal /\ ~Proven(q) /\ AttemptsLeft(S)
                 /\ AllocateFresh(r, q)
      BY <1>5, <3>1, <3>3 DEF MayRetry
    <3>4. CASE Return(r)
      BY <3>4
    <3> QED BY <2>2, <3>2, <3>3, <3>4 DEF AdmitRetry
  <2> QED BY <1>5, <2>1, <2>2 DEF AdmitVerify
<1> QED BY <1>2, <1>3, <1>4, <1>5 DEF AdmitDecide

(* A new number gets its row and its request, and nothing else.            *)
LEMMA AllocateFacts ==
  ASSUME Typed, Allocated, NEW r \in Requests, NEW b \in BOOLEAN,
         NEW from \in Ops \cup {NoOp}, Allocate(r, b, from)
  PROVE  /\ next \in Ops /\ next' = next + 1
         /\ origin[next] = NoRequest /\ fileStatus[next] = "none"
         /\ origin'[next] = r /\ rowStatus'[next] = "accepted" /\ retriedFrom'[next] = from
         /\ \A o \in Ops : o # next => /\ origin'[o] = origin[o]
                                       /\ rowStatus'[o] = rowStatus[o]
                                       /\ retriedFrom'[o] = retriedFrom[o]
                                       /\ o \in fresh' <=> o \in fresh
         /\ next \in fresh' <=> b \/ next \in fresh
<1>1. next \in Ops
  BY ConstantsTyped DEF Allocate, MayAllocate, Ops, Typed, TypeOK, TypeDurable
<1>2. origin[next] = NoRequest /\ fileStatus[next] = "none"
  BY <1>1, ConstantsTyped DEF Allocated, Typed, TypeOK, TypeDurable
<1> QED BY <1>1, <1>2 DEF Allocate, Typed, TypeOK, TypeDurable

(* A Hook step is a step of a worker that holds its Operation.             *)
LEMMA HookHeld ==
  ASSUME NEW w \in Workers, Hook(w) PROVE wpc[w] \in Held
<1>1. PICK ph \in Phases :
        \/ HookPending(w, ph) \/ HookLaunch(w, ph) \/ HookPassed(w, ph)
        \/ \E out \in Attempts \ {"none", "pending"} : HookEnd(w, ph, out)
  BY DEF Hook
<1>2. ph \in {"before", "after"}
  BY DEF Phases
<1>3. {ph, PendingPc[ph], LaunchedPc[ph]} \subseteq Held
  BY <1>2 DEF PendingPc, LaunchedPc, Held
<1> QED BY <1>1, <1>3 DEF HookPending, HookLaunch, HookPassed, HookEnd

(* Every step leaves workers and replay in their phases.                   *)
LEMMA PhasedInvariant == Spec => []Phased
<1>1. Init => Phased
  BY DEF Init, Phased, NotReading
<1>2. ASSUME Typed, Phased, [Next]_vars PROVE Phased'
  <2>1. ASSUME NEW r \in Requests, Admission(r) PROVE Phased'
    <3>1. UNCHANGED <<wpc, phase, reading>>
      BY <2>1 DEF Admission, AdmitStart, AdmitDecide, ProcedureStart, ProcedureFile,
         AdmitRow, AdmitRowFails, AdmitFinish, workerVars, scanVars
    <3> QED BY <1>2, <3>1 DEF Phased
  <2>2. ASSUME NEW w \in Workers, Worker(w) PROVE Phased'
    <3>1. phase' = phase /\ reading' = reading
      BY <2>2 DEF Worker, Take, Skip, Claim, ClaimRow, ClaimRowFails, Hook, HookPending,
         HookLaunch, HookPassed, HookEnd, Execute, HandlerSucceeds, HandlerFails,
         PersistParent, ParentRow, ParentRowFails, Finish, FinishRow, Leave, KeepRest, scanVars
    <3>2. \A v \in Workers : v # w => wpc'[v] = wpc[v]
      BY <1>2, <2>2 DEF Worker, Take, Skip, Claim, ClaimRow, ClaimRowFails, Hook, HookPending,
         HookLaunch, HookPassed, HookEnd, Execute, HandlerSucceeds, HandlerFails,
         PersistParent, ParentRow, ParentRowFails, Finish, FinishRow, Leave, Goto, Returns,
         Typed, TypeOK, TypeWorkers
    <3>3. wpc[w] # "idle" \/ phase = "serving"
      <4>1. CASE Hook(w)
        BY <4>1, HookHeld DEF Held
      <4> QED BY <2>2, <4>1 DEF Worker, Take, Skip, Claim, ClaimRow, ClaimRowFails,
         Execute, HandlerSucceeds, HandlerFails,
         PersistParent, ParentRow, ParentRowFails, Finish, FinishRow, Leave
    <3> QED BY <1>2, <3>1, <3>2, <3>3 DEF Phased
  <2>3. CASE Replay
    <3>1. phase = "starting" => reading.pc = "none" /\ \A w \in Workers : wpc[w] = "idle"
      BY <1>2 DEF Phased
    <3>2. phase = "scanning" => \A w \in Workers : wpc[w] = "idle"
      BY <1>2 DEF Phased
    <3>3. CASE ScanStart
      BY <3>1, <3>3 DEF ScanStart, Phased, workerVars
    <3>4. CASE \E o \in Ops : ScanRead(o)
      BY <1>2, <3>4 DEF ScanRead, Phased, workerVars
    <3>5. CASE ScanWrite \/ ScanRow \/ ScanEnqueue
      <4>1. reading.pc # "none" /\ UNCHANGED <<wpc, phase>>
        BY <3>5 DEF ScanWrite, ScanRow, ScanEnqueue, workerVars
      <4> QED BY <1>2, <4>1 DEF Phased
    <3>6. CASE ScanDone
      BY <1>2, <3>6 DEF ScanDone, Phased, workerVars, NotReading
    <3> QED BY <2>3, <3>3, <3>4, <3>5, <3>6 DEF Replay
  <2>4. CASE Crash
    BY <2>4 DEF Crash, Phased, NotReading
  <2>5. CASE UNCHANGED vars
    BY <1>2, <2>5 DEF vars, workerVars, scanVars, Phased
  <2> QED BY <1>2, <2>1, <2>2, <2>3, <2>4, <2>5 DEF Next
<1> QED BY TypedInvariant, <1>1, <1>2, PTL DEF Spec

(* A step of a worker touches its own Operation and no other one, so what  *)
(* another worker holds stays as it is.                                    *)
LEMMA WorkerLocal ==
  ASSUME Typed, Exclusive, NEW w \in Workers, Worker(w)
  PROVE  /\ UNCHANGED <<origin, fresh, retriedFrom, next, call, phase, scan, reading>>
         /\ \A o \in Ops : o # wop[w] =>
              /\ fileStatus'[o] = fileStatus[o] /\ rowStatus'[o] = rowStatus[o]
              /\ runs'[o] = runs[o] /\ hookRuns'[o] = hookRuns[o] /\ attempt'[o] = attempt[o]
              /\ o \in active' <=> o \in active
         /\ \A v \in Workers : v # w /\ wpc'[v] \in Held =>
              /\ wpc[v] \in Held /\ wop[v] \in Ops
              /\ wpc'[v] = wpc[v] /\ wop'[v] = wop[v] /\ wres'[v] = wres[v]
              /\ fileStatus'[wop[v]] = fileStatus[wop[v]]
              /\ runs'[wop[v]] = runs[wop[v]]
              /\ hookRuns'[wop[v]] = hookRuns[wop[v]]
              /\ attempt'[wop[v]] = attempt[wop[v]]
         /\ wpc'[w] \in Held => wop[w] \in Ops /\ wop'[w] = wop[w]
<1> USE DEF Typed, TypeOK
<1>1. UNCHANGED <<origin, fresh, retriedFrom, next, call, phase, scan, reading>>
  BY DEF Worker, Take, Skip, Claim, ClaimRow, ClaimRowFails, Hook, HookPending,
     HookLaunch, HookPassed, HookEnd, Execute, HandlerSucceeds, HandlerFails,
     PersistParent, ParentRow, ParentRowFails, Finish, FinishRow, Leave, KeepRest, scanVars,
     durable
<1>2. \A v \in Workers : v # w => wpc'[v] = wpc[v] /\ wop'[v] = wop[v] /\ wres'[v] = wres[v]
  BY DEF Worker, Take, Skip, Claim, ClaimRow, ClaimRowFails, Hook, HookPending,
     HookLaunch, HookPassed, HookEnd, Execute, HandlerSucceeds, HandlerFails,
     PersistParent, ParentRow, ParentRowFails, Finish, FinishRow, Leave, Goto, Returns,
     TypeWorkers
<1>3. ASSUME NEW o \in Ops, o # wop[w]
      PROVE  /\ fileStatus'[o] = fileStatus[o] /\ rowStatus'[o] = rowStatus[o]
             /\ runs'[o] = runs[o] /\ hookRuns'[o] = hookRuns[o] /\ attempt'[o] = attempt[o]
             /\ o \in active' <=> o \in active
  <2>1. CASE Hook(w)
    BY <1>3, <2>1 DEF Hook, HookPending, HookLaunch, HookPassed, HookEnd, TypeDurable,
       TypeHistory, history, durable
  <2> QED BY <1>3, <2>1 DEF Worker, Take, Skip, Claim, ClaimRow, ClaimRowFails, Execute,
       HandlerSucceeds, HandlerFails, PersistParent, ParentRow, ParentRowFails, Finish,
       FinishRow, Leave, SetFile, SetRow, TypeDurable, TypeHistory, history, durable
<1>4. wpc[w] \notin Held => Take(w) \/ Skip(w) \/ Claim(w)
  BY HookHeld DEF Worker, ClaimRow, ClaimRowFails, Execute, HandlerSucceeds, HandlerFails,
     PersistParent, ParentRow, ParentRowFails, Finish, FinishRow, Leave, Held
<1>5. ASSUME NEW v \in Workers, v # w, wpc'[v] \in Held
      PROVE  /\ wpc[v] \in Held /\ wop[v] \in Ops
             /\ fileStatus'[wop[v]] = fileStatus[wop[v]]
             /\ runs'[wop[v]] = runs[wop[v]]
             /\ hookRuns'[wop[v]] = hookRuns[wop[v]]
             /\ attempt'[wop[v]] = attempt[wop[v]]
  <2>1. wpc[v] \in Held /\ wpc[v] # "idle"
    BY <1>2, <1>5 DEF Held
  <2>2. wop[v] \in Ops /\ wop[v] \in active
    BY <2>1 DEF ShapeWorkers, Exclusive
  <2>3. CASE wop[v] # wop[w]
    BY <1>3, <2>1, <2>2, <2>3
  <2>4. CASE wop[v] = wop[w]
    <3>1. wpc[w] \notin Held
      BY <1>5, <2>1, <2>4 DEF Exclusive
    <3>2. Take(w) \/ Skip(w)
      BY <1>4, <2>2, <2>4, <3>1 DEF Claim
    <3> QED BY <2>1, <2>2, <3>2 DEF Take, Skip, durable, history
  <2> QED BY <2>3, <2>4
<1>6. wpc'[w] \in Held => wop[w] \in Ops /\ wop'[w] = wop[w]
  <2>1. CASE Hook(w)
    BY <2>1, HookHeld DEF Hook, HookPending, HookLaunch, HookPassed, HookEnd, ShapeWorkers,
       Held
  <2>2. "idle" \notin Held /\ "taken" \notin Held
    BY DEF Held
  <2>3. CASE Take(w) \/ Skip(w) \/ ClaimRowFails(w) \/ Leave(w)
    BY <2>2, <2>3 DEF Take, Skip, ClaimRowFails, Leave, Goto, TypeWorkers
  <2> QED BY <2>1, <2>3 DEF Worker, Claim, ClaimRow, Execute,
       HandlerSucceeds, HandlerFails, PersistParent, ParentRow, ParentRowFails, Finish,
       FinishRow, ShapeWorkers
<1> QED BY <1>1, <1>2, <1>3, <1>5, <1>6

-----------------------------------------------------------------------------
(* Numbers, rows and records                                               *)

(* What Allocated says of the Operations, of the calls, of the workers and *)
(* of the replay.                                                          *)
RowsAllocated ==
  \A o \in Ops :
    /\ origin[o] \in Requests <=> o < next
    /\ rowStatus[o] # "none" <=> o < next
    /\ fileStatus[o] # "none" => o < next
CallsAllocated ==
  \A r \in Requests :
    /\ call[r].pc \notin {"idle", "unused"} => origin[call[r].op] = r
    /\ call[r].pc = "filed" => fileStatus[call[r].op] # "none"

(* No step takes a record back.                                            *)
RecordsStay == \A o \in Ops : fileStatus[o] # "none" => fileStatus'[o] # "none"

LEMMA RestAllocated ==
  ASSUME Allocated, Typed, RecordsStay, RowsAllocated', CallsAllocated',
         UNCHANGED <<wpc, wop, scan, reading>>
  PROVE  Allocated'
<1>1. \A w \in Workers : wpc'[w] \in Held => fileStatus'[wop'[w]] # "none"
  <2>1. \A w \in Workers : wpc[w] \in Held => wop[w] \in Ops
    BY DEF Typed, ShapeWorkers, Held
  <2> QED BY <2>1 DEF Allocated, RecordsStay
<1>2. \A o \in scan' : fileStatus'[o] # "none"
  BY DEF Allocated, RecordsStay, Typed, TypeOK, TypeReplay
<1>3. reading'.pc # "none" =>
        fileStatus'[reading'.op] # "none" /\ reading'.saw # "none"
  BY DEF Allocated, RecordsStay, Typed, ShapeReplay
<1> QED BY <1>1, <1>2, <1>3 DEF Allocated, RowsAllocated, CallsAllocated

(* A step that only moves a call among the Operations of its request.      *)
LEMMA MoveCall ==
  ASSUME Typed, Allocated, NEW r \in Requests, NEW c, c.op \in Ops \cup {NoOp},
         call' = [call EXCEPT ![r] = c],
         c.pc \notin {"idle", "unused"} => c.op \in Ops /\ origin[c.op] = r,
         c.pc = "filed" => fileStatus'[c.op] # "none",
         UNCHANGED origin, RecordsStay
  PROVE  CallsAllocated'
<1>1. \A s \in Requests : s # r => call'[s] = call[s]
  BY DEF Typed, TypeOK, TypeCalls
<1>2. call'[r] = c
  BY DEF Typed, TypeOK, TypeCalls
<1>3. \A s \in Requests : call[s].pc \notin {"idle", "unused"} => call[s].op \in Ops
  BY DEF Typed, ShapeCalls
<1> QED BY <1>1, <1>2, <1>3 DEF CallsAllocated, Allocated, RecordsStay

LEMMA AllocateAllocated ==
  ASSUME Typed, Allocated, NEW r \in Requests, NEW b \in BOOLEAN,
         NEW from \in Ops \cup {NoOp}, Allocate(r, b, from), UNCHANGED fileStatus,
         call' = [call EXCEPT ![r] = [pc |-> "allocated", op |-> next]]
  PROVE  RowsAllocated' /\ CallsAllocated' /\ RecordsStay
<1>1. /\ next \in Ops /\ next' = next + 1
      /\ origin[next] = NoRequest /\ fileStatus[next] = "none"
      /\ origin'[next] = r /\ rowStatus'[next] = "accepted"
      /\ \A o \in Ops : o # next => origin'[o] = origin[o] /\ rowStatus'[o] = rowStatus[o]
  BY AllocateFacts
<1>2. \A o \in Ops : o \in Nat
  BY ConstantsTyped
<1>3. RowsAllocated'
  BY <1>1, <1>2 DEF RowsAllocated, Allocated
<1>4. \A s \in Requests : s # r => call'[s] = call[s]
  BY DEF Typed, TypeOK, TypeCalls
<1>5. call'[r] = [pc |-> "allocated", op |-> next]
  BY DEF Typed, TypeOK, TypeCalls
<1>6. \A s \in Requests : call[s].pc \notin {"idle", "unused"} =>
        call[s].op \in Ops /\ call[s].op # next /\ origin[call[s].op] = s
  BY <1>1, NameAssumption DEF Typed, ShapeCalls, Allocated
<1>7. CallsAllocated'
  <2> SUFFICES ASSUME NEW s \in Requests
               PROVE  /\ call'[s].pc \notin {"idle", "unused"} => origin'[call'[s].op] = s
                      /\ call'[s].pc = "filed" => fileStatus'[call'[s].op] # "none"
    BY DEF CallsAllocated
  <2>1. CASE s = r
    BY <1>1, <1>5, <2>1
  <2>2. CASE s # r
    BY <1>1, <1>4, <1>6, <2>2 DEF Allocated
  <2> QED BY <2>1, <2>2
<1> QED BY <1>3, <1>7 DEF RecordsStay

LEMMA WriteAcceptedAllocated ==
  ASSUME Typed, Allocated, NEW r \in Requests, NEW o \in Ops, origin[o] = r,
         WriteAccepted(r, o)
  PROVE  RowsAllocated' /\ CallsAllocated' /\ RecordsStay
<1>1. RecordsStay /\ fileStatus'[o] = "accepted" /\ o < next
  BY DEF WriteAccepted, RecordsStay, Typed, TypeOK, TypeDurable, Allocated
<1>2. RowsAllocated'
  BY <1>1 DEF WriteAccepted, RowsAllocated, Allocated, Typed, TypeOK, TypeDurable
<1>3. CallsAllocated'
  <2> DEFINE c == [pc |-> "filed", op |-> o]
  <2>1. c.op = o /\ c.pc = "filed" /\ call' = [call EXCEPT ![r] = c] /\ UNCHANGED origin
    BY DEF WriteAccepted
  <2> HIDE DEF c
  <2> QED BY <1>1, <2>1, MoveCall
<1> QED BY <1>1, <1>2, <1>3

LEMMA AdmissionAllocated ==
  ASSUME Typed, Allocated, NEW r \in Requests, Admission(r) PROVE Allocated' /\ RecordsStay
<1>0. UNCHANGED <<wpc, wop, scan, reading>>
  BY DEF Admission, AdmitStart, AdmitDecide, ProcedureStart, ProcedureFile,
     AdmitRow, AdmitRowFails, AdmitFinish, workerVars, scanVars
<1> SUFFICES RowsAllocated' /\ CallsAllocated' /\ RecordsStay
  BY <1>0, RestAllocated
<1>r. UNCHANGED <<rowStatus, origin, fileStatus, next>> => RowsAllocated' /\ RecordsStay
  BY DEF RowsAllocated, Allocated, RecordsStay
<1>n. NoCall.op = NoOp /\ NoCall.pc = "idle"
  BY DEF NoCall
<1>o. call[r].pc \notin {"idle", "unused"} => call[r].op \in Ops /\ origin[call[r].op] = r
  BY DEF Typed, ShapeCalls, Allocated
<1>1. CASE AdmitStart(r)
  <2>1. CASE Allocate(r, FALSE, NoOp) /\ call' = [call EXCEPT ![r] = [pc |-> "allocated", op |-> next]]
    BY <1>1, <2>1, AllocateAllocated DEF AdmitStart
  <2>2. CASE /\ \E o \in Base(r) :
                  call' = [call EXCEPT ![r] = [pc |-> "allocated", op |-> o]]
             /\ UNCHANGED <<rowStatus, origin, fresh, retriedFrom, next>>
    <3>1. PICK o \in Base(r) : call' = [call EXCEPT ![r] = [pc |-> "allocated", op |-> o]]
      BY <2>2
    <3> DEFINE c == [pc |-> "allocated", op |-> o]
    <3>2. c.op \in Ops /\ c.pc = "allocated" /\ origin[c.op] = r /\ call' = [call EXCEPT ![r] = c]
      BY <3>1 DEF Base
    <3>3. RowsAllocated' /\ RecordsStay /\ UNCHANGED origin
      BY <1>1, <2>2, <1>r DEF AdmitStart
    <3> HIDE DEF c
    <3> QED BY <3>2, <3>3, MoveCall
  <2> QED BY <1>1, <2>1, <2>2 DEF AdmitStart
<1>2. CASE AdmitDecide(r)
  <2>1. CASE Return(r)
    BY <1>n, <1>r, <2>1, MoveCall DEF Return, durable
  <2>2. CASE \E o \in Ops : origin[o] = r /\ Attach(r, o)
    <3>1. PICK o \in Ops : origin[o] = r /\ Attach(r, o)
      BY <2>2
    <3> DEFINE c == [pc |-> "ready", op |-> o]
    <3>2. c.op = o /\ c.pc = "ready" /\ call' = [call EXCEPT ![r] = c]
      BY <3>1 DEF Attach
    <3>3. RowsAllocated' /\ RecordsStay /\ UNCHANGED origin
      BY <3>1, <1>r DEF Attach, durable
    <3> HIDE DEF c
    <3> QED BY <3>1, <3>2, <3>3, MoveCall
  <2>3. CASE \E o \in Ops : Reopens(r, o) /\ WriteAccepted(r, o)
    BY <2>3, WriteAcceptedAllocated DEF Reopens
  <2>4. ASSUME NEW q \in Ops \cup {NoOp}, AllocateFresh(r, q)
        PROVE  RowsAllocated' /\ CallsAllocated' /\ RecordsStay
    BY <2>1, <2>4, AllocateAllocated DEF AllocateFresh
  <2> QED BY <1>2, <2>1, <2>2, <2>3, <2>4, DecideCases
<1>3. CASE ProcedureStart(r)
  BY <1>3, AllocateAllocated DEF ProcedureStart, NoOp
<1>4. CASE ProcedureFile(r)
  BY <1>4, <1>o, WriteAcceptedAllocated DEF ProcedureFile
<1>5. CASE AdmitRow(r)
  <2>1. call[r].op \in Ops /\ origin[call[r].op] = r /\ fileStatus[call[r].op] # "none"
    BY <1>5, <1>o DEF AdmitRow, Allocated
  <2>2. RowsAllocated' /\ RecordsStay
    BY <1>5, <2>1 DEF AdmitRow, RowsAllocated, Allocated, RecordsStay, Typed, TypeOK, TypeDurable
  <2>3. call'[r].op = call[r].op /\ call'[r].pc = "ready"
        /\ \A s \in Requests : s # r => call'[s] = call[s]
    BY <1>5 DEF AdmitRow, Typed, TypeOK, TypeCalls
  <2>4. CallsAllocated'
    <3> SUFFICES ASSUME NEW s \in Requests
                 PROVE  /\ call'[s].pc \notin {"idle", "unused"} => origin'[call'[s].op] = s
                        /\ call'[s].pc = "filed" => fileStatus'[call'[s].op] # "none"
      BY DEF CallsAllocated
    <3>1. UNCHANGED <<origin, fileStatus>>
      BY <1>5 DEF AdmitRow
    <3>2. CASE s = r
      BY <2>1, <2>3, <3>1, <3>2
    <3>3. CASE s # r
      BY <2>3, <3>1, <3>3 DEF Allocated
    <3> QED BY <3>2, <3>3
  <2> QED BY <2>2, <2>4
<1>6. CASE AdmitRowFails(r)
  <2>1. call[r].op \in Ops /\ origin[call[r].op] = r
    BY <1>6, <1>o DEF AdmitRowFails
  <2>2. RowsAllocated' /\ RecordsStay
    BY <1>6, <2>1 DEF AdmitRowFails, RowsAllocated, Allocated, RecordsStay, Typed, TypeOK, TypeDurable
  <2> QED BY <1>6, <1>n, <2>2, MoveCall DEF AdmitRowFails
<1>7. CASE AdmitFinish(r)
  BY <1>7, <1>n, <1>r, MoveCall DEF AdmitFinish, durable
<1> QED BY <1>1, <1>2, <1>3, <1>4, <1>5, <1>6, <1>7 DEF Admission

LEMMA WorkerAllocated ==
  ASSUME Typed, Exclusive, Allocated, NEW w \in Workers, Worker(w)
  PROVE  Allocated' /\ RecordsStay
<1> USE DEF Typed, TypeOK
<1>1. wop[w] \in Ops =>
        /\ fileStatus[wop[w]] # "none" => fileStatus'[wop[w]] # "none"
        /\ rowStatus[wop[w]] # "none" => rowStatus'[wop[w]] # "none"
  <2>1. Hook(w) => UNCHANGED <<fileStatus, rowStatus>>
    BY DEF Hook, HookPending, HookLaunch, HookPassed, HookEnd, durable
  <2>2. CASE Finish(w)
    BY <2>2 DEF Finish, SetFile, TypeDurable, ShapeWorkers, Terminal
  <2>3. CASE FinishRow(w)
    BY <2>3 DEF FinishRow, SetRow, TypeDurable, ShapeWorkers, Terminal
  <2> QED BY <2>1, <2>2, <2>3 DEF Worker, Take, Skip, Claim, ClaimRow, ClaimRowFails, Execute,
       HandlerSucceeds, HandlerFails, PersistParent, ParentRow, ParentRowFails,
       Leave, SetFile, SetRow, TypeDurable, durable
<1>2. wpc'[w] \in Held => fileStatus[wop[w]] # "none"
  <2>1. CASE wpc[w] \in Held
    BY <2>1 DEF Allocated
  <2>2. CASE wpc[w] \notin Held
    <3>1. Take(w) \/ Skip(w) \/ Claim(w)
      BY <2>2, HookHeld DEF Worker, ClaimRow, ClaimRowFails, Execute, HandlerSucceeds,
         HandlerFails, PersistParent, ParentRow, ParentRowFails, Finish, FinishRow, Leave, Held
    <3>2. "taken" \notin Held /\ "idle" \notin Held
      BY DEF Held
    <3> QED BY <3>1, <3>2 DEF Take, Skip, Claim, Goto, TypeWorkers
  <2> QED BY <2>1, <2>2
<1>3. \/ wpc'[w] \in Held
      \/ fileStatus'[wop[w]] = fileStatus[wop[w]] /\ rowStatus'[wop[w]] = rowStatus[wop[w]]
  <2>1. Hook(w) => UNCHANGED <<fileStatus, rowStatus>>
    BY DEF Hook, HookPending, HookLaunch, HookPassed, HookEnd, durable
  <2>2. {"claimed", "before", "parentFiled", "after", "finished", "leaving"} \subseteq Held
    BY DEF Held
  <2>3. CASE Claim(w) \/ ClaimRow(w) \/ PersistParent(w) \/ ParentRow(w) \/ Finish(w) \/ FinishRow(w)
    <3>1. \E pc \in Held : Goto(w, pc)
      BY <2>2, <2>3 DEF Claim, ClaimRow, PersistParent, ParentRow, Finish, FinishRow
    <3>2. wpc'[w] \in Held
      BY <3>1 DEF Goto, TypeWorkers
    <3> QED BY <3>2
  <2> QED BY <2>1, <2>3 DEF Worker, Take, Skip, ClaimRowFails, Execute, HandlerSucceeds,
             HandlerFails, ParentRowFails, Leave, durable
<1>4. RecordsStay
  BY <1>1, WorkerLocal DEF RecordsStay
<1>5. RowsAllocated'
  <2> SUFFICES ASSUME NEW o \in Ops
               PROVE  /\ origin'[o] \in Requests <=> o < next'
                      /\ rowStatus'[o] # "none" <=> o < next'
                      /\ fileStatus'[o] # "none" => o < next'
    BY DEF RowsAllocated
  <2>1. CASE o # wop[w]
    BY <2>1, WorkerLocal DEF Allocated
  <2>2. CASE o = wop[w]
    BY <2>2, <1>1, <1>2, <1>3, WorkerLocal DEF Allocated
  <2> QED BY <2>1, <2>2
<1>6. CallsAllocated'
  BY <1>4, WorkerLocal DEF CallsAllocated, Allocated, RecordsStay, ShapeCalls
<1>7. \A v \in Workers : wpc'[v] \in Held => fileStatus'[wop'[v]] # "none"
  BY <1>1, <1>2, WorkerLocal DEF Allocated
<1>8. \A o \in scan' : fileStatus'[o] # "none"
  BY <1>4, WorkerLocal DEF Allocated, RecordsStay, TypeReplay
<1>9. reading'.pc # "none" =>
        fileStatus'[reading'.op] # "none" /\ reading'.saw # "none"
  BY <1>4, WorkerLocal DEF Allocated, RecordsStay, ShapeReplay
<1> QED BY <1>4, <1>5, <1>6, <1>7, <1>8, <1>9 DEF Allocated, RowsAllocated, CallsAllocated

LEMMA ReplayAllocated ==
  ASSUME Typed, Phased, Allocated, Replay PROVE Allocated' /\ RecordsStay
<1> USE DEF Typed, TypeOK
<1>0. UNCHANGED <<origin, next, call, wpc, wop>>
  BY DEF Replay, ScanStart, ScanRead, ScanWrite, ScanRow, ScanEnqueue, ScanDone, durable, workerVars
<1>1. RecordsStay /\ (reading.pc # "none" => reading.op \in Ops)
  <2>1. CASE ScanWrite
    <3>1. Recovered(reading.op, reading.saw) # "none"
      BY DEF Recovered, Terminal
    <3> QED BY <2>1, <3>1 DEF ScanWrite, SetFile, RecordsStay, TypeDurable, ShapeReplay
  <2> QED BY <2>1 DEF Replay, ScanStart, ScanRead, ScanRow, ScanEnqueue, ScanDone, durable,
             RecordsStay, ShapeReplay
<1>2. RowsAllocated'
  <2>1. ASSUME NEW o \in Ops PROVE fileStatus'[o] # "none" => o < next
    <3>1. CASE ScanWrite
      <4>1. reading.op < next
        BY <1>1, <3>1 DEF ScanWrite, Allocated
      <4> QED BY <3>1, <4>1 DEF ScanWrite, SetFile, Allocated, TypeDurable
    <3> QED BY <3>1 DEF Replay, ScanStart, ScanRead, ScanRow, ScanEnqueue, ScanDone, durable,
               Allocated
  <2>2. ASSUME NEW o \in Ops PROVE rowStatus'[o] # "none" <=> o < next
    <3>1. CASE ScanRow
      <4>1. reading.op < next /\ reading.saw # "none"
        BY <1>1, <3>1 DEF ScanRow, Allocated
      <4> QED BY <3>1, <4>1 DEF ScanRow, SetRow, Allocated, TypeDurable
    <3> QED BY <3>1 DEF Replay, ScanStart, ScanRead, ScanWrite, ScanEnqueue, ScanDone, durable,
               Allocated
  <2> QED BY <1>0, <2>1, <2>2 DEF RowsAllocated, Allocated
<1>3. CallsAllocated'
  BY <1>0, <1>1 DEF CallsAllocated, Allocated, RecordsStay, ShapeCalls
<1>4. \A w \in Workers : wpc'[w] \in Held => fileStatus'[wop'[w]] # "none"
  BY <1>0, <1>1 DEF Allocated, RecordsStay, ShapeWorkers, Held
<1>5. \A o \in scan' : fileStatus'[o] # "none"
  BY <1>1 DEF Replay, ScanStart, ScanRead, ScanWrite, ScanRow, ScanEnqueue, ScanDone, durable,
     Allocated, RecordsStay, TypeReplay
<1>6. reading'.pc # "none" =>
        fileStatus'[reading'.op] # "none" /\ reading'.saw # "none"
  <2>1. CASE ScanStart \/ ScanDone
    BY <2>1 DEF ScanStart, ScanDone, Phased, durable, Allocated
  <2>2. ASSUME NEW o \in Ops, ScanRead(o) PROVE fileStatus'[reading'.op] # "none" /\ reading'.saw # "none"
    BY <2>2 DEF ScanRead, Allocated, durable
  <2>3. CASE ScanWrite
    <3>1. Recovered(reading.op, reading.saw) # "none"
      BY DEF Recovered, Terminal
    <3>2. reading.op \in Ops /\ reading'.op = reading.op
      BY <1>1, <2>3 DEF ScanWrite, TypeReplay
    <3>3. reading'.saw # "none"
      BY <2>3, <3>1 DEF ScanWrite, TypeReplay, Allocated
    <3> QED BY <1>1, <2>3, <3>2, <3>3 DEF ScanWrite, Allocated, RecordsStay
  <2>4. CASE ScanRow
    BY <2>4 DEF ScanRow, TypeReplay, Allocated, NotReading
  <2>5. CASE ScanEnqueue
    BY <2>5 DEF ScanEnqueue, NotReading
  <2> QED BY <2>1, <2>2, <2>3, <2>4, <2>5 DEF Replay
<1> QED BY <1>1, <1>2, <1>3, <1>4, <1>5, <1>6 DEF Allocated, RowsAllocated, CallsAllocated

LEMMA CrashAllocated ==
  ASSUME Typed, Allocated, Crash \/ UNCHANGED vars PROVE Allocated' /\ RecordsStay
<1>1. CASE Crash
  <2>1. UNCHANGED <<rowStatus, origin, fileStatus, next>>
    BY <1>1 DEF Crash, durable
  <2>2. \A r \in Requests : call'[r].pc \in {"idle", "unused"}
    BY <1>1 DEF Crash, NoCall, NoCaller
  <2>3. (\A w \in Workers : wpc'[w] \notin Held) /\ scan' = {} /\ reading'.pc = "none"
    BY <1>1 DEF Crash, Held, NotReading
  <2> QED BY <2>1, <2>2, <2>3 DEF Allocated, RecordsStay
<1>2. CASE UNCHANGED vars
  BY <1>2 DEF vars, durable, workerVars, scanVars, Allocated, RecordsStay
<1> QED BY <1>1, <1>2

LEMMA InitAllocated == Init => Allocated
<1> SUFFICES ASSUME Init PROVE Allocated
  OBVIOUS
<1>1. \A r \in Requests : call[r].pc \in {"idle", "unused"}
  BY DEF Init, NoCall, NoCaller
<1>2. (\A w \in Workers : wpc[w] \notin Held) /\ scan = {} /\ reading.pc = "none"
  BY DEF Init, Held, NotReading
<1>3. \A o \in Ops : origin[o] \notin Requests /\ ~(o < next)
                     /\ rowStatus[o] = "none" /\ fileStatus[o] = "none"
  BY NameAssumption, BoundAssumption DEF Init, Ops
<1> QED BY <1>1, <1>2, <1>3 DEF Allocated

-----------------------------------------------------------------------------
(* Records, executions and Hooks                                           *)

(* What a worker's own step does to its Operation, the Hook steps first.   *)
LEMMA HookTruth ==
  ASSUME Typed, NEW w \in Workers, Hook(w), NEW o \in Ops, o = wop[w], NEW k,
         Kept(fileStatus[o], rowStatus[o], runs[o], hookRuns[o], attempt[o], k),
         Doing(wpc[w], wres[w], fileStatus[o], runs[o], hookRuns[o], attempt[o], k)
  PROVE  /\ Kept(fileStatus'[o], rowStatus'[o], runs'[o], hookRuns'[o], attempt'[o], k)
         /\ Doing(wpc'[w], wres'[w], fileStatus'[o], runs'[o], hookRuns'[o], attempt'[o], k)
<1> USE DEF Typed, TypeOK
<1>1. PICK ph \in Phases :
        \/ HookPending(w, ph) \/ HookLaunch(w, ph) \/ HookPassed(w, ph)
        \/ \E out \in Attempts \ {"none", "pending"} : HookEnd(w, ph, out)
  BY DEF Hook
<1>t. /\ runs[o] \in 0 .. 2 /\ hookRuns[o] \in [Phases -> 0 .. 2]
      /\ attempt[o] \in [Phases -> Attempts]
  BY DEF TypeHistory, TypeDurable
<1>p. /\ PendingPc["before"] = "beforePending" /\ PendingPc["after"] = "afterPending"
      /\ LaunchedPc["before"] = "beforeLaunched" /\ LaunchedPc["after"] = "afterLaunched"
      /\ Phases = {"before", "after"}
  BY DEF PendingPc, LaunchedPc, Phases
<1>2. CASE HookPending(w, ph)
  <2>1. /\ wpc[w] = ph /\ attempt[o][ph] = "none"
        /\ attempt'[o] = [attempt[o] EXCEPT ![ph] = "pending"]
        /\ fileStatus'[o] = fileStatus[o] /\ rowStatus'[o] = rowStatus[o]
        /\ runs'[o] = runs[o] /\ hookRuns'[o] = hookRuns[o]
    BY <1>2 DEF HookPending, TypeDurable, history
  <2>2. \/ wpc'[w] = PendingPc[ph] /\ wres'[w] = wres[w]
        \/ wpc'[w] = "returned" /\ wres'[w] = IF ph = "before" THEN "failed" ELSE "completed"
    BY <1>2 DEF HookPending, Goto, Returns, TypeWorkers
  <2>3. CASE ph = "before"
    BY <1>p, <1>t, <2>1, <2>2, <2>3 DEF Kept, Doing, BeforeEffect, Reported
  <2>4. CASE ph = "after"
    BY <1>p, <1>t, <2>1, <2>2, <2>4 DEF Kept, Doing, BeforeEffect, Reported
  <2> QED BY <1>p, <2>3, <2>4
<1>3. CASE HookLaunch(w, ph)
  <2>1. /\ wpc[w] = PendingPc[ph] /\ wpc'[w] = LaunchedPc[ph] /\ wres'[w] = wres[w]
        /\ hookRuns'[o] = [hookRuns[o] EXCEPT ![ph] = Bump(hookRuns[o][ph])]
        /\ fileStatus'[o] = fileStatus[o] /\ rowStatus'[o] = rowStatus[o]
        /\ runs'[o] = runs[o] /\ attempt'[o] = attempt[o]
    BY <1>3 DEF HookLaunch, TypeHistory, TypeWorkers, Goto, durable
  <2>2. CASE ph = "before"
    BY <1>p, <1>t, <2>1, <2>2 DEF Kept, Doing, BeforeEffect, Reported, Bump
  <2>3. CASE ph = "after"
    BY <1>p, <1>t, <2>1, <2>3 DEF Kept, Doing, BeforeEffect, Reported, Bump
  <2> QED BY <1>p, <2>2, <2>3
<1>4. CASE HookPassed(w, ph)
  <2>1. /\ fileStatus'[o] = fileStatus[o] /\ rowStatus'[o] = rowStatus[o] /\ wpc[w] = ph
        /\ runs'[o] = runs[o] /\ attempt'[o] = attempt[o] /\ hookRuns'[o] = hookRuns[o]
    BY <1>4 DEF HookPassed, durable, history
  <2>2. \/ ph = "before" /\ wpc'[w] = "effect" /\ wres'[w] = wres[w]
        \/ ph = "before" /\ wpc'[w] = "returned" /\ wres'[w] = "failed"
        \/ ph = "after" /\ wpc'[w] = "returned" /\ wres'[w] = "completed"
    BY <1>4 DEF HookPassed, Goto, Returns, TypeWorkers
  <2> QED BY <1>p, <1>t, <2>1, <2>2 DEF Kept, Doing, BeforeEffect, Reported
<1>5. ASSUME NEW out \in Attempts \ {"none", "pending"}, HookEnd(w, ph, out)
      PROVE  /\ Kept(fileStatus'[o], rowStatus'[o], runs'[o], hookRuns'[o], attempt'[o], k)
             /\ Doing(wpc'[w], wres'[w], fileStatus'[o], runs'[o], hookRuns'[o], attempt'[o], k)
  <2>1. /\ wpc[w] \in {PendingPc[ph], LaunchedPc[ph]}
        /\ attempt'[o] = [attempt[o] EXCEPT ![ph] = out] /\ out # "none"
        /\ fileStatus'[o] = fileStatus[o] /\ rowStatus'[o] = rowStatus[o]
        /\ runs'[o] = runs[o] /\ hookRuns'[o] = hookRuns[o]
    BY <1>5 DEF HookEnd, TypeDurable, history
  <2>2. \/ ph = "before" /\ wpc'[w] = "effect" /\ wres'[w] = wres[w]
        \/ ph = "before" /\ wpc'[w] = "returned" /\ wres'[w] = "failed"
        \/ ph = "after" /\ wpc'[w] = "returned" /\ wres'[w] = "completed"
    BY <1>5 DEF HookEnd, Goto, Returns, TypeWorkers
  <2>3. CASE ph = "before"
    BY <1>p, <1>t, <2>1, <2>2, <2>3 DEF Kept, Doing, BeforeEffect, Reported
  <2>4. CASE ph = "after"
    BY <1>p, <1>t, <2>1, <2>2, <2>4 DEF Kept, Doing, BeforeEffect, Reported
  <2> QED BY <1>p, <2>3, <2>4
<1> QED BY <1>1, <1>2, <1>3, <1>4, <1>5

(* Every other step of a worker that has an Operation.                     *)
LEMMA OwnTruth ==
  ASSUME Typed, Phased, Truthful, NEW w \in Workers, Worker(w),
         NEW o \in Ops, o = wop[w], wpc[w] # "idle"
  PROVE  /\ Kept(fileStatus'[o], rowStatus'[o], runs'[o], hookRuns'[o], attempt'[o], Kind(o))
         /\ wpc'[w] \in Held =>
              Doing(wpc'[w], wres'[w], fileStatus'[o], runs'[o], hookRuns'[o], attempt'[o], Kind(o))
<1> USE DEF Typed, TypeOK
<1> DEFINE k == Kind(o)
           Goal == /\ Kept(fileStatus'[o], rowStatus'[o], runs'[o], hookRuns'[o], attempt'[o], k)
                   /\ wpc'[w] \in Held =>
                        Doing(wpc'[w], wres'[w], fileStatus'[o], runs'[o], hookRuns'[o], attempt'[o], k)
<1>k. Kept(fileStatus[o], rowStatus[o], runs[o], hookRuns[o], attempt[o], k)
  BY DEF Truthful
<1>d. wpc[w] \in Held => Doing(wpc[w], wres[w], fileStatus[o], runs[o], hookRuns[o], attempt[o], k)
  BY DEF Truthful
<1>t. /\ runs[o] \in 0 .. 2 /\ hookRuns[o] \in [Phases -> 0 .. 2]
      /\ attempt[o] \in [Phases -> Attempts] /\ {"before", "after"} = Phases
  BY DEF TypeHistory, TypeDurable, Phases
<1>u. k = "procedure" /\ runs[o] > 0 /\ fileStatus[o] \notin Terminal => o \in active
  BY DEF Phased, Truthful, Unfinished
<1>h. /\ "idle" \notin Held /\ "taken" \notin Held
      /\ {"claimed", "effect", "applied", "parentFiled", "returned", "finished", "leaving"} \subseteq Held
  BY DEF Held
<1> SUFFICES Goal
  BY DEF k
<1> HIDE DEF k
<1>1. CASE Hook(w)
  BY <1>1, <1>k, <1>d, HookTruth, HookHeld
<1>2. CASE Take(w) \/ Skip(w)
  BY <1>2, <1>k, <1>h DEF Take, Skip, Goto, durable, history, TypeWorkers
<1>3. CASE Claim(w)
  <2>1. /\ fileStatus[o] \in {"accepted", "running"} /\ o \notin active
        /\ fileStatus'[o] = "running" /\ wpc'[w] = "claimed"
        /\ UNCHANGED <<rowStatus, runs, hookRuns, attempt>>
    BY <1>3 DEF Claim, SetFile, Goto, TypeDurable, TypeWorkers, history
  <2> QED BY <1>k, <1>t, <1>u, <2>1 DEF Kept, Doing, BeforeEffect, Reported, Terminal
<1>4. CASE ClaimRow(w)
  <2>1. /\ wpc[w] = "claimed" /\ wpc'[w] = "before" /\ rowStatus'[o] = "running"
        /\ UNCHANGED <<fileStatus, runs, hookRuns, attempt>>
    BY <1>4 DEF ClaimRow, SetRow, Goto, TypeDurable, TypeWorkers, history
  <2> QED BY <1>k, <1>d, <1>h, <1>t, <2>1 DEF Kept, Doing, BeforeEffect, Reported
<1>5. CASE ClaimRowFails(w)
  BY <1>5, <1>k, <1>h DEF ClaimRowFails, Goto, history, TypeWorkers
<1>6. CASE Execute(w)
  <2>1. /\ wpc[w] = "effect" /\ wpc'[w] = "applied" /\ runs'[o] = Bump(runs[o])
        /\ UNCHANGED <<fileStatus, rowStatus, hookRuns, attempt>>
    BY <1>6 DEF Execute, Goto, TypeHistory, TypeWorkers, durable
  <2> QED BY <1>k, <1>d, <1>h, <1>t, <2>1 DEF Kept, Doing, BeforeEffect, Reported, Bump
<1>7. ASSUME NEW res \in {"failed", "outcome_unknown"}, HandlerFails(w, res) PROVE Goal
  <2>1. /\ wpc[w] \in {"effect", "applied"} /\ wpc'[w] = "returned" /\ wres'[w] = res
        /\ UNCHANGED <<fileStatus, rowStatus, runs, hookRuns, attempt>>
    BY <1>7 DEF HandlerFails, Returns, Goto, TypeWorkers, durable, history
  <2> QED BY <1>k, <1>d, <1>h, <1>t, <2>1 DEF Kept, Doing, BeforeEffect, Reported
<1>8. CASE HandlerSucceeds(w)
  <2>1. /\ wpc[w] = "applied" /\ wpc'[w] = "returned" /\ wres'[w] = "completed"
        /\ UNCHANGED <<fileStatus, rowStatus, runs, hookRuns, attempt>>
    BY <1>8 DEF HandlerSucceeds, Returns, Goto, TypeWorkers, durable, history
  <2> QED BY <1>k, <1>d, <1>h, <1>t, <2>1 DEF Kept, Doing, BeforeEffect, Reported
<1>9. CASE PersistParent(w)
  <2>1. /\ wpc[w] = "applied" /\ wpc'[w] = "parentFiled" /\ fileStatus'[o] = "completed"
        /\ UNCHANGED <<rowStatus, runs, hookRuns, attempt>>
    BY <1>9 DEF PersistParent, SetFile, Goto, TypeDurable, TypeWorkers, history
  <2> QED BY <1>k, <1>d, <1>h, <1>t, <2>1 DEF Kept, Doing, BeforeEffect, Reported
<1>10. CASE ParentRow(w)
  <2>1. /\ wpc[w] = "parentFiled" /\ wpc'[w] = "after" /\ rowStatus'[o] = "completed"
        /\ UNCHANGED <<fileStatus, runs, hookRuns, attempt>>
    BY <1>10 DEF ParentRow, SetRow, Goto, TypeDurable, TypeWorkers, history
  <2> QED BY <1>k, <1>d, <1>h, <1>t, <2>1 DEF Kept, Doing, BeforeEffect, Reported
<1>11. CASE ParentRowFails(w)
  <2>1. /\ wpc[w] = "parentFiled" /\ wpc'[w] = "returned" /\ wres'[w] = "completed"
        /\ UNCHANGED <<fileStatus, rowStatus, runs, hookRuns, attempt>>
    BY <1>11 DEF ParentRowFails, Returns, Goto, TypeWorkers, history
  <2> QED BY <1>k, <1>d, <1>h, <1>t, <2>1 DEF Kept, Doing, BeforeEffect, Reported
<1>12. CASE Finish(w)
  <2>1. /\ wpc[w] = "returned" /\ wpc'[w] = "finished" /\ fileStatus'[o] = wres[w]
        /\ wres'[w] = wres[w] /\ wres[w] \in Terminal
        /\ UNCHANGED <<rowStatus, runs, hookRuns, attempt>>
    BY <1>12 DEF Finish, SetFile, Goto, TypeDurable, TypeWorkers, ShapeWorkers, history
  <2> QED BY <1>k, <1>d, <1>h, <1>t, <2>1 DEF Kept, Doing, BeforeEffect, Reported, Terminal
<1>13. CASE FinishRow(w)
  <2>1. /\ wpc[w] = "finished" /\ wpc'[w] = "leaving" /\ rowStatus'[o] \in {rowStatus[o], wres[w]}
        /\ UNCHANGED <<fileStatus, runs, hookRuns, attempt>>
    BY <1>13 DEF FinishRow, SetRow, Goto, TypeDurable, TypeWorkers, history
  <2> QED BY <1>k, <1>d, <1>h, <1>t, <2>1 DEF Kept, Doing, BeforeEffect, Reported
<1>14. CASE Leave(w)
  BY <1>14, <1>k, <1>h DEF Leave, Goto, durable, history, TypeWorkers
<1> QED BY <1>1, <1>2, <1>3, <1>4, <1>5, <1>6, <1>7, <1>8, <1>9, <1>10, <1>11, <1>12,
           <1>13, <1>14 DEF Worker, k

LEMMA WorkerTruthful ==
  ASSUME Typed, Exclusive, Phased, Allocated, Truthful, NEW w \in Workers, Worker(w)
  PROVE  Truthful'
<1> USE DEF Typed, TypeOK
<1>0. \A o \in Ops : Kind(o)' = Kind(o)
  BY WorkerLocal DEF Kind
<1>1. wpc[w] = "idle" => Take(w)
  BY HookHeld DEF Worker, Skip, Claim, ClaimRow, ClaimRowFails, Execute, HandlerSucceeds,
     HandlerFails, PersistParent, ParentRow, ParentRowFails, Finish, FinishRow, Leave, Held
<1>2. phase = "serving" /\ reading.pc = "none"
  BY <1>1 DEF Phased, Take
<1>3. Take(w) => UNCHANGED <<durable, runs, hookRuns, active>> /\ wpc'[w] = "taken"
  BY DEF Take, Goto, history, TypeWorkers
<1>4. wpc[w] # "idle" => wop[w] \in Ops
  BY DEF ShapeWorkers
<1>5. ASSUME NEW o \in Ops
      PROVE  Kept(fileStatus'[o], rowStatus'[o], runs'[o], hookRuns'[o], attempt'[o], Kind(o)')
  <2>1. Kept(fileStatus[o], rowStatus[o], runs[o], hookRuns[o], attempt[o], Kind(o))
    BY DEF Truthful
  <2>2. CASE o # wop[w]
    BY <1>0, <2>1, <2>2, WorkerLocal
  <2>3. CASE wpc[w] = "idle"
    BY <1>0, <1>1, <1>3, <2>1, <2>3 DEF durable
  <2>4. CASE o = wop[w] /\ wpc[w] # "idle"
    BY <1>0, <2>4, OwnTruth
  <2> QED BY <2>2, <2>3, <2>4
<1>6. ASSUME NEW v \in Workers, wpc'[v] \in Held
      PROVE  Doing(wpc'[v], wres'[v], fileStatus'[wop'[v]], runs'[wop'[v]],
                   hookRuns'[wop'[v]], attempt'[wop'[v]], Kind(wop[v])')
  <2>1. CASE v # w
    <3>1. /\ wpc[v] \in Held /\ wop[v] \in Ops
          /\ wpc'[v] = wpc[v] /\ wop'[v] = wop[v] /\ wres'[v] = wres[v]
          /\ fileStatus'[wop[v]] = fileStatus[wop[v]]
          /\ runs'[wop[v]] = runs[wop[v]]
          /\ hookRuns'[wop[v]] = hookRuns[wop[v]]
          /\ attempt'[wop[v]] = attempt[wop[v]]
      BY <1>6, <2>1, WorkerLocal
    <3>2. Kind(wop[v])' = Kind(wop[v])
      BY <3>1, WorkerLocal DEF Kind
    <3>3. Doing(wpc[v], wres[v], fileStatus[wop[v]], runs[wop[v]],
                hookRuns[wop[v]], attempt[wop[v]], Kind(wop[v]))
      BY <3>1 DEF Truthful
    <3> QED BY <3>1, <3>2, <3>3
  <2>2. CASE v = w
    <3>1. wpc[w] # "idle" /\ wop'[w] = wop[w] /\ wop[w] \in Ops
      BY <1>1, <1>3, <1>6, <2>2, WorkerLocal DEF Held
    <3>2. Kind(wop[w])' = Kind(wop[w])
      BY <3>1, WorkerLocal DEF Kind
    <3> QED BY <1>6, <2>2, <3>1, <3>2, OwnTruth
  <2> QED BY <2>1, <2>2
<1>7. reading'.pc = "none"
  BY <1>2, WorkerLocal
<1>8. ProcedureUnfiled'
  <2>1. ASSUME NEW o \in Ops, fileStatus[o] = "none" PROVE fileStatus'[o] = "none"
    <3>1. CASE o # wop[w]
      BY <2>1, <3>1, WorkerLocal
    <3>2. CASE wpc[w] \in Held
      BY <2>1, <3>1, <3>2, WorkerLocal DEF Allocated
    <3>3. CASE o = wop[w] /\ wpc[w] \notin Held
      <4>1. Take(w) \/ Skip(w)
        BY <2>1, <3>3, HookHeld DEF Worker, Claim, ClaimRow, ClaimRowFails, Execute, HandlerSucceeds,
           HandlerFails, PersistParent, ParentRow, ParentRowFails, Finish, FinishRow, Leave, Held
      <4> QED BY <2>1, <4>1 DEF Take, Skip, durable
    <3> QED BY <3>1, <3>2, <3>3
  <2> QED BY <2>1, WorkerLocal DEF Truthful, ProcedureUnfiled, ShapeCalls
<1>9. Unfinished'
  <2> SUFFICES ASSUME NEW o \in Ops, Kind(o) = "procedure", runs'[o] > 0, fileStatus'[o] \notin Terminal
               PROVE  o \in active'
    BY <1>0, <1>2, WorkerLocal DEF Unfinished
  <2>1. runs[o] > 0 /\ fileStatus[o] \notin Terminal => o \in active
    BY <1>2 DEF Truthful, Unfinished
  <2>2. CASE o # wop[w]
    BY <2>1, <2>2, WorkerLocal
  <2>3. CASE wpc[w] = "idle"
    BY <1>1, <1>3, <2>1, <2>3 DEF durable
  <2>4. CASE o = wop[w] /\ wpc'[w] \in Held
    <3>1. Exclusive' /\ wop'[w] = o
      BY <2>4, WorkerExclusive, WorkerLocal
    <3> QED BY <2>4, <3>1 DEF Exclusive
  <2>5. CASE o = wop[w] /\ wpc[w] # "idle" /\ wpc'[w] \notin Held
    <3>1. CASE Skip(w)
      BY <2>1, <3>1 DEF Skip, durable, history
    <3>2. CASE ClaimRowFails(w)
      <4>1. wpc[w] = "claimed" /\ runs' = runs
        BY <3>2 DEF ClaimRowFails, history
      <4>2. "claimed" \in Held /\ "claimed" \in BeforeEffect
        BY DEF Held, BeforeEffect
      <4>3. runs[o] = 0
        BY <2>5, <4>1, <4>2 DEF Truthful, Doing
      <4> QED BY <4>1, <4>3
    <3>3. CASE Leave(w)
      <4>1. wpc[w] = "leaving" /\ fileStatus' = fileStatus
        BY <3>3 DEF Leave, durable
      <4>2. "leaving" \in Held
        BY DEF Held
      <4>3. fileStatus[o] \in Terminal
        BY <2>5, <4>1, <4>2 DEF Truthful, Doing
      <4> QED BY <4>1, <4>3
    <3>4. Skip(w) \/ ClaimRowFails(w) \/ Leave(w)
      <4>1. CASE Hook(w)
        <5>1. wpc[w] \in Held /\ Exclusive'
          BY <4>1, HookHeld, WorkerExclusive
        <5>2. PICK ph \in Phases :
                \/ HookPending(w, ph) \/ HookLaunch(w, ph) \/ HookPassed(w, ph)
                \/ \E out \in Attempts \ {"none", "pending"} : HookEnd(w, ph, out)
          BY <4>1 DEF Hook
        <5>3. {PendingPc[ph], LaunchedPc[ph], "effect", "returned"} \subseteq Held
          BY DEF PendingPc, LaunchedPc, Held, Phases
        <5>4. wpc'[w] \in Held
          BY <5>2, <5>3 DEF HookPending, HookLaunch, HookPassed, HookEnd, Returns, Goto, TypeWorkers
        <5> QED BY <2>5, <5>4
      <4>2. CASE \/ Claim(w) \/ ClaimRow(w) \/ Execute(w) \/ HandlerSucceeds(w)
                 \/ (\E res \in {"failed", "outcome_unknown"} : HandlerFails(w, res))
                 \/ PersistParent(w) \/ ParentRow(w) \/ ParentRowFails(w)
                 \/ Finish(w) \/ FinishRow(w)
        <5>1. {"claimed", "before", "applied", "returned", "parentFiled", "after", "finished",
               "leaving"} \subseteq Held
          BY DEF Held
        <5>2. \E pc \in Held : Goto(w, pc)
          BY <4>2, <5>1 DEF Claim, ClaimRow, Execute, HandlerSucceeds, HandlerFails,
             PersistParent, ParentRow, ParentRowFails, Finish, FinishRow, Returns
        <5>3. wpc'[w] \in Held
          BY <5>2 DEF Goto, TypeWorkers
        <5> QED BY <2>5, <5>3
      <4> QED BY <2>5, <4>1, <4>2 DEF Worker, Take
    <3> QED BY <3>1, <3>2, <3>3, <3>4
  <2> QED BY <2>2, <2>3, <2>4, <2>5
<1> QED BY <1>5, <1>6, <1>7, <1>8, <1>9 DEF Truthful

(* What a step of an admission call does to the records.                   *)
LEMMA AdmissionEffect ==
  ASSUME Typed, Allocated, Truthful, NEW r \in Requests, Admission(r)
  PROVE  /\ UNCHANGED <<attempt, runs, hookRuns, wpc, wop, wres, active, phase, scan, reading>>
         /\ \A o \in Ops :
              /\ \/ fileStatus'[o] = fileStatus[o]
                 \/ Reopens(r, o) /\ fileStatus'[o] = "accepted"
              /\ rowStatus'[o] = "completed" => rowStatus[o] = "completed" \/ fileStatus[o] = "completed"
              /\ \/ origin'[o] = origin[o]
                 \/ origin[o] = NoRequest /\ fileStatus[o] = "none"
         /\ \A s \in Requests : s # r => call'[s] = call[s]
         /\ call'[r].pc = "allocated" /\ Policy[r] = "procedure" =>
              fileStatus[call'[r].op] = "none" /\ call'[r].op \in Ops /\ UNCHANGED fileStatus
<1> USE DEF Typed, TypeOK
<1>1. UNCHANGED <<attempt, runs, hookRuns, wpc, wop, wres, active, phase, scan, reading>>
  <2>1. CASE AdmitDecide(r)
    BY <2>1, DecideCases DEF AdmitDecide, workerVars, scanVars, history, Return, Attach,
       WriteAccepted, AllocateFresh, durable
  <2> QED BY <2>1 DEF Admission, AdmitStart, ProcedureStart, ProcedureFile, WriteAccepted,
     AdmitRow, AdmitRowFails, AdmitFinish, workerVars, scanVars, history, durable
<1> DEFINE Good == /\ \A o \in Ops :
                        /\ \/ fileStatus'[o] = fileStatus[o]
                           \/ Reopens(r, o) /\ fileStatus'[o] = "accepted"
                        /\ rowStatus'[o] = "completed" => rowStatus[o] = "completed" \/ fileStatus[o] = "completed"
                        /\ \/ origin'[o] = origin[o]
                           \/ origin[o] = NoRequest /\ fileStatus[o] = "none"
                   /\ \A s \in Requests : s # r => call'[s] = call[s]
                   /\ call'[r].pc = "allocated" /\ Policy[r] = "procedure" =>
                        fileStatus[call'[r].op] = "none" /\ call'[r].op \in Ops /\ UNCHANGED fileStatus
<1> SUFFICES Good
  BY <1>1
<1>2. ASSUME NEW b \in BOOLEAN, NEW from \in Ops \cup {NoOp}, Allocate(r, b, from), UNCHANGED fileStatus,
             call' = [call EXCEPT ![r] = [pc |-> "allocated", op |-> next]]
      PROVE  Good
  BY <1>2, AllocateFacts DEF TypeCalls
<1>3. ASSUME NEW o \in Ops, Reopens(r, o), WriteAccepted(r, o) PROVE Good
  BY <1>3 DEF WriteAccepted, TypeCalls, TypeDurable
<1>4. ASSUME NEW c, call' = [call EXCEPT ![r] = c], c.pc # "allocated" \/ Policy[r] # "procedure",
             UNCHANGED <<fileStatus, rowStatus, origin>>
      PROVE  Good
  BY <1>4 DEF TypeCalls
<1>5. CASE AdmitStart(r)
  <2>1. CASE Allocate(r, FALSE, NoOp) /\ call' = [call EXCEPT ![r] = [pc |-> "allocated", op |-> next]]
    BY <1>2, <1>5, <2>1 DEF AdmitStart
  <2>2. CASE /\ \E o \in Base(r) :
                  call' = [call EXCEPT ![r] = [pc |-> "allocated", op |-> o]]
             /\ UNCHANGED <<rowStatus, origin, fresh, retriedFrom, next>>
    BY <1>4, <1>5, <2>2 DEF AdmitStart
  <2> QED BY <1>5, <2>1, <2>2 DEF AdmitStart
<1>6. CASE AdmitDecide(r)
  <2>0. Policy[r] # "procedure"
    BY <1>6 DEF AdmitDecide
  <2>1. CASE Return(r)
    BY <1>4, <2>0, <2>1 DEF Return, durable
  <2>2. CASE \E o \in Ops : origin[o] = r /\ Attach(r, o)
    BY <1>4, <2>0, <2>2 DEF Attach, durable
  <2>3. CASE \E o \in Ops : Reopens(r, o) /\ WriteAccepted(r, o)
    BY <1>3, <2>3
  <2>4. ASSUME NEW q \in Ops \cup {NoOp}, AllocateFresh(r, q) PROVE Good
    BY <1>2, <2>1, <2>4 DEF AllocateFresh
  <2> QED BY <1>6, <2>1, <2>2, <2>3, <2>4, DecideCases
<1>7. CASE ProcedureStart(r)
  BY <1>2, <1>7 DEF ProcedureStart, NoOp
<1>8. CASE ProcedureFile(r)
  <2>1. call[r].op \in Ops /\ Reopens(r, call[r].op)
    BY <1>8 DEF ProcedureFile, ShapeCalls, Allocated, Truthful, ProcedureUnfiled, Reopens
  <2> QED BY <1>3, <1>8, <2>1 DEF ProcedureFile
<1>9. CASE AdmitRow(r)
  <2>1. call[r].op \in Ops
    BY <1>9 DEF AdmitRow, ShapeCalls
  <2>2. call'[r].pc = "ready" /\ \A s \in Requests : s # r => call'[s] = call[s]
    BY <1>9 DEF AdmitRow, TypeCalls
  <2>3. UNCHANGED <<fileStatus, origin>>
    BY <1>9 DEF AdmitRow
  <2>4. \A o \in Ops : rowStatus'[o] = rowStatus[o] \/ rowStatus'[o] = fileStatus[o]
    BY <1>9, <2>1 DEF AdmitRow, TypeDurable
  <2> QED BY <2>2, <2>3, <2>4
<1>10. CASE AdmitRowFails(r)
  <2>1. call[r].op \in Ops
    BY <1>10 DEF AdmitRowFails, ShapeCalls
  <2>2. call'[r].pc = "idle" /\ \A s \in Requests : s # r => call'[s] = call[s]
    BY <1>10 DEF AdmitRowFails, TypeCalls, NoCall
  <2>3. UNCHANGED <<fileStatus, origin>>
    BY <1>10 DEF AdmitRowFails
  <2>4. \A o \in Ops : rowStatus'[o] = rowStatus[o] \/ rowStatus'[o] = "failed"
    BY <1>10, <2>1 DEF AdmitRowFails, TypeDurable
  <2> QED BY <2>2, <2>3, <2>4
<1>11. CASE AdmitFinish(r)
  BY <1>4, <1>11 DEF AdmitFinish, durable, NoCall
<1> QED BY <1>1, <1>5, <1>6, <1>7, <1>8, <1>9, <1>10, <1>11 DEF Admission

LEMMA AdmissionTruthful ==
  ASSUME Typed, Allocated, Truthful, NEW r \in Requests, Admission(r)
  PROVE  Truthful'
<1> USE DEF Typed, TypeOK
<1>u. UNCHANGED <<attempt, runs, hookRuns, wpc, wop, wres, active, phase, scan, reading>>
  BY AdmissionEffect
<1>f. \A o \in Ops :
        \/ fileStatus'[o] = fileStatus[o]
        \/ /\ fileStatus[o] \in {"none", "failed", "outcome_unknown"} /\ fileStatus'[o] = "accepted"
           /\ Kind(o) \in {"verify", "procedure"} => fileStatus[o] = "none"
  BY AdmissionEffect DEF Reopens, Kind
<1>k. \A o \in Ops : fileStatus[o] # "none" => Kind(o)' = Kind(o)
  BY AdmissionEffect DEF Kind
<1>1. ASSUME NEW o \in Ops
      PROVE  Kept(fileStatus'[o], rowStatus'[o], runs'[o], hookRuns'[o], attempt'[o], Kind(o)')
  <2>1. Kept(fileStatus[o], rowStatus[o], runs[o], hookRuns[o], attempt[o], Kind(o))
    BY DEF Truthful
  <2>2. /\ runs[o] \in 0 .. 2 /\ hookRuns[o] \in [Phases -> 0 .. 2]
    BY DEF TypeHistory
  <2>3. rowStatus'[o] = "completed" => rowStatus[o] = "completed" \/ fileStatus[o] = "completed"
    BY AdmissionEffect
  <2> QED BY <1>u, <1>f, <1>k, <2>1, <2>2, <2>3 DEF Kept, Phases
<1>2. ASSUME NEW v \in Workers, wpc[v] \in Held
      PROVE  Doing(wpc[v], wres[v], fileStatus'[wop[v]], runs[wop[v]],
                   hookRuns[wop[v]], attempt[wop[v]], Kind(wop[v])')
  <2>1. wop[v] \in Ops /\ fileStatus[wop[v]] # "none"
    BY <1>2 DEF Allocated, ShapeWorkers, Held
  <2>2. Doing(wpc[v], wres[v], fileStatus[wop[v]], runs[wop[v]],
              hookRuns[wop[v]], attempt[wop[v]], Kind(wop[v]))
    BY <1>2 DEF Truthful
  <2>3. Kind(wop[v])' = Kind(wop[v])
    BY <1>k, <1>u, <2>1 DEF Kind
  <2> QED BY <1>f, <2>1, <2>2, <2>3 DEF Doing
<1>3. reading.pc # "none" =>
        Seen(reading.pc, reading.saw, fileStatus'[reading.op], Kind(reading.op)')
  <2> SUFFICES ASSUME reading.pc # "none"
               PROVE  Seen(reading.pc, reading.saw, fileStatus'[reading.op], Kind(reading.op)')
    OBVIOUS
  <2>1. reading.op \in Ops /\ fileStatus[reading.op] # "none"
    BY DEF Allocated, ShapeReplay
  <2>2. Kind(reading.op)' = Kind(reading.op)
    BY <1>k, <1>u, <2>1 DEF Kind
  <2> QED BY <1>f, <2>1, <2>2 DEF Seen, Truthful
<1>4. ProcedureUnfiled'
  <2> SUFFICES ASSUME NEW s \in Requests, call'[s].pc = "allocated", Policy[s] = "procedure"
               PROVE  fileStatus'[call'[s].op] = "none"
    BY DEF ProcedureUnfiled
  <2>1. CASE s = r
    BY <2>1, AdmissionEffect
  <2>2. CASE s # r
    <3>1. call'[s] = call[s] /\ call[s].op \in Ops /\ origin[call[s].op] = s
      BY <2>2, AdmissionEffect DEF ShapeCalls, Allocated
    <3>2. fileStatus[call[s].op] = "none"
      BY <3>1 DEF Truthful, ProcedureUnfiled
    <3>3. ~Reopens(r, call[s].op)
      BY <2>2, <3>1 DEF Reopens
    <3> QED BY <3>1, <3>2, <3>3, AdmissionEffect
  <2> QED BY <2>1, <2>2
<1>5. Unfinished'
  <2> SUFFICES ASSUME NEW o \in Ops, Kind(o)' = "procedure", runs[o] > 0, fileStatus'[o] \notin Terminal
               PROVE  \/ phase = "starting"
                      \/ phase = "scanning" /\ (o \in scan \/ (reading.pc = "read" /\ reading.op = o))
                      \/ phase = "serving" /\ o \in active
    BY <1>u DEF Unfinished
  <2>1. fileStatus[o] # "none"
    BY DEF Truthful, Kept
  <2>2. Kind(o) = "procedure" /\ fileStatus[o] \notin Terminal
    BY <1>f, <1>k, <2>1
  <2> QED BY <2>2 DEF Truthful, Unfinished
<1>6. /\ \A v \in Workers : wpc'[v] \in Held =>
           Doing(wpc'[v], wres'[v], fileStatus'[wop'[v]], runs'[wop'[v]],
                 hookRuns'[wop'[v]], attempt'[wop'[v]], Kind(wop[v])')
      /\ reading'.pc # "none" =>
           Seen(reading'.pc, reading'.saw, fileStatus'[reading'.op], Kind(reading.op)')
  BY <1>u, <1>2, <1>3 DEF Kind
<1> QED BY <1>1, <1>4, <1>5, <1>6 DEF Truthful

(* The replay writes back what it has read, and a Procedure it finds open  *)
(* it closes.                                                              *)
LEMMA ScanWriteTruthful ==
  ASSUME Typed, Phased, Allocated, Truthful, ScanWrite PROVE Truthful'
<1> USE DEF Typed, TypeOK
<1> DEFINE o == reading.op
           saw == reading.saw
           f == fileStatus[o]
<1>u. UNCHANGED <<rowStatus, origin, runs, hookRuns, wpc, wop, wres, active, phase, scan, call>>
  BY DEF ScanWrite, history, workerVars
<1>0. \A p \in Ops : Kind(p)' = Kind(p)
  BY <1>u DEF Kind
<1>1. /\ o \in Ops /\ f # "none" /\ saw # "none" /\ origin[o] \in Requests
      /\ reading.pc = "read" /\ phase = "scanning"
  BY DEF ScanWrite, ShapeReplay, Allocated, Phased
<1>2. \A w \in Workers : wpc[w] \notin Held
  BY <1>1 DEF Phased, Held
<1>3. Kind(o) = Policy[origin[o]]
  BY <1>1 DEF Kind
<1>4. \/ saw = f
      \/ saw \in {"failed", "outcome_unknown"} /\ f = "accepted" /\ Kind(o) \notin {"verify", "procedure"}
  BY <1>1 DEF Truthful, Seen
<1>5. /\ reading'.op = o /\ reading'.pc \in {"filed", "written"}
      /\ reading'.pc = "filed" => reading'.saw = fileStatus'[o]
  <2>1. CASE NeedsWrite(o, saw)
    BY <1>1, <2>1 DEF ScanWrite, SetFile, TypeReplay, TypeDurable
  <2>2. CASE ~NeedsWrite(o, saw)
    BY <2>2 DEF ScanWrite, TypeReplay
  <2> QED BY <2>1, <2>2
<1>6. /\ fileStatus'[o] = f \/ fileStatus'[o] = Recovered(o, saw)
      /\ \A p \in Ops : p # o => fileStatus'[p] = fileStatus[p] /\ attempt'[p] = attempt[p]
      /\ \A ph \in Phases : attempt'[o][ph] = "none" => attempt[o][ph] = "none"
  BY <1>1 DEF ScanWrite, SetFile, Reconcile, TypeDurable
<1>7. /\ fileStatus'[o] # "none"
      /\ fileStatus'[o] = "completed" <=> f = "completed"
      /\ Kind(o) = "procedure" => fileStatus'[o] \in Terminal
  <2>1. CASE NeedsWrite(o, saw)
    <3>1. fileStatus'[o] = Recovered(o, saw)
      BY <1>1, <2>1 DEF ScanWrite, SetFile, TypeDurable
    <3> QED BY <1>1, <1>3, <1>4, <3>1 DEF Recovered, Terminal
  <2>2. CASE ~NeedsWrite(o, saw)
    <3>1. fileStatus'[o] = f
      BY <2>2 DEF ScanWrite
    <3> QED BY <1>1, <1>3, <1>4, <2>2, <3>1 DEF NeedsWrite
  <2> QED BY <2>1, <2>2
<1>8. ASSUME NEW p \in Ops
      PROVE  Kept(fileStatus'[p], rowStatus'[p], runs'[p], hookRuns'[p], attempt'[p], Kind(p)')
  <2>1. Kept(fileStatus[p], rowStatus[p], runs[p], hookRuns[p], attempt[p], Kind(p))
    BY DEF Truthful
  <2>2. CASE p # o
    BY <1>0, <1>6, <1>u, <2>1, <2>2
  <2>3. CASE p = o
    BY <1>0, <1>6, <1>7, <1>u, <2>1, <2>3 DEF Kept
  <2> QED BY <2>2, <2>3
<1>9. Seen(reading'.pc, reading'.saw, fileStatus'[reading'.op], Kind(reading.op)')
  BY <1>5 DEF Seen
<1>10. ProcedureUnfiled'
  <2>1. \A r \in Requests : call[r].pc = "allocated" /\ Policy[r] = "procedure" =>
          call[r].op \in Ops /\ call[r].op # o /\ fileStatus[call[r].op] = "none"
    BY <1>1 DEF Truthful, ProcedureUnfiled, ShapeCalls
  <2> QED BY <1>6, <1>u, <2>1 DEF ProcedureUnfiled
<1>11. Unfinished'
  <2> SUFFICES ASSUME NEW p \in Ops, Kind(p) = "procedure", runs[p] > 0, fileStatus'[p] \notin Terminal
               PROVE  p \in scan
    BY <1>0, <1>1, <1>u DEF Unfinished
  <2>1. p # o
    BY <1>7
  <2>2. fileStatus[p] \notin Terminal
    BY <1>6, <2>1
  <2> QED BY <1>1, <2>1, <2>2 DEF Truthful, Unfinished
<1>12. \A w \in Workers : wpc'[w] \notin Held
  BY <1>2, <1>u
<1> QED BY <1>8, <1>9, <1>10, <1>11, <1>12 DEF Truthful

LEMMA ReplayTruthful ==
  ASSUME Typed, Phased, Allocated, Truthful, Replay PROVE Truthful'
<1> USE DEF Typed, TypeOK
<1>1. CASE ScanWrite
  BY <1>1, ScanWriteTruthful
<1>2. ASSUME ScanStart \/ (\E o \in Ops : ScanRead(o)) \/ ScanRow \/ ScanEnqueue \/ ScanDone
      PROVE  Truthful'
  <2>u. UNCHANGED <<fileStatus, attempt, origin, runs, hookRuns, wpc, wop, wres, active, call>>
    BY <1>2 DEF ScanStart, ScanRead, ScanRow, ScanEnqueue, ScanDone, durable, history, workerVars
  <2>0. \A p \in Ops : Kind(p)' = Kind(p)
    BY <2>u DEF Kind
  <2>1. ASSUME NEW p \in Ops
        PROVE  Kept(fileStatus'[p], rowStatus'[p], runs'[p], hookRuns'[p], attempt'[p], Kind(p)')
    <3>1. Kept(fileStatus[p], rowStatus[p], runs[p], hookRuns[p], attempt[p], Kind(p))
      BY DEF Truthful
    <3>2. CASE ScanRow
      <4>1. reading.op \in Ops /\ reading.pc = "filed"
        BY <3>2 DEF ScanRow, ShapeReplay
      <4>2. reading.saw = "completed" => fileStatus[reading.op] = "completed"
        BY <4>1 DEF Truthful, Seen
      <4>3. rowStatus'[p] = rowStatus[p] \/ (p = reading.op /\ rowStatus'[p] = reading.saw)
        BY <3>2, <4>1 DEF ScanRow, SetRow, TypeDurable
      <4> QED BY <2>0, <2>u, <3>1, <4>2, <4>3 DEF Kept
    <3>3. CASE ~ScanRow
      <4>1. UNCHANGED rowStatus
        BY <1>2, <3>3 DEF ScanStart, ScanRead, ScanEnqueue, ScanDone, durable
      <4> QED BY <2>0, <2>u, <3>1, <4>1
    <3> QED BY <3>2, <3>3
  <2>2. ASSUME NEW v \in Workers, wpc'[v] \in Held
        PROVE  Doing(wpc'[v], wres'[v], fileStatus'[wop'[v]], runs'[wop'[v]],
                     hookRuns'[wop'[v]], attempt'[wop'[v]], Kind(wop[v])')
    BY <2>u, <2>2 DEF Truthful, Kind
  <2>3. ASSUME reading'.pc # "none"
        PROVE  Seen(reading'.pc, reading'.saw, fileStatus'[reading'.op], Kind(reading.op)')
    <3>1. CASE ScanStart \/ ScanDone
      BY <2>3, <2>u, <3>1 DEF ScanStart, ScanDone, Truthful, Kind
    <3>2. ASSUME NEW o \in Ops, ScanRead(o)
          PROVE  Seen(reading'.pc, reading'.saw, fileStatus'[reading'.op], Kind(reading.op)')
      BY <2>u, <3>2 DEF ScanRead, Seen
    <3>3. CASE ScanRow \/ ScanEnqueue
      <4>1. reading'.pc = "written"
        BY <2>3, <3>3 DEF ScanRow, ScanEnqueue, NotReading, TypeReplay
      <4> QED BY <4>1 DEF Seen
    <3> QED BY <1>2, <3>1, <3>2, <3>3
  <2>4. ProcedureUnfiled'
    BY <2>u DEF Truthful, ProcedureUnfiled
  <2>5. Unfinished'
    <3> SUFFICES ASSUME NEW p \in Ops, Kind(p) = "procedure", runs[p] > 0, fileStatus[p] \notin Terminal
                 PROVE  \/ phase' = "starting"
                        \/ phase' = "scanning" /\ (p \in scan' \/ (reading'.pc = "read" /\ reading'.op = p))
                        \/ phase' = "serving" /\ p \in active'
      BY <2>0, <2>u DEF Unfinished
    <3>1. /\ fileStatus[p] # "none"
          /\ \/ phase = "starting"
             \/ phase = "scanning" /\ (p \in scan \/ (reading.pc = "read" /\ reading.op = p))
             \/ phase = "serving" /\ p \in active
      BY DEF Truthful, Kept, Unfinished
    <3>2. CASE ScanStart
      BY <3>1, <3>2 DEF ScanStart
    <3>3. ASSUME NEW o \in Ops, ScanRead(o)
          PROVE  phase' = "scanning" /\ (p \in scan' \/ (reading'.pc = "read" /\ reading'.op = p))
      BY <3>1, <3>3 DEF ScanRead, NotReading
    <3>4. CASE ScanRow \/ ScanEnqueue
      <4>1. phase = "scanning" /\ reading.pc # "read" /\ UNCHANGED <<phase, scan>>
        BY <3>4 DEF ScanRow, ScanEnqueue, Phased
      <4> QED BY <3>1, <4>1
    <3>5. CASE ScanDone
      BY <3>1, <3>5 DEF ScanDone, NotReading
    <3> QED BY <1>2, <3>2, <3>3, <3>4, <3>5
  <2> QED BY <2>1, <2>2, <2>3, <2>4, <2>5 DEF Truthful
<1> QED BY <1>1, <1>2 DEF Replay

LEMMA CrashTruthful ==
  ASSUME Truthful, Crash \/ UNCHANGED vars PROVE Truthful'
<1>1. CASE Crash
  <2>1. UNCHANGED <<fileStatus, rowStatus, attempt, origin, runs, hookRuns>> /\ phase' = "starting"
    BY <1>1 DEF Crash, durable, history
  <2>2. \A r \in Requests : call'[r].pc # "allocated"
    BY <1>1 DEF Crash, NoCall, NoCaller
  <2>3. (\A w \in Workers : wpc'[w] \notin Held) /\ reading'.pc = "none"
    BY <1>1 DEF Crash, Held, NotReading
  <2>4. \A p \in Ops : Kind(p)' = Kind(p)
    BY <2>1 DEF Kind
  <2> QED BY <2>1, <2>2, <2>3, <2>4 DEF Truthful, Unfinished, ProcedureUnfiled
<1>2. CASE UNCHANGED vars
  BY <1>2 DEF vars, durable, workerVars, scanVars, history, Truthful, Unfinished,
     ProcedureUnfiled, Kind
<1> QED BY <1>1, <1>2

LEMMA InitTruthful == Init => Truthful
<1> SUFFICES ASSUME Init PROVE Truthful
  OBVIOUS
<1>1. \A r \in Requests : call[r].pc # "allocated"
  BY DEF Init, NoCall, NoCaller
<1>2. (\A w \in Workers : wpc[w] \notin Held) /\ reading.pc = "none"
  BY DEF Init, Held, NotReading
<1>3. \A o \in Ops : Kept(fileStatus[o], rowStatus[o], runs[o], hookRuns[o], attempt[o], Kind(o))
  BY DEF Init, Kept, Phases
<1> QED BY <1>1, <1>2, <1>3 DEF Truthful, ProcedureUnfiled, Unfinished, Init

(* Admissions, workers and the replay together.                            *)
Recorded == Typed /\ Exclusive /\ Phased /\ Allocated /\ Truthful

LEMMA RecordedInvariant == Spec => []Recorded
<1>1. Typed /\ Exclusive /\ Phased /\ Allocated /\ Truthful /\ [Next]_vars => (Allocated /\ Truthful)'
  BY AdmissionAllocated, WorkerAllocated, ReplayAllocated, CrashAllocated,
     AdmissionTruthful, WorkerTruthful, ReplayTruthful, CrashTruthful DEF Next
<1>2. Init => Allocated /\ Truthful
  BY InitAllocated, InitTruthful
<1> QED BY TypedInvariant, ExclusiveInvariant, PhasedInvariant, <1>1, <1>2, PTL DEF Spec, Recorded

(* What an Operation did agrees with what its record says, for every set   *)
(* of requests, workers, crashes and failed row updates: Procedures and    *)
(* Hooks are started once, an after-Hook saw its parent completed, and     *)
(* operation/read never runs ahead of the record (processDurableMutation). *)
THEOREM EffectsAreRecorded == Spec => []EffectsMatchRecord
<1>1. Recorded => EffectsMatchRecord
  <2> SUFFICES ASSUME Recorded PROVE EffectsMatchRecord
    OBVIOUS
  <2>1. \A o \in Ops : Kept(fileStatus[o], rowStatus[o], runs[o], hookRuns[o], attempt[o], Kind(o))
    BY DEF Recorded, Truthful
  <2>2. ProcedureRunsOnce
    BY <2>1, KindOf DEF Recorded, Kept, ProcedureRunsOnce
  <2>3. HookLaunchedOnce /\ AfterHookFollowsOutcome /\ ProjectionNotAhead
    BY <2>1 DEF Kept, HookLaunchedOnce, AfterHookFollowsOutcome, ProjectionNotAhead
  <2> QED BY <2>2, <2>3 DEF EffectsMatchRecord
<1> QED BY RecordedInvariant, <1>1, PTL

-----------------------------------------------------------------------------
(* The chain of attempts                                                   *)

(* No step takes a record back, a completed one stays completed, and a     *)
(* verification that has ended is never admitted again.                    *)
SettledStay ==
  \A o \in Ops :
    /\ fileStatus[o] # "none" => fileStatus'[o] # "none"
    /\ fileStatus[o] = "completed" => fileStatus'[o] = "completed"
    /\ fileStatus[o] \in Terminal /\ Kind(o) = "verify" => fileStatus'[o] = fileStatus[o]

LEMMA WorkerSettled ==
  ASSUME Recorded, NEW w \in Workers, Worker(w) PROVE SettledStay
<1> USE DEF Recorded, Typed, TypeOK
<1>1. RecordsStay
  BY WorkerAllocated
<1>2. \A o \in Ops : o # wop[w] => fileStatus'[o] = fileStatus[o]
  BY WorkerLocal
<1>3. ASSUME NEW o \in Ops, o = wop[w]
      PROVE  /\ fileStatus[o] = "completed" => fileStatus'[o] = "completed"
             /\ fileStatus[o] \in Terminal => fileStatus'[o] = fileStatus[o]
  <2>1. CASE Hook(w)
    BY <2>1 DEF Hook, HookPending, HookLaunch, HookPassed, HookEnd, durable
  <2>2. CASE Claim(w)
    BY <1>3, <2>2 DEF Claim, SetFile, TypeDurable, Terminal
  <2>3. CASE PersistParent(w)
    <3>1. wpc[w] = "applied" /\ fileStatus'[o] = "completed"
      BY <1>3, <2>3 DEF PersistParent, SetFile, TypeDurable
    <3>2. fileStatus[o] = "running"
      BY <1>3, <3>1 DEF Truthful, Doing, Held
    <3> QED BY <3>1, <3>2 DEF Terminal
  <2>4. CASE Finish(w)
    <3>1. wpc[w] = "returned" /\ fileStatus'[o] = wres[w]
      BY <1>3, <2>4 DEF Finish, SetFile, TypeDurable
    <3>2. fileStatus[o] = "running" \/ (fileStatus[o] = "completed" /\ wres[w] = "completed")
      BY <1>3, <3>1 DEF Truthful, Doing, Held
    <3> QED BY <3>1, <3>2 DEF Terminal
  <2> QED BY <2>1, <2>2, <2>3, <2>4 DEF Worker, Take, Skip, ClaimRow, ClaimRowFails, Execute,
       HandlerSucceeds, HandlerFails, ParentRow, ParentRowFails, FinishRow, Leave, durable
<1> QED BY <1>1, <1>2, <1>3 DEF SettledStay, RecordsStay

LEMMA StepSettled ==
  ASSUME Recorded, [Next]_vars PROVE SettledStay
<1> USE DEF Recorded, Typed, TypeOK
<1>1. ASSUME NEW r \in Requests, Admission(r) PROVE SettledStay
  <2>1. RecordsStay
    BY <1>1, AdmissionAllocated
  <2>2. ASSUME NEW o \in Ops, Reopens(r, o), fileStatus[o] # "none"
        PROVE  fileStatus[o] # "completed" /\ Kind(o) # "verify"
    BY <2>2 DEF Reopens, Kind
  <2> QED BY <1>1, <2>1, <2>2, AdmissionEffect DEF SettledStay, RecordsStay, Terminal
<1>2. ASSUME NEW w \in Workers, Worker(w) PROVE SettledStay
  BY <1>2, WorkerSettled
<1>3. CASE Replay
  <2>1. CASE ScanWrite
    <3> DEFINE o == reading.op
    <3>1. /\ o \in Ops /\ fileStatus[o] # "none"
          /\ Seen("read", reading.saw, fileStatus[o], Kind(o))
      BY <2>1 DEF ScanWrite, ShapeReplay, Allocated, Truthful
    <3>2. \/ fileStatus' = fileStatus
          \/ fileStatus'[o] = Recovered(o, reading.saw) /\ \A p \in Ops : p # o => fileStatus'[p] = fileStatus[p]
      BY <2>1, <3>1 DEF ScanWrite, SetFile, TypeDurable
    <3>3. /\ Recovered(o, reading.saw) # "none"
          /\ fileStatus[o] = "completed" => Recovered(o, reading.saw) = "completed"
          /\ fileStatus[o] \in Terminal /\ Kind(o) = "verify" =>
               Recovered(o, reading.saw) = fileStatus[o]
      BY <3>1 DEF Seen, Recovered, Terminal
    <3> HIDE DEF o
    <3> QED BY <3>1, <3>2, <3>3 DEF SettledStay
  <2>2. CASE ~ScanWrite
    <3>1. UNCHANGED fileStatus
      BY <1>3, <2>2 DEF Replay, ScanStart, ScanRead, ScanRow, ScanEnqueue, ScanDone, durable
    <3> QED BY <3>1 DEF SettledStay
  <2> QED BY <2>1, <2>2
<1>4. CASE Crash \/ UNCHANGED vars
  BY <1>4 DEF Crash, vars, durable, SettledStay
<1> QED BY <1>1, <1>2, <1>3, <1>4 DEF Next

(* How a number can be given out.                                          *)
NewTurn(r) ==
  \/ Policy[r] # "procedure" /\ Base(r) = {} /\ Allocate(r, FALSE, NoOp)
  \/ Policy[r] = "procedure" /\ Allocate(r, TRUE, NoOp)
  \/ MayTurn(r) /\ Allocate(r, TRUE, NoOp)
  \/ \E q \in Ops : MayRetry(r, q) /\ Allocate(r, TRUE, q)

LEMMA AllocationCases ==
  ASSUME Recorded, [Next]_vars
  PROVE  \/ UNCHANGED <<origin, fresh, retriedFrom, next>>
         \/ \E r \in Requests : NewTurn(r) /\ UNCHANGED fileStatus
<1> USE DEF Recorded
<1>1. ASSUME NEW r \in Requests, Admission(r)
      PROVE  \/ UNCHANGED <<origin, fresh, retriedFrom, next>>
             \/ NewTurn(r) /\ UNCHANGED fileStatus
  <2>1. CASE AdmitStart(r)
    BY <2>1 DEF AdmitStart, NewTurn
  <2>2. CASE ProcedureStart(r)
    BY <2>2 DEF ProcedureStart, NewTurn
  <2>3. CASE AdmitDecide(r)
    <3>1. CASE MayTurn(r) /\ AllocateFresh(r, NoOp)
      BY <3>1 DEF AllocateFresh, NewTurn, Return, durable
    <3>2. CASE \E q \in Ops : MayRetry(r, q) /\ AllocateFresh(r, q)
      BY <3>2 DEF AllocateFresh, NewTurn, Return, durable
    <3> QED BY <2>3, <3>1, <3>2, DecideCases DEF Return, Attach, WriteAccepted, durable
  <2> QED BY <1>1, <2>1, <2>2, <2>3 DEF Admission, ProcedureFile, WriteAccepted, AdmitRow,
             AdmitRowFails, AdmitFinish, durable
<1>2. ASSUME NEW w \in Workers, Worker(w) PROVE UNCHANGED <<origin, fresh, retriedFrom, next>>
  BY <1>2, WorkerLocal
<1>3. CASE Replay
  BY <1>3 DEF Replay, ScanStart, ScanRead, ScanWrite, ScanRow, ScanEnqueue, ScanDone, durable
<1>4. CASE Crash \/ UNCHANGED vars
  BY <1>4 DEF Crash, vars, durable
<1> QED BY <1>1, <1>2, <1>3, <1>4 DEF Next

(* The Operations of a coordinate, by number.                              *)
LEMMA EquivalentsByNumber ==
  Allocated => \A r \in Requests :
    Equivalents(r) = {o \in Ops : o < next /\ Coord[origin[o]] = Coord[r]}
BY DEF Allocated, Equivalents

LEMMA FiniteOps == \A S \in SUBSET Ops : IsFiniteSet(S)
<1>1. IsFiniteSet(Ops)
  BY ConstantsTyped, FS_Interval DEF Ops
<1> QED BY <1>1, FS_Subset

(* An attempt overtaken by another identity's stays so.                    *)
LEMMA OvertakenStays ==
  ASSUME Recorded, SettledStay, NEW o \in Ops, NEW p \in Ops, Overtaken(o, p), origin'[o] = origin[o],
         \A q \in Ops : IsVerify(q) => origin'[q] = origin[q]
  PROVE  Overtaken(o, p)'
<1>1. PICK q \in Ops : /\ o < q /\ q < p
                       /\ IsVerify(q) /\ Coord[origin[q]] = Coord[origin[o]]
                       /\ origin[q] # origin[o]
                       /\ fileStatus[q] \in Terminal
  BY DEF Overtaken
<1>2. origin'[q] = origin[q]
  BY <1>1
<1>3. IsVerify(q)'
  BY <1>1, <1>2 DEF IsVerify
<1>4. fileStatus'[q] = fileStatus[q]
  BY <1>1, KindOf DEF SettledStay, Recorded
<1> QED BY <1>1, <1>2, <1>3, <1>4 DEF Overtaken

(* Nothing was allocated.                                                  *)
LEMMA SameChain ==
  ASSUME Recorded, Recorded', Chained, SettledStay, UNCHANGED <<origin, fresh, retriedFrom, next>>
  PROVE  Chained'
<1> USE DEF Recorded, Typed, TypeOK
<1>k. \A o \in Ops : Kind(o)' = Kind(o)
  BY DEF Kind
<1>f. fresh \subseteq Ops
  BY DEF TypeDurable
<1>1. /\ \A o \in fresh' : o < next'
      /\ \A o, p \in Ops \ fresh' : origin'[o] \in Requests /\ origin'[o] = origin'[p] => o = p
      /\ \A o \in Ops : Kind(o)' \notin {"none", "procedure"} =>
           \E p \in Ops \ fresh' : origin'[p] = origin'[o]
      /\ \A o \in Ops : Kind(o)' = "verify" =>
           /\ o \notin fresh' <=> retriedFrom'[o] = NoOp
           /\ retriedFrom'[o] # NoOp =>
                retriedFrom'[o] < o /\ origin'[retriedFrom'[o]] = origin'[o]
  BY <1>k DEF Chained
<1>2. ASSUME NEW o \in Ops, NEW p \in Ops, Kind(o)' = "verify", origin'[o] = origin'[p], o < p
      PROVE  o <= retriedFrom'[p] /\ (fileStatus'[o] = "failed" \/ Overtaken(o, p)')
  <2>1. Kind(o) = "verify" /\ o <= retriedFrom[p]
        /\ (fileStatus[o] = "failed" \/ Overtaken(o, p))
    BY <1>k, <1>2 DEF Chained
  <2>2. fileStatus[o] = "failed" => fileStatus'[o] = "failed"
    BY <2>1 DEF SettledStay, Terminal
  <2>3. Overtaken(o, p) => Overtaken(o, p)'
    BY OvertakenStays
  <2> QED BY <2>1, <2>2, <2>3
<1>3. RetriesBounded'
  <2>1. \A r \in Requests : Equivalents(r)' = Equivalents(r)
    BY DEF Allocated, Equivalents
  <2> QED BY <2>1 DEF Chained, RetriesBounded
<1>4. TurnsInOrder'
  BY DEF Chained, TurnsInOrder, SettledStay
<1>5. CorruptFailsClosed'
  BY <1>f DEF Chained, CorruptFailsClosed, SettledStay
<1> QED BY <1>1, <1>2, <1>3, <1>4, <1>5 DEF Chained

(* A number was given out: the first of its request, or after everything   *)
(* the call has looked at.                                                 *)
LEMMA LongerChain ==
  ASSUME Recorded, Recorded', Chained, NEW r \in Requests, NewTurn(r), UNCHANGED fileStatus
  PROVE  Chained'
<1> USE DEF Recorded, Typed, TypeOK
<1> DEFINE S == Equivalents(r)
<1>n. PICK n \in Ops : n = next
  BY AllocateFacts DEF NewTurn, NoOp
<1>0. PICK b \in BOOLEAN, from \in Ops \cup {NoOp} :
        /\ Allocate(r, b, from)
        /\ \/ Policy[r] # "procedure" /\ Base(r) = {} /\ ~b /\ from = NoOp
           \/ Policy[r] = "procedure" /\ b /\ from = NoOp
           \/ MayTurn(r) /\ b /\ from = NoOp
           \/ MayRetry(r, from) /\ b /\ from \in Ops
  BY DEF NewTurn
<1>1. /\ next' = n + 1
      /\ origin[n] = NoRequest /\ fileStatus[n] = "none"
      /\ origin'[n] = r /\ retriedFrom'[n] = from
      /\ \A o \in Ops : o # n => /\ origin'[o] = origin[o]
                                 /\ retriedFrom'[o] = retriedFrom[o]
                                 /\ o \in fresh' <=> o \in fresh
      /\ n \in fresh' <=> b
  <2>1. n \notin fresh
    BY <1>n, ConstantsTyped DEF Chained, TypeDurable
  <2> QED BY <1>n, <1>0, <2>1, AllocateFacts
<1>2. \A o \in Ops : o \in Nat /\ (o < n => o # n) /\ (origin[o] \in Requests <=> o < n)
  BY <1>n, ConstantsTyped DEF Allocated
<1>3. \A o \in Ops : o # n => Kind(o)' = Kind(o)
  BY <1>1 DEF Kind
<1>4. Kind(n)' = Policy[r]
  BY <1>1 DEF Kind
<1>5. \A o \in Ops : origin'[o] \in Requests => o <= n
  BY <1>1, <1>2
<1>6. \A o \in Ops : origin[o] = r => Kind(o) = Policy[r] /\ o < n
  BY <1>2 DEF Kind
<1>7. Policy[r] # "procedure" /\ ~b => \A o \in Ops : origin[o] # r
  <2> SUFFICES ASSUME Policy[r] # "procedure", ~b, NEW o \in Ops, origin[o] = r PROVE FALSE
    OBVIOUS
  <2>1. Base(r) = {}
    BY <1>0
  <2>2. Policy[r] # "none"
    BY RequestAssumption DEF Policies
  <2>3. \E p \in Ops \ fresh : origin[p] = r
    BY <1>6, <2>2 DEF Chained
  <2> QED BY <2>1, <2>3 DEF Base
<1>m. MayTurn(r) => \E l \in Ops : /\ origin[l] = r /\ fileStatus[l] = "completed"
                                   /\ \A p \in S : p <= l
  BY EquivalentsOf DEF MayTurn, Latest
<1>y. MayRetry(r, from) => /\ from \in Ops /\ from \in S /\ origin[from] = r /\ ~Proven(from)
                           /\ \A p \in S : origin[p] = r => p <= from
                           /\ \E l \in S : fileStatus[l] \in Terminal /\ \A p \in S : p <= l
  BY EquivalentsOf DEF MayRetry, Latest
<1>c. b /\ Policy[r] # "procedure" => \A o \in S : fileStatus[o] # "none"
  BY <1>0 DEF MayTurn, MayRetry, Corrupt
<1>p. /\ MayTurn(r) => Policy[r] = "repeatable"
      /\ MayRetry(r, from) => Policy[r] = "verify"
  BY DEF MayTurn, MayRetry
<1>8. \A o \in fresh' : o < next'
  <2>1. fresh' \subseteq Ops
    BY DEF TypeDurable
  <2> QED BY <1>n, <1>1, <1>2, <2>1, ConstantsTyped DEF Chained
<1>9. ASSUME NEW o \in Ops \ fresh', NEW p \in Ops \ fresh',
             origin'[o] \in Requests, origin'[o] = origin'[p]
      PROVE  o = p
  <2>1. CASE o # n /\ p # n
    BY <1>1, <1>9, <2>1 DEF Chained
  <2>2. CASE o = n \/ p = n
    <3>1. ~b /\ Policy[r] # "procedure"
      BY <1>0, <1>1, <1>9, <2>2
    <3> QED BY <1>1, <1>7, <1>9, <2>2, <3>1
  <2> QED BY <2>1, <2>2
<1>10. ASSUME NEW o \in Ops, Kind(o)' \notin {"none", "procedure"}
       PROVE  \E p \in Ops \ fresh' : origin'[p] = origin'[o]
  <2>1. ASSUME NEW q \in Ops, Kind(q) \notin {"none", "procedure"}
        PROVE  \E p \in Ops \ fresh' : origin'[p] = origin[q]
    <3>1. PICK p \in Ops \ fresh : origin[p] = origin[q]
      BY <2>1 DEF Chained
    <3>2. origin[q] \in Requests
      BY <2>1 DEF Kind
    <3>3. p # n
      BY <1>1, <3>1, <3>2, NameAssumption
    <3> QED BY <1>1, <3>1, <3>3
  <2>2. CASE o # n
    BY <1>1, <1>3, <1>10, <2>1, <2>2
  <2>3. CASE o = n /\ ~b
    BY <1>1, <2>3
  <2>4. CASE o = n /\ b
    <3>1. Policy[r] # "procedure" /\ Policy[r] # "none"
      BY <1>4, <1>10, <2>4
    <3>2. \E q \in Ops : origin[q] = r
      BY <1>0, <1>m, <1>y, <2>4, <3>1
    <3> QED BY <1>1, <1>6, <2>1, <2>4, <3>1, <3>2
  <2> QED BY <2>2, <2>3, <2>4
<1>11. ASSUME NEW o \in Ops, Kind(o)' = "verify"
       PROVE  /\ o \notin fresh' <=> retriedFrom'[o] = NoOp
              /\ retriedFrom'[o] # NoOp =>
                   retriedFrom'[o] < o /\ origin'[retriedFrom'[o]] = origin'[o]
  <2>1. CASE o # n
    <3>1. /\ o \notin fresh <=> retriedFrom[o] = NoOp
          /\ retriedFrom[o] # NoOp =>
                   retriedFrom[o] < o /\ origin[retriedFrom[o]] = origin[o]
      BY <1>3, <1>11, <2>1 DEF Chained
    <3>2. retriedFrom[o] # NoOp => retriedFrom[o] \in Ops /\ retriedFrom[o] # n
      <4>1. origin[o] \in Requests /\ retriedFrom[o] \in Ops \cup {NoOp}
        BY <1>3, <1>11, <2>1 DEF Kind, TypeDurable
      <4> QED BY <1>1, <3>1, <4>1, NameAssumption
    <3> QED BY <1>1, <2>1, <3>1, <3>2
  <2>2. CASE o = n /\ ~b
    BY <1>0, <1>1, <2>2
  <2>3. CASE o = n /\ b
    <3>1. MayRetry(r, from)
      BY <1>0, <1>4, <1>p, <1>11, <2>3
    <3>2. from \in Ops /\ origin[from] = r /\ from < n /\ from # NoOp
      BY <1>2, <1>y, <3>1, ConstantsTyped DEF NoOp, Ops
    <3> QED BY <1>1, <1>2, <2>3, <3>2
  <2> QED BY <2>2, <2>1, <2>3
<1>12. ASSUME NEW o \in Ops, NEW p \in Ops, Kind(o)' = "verify", origin'[o] = origin'[p], o < p
       PROVE  o <= retriedFrom'[p] /\ (fileStatus[o] = "failed" \/ Overtaken(o, p)')
  <2>s. SettledStay
    BY DEF SettledStay
  <2>v. \A q \in Ops : IsVerify(q) => origin'[q] = origin[q]
    BY <1>1 DEF IsVerify
  <2>1. origin'[o] \in Requests /\ o # n /\ p <= n
    <3>1. origin'[o] \in Requests
      BY <1>12 DEF Kind
    <3> QED BY <1>2, <1>5, <1>12, <3>1
  <2>2. CASE p # n
    <3>1. o <= retriedFrom[p] /\ (fileStatus[o] = "failed" \/ Overtaken(o, p))
      BY <1>1, <1>3, <1>12, <2>1, <2>2 DEF Chained
    <3>2. origin'[o] = origin[o] /\ retriedFrom'[p] = retriedFrom[p]
      BY <1>1, <2>1, <2>2
    <3> QED BY <2>s, <2>v, <3>1, <3>2, OvertakenStays
  <2>3. CASE p = n
    <3>1. origin[o] = r /\ Kind(o) = "verify" /\ Policy[r] = "verify"
      BY <1>1, <1>3, <1>6, <1>12, <2>1, <2>3
    <3>2. b /\ MayRetry(r, from)
      BY <1>0, <1>7, <1>p, <3>1
    <3>3. o <= from /\ origin[from] = r /\ ~Proven(from) /\ from \in Ops /\ from \in S
      BY <1>y, <3>1, <3>2, OwnEquivalents
    <3>4. fileStatus[from] = "failed" \/ Overtaken(from, n)
      <4>1. PICK l \in S : fileStatus[l] \in Terminal /\ \A q \in S : q <= l
        BY <1>y, <3>2
      <4>2. l \in Ops /\ l < n /\ origin[l] \in Requests /\ Policy[origin[l]] = "verify"
            /\ Coord[origin[l]] = Coord[r]
        BY <1>n, <3>1, EquivalentsOf DEF Equivalents
      <4>3. IsVerify(l) /\ (origin[l] = r => l <= from)
        BY <1>y, <3>2, <4>1, <4>2, NameAssumption DEF IsVerify
      <4>4. from <= l
        BY <3>3, <4>1
      <4>5. CASE from = l
        BY <3>3, <4>1, <4>5 DEF Proven, Terminal
      <4>6. CASE from # l
        <5>1. from < l /\ origin[l] # r
          BY <1>2, <3>3, <4>2, <4>3, <4>4, <4>6
        <5> QED BY <3>3, <4>1, <4>2, <4>3, <5>1 DEF Overtaken
      <4> QED BY <4>5, <4>6
    <3>5. fileStatus[o] = "failed" \/ Overtaken(o, n)
      <4>1. CASE o < from
        <5>1. fileStatus[o] = "failed" \/ Overtaken(o, from)
          BY <3>1, <3>3, <4>1 DEF Chained
        <5>2. from < n
          BY <1>2, <3>3
        <5>3. Overtaken(o, from) => Overtaken(o, n)
          <6> SUFFICES ASSUME Overtaken(o, from) PROVE Overtaken(o, n)
            OBVIOUS
          <6>1. PICK q \in Ops : /\ o < q /\ q < from
                                 /\ IsVerify(q) /\ Coord[origin[q]] = Coord[origin[o]]
                                 /\ origin[q] # origin[o]
                                 /\ fileStatus[q] \in Terminal
            BY DEF Overtaken
          <6>2. q < n
            BY <1>2, <3>3, <5>2, <6>1
          <6> QED BY <6>1, <6>2 DEF Overtaken
        <5> QED BY <5>1, <5>3
      <4>2. CASE o = from
        BY <3>4, <4>2
      <4> QED BY <1>2, <3>3, <4>1, <4>2
    <3>6. origin'[o] = origin[o] /\ retriedFrom'[p] = from
      BY <1>1, <2>1, <2>3
    <3> QED BY <2>3, <2>s, <2>v, <3>3, <3>5, <3>6, OvertakenStays
  <2> QED BY <2>2, <2>3
<1>13. TurnsInOrder'
  <2> SUFFICES ASSUME NEW o \in Ops, NEW p \in Ops, origin'[o] # NoRequest, origin'[o] = origin'[p],
                      Policy[origin'[o]] = "repeatable", o < p
               PROVE  fileStatus[o] = "completed"
    BY DEF TurnsInOrder
  <2>1. origin'[o] \in Requests /\ o # n /\ p <= n
    <3>1. origin'[o] \in Requests
      BY DEF TypeDurable
    <3> QED BY <1>2, <1>5, <3>1
  <2>2. CASE p # n
    BY <1>1, <2>1, <2>2 DEF Chained, TurnsInOrder
  <2>3. CASE p = n
    <3>1. origin[o] = r /\ Policy[r] = "repeatable"
      BY <1>1, <2>1, <2>3
    <3>2. b /\ MayTurn(r)
      BY <1>0, <1>7, <1>p, <3>1
    <3>3. PICK l \in Ops : origin[l] = r /\ fileStatus[l] = "completed" /\ o <= l
      BY <1>m, <3>1, <3>2, OwnEquivalents
    <3>4. o < l => fileStatus[o] = "completed"
      BY <3>1, <3>3, NameAssumption DEF Chained, TurnsInOrder
    <3> QED BY <1>2, <3>3, <3>4
  <2> QED BY <2>2, <2>3
<1>14. CorruptFailsClosed'
  <2> SUFFICES ASSUME NEW o \in fresh', NEW p \in fresh',
                      Policy[origin'[o]] \in {"repeatable", "verify"},
                      Coord[origin'[o]] = Coord[origin'[p]], o < p
               PROVE  fileStatus[o] # "none"
    BY DEF CorruptFailsClosed
  <2>0. o \in Ops /\ p \in Ops
    BY DEF TypeDurable
  <2>1. o # n /\ p <= n /\ o < n
    BY <1>1, <1>2, <1>8, <2>0, ConstantsTyped
  <2>2. CASE p # n
    BY <1>1, <2>0, <2>1, <2>2 DEF Chained, CorruptFailsClosed
  <2>3. CASE p = n
    <3>1. origin[o] \in Requests /\ Coord[origin[o]] = Coord[r] /\ b
      BY <1>1, <1>2, <2>0, <2>1, <2>3
    <3>2. Policy[r] # "procedure" /\ o \in S
      BY <1>n, <1>1, <2>0, <2>1, <3>1, RequestAssumption, EquivalentsByNumber
    <3> QED BY <1>c, <3>1, <3>2
  <2> QED BY <2>2, <2>3
<1>15. RetriesBounded'
  <2> SUFFICES ASSUME NEW s \in Requests, Policy[s] = "verify"
               PROVE  Cardinality({o \in Equivalents(s)' : o \in fresh'}) < MaxAttempts
    BY DEF RetriesBounded
  <2> DEFINE E == {o \in Equivalents(s) : o \in fresh}
  <2>1. /\ Equivalents(s) = {o \in Ops : o < n /\ Coord[origin[o]] = Coord[s]}
        /\ Equivalents(s)' = {o \in Ops : o < n + 1 /\ Coord[origin'[o]] = Coord[s]}
    BY <1>n, <1>1 DEF Allocated, Equivalents
  <2>2. Cardinality(E) < MaxAttempts /\ E \in SUBSET Ops
    BY DEF Chained, RetriesBounded, Equivalents
  <2>3. CASE ~b \/ Coord[r] # Coord[s]
    <3>1. {o \in Equivalents(s)' : o \in fresh'} = E
      BY <1>1, <1>2, <2>1, <2>3
    <3> QED BY <2>2, <3>1
  <2>4. CASE b /\ Coord[r] = Coord[s]
    <3>1. Policy[r] = "verify" /\ MayRetry(r, from)
      BY <1>0, <1>p, <2>4, RequestAssumption
    <3>2. Equivalents(s) = S /\ Cardinality(S) < MaxAttempts /\ S \in SUBSET Ops
      BY <2>4, <3>1 DEF Equivalents, MayRetry, AttemptsLeft
    <3>3. {o \in Equivalents(s)' : o \in fresh'} = E \cup {n}
      BY <1>1, <1>2, <2>1, <2>4
    <3>4. PICK p \in Ops \ fresh : origin[p] = r
      <4>1. Kind(from) = "verify" /\ origin[from] = r /\ from \in Ops
        BY <1>6, <1>y, <3>1
      <4> QED BY <4>1 DEF Chained
    <3>5. p \in S /\ E \subseteq S \ {p} /\ n \notin E
      BY <1>1, <1>2, <2>1, <3>2, <3>4, OwnEquivalents
    <3>6. IsFiniteSet(S) /\ IsFiniteSet(E) /\ IsFiniteSet(S \ {p})
      BY <2>2, <3>2, FiniteOps
    <3>7. Cardinality(S \ {p}) = Cardinality(S) - 1
      BY <3>5, <3>6, FS_RemoveElement
    <3>8. Cardinality(E) <= Cardinality(S \ {p})
      BY <3>5, <3>6, FS_Subset
    <3>9. Cardinality(E \cup {n}) = Cardinality(E) + 1
      BY <3>5, <3>6, FS_AddElement
    <3>10. Cardinality(E) \in Nat /\ Cardinality(S) \in Nat /\ Cardinality(S \ {p}) \in Nat
      BY <3>6, FS_CardinalityType
    <3> HIDE DEF E, S
    <3>11. Cardinality(E) + 1 < MaxAttempts
      BY <3>2, <3>7, <3>8, <3>10, BoundAssumption
    <3> QED BY <3>3, <3>9, <3>11
  <2> QED BY <2>3, <2>4
<1> QED BY <1>8, <1>9, <1>10, <1>11, <1>12, <1>13, <1>14, <1>15 DEF Chained

LEMMA InitChained == Init => Chained
<1> SUFFICES ASSUME Init PROVE Chained
  OBVIOUS
<1>1. fresh = {} /\ \A o \in Ops : origin[o] = NoRequest /\ Kind(o) = "none"
  BY NameAssumption DEF Init, Kind
<1>2. RetriesBounded
  <2>1. \A r \in Requests : {o \in Equivalents(r) : o \in fresh} = {}
    BY <1>1
  <2> QED BY <2>1, FS_EmptySet, BoundAssumption DEF RetriesBounded
<1>3. TurnsInOrder /\ CorruptFailsClosed
  BY <1>1 DEF TurnsInOrder, CorruptFailsClosed
<1> QED BY <1>1, <1>2, <1>3, NameAssumption DEF Chained

(* Repeated calls leave one chain of attempts, for every set of requests   *)
(* and identities, every attempt bound, and every interleaving with        *)
(* failures and crashes (enqueueTaskVerificationAttempt,                   *)
(* durableMutationTurnAfter): linked retries within the bound, past a      *)
(* failed attempt or one overtaken by another identity, turns in order,    *)
(* and nothing allocated past a lost record.                               *)
THEOREM AttemptsAreChained == Spec => []AttemptsChain
<1>1. Recorded /\ Recorded' /\ Chained /\ [Next]_vars => Chained'
  BY StepSettled, AllocationCases, SameChain, LongerChain
<1>2. Recorded /\ Chained => AttemptsChain
  <2> SUFFICES ASSUME Recorded, Chained PROVE AttemptsChain
    OBVIOUS
  <2>1. VerifyChain
    <3> SUFFICES ASSUME NEW o \in Ops, NEW p \in Ops, IsVerify(o), fileStatus[o] # "none"
                 PROVE  /\ retriedFrom[o] # NoOp =>
                             /\ retriedFrom[o] < o
                             /\ origin[retriedFrom[o]] = origin[o]
                             /\ fileStatus[retriedFrom[o]] # "failed" =>
                                  Overtaken(retriedFrom[o], o)
                        /\ IsVerify(p) /\ o < p /\ origin[p] = origin[o]
                             => /\ retriedFrom[o] # retriedFrom[p]
                                /\ {fileStatus[o], fileStatus[p]} \cap Terminal = {} =>
                                     Overtaken(o, p)
      BY DEF VerifyChain
    <3>0. /\ \A q \in Ops : IsVerify(q) => Kind(q) = "verify"
          /\ \A q \in Ops : q \in Nat /\ retriedFrom[q] \in Ops \cup {NoOp}
      BY KindOf, ConstantsTyped DEF Recorded, Typed, TypeOK, TypeDurable
    <3>1. Kind(o) = "verify"
      BY <3>0
    <3>2. ASSUME retriedFrom[o] # NoOp
          PROVE  /\ retriedFrom[o] < o /\ origin[retriedFrom[o]] = origin[o]
                 /\ fileStatus[retriedFrom[o]] # "failed" => Overtaken(retriedFrom[o], o)
      <4>1. retriedFrom[o] < o /\ origin[retriedFrom[o]] = origin[o] /\ retriedFrom[o] \in Ops
        BY <3>0, <3>1, <3>2 DEF Chained
      <4>2. Kind(retriedFrom[o]) = "verify"
        BY <3>1, <4>1 DEF Kind
      <4> QED BY <4>1, <4>2 DEF Chained
    <3>3. ASSUME o < p, origin[p] = origin[o]
          PROVE  /\ retriedFrom[o] # retriedFrom[p]
                 /\ fileStatus[o] \notin Terminal => Overtaken(o, p)
      <4>1. o <= retriedFrom[p] /\ (fileStatus[o] = "failed" \/ Overtaken(o, p))
        BY <3>1, <3>3 DEF Chained
      <4>2. retriedFrom[o] < o
        BY <3>0, <3>2 DEF NoOp, Ops
      <4>3. retriedFrom[o] \in Nat /\ retriedFrom[p] \in Nat /\ o \in Nat
        BY <3>0 DEF NoOp
      <4> QED BY <4>1, <4>2, <4>3 DEF Terminal
    <3> QED BY <3>2, <3>3
  <2> QED BY <2>1 DEF AttemptsChain, Chained
<1> QED BY RecordedInvariant, InitChained, <1>1, <1>2, PTL DEF Spec
=============================================================================
