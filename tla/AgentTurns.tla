----------------------------- MODULE AgentTurns -----------------------------
(***************************************************************************)
(* Turns of the project's coding Agents: prompts and interrupts sent to    *)
(* their relay sessions, the post_agent_work_finished Hook that follows a  *)
(* turn, and the incremental transcript tail a supervisor reads.           *)
(*                                                                         *)
(* A relay session is an external process.  It starts a turn when a prompt *)
(* reaches it, ends the turn by itself, and may go away.  Prompt and       *)
(* interrupt Operations are executed by the durable mutation queue, one    *)
(* executor per Operation (ExclusiveExecution of DurableMutation), and run *)
(* again from the start when the gateway restarts before their terminal    *)
(* record.  One worker polls the callback epochs.  Each database access,   *)
(* file write and relay command is a step of its own.                      *)
(*                                                                         *)
(* Local retirement needs every Operation and epoch settled (LocalAuthority*)
(* models it), so nothing here runs in a retired project.                  *)
(***************************************************************************)
EXTENDS Integers, Sequences, FiniteSets, SequencesExt

CONSTANTS
    Agent,       \* registered coding Agents
    Relay,       \* relay session keys
    MaxOps,      \* bound: Operations admitted
    None,        \* "no value"
    Mixes,       \* bound: what callers and the environment do; see IsMix
    MaxEpochs,   \* bound: callback epochs armed
    Page,        \* the limit PendingCallbackEpochs is called with
    MaxLines,    \* bound: transcript lines a relay prints
    Window,      \* agentMaxTailLines
    TailLines,   \* the line counts a reader asks for
    Rank         \* Agent -> Nat: the order of the Agents' identifiers

\* A registry record with its relay binding.
AgentRecord == [enabled : BOOLEAN, level : {"low", "medium", "high", "max"},
                key : Relay \cup {None}]

\* kinds and count: Operations admitted; agents and relays: the registry and
\* the relays at the start; hooks: the configurations that occur; left: how
\* many restarts, failures and configuration changes may happen; tail: a
\* transcript is printed and read.
IsMix(m) ==
    /\ m.agents \in [Agent -> AgentRecord]
    /\ m.kinds \subseteq {"prompt", "interrupt", "replace"}
    /\ m.hooks \subseteq {"bound", "unbound", "missing", "unreadable"} /\ m.hooks # {}
    /\ m.left \in [crashes : Nat, faults : Nat, changes : Nat]
    /\ m.tail \in BOOLEAN /\ m.count \in Nat
    /\ m.relays \subseteq {"idle", "running"} /\ m.relays # {}

\* A durable Operation and the tail state file of an observer.
Operations ==
    [kind : {"prompt", "interrupt", "replace"}, agent : Agent, key : Relay \cup {None},
     status : {"accepted", "running", "completed", "failed"},
     pc : {"start", "send", "arm", "replace", "status", "interrupt", "acknowledge", "receipt",
           "done"},
     target : Relay \cup {None},
     intr : {None, "interrupt_acknowledged", "already_idle", "stale_execution", "timed_out",
             "failed"},
     prompt : {None, "delivered", "failed", "not_submitted"}]
TailState == [last : Seq(Nat), pending : Seq(Nat)]

ASSUME AgentTurnsAssumption ==
    /\ MaxOps \in Nat /\ MaxEpochs \in Nat /\ Page \in Nat \ {0}
    /\ MaxLines \in Nat /\ Window \in Nat \ {0}
    /\ TailLines \subseteq 1..Window /\ TailLines # {}
    /\ Rank \in [Agent -> Nat]
    /\ \A m \in Mixes : IsMix(m)

\* No value is none of the records and file contents it stands in for.
ASSUME NoneAssumption ==
    /\ None \notin Operations /\ None \notin TailState
    /\ None \notin {"interrupt_acknowledged", "completed"}

VARIABLES
    agents,     \* Agent -> [enabled, level, key]: registry record and binding
    relay,      \* Relay -> "idle" | "running" | "gone"
    config,     \* project configuration: [hook, rev], its Hook binding and revision
    up,         \* the gateway process runs
    op,         \* Op -> durable Operation with the step its executor is at
    receipt,    \* Op -> phase of the agent-interrupt receipt file, or None
    epoch,      \* local_callback_epochs, in armed_at order
    hook,       \* per epoch, the file of its Procedure Operation
    worker,     \* the Hook worker: its step, page and sample
    text,       \* the lines the relay has printed, see PrintLine
    reader,     \* agent-tail state file of one observer, or None
    mix,        \* the mix of this behaviour
    left,       \* what is left of its bounds
    hist        \* ghost: deliveries, stops, launches, what the observer was told

opVars == <<op, receipt>>
hookVars == <<epoch, hook, worker>>
envVars == <<agents, config, mix>>
tailVars == <<text, reader>>
vars == <<agents, relay, config, up, op, receipt, epoch, hook, worker, text, reader, mix, left,
          hist>>

Op == 1..MaxOps
Epochs == 1..MaxEpochs
Terminal == {"completed", "failed", "outcome_unknown"}

-----------------------------------------------------------------------------
(* Routing: which Agent, and which relay, a request means.                 *)

\* What session-status says, after normalizeSessionState.
Status(k) == IF relay[k] = "gone" THEN "error" ELSE relay[k]

Levels == <<"low", "medium", "high", "max">>
routingScore(level) == CHOOSE i \in DOMAIN Levels : Levels[i] = level

\* agentBinding of an enabled Agent, or None.
resolveAgentSession(a) == IF agents[a].enabled THEN agents[a].key ELSE None

ResolveExactAgent(a) == IF resolveAgentSession(a) # None THEN a ELSE None

\* Without a selector: the preferred level when a usable Agent has it, else
\* the best level there is; equal levels are decided by the identifier.
ResolveAgent(preferred) ==
    LET candidates == {a \in Agent : resolveAgentSession(a) # None}
        exact == {a \in candidates : agents[a].level = preferred}
        pool == IF exact # {} THEN exact ELSE candidates
        better(a, b) ==
            \/ routingScore(agents[a].level) > routingScore(agents[b].level)
            \/ agents[a].level = agents[b].level /\ Rank[a] <= Rank[b]
    IN  IF pool = {} THEN None ELSE CHOOSE a \in pool : \A b \in pool : better(a, b)

\* AgentRegistryStatus, as far as the selection looks at it.
SessionBusy(a) == resolveAgentSession(a) # None /\ Status(agents[a].key) = "running"

\* The named Agent; or the only enabled one; or the only busy one.
resolveCanonicalAgent(requested) ==
    LET candidates == {a \in Agent : agents[a].enabled}
        active == {a \in candidates : SessionBusy(a)}
        only(s) == IF Cardinality(s) = 1
                   THEN ResolveExactAgent(CHOOSE a \in s : TRUE) ELSE None
    IN  IF requested # None THEN ResolveExactAgent(requested)
        ELSE IF Cardinality(candidates) > 1 THEN only(active) ELSE only(candidates)

resolveCanonicalInterruptAgent(requested) ==
    IF requested # None THEN ResolveExactAgent(requested) ELSE ResolveAgent("max")

-----------------------------------------------------------------------------
(* Relays: what the world does.                                            *)

\* A turn begins or ends on relay k: ghost bookkeeping for armed epochs.
Worked(h, k, phase) ==
    [h EXCEPT !.worked = [e \in Epochs |->
        IF e <= Len(epoch) /\ epoch[e].key = k /\ @[e] = (IF phase = "busy" THEN "no" ELSE "busy")
        THEN phase ELSE @[e]]]

TurnEnds(k) ==
    /\ relay[k] = "running"
    /\ relay' = [relay EXCEPT ![k] = "idle"]
    /\ hist' = Worked(hist, k, "ended")
    /\ UNCHANGED <<envVars, up, opVars, hookVars, tailVars, left>>

\* The relay dies; EnsureDetached may start it again later.
RelayGone(k) ==
    /\ left.faults > 0 /\ relay[k] # "gone"
    /\ relay' = [relay EXCEPT ![k] = "gone"]
    /\ left' = [left EXCEPT !.faults = @ - 1]
    /\ hist' = Worked(hist, k, "ended")
    /\ UNCHANGED <<envVars, up, opVars, hookVars, tailVars>>

RelayReturns(k) ==
    /\ relay[k] = "gone"
    /\ relay' = [relay EXCEPT ![k] = "idle"]
    /\ UNCHANGED <<envVars, up, opVars, hookVars, tailVars, left, hist>>

\* Agent registration, disabling and rebinding (LocalAuthority has them).
AgentChanges(a) ==
    /\ left.changes > 0
    /\ \E rec \in {[agents[a] EXCEPT !.enabled = ~@]}
                  \cup {[agents[a] EXCEPT !.key = k] : k \in Relay \cup {None}} :
         rec # agents[a] /\ agents' = [agents EXCEPT ![a] = rec]
    /\ left' = [left EXCEPT !.changes = @ - 1]
    /\ UNCHANGED <<relay, config, mix, up, opVars, hookVars, tailVars, hist>>

ConfigChanges ==
    /\ left.changes > 0
    /\ \E h \in mix.hooks : config' = [hook |-> h, rev |-> config.rev + 1]
    /\ left' = [left EXCEPT !.changes = @ - 1]
    /\ UNCHANGED <<agents, mix, relay, up, opVars, hookVars, tailVars, hist>>

-----------------------------------------------------------------------------
(* Prompt and interrupt Operations.                                        *)

\* replace: an interrupt that carries a replacement message.
NewOperation(kind, a, key) ==
    [kind |-> kind, agent |-> a, key |-> key, status |-> "accepted", pc |-> "start",
     target |-> None, intr |-> None, prompt |-> None]

\* Identities are allocated in sequence.
Admit(o, kind, a, key) ==
    /\ up /\ kind \in mix.kinds /\ o <= mix.count
    /\ op[o] = None /\ \A p \in 1..(o - 1) : op[p] # None
    /\ a # None
    /\ op' = [op EXCEPT ![o] = NewOperation(kind, a, key)]
    /\ UNCHANGED <<envVars, relay, up, receipt, hookVars, tailVars, left, hist>>

AgentPromptAsync(o) ==
    \E requested \in Agent \cup {None} :
      Admit(o, "prompt", resolveCanonicalAgent(requested), None)

AgentInterruptAsync(o) ==
    \E requested \in Agent \cup {None}, kind \in {"interrupt", "replace"} :
      LET a == resolveCanonicalInterruptAgent(requested)
      IN  a # None /\ Admit(o, kind, a, agents[a].key)

\* The executor of o is at step pc.
At(o, pc) == up /\ op[o] # None /\ op[o].status = "running" /\ op[o].pc = pc

Go(o, pc) == op' = [op EXCEPT ![o].pc = pc]
GoWith(o, pc, intr, prompt) ==
    op' = [op EXCEPT ![o].pc = pc, ![o].intr = intr, ![o].prompt = prompt]

ExecuteStarts(o) ==
    /\ up /\ op[o] # None /\ op[o].status = "accepted"
    /\ op' = [op EXCEPT ![o].status = "running", ![o].pc = "start"]
    /\ UNCHANGED <<envVars, relay, up, receipt, hookVars, tailVars, left, hist>>

\* The terminal record of an Operation whose handler returned.
ExecuteEnds(o) ==
    /\ At(o, "done")
    /\ op' = [op EXCEPT ![o].status = "completed"]
    /\ UNCHANGED <<envVars, relay, up, receipt, hookVars, tailVars, left, hist>>

\* Where a prompt continues once it has an outcome.
AfterSend(o) == IF op[o].kind = "prompt" THEN "done" ELSE "receipt"

\* acquireSessionSendLock: held from the resolution to the return of the send.
sessionLocked(k, o) ==
    \E p \in Op \ {o} : op[p] # None /\ op[p].status = "running"
                        /\ op[p].pc \in {"send", "arm"} /\ op[p].target = k

\* AgentSendForAgent up to the lock: the relay the Agent has now.
SendResolves(o) ==
    /\ IF op[o] # None /\ op[o].kind = "prompt" THEN At(o, "start") ELSE At(o, "replace")
    /\ LET k == resolveAgentSession(op[o].agent)
       IN  IF k = None \/ sessionLocked(k, o)
           THEN GoWith(o, AfterSend(o), op[o].intr, "failed")
           ELSE op' = [op EXCEPT ![o].pc = "send", ![o].target = k]
    /\ UNCHANGED <<envVars, relay, up, receipt, hookVars, tailVars, left, hist>>

\* PromptWithProvenance: the relay takes the prompt and the command reports
\* success; or it takes it and the command times out; or nothing arrives.
PromptWithProvenance(o) ==
    /\ At(o, "send")
    /\ LET k == op[o].target
       IN  \/ /\ relay[k] # "gone"
              /\ relay' = [relay EXCEPT ![k] = "running"]
              /\ hist' = Worked([hist EXCEPT !.sent[o] = @ + 1], k, "busy")
              /\ \/ Go(o, "arm") /\ left' = left
                 \/ /\ left.faults > 0 /\ left' = [left EXCEPT !.faults = @ - 1]
                    /\ GoWith(o, AfterSend(o), op[o].intr, "failed")
           \/ /\ IF relay[k] = "gone" THEN left' = left
                 ELSE left.faults > 0 /\ left' = [left EXCEPT !.faults = @ - 1]
              /\ GoWith(o, AfterSend(o), op[o].intr, "failed")
              /\ UNCHANGED <<relay, hist>>
    /\ UNCHANGED <<envVars, up, receipt, hookVars, tailVars>>

NewEpoch(k) == [key |-> k, busy |-> FALSE, idle |-> 0, emitted |-> FALSE, outcome |-> "none",
                rev |-> 0]

ArmCallbackEpoch(k) ==
    /\ epoch' = Append(epoch, NewEpoch(k))
    /\ hist' = [hist EXCEPT !.worked[Len(epoch) + 1] =
                  IF relay[k] = "running" THEN "busy" ELSE "no"]

\* armAgentWorkFinished after a delivered prompt.  An arming failure is
\* ignored; at the bound of the model every arming fails.
armAgentWorkFinished(o) ==
    /\ At(o, "arm")
    /\ IF Len(epoch) < MaxEpochs
       THEN ArmCallbackEpoch(op[o].target) ELSE UNCHANGED <<epoch, hist>>
    /\ GoWith(o, AfterSend(o), op[o].intr, "delivered")
    /\ UNCHANGED <<envVars, relay, up, receipt, hook, worker, tailVars, left>>

-----------------------------------------------------------------------------
(* AgentInterrupt.                                                         *)

\* The prompt outcome recorded when no replacement is attempted.
NotSubmitted(o) == IF op[o].kind = "replace" THEN "not_submitted" ELSE None

\* Mutant: the receipt of an earlier execution is not read.
MutantInterruptReads(o) ==
    /\ At(o, "start") /\ op[o].kind # "prompt"
    /\ IF resolveAgentSession(op[o].agent) # op[o].key
       THEN GoWith(o, "receipt", "stale_execution", None) ELSE Go(o, "status")
    /\ UNCHANGED <<envVars, relay, up, receipt, hookVars, tailVars, left, hist>>

\* A receipt answers for an earlier execution of the same Operation: a
\* completed one is the result, an acknowledged one continues with the
\* replacement.  Otherwise the Agent must still have the requested relay.
InterruptReads(o) ==
    /\ At(o, "start") /\ op[o].kind # "prompt"
    /\ IF receipt[o] = "completed" THEN Go(o, "done")
       ELSE IF receipt[o] = "interrupt_acknowledged" THEN Go(o, "replace")
       ELSE IF resolveAgentSession(op[o].agent) # op[o].key
       THEN GoWith(o, "receipt", "stale_execution", None) ELSE Go(o, "status")
    /\ UNCHANGED <<envVars, relay, up, receipt, hookVars, tailVars, left, hist>>

\* Only a running turn is interrupted; an idle relay takes the replacement
\* at once; a relay in any other state, or unreadable, fails the interrupt.
InterruptChecksStatus(o) ==
    /\ At(o, "status")
    /\ CASE Status(op[o].key) = "idle" ->
              /\ IF op[o].kind = "replace" THEN GoWith(o, "replace", "already_idle", None)
                 ELSE GoWith(o, "receipt", "already_idle", None)
              /\ hist' = [hist EXCEPT !.quiet[o] = TRUE]
         [] Status(op[o].key) = "running" -> Go(o, "interrupt") /\ UNCHANGED hist
         [] OTHER -> GoWith(o, "receipt", "failed", NotSubmitted(o)) /\ UNCHANGED hist
    /\ UNCHANGED <<envVars, relay, up, receipt, hookVars, tailVars, left>>

\* Airelay.Interrupt stops the turn of k, counted for Operation o.
Stops(o, k) ==
    /\ relay[k] = "running"
    /\ relay' = [relay EXCEPT ![k] = "idle"]
    /\ hist' = Worked([hist EXCEPT !.stopped[o] = @ + 1], k, "ended")

\* Only an acknowledged interrupt goes on to its replacement.
AfterInterrupt(o, outcome) ==
    IF outcome = "interrupt_acknowledged" /\ op[o].kind = "replace"
    THEN GoWith(o, "acknowledge", outcome, None)
    ELSE GoWith(o, "receipt", outcome, NotSubmitted(o))

\* The command is acknowledged, finds no active turn, times out after or
\* before it had an effect, or fails.
Interrupt(o) ==
    /\ At(o, "interrupt")
    /\ LET k == op[o].key
       IN  \/ Stops(o, k) /\ AfterInterrupt(o, "interrupt_acknowledged") /\ left' = left
           \/ /\ relay[k] = "idle" /\ AfterInterrupt(o, "already_idle")
              /\ UNCHANGED <<relay, hist, left>>
           \/ /\ left.faults > 0 /\ left' = [left EXCEPT !.faults = @ - 1]
              /\ AfterInterrupt(o, "timed_out")
              /\ Stops(o, k) \/ UNCHANGED <<relay, hist>>
           \/ /\ relay[k] = "gone" /\ AfterInterrupt(o, "failed")
              /\ UNCHANGED <<relay, hist, left>>
    /\ UNCHANGED <<envVars, up, receipt, hookVars, tailVars>>

\* persistAgentInterruptReceipt: the write may fail, and the Operation with it.
PersistReceipt(o, phase, next) ==
    /\ \/ /\ receipt' = [receipt EXCEPT ![o] = phase] /\ left' = left
          /\ Go(o, next)
       \/ /\ left.faults > 0 /\ left' = [left EXCEPT !.faults = @ - 1]
          /\ op' = [op EXCEPT ![o].status = "failed"] /\ UNCHANGED receipt
    /\ UNCHANGED <<envVars, relay, up, hookVars, tailVars, hist>>

InterruptAcknowledged(o) ==
    At(o, "acknowledge") /\ PersistReceipt(o, "interrupt_acknowledged", "replace")

finishAgentInterrupt(o) == At(o, "receipt") /\ PersistReceipt(o, "completed", "done")

AgentInterrupt(o) ==
    \/ InterruptReads(o)
    \/ InterruptChecksStatus(o)
    \/ Interrupt(o)
    \/ InterruptAcknowledged(o)
    \/ finishAgentInterrupt(o)

AgentSend(o) ==
    \/ SendResolves(o)
    \/ PromptWithProvenance(o)
    \/ armAgentWorkFinished(o)

-----------------------------------------------------------------------------
(* The Hook worker: one goroutine over the pending epochs.                 *)

Pending == {e \in DOMAIN epoch : ~epoch[e].emitted}

\* The oldest Page pending epochs; the worker takes the oldest first.
PendingCallbackEpochs == {e \in Pending : Cardinality({d \in Pending : d < e}) < Page}
Current == CHOOSE e \in worker.page : \A d \in worker.page : e <= d

WorkerPolls ==
    /\ up /\ worker.pc = "wait" /\ Pending # {}
    /\ worker' = [pc |-> "next", page |-> PendingCallbackEpochs, sample |-> None]
    /\ UNCHANGED <<envVars, relay, up, opVars, epoch, hook, tailVars, left, hist>>

\* On to the next epoch of the page, or to the next tick.
Advance ==
    [pc |-> IF worker.page = {Current} THEN "wait" ELSE "next",
     page |-> worker.page \ {Current}, sample |-> None]

WorkerSamples ==
    /\ up /\ worker.pc = "next"
    /\ \/ /\ worker' = [worker EXCEPT !.pc = "observe", !.sample = Status(epoch[Current].key)]
          /\ left' = left
       \/ /\ left.faults > 0 /\ left' = [left EXCEPT !.faults = @ - 1]
          /\ worker' = Advance
    /\ UNCHANGED <<envVars, relay, up, opVars, epoch, hook, tailVars, hist>>

\* Mutant: an idle sample sets the count instead of adding to it.
MutantObservedOnce(rec, state) ==
    CASE state = "running" -> [rec EXCEPT !.busy = TRUE, !.idle = 0]
      [] state = "idle" /\ rec.busy -> [rec EXCEPT !.idle = 1]
      [] OTHER -> rec

\* ObserveCallbackEpoch; the count matters only up to 2 and saturates there.
Observed(rec, state) ==
    CASE state = "running" -> [rec EXCEPT !.busy = TRUE, !.idle = 0]
      [] state = "idle" /\ rec.busy -> [rec EXCEPT !.idle = IF @ < 2 THEN @ + 1 ELSE @]
      [] state = "idle" /\ ~rec.busy -> rec
      [] OTHER -> [rec EXCEPT !.idle = 0]

ObserveCallbackEpoch ==
    /\ up /\ worker.pc = "observe"
    /\ LET rec == Observed(epoch[Current], worker.sample)
       IN  /\ epoch' = [epoch EXCEPT ![Current] = rec]
           /\ worker' = IF worker.sample = "idle" /\ rec.idle >= 2
                        THEN [worker EXCEPT !.pc = "dispatch"] ELSE Advance
    /\ UNCHANGED <<envVars, relay, up, opVars, hook, tailVars, left, hist>>

ClaimCallbackEpochWithoutHook(e) ==
    epoch' = [epoch EXCEPT ![e].emitted = TRUE, ![e].outcome = "unbound"]

\* One batch claims the epoch and inserts the Operation row.
AllocateCallbackEpochOperation(e) ==
    epoch' = [epoch EXCEPT ![e].emitted = TRUE, ![e].outcome = "pending",
                              ![e].rev = config.rev]

RecordCallbackEpochOperationOutcome(e, outcome) ==
    epoch' = [epoch EXCEPT ![e].outcome = outcome]

\* dispatchAgentWorkFinishedHook: without a binding the epoch is closed, with
\* an unreadable configuration or a missing Procedure it is left for the next
\* tick, and otherwise it is claimed for its Procedure Operation.
DispatchHook ==
    /\ up /\ worker.pc = "dispatch"
    /\ CASE config.hook = "bound" ->
              /\ AllocateCallbackEpochOperation(Current)
              /\ worker' = [worker EXCEPT !.pc = "write"]
         [] config.hook = "unbound" ->
              /\ ClaimCallbackEpochWithoutHook(Current)
              /\ worker' = Advance
         [] OTHER -> epoch' = epoch /\ worker' = Advance
    /\ UNCHANGED <<envVars, relay, up, opVars, hook, tailVars, left, hist>>

\* The Operation file, then the queue; a failed write is recorded as an
\* unknown outcome in a second write, which may fail too.
WriteHookOperation ==
    /\ up /\ worker.pc = "write"
    /\ \/ /\ hook' = [hook EXCEPT ![Current] = "accepted"]
          /\ UNCHANGED <<epoch, left>>
       \/ /\ left.faults > 0 /\ left' = [left EXCEPT !.faults = @ - 1]
          /\ hook' \in {hook, [hook EXCEPT ![Current] = "outcome_unknown"]}
          /\ RecordCallbackEpochOperationOutcome(Current, "outcome_unknown")
    /\ worker' = Advance
    /\ UNCHANGED <<envVars, relay, up, opVars, tailVars, hist>>

\* The durable queue runs the Hook's Procedure: the record turns running, the
\* command is launched, the terminal record is written, the epoch is told.
HookStarts(e) ==
    /\ up /\ hook[e] = "accepted"
    /\ hook' = [hook EXCEPT ![e] = "running"]
    /\ UNCHANGED <<envVars, relay, up, opVars, epoch, worker, tailVars, left, hist>>

\* Launched only under the configuration it was admitted with.
HookRefused(e) ==
    /\ up /\ hook[e] = "running" /\ config.rev # epoch[e].rev
    /\ hook' = [hook EXCEPT ![e] = "failed"]
    /\ UNCHANGED <<envVars, relay, up, opVars, epoch, worker, tailVars, left, hist>>

HookLaunches(e) ==
    /\ up /\ hook[e] = "running" /\ config.rev = epoch[e].rev
    /\ hook' = [hook EXCEPT ![e] = "launched"]
    /\ hist' = [hist EXCEPT !.runs[e] = @ + 1]
    /\ UNCHANGED <<envVars, relay, up, opVars, epoch, worker, tailVars, left>>

HookEnds(e) ==
    /\ up /\ hook[e] = "launched"
    /\ \E s \in Terminal : hook' = [hook EXCEPT ![e] = s]
    /\ UNCHANGED <<envVars, relay, up, opVars, epoch, worker, tailVars, left, hist>>

HookRecords(e) ==
    /\ up /\ hook[e] \in Terminal /\ epoch[e].outcome = "pending"
    /\ RecordCallbackEpochOperationOutcome(e, hook[e])
    /\ UNCHANGED <<envVars, relay, up, opVars, hook, worker, tailVars, left, hist>>

HookStep(e) ==
    HookStarts(e) \/ HookRefused(e) \/ HookLaunches(e) \/ HookEnds(e) \/ HookRecords(e)

WorkerStep ==
    WorkerPolls \/ WorkerSamples \/ ObserveCallbackEpoch \/ DispatchHook \/ WriteHookOperation

-----------------------------------------------------------------------------
(* Restart.                                                                *)

Crash ==
    /\ up /\ left.crashes > 0
    /\ up' = FALSE
    /\ left' = [left EXCEPT !.crashes = @ - 1]
    /\ worker' = [pc |-> "wait", page |-> {}, sample |-> None]
    /\ UNCHANGED <<envVars, relay, opVars, epoch, hook, tailVars, hist>>

\* Mutant: an unfinished Procedure is run again, like any other Operation.
MutantRecoveredHook(s) == IF s \in {"running", "launched"} THEN "accepted" ELSE s

\* recoverNonReplayableProcedureOperation: a Procedure that may have been
\* launched is never run again.
RecoveredHook(s) == IF s \in {"accepted", "running", "launched"} THEN "outcome_unknown" ELSE s

\* Start-up: running Operations become accepted again, unfinished Procedures
\* are closed, and the outcome of every closed Procedure is recorded.
Restart ==
    /\ ~up /\ up' = TRUE
    /\ op' = [o \in Op |-> IF op[o] # None /\ op[o].status = "running"
                           THEN [op[o] EXCEPT !.status = "accepted"] ELSE op[o]]
    /\ hook' = [e \in Epochs |-> RecoveredHook(hook[e])]
    /\ epoch' = [e \in DOMAIN epoch |->
                   IF RecoveredHook(hook[e]) \in Terminal
                   THEN [epoch[e] EXCEPT !.outcome = RecoveredHook(hook[e])] ELSE epoch[e]]
    /\ UNCHANGED <<envVars, relay, receipt, worker, tailVars, left, hist>>

-----------------------------------------------------------------------------
(* The transcript tail of one observer.                                    *)

\* A line has a number, its place in the transcript, and a content, which
\* is all the code sees of it: text[i] is the first line with the content of
\* line i.  A relay prints a content of its own or repeats an earlier one.
lines == Len(text)
PrintLine ==
    /\ mix.tail /\ lines < MaxLines
    /\ \E content \in {lines + 1} \cup ToSet(text) : text' = Append(text, content)
    /\ UNCHANGED <<envVars, relay, up, opVars, hookVars, reader, left, hist>>

\* TailSnapshot: the last n lines.
TailSnapshot(n) == LET lo == IF lines > n THEN lines - n ELSE 0
                   IN  [i \in 1..(lines - lo) |-> lo + i]

\* The lengths at which the end of the previous snapshot and the beginning
\* of the current one have the same contents.
Overlaps(previous, current) ==
    {k \in DOMAIN previous \cap DOMAIN current :
       \A i \in 1..k : text[previous[Len(previous) - k + i]] = text[current[i]]}

\* Mutant: the line after the overlap is taken for part of it.
MutantAgentTailDelta(previous, current) ==
    LET overlaps == Overlaps(previous, current)
    IN  IF overlaps = {} THEN [new |-> current, cut |-> current # <<>>]
        ELSE LET k == CHOOSE k \in overlaps : \A j \in overlaps : j <= k
             IN  [new |-> SubSeq(current, k + 2, Len(current)), cut |-> FALSE]

\* What follows the longest end of the previous snapshot that begins the
\* current one; with no such end, all of it, and the history is cut.
agentTailDelta(previous, current) ==
    LET overlaps == Overlaps(previous, current)
    IN  IF overlaps = {} THEN [new |-> current, cut |-> current # <<>>]
        ELSE LET k == CHOOSE k \in overlaps : \A j \in overlaps : j <= k
             IN  [new |-> SubSeq(current, k + 1, Len(current)), cut |-> FALSE]

\* Later lines the observer cannot tell from what it has: they are not past
\* a beginning of the snapshot that repeats the end of the previous one.
Repeated(previous, current) ==
    {i \in 1..lines : /\ previous # <<>> /\ i > Last(previous)
                      /\ \E k \in Overlaps(previous, current) : i <= current[k]}

\* writeAgentTailSeen.
TailSeen(last, pending) == [last |-> last, pending |-> pending]

\* AgentTailPage with n lines requested.  With the backlog preserved the
\* whole window is compared and what exceeds n is kept for the next call;
\* otherwise a backlog announced earlier is dropped.  The state file is
\* written before the lines are returned.
AgentTailPage(n, backlog) ==
    /\ up /\ mix.tail
    /\ LET current == TailSnapshot(IF backlog /\ reader # None THEN Window ELSE n)
           delta == IF reader = None THEN [new |-> current, cut |-> FALSE]
                    ELSE agentTailDelta(reader.last, current)
           kept == IF reader # None /\ backlog THEN reader.pending ELSE <<>>
           dropped == IF reader # None /\ ~backlog THEN reader.pending ELSE <<>>
           selected == kept \o delta.new
           count == IF backlog /\ Len(selected) > n THEN n ELSE Len(selected)
           pending == SubSeq(selected, count + 1, Len(selected))
           unseen == IF reader = None \/ delta.cut
                     THEN 1..(lines - Len(current)) ELSE {}
           taken == IF reader = None THEN {} ELSE Repeated(reader.last, current)
           shown == ToSet(SubSeq(selected, 1, count))
           announced == ToSet(dropped) \cup unseen
       IN  /\ current # <<>> \/ reader # None
           /\ reader' = TailSeen(current, pending)
           /\ hist' = [hist EXCEPT !.told = @ \cup shown \cup announced \cup taken]
    /\ UNCHANGED <<envVars, relay, up, opVars, hookVars, text, left>>

\* The three ways a supervisor reads the tail: agent/tail, agent/await after
\* its wait, and the agent/status continuation of system/await, which alone
\* keeps a backlog.
canonicalAgentTail == \E n \in TailLines : AgentTailPage(n, FALSE)
canonicalAgentAwait ==
    AgentTailPage(CHOOSE n \in TailLines : \A m \in TailLines : m <= n, FALSE)
agentStatusContinuation == \E n \in TailLines : AgentTailPage(n, TRUE)

-----------------------------------------------------------------------------
Init ==
    /\ mix \in Mixes
    /\ agents = mix.agents
    /\ relay \in [Relay -> mix.relays]
    /\ \E h \in mix.hooks : config = [hook |-> h, rev |-> 0]
    /\ up = TRUE
    /\ op = [o \in Op |-> None]
    /\ receipt = [o \in Op |-> None]
    /\ epoch = <<>>
    /\ hook = [e \in Epochs |-> "none"]
    /\ worker = [pc |-> "wait", page |-> {}, sample |-> None]
    /\ text = <<>> /\ reader = None
    /\ left = mix.left
    /\ hist = [sent |-> [o \in Op |-> 0], stopped |-> [o \in Op |-> 0],
               quiet |-> [o \in Op |-> FALSE], runs |-> [e \in Epochs |-> 0],
               worked |-> [e \in Epochs |-> "no"], told |-> {}]

OpStep(o) == ExecuteStarts(o) \/ AgentInterrupt(o) \/ AgentSend(o) \/ ExecuteEnds(o)

Next ==
    \/ \E k \in Relay : TurnEnds(k)
    \/ \E k \in Relay : RelayGone(k)
    \/ \E k \in Relay : RelayReturns(k)
    \/ \E a \in Agent : AgentChanges(a)
    \/ ConfigChanges
    \/ \E o \in Op : AgentPromptAsync(o)
    \/ \E o \in Op : AgentInterruptAsync(o)
    \/ \E o \in Op : OpStep(o)
    \/ WorkerStep
    \/ \E e \in Epochs : HookStep(e)
    \/ Crash
    \/ Restart
    \/ PrintLine
    \/ canonicalAgentTail
    \/ canonicalAgentAwait
    \/ agentStatusContinuation

\* The gateway's own goroutines keep running and the gateway is restarted
\* after a crash; callers, relays and failures owe nothing.
Spec ==
    /\ Init /\ [][Next]_vars
    /\ \A o \in Op : WF_vars(OpStep(o))
    /\ WF_vars(WorkerStep)
    /\ \A e \in Epochs : WF_vars(HookStep(e))
    /\ WF_vars(Restart)

-----------------------------------------------------------------------------
(* Properties.                                                             *)

EpochRecord ==
    [key : Relay, busy : BOOLEAN, idle : 0..2, emitted : BOOLEAN,
     outcome : {"none", "pending", "unbound"} \cup Terminal, rev : Nat]
Histories ==
    [sent : [Op -> Nat], stopped : [Op -> Nat], quiet : [Op -> BOOLEAN], runs : [Epochs -> Nat],
     worked : [Epochs -> {"no", "busy", "ended"}], told : SUBSET Nat]
HookStates == {"none", "accepted", "running", "launched"} \cup Terminal

TypeOK ==
    /\ mix \in Mixes /\ left \in [crashes : Nat, faults : Nat, changes : Nat]
    /\ agents \in [Agent -> AgentRecord] /\ config \in [hook : mix.hooks, rev : Nat]
    /\ relay \in [Relay -> {"idle", "running", "gone"}]
    /\ up \in BOOLEAN
    /\ op \in [Op -> {None} \cup Operations]
    /\ receipt \in [Op -> {None, "interrupt_acknowledged", "completed"}]
    /\ epoch \in Seq(EpochRecord) /\ Len(epoch) <= MaxEpochs
    /\ hook \in [Epochs -> HookStates]
    /\ worker \in [pc : {"wait", "next", "observe", "dispatch", "write"}, page : SUBSET Epochs,
                   sample : {None, "idle", "running", "error"}]
    /\ text \in Seq(Nat) /\ reader \in {None} \cup TailState
    /\ hist \in Histories

\* agent_work_finished_hooks.go, callback_epochs.go: the Hook of an epoch is
\* launched at most once whatever restarts happen, never before the relay of
\* the prompt has worked and stopped working after the epoch was armed; and an
\* epoch that reports an outcome agrees with its Procedure's record.
HookFollowsWork ==
    \A e \in DOMAIN epoch :
      /\ hist.runs[e] <= 1
      /\ hist.runs[e] = 1 => hist.worked[e] = "ended" /\ epoch[e].emitted
      /\ epoch[e].outcome \in {"completed", "failed"} => hook[e] = epoch[e].outcome
      /\ hook[e] \in Terminal => epoch[e].outcome \in {"pending", hook[e]}

\* agent_interrupt_interrupt_execution.go: once the receipt of an interrupt
\* is on disk no execution of it interrupts again, a completed receipt is
\* never replaced and nothing more is sent for it; and a replacement prompt
\* is sent only after this Operation stopped the turn or found none.
InterruptNotRepeated ==
    [][\A o \in Op :
         /\ receipt[o] # None => hist'.stopped[o] = hist.stopped[o]
         /\ receipt[o] = "completed" =>
              receipt'[o] = "completed" /\ hist'.sent[o] = hist.sent[o]
         /\ hist'.sent[o] > hist.sent[o] /\ op[o].kind = "replace" =>
              hist.stopped[o] > 0 \/ hist.quiet[o]]_vars

\* agent_transcript.go: a line printed before the last observation was shown
\* to the observer, is kept for the next page, or its loss was announced: the
\* history was reported cut, or an overflow was reported and a read without
\* backlog followed.  Snapshots are compared by content, so one kind of line
\* is lost unannounced: one up to the end of a block that repeats, content by
\* content, the end of the snapshot before it.
TailLossIsReported ==
    reader # None =>
      \A i \in 1..(IF reader.last = <<>> THEN 0 ELSE Last(reader.last)) :
        i \in hist.told \cup ToSet(reader.pending)

\* An epoch that saw its relay busy waits although the relay is idle and the
\* configuration can be read.
Waits(e) ==
    IF e \in DOMAIN epoch
    THEN /\ epoch[e].busy /\ ~epoch[e].emitted /\ relay[epoch[e].key] = "idle"
         /\ config.hook \in {"bound", "unbound"}
    ELSE FALSE

Admitted(o) == op[o] # None
Closed(o) == IF op[o] = None THEN FALSE ELSE op[o].status \in Terminal
HookClosed(e) == IF e \in DOMAIN epoch THEN epoch[e].outcome \in Terminal ELSE FALSE

\* Every admitted prompt or interrupt reaches a terminal record, a Hook whose
\* Operation file was written gets its outcome recorded, and an epoch that saw
\* its relay busy does not wait for ever while the relay is idle and the
\* configuration can be read.
TurnsSettle ==
    /\ \A o \in Op : Admitted(o) ~> Closed(o)
    /\ \A e \in Epochs : (hook[e] # "none") ~> HookClosed(e)
    /\ \A e \in Epochs : []<>~Waits(e)
=============================================================================
