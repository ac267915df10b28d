--------------------------- MODULE AgentTurnsProofs ---------------------------
(***************************************************************************)
(* Proofs about prompts, interrupts, the Hook of a finished turn and the   *)
(* transcript tail, for any Agents, relays, Operations, epochs and limits, *)
(* and any restarts, failures and configuration changes.                   *)
(***************************************************************************)
EXTENDS AgentTurns, SequenceTheorems, FiniteSetTheorems, WellFoundedInduction, TLAPS

-----------------------------------------------------------------------------
(* Prompts and interrupts.                                                 *)

Steps(r, pcs) == r # None /\ r.status = "running" /\ r.pc \in pcs

\* An Operation r with receipt f, which has stopped its turn s times and may
\* have found none (q).  The receipt says what the executor may still do: none
\* of an Operation that may still interrupt, a completed one of a settled
\* Operation; and a replacement waits for the interrupt.
Bound(r, f, s, q) ==
    /\ r = None => f = None
    /\ r # None /\ r.kind = "prompt" => f = None
    /\ Steps(r, {"status", "interrupt", "acknowledge"}) => f = None
    /\ f = "completed" /\ r # None /\ r.status = "running" => r.pc \in {"start", "done"}
    /\ f = "interrupt_acknowledged" => s > 0
    /\ Steps(r, {"acknowledge"}) => r.kind = "replace" /\ s > 0
    /\ Steps(r, {"replace", "send", "arm"}) /\ r.kind = "replace" => s > 0 \/ q
    /\ Steps(r, {"status", "interrupt", "replace", "receipt"}) => r.kind # "prompt"
    /\ Steps(r, {"send", "arm"}) => r.target # None

ReceiptBinds == \A o \in Op : Bound(op[o], receipt[o], hist.stopped[o], hist.quiet[o])

-----------------------------------------------------------------------------
(* The Hook of an epoch.                                                   *)

Unlaunched == {"none", "accepted", "running"}
Open == {"accepted", "running", "launched"}

\* What has been seen of an epoch r whose relay is in state s and has done w.
Saw(r, w, s) ==
    /\ s = "running" => w # "no"
    /\ w = "busy" => s = "running"
    /\ r.busy => w # "no"
    /\ r.idle > 0 => r.busy
    /\ r.emitted => w = "ended"

Seen == \A e \in DOMAIN epoch : Saw(epoch[e], hist.worked[e], relay[epoch[e].key])

\* What an epoch r says of the record h of its Procedure.
Reports(r, h) ==
    /\ h # "none" => r.emitted
    /\ h \in Open => r.outcome = "pending"
    /\ h \in Terminal => r.outcome \in {"pending", h}
    /\ r.outcome \in {"completed", "failed"} => h = r.outcome

Told ==
    \A e \in Epochs :
      /\ hist.runs[e] <= 1
      /\ hook[e] \in Unlaunched => hist.runs[e] = 0
      /\ hook[e] # "none" => e \in DOMAIN epoch
      /\ e \in DOMAIN epoch => Reports(epoch[e], hook[e])

\* The epoch r the worker is at, at step pc with a sample: what its relay has
\* done, and that nobody else writes its record h.
Ready(pc, sample, r, w, h) ==
    /\ pc = "observe" => /\ sample = "running" => w # "no"
                         /\ sample = "idle" /\ r.busy => w = "ended"
    /\ pc = "dispatch" => w = "ended"
    /\ pc = "write" => r.emitted /\ r.outcome = "pending" /\ h = "none"

\* The page of the Hook worker: epochs nobody else closes, each taken once.
Turn ==
    /\ worker.pc # "wait" => worker.page # {}
    /\ \A e \in worker.page : e \in DOMAIN epoch
    /\ \A e \in worker.page : ~epoch[e].emitted \/ (worker.pc = "write" /\ e = Current)
    /\ worker.pc # "wait" =>
         Ready(worker.pc, worker.sample, epoch[Current], hist.worked[Current], hook[Current])
    /\ ~up => worker.page = {}

-----------------------------------------------------------------------------
(* The transcript.                                                         *)

\* A snapshot of the transcript is a run of its lines, up to a line printed.
IsSnapshot(s, n) ==
    \E lo \in 0..n : s = [i \in 1..Len(s) |-> lo + i] /\ lo + Len(s) <= n

TailKept ==
    reader # None =>
      /\ IsSnapshot(reader.last, lines)
      /\ TailLossIsReported

IInv == TypeOK /\ ReceiptBinds /\ Seen /\ Told /\ Turn /\ TailKept

-----------------------------------------------------------------------------
(* Choices.                                                                *)

LEMMA Least == ASSUME NEW S \in SUBSET Nat, S # {} PROVE \E i \in S : \A j \in S : i <= j
<1> DEFINE R == {ss \in Nat \X Nat : ss[1] < ss[2]}
<1>1. IsWellFoundedOn(R, Nat)
  BY NatLessThanWellFounded DEF OpToRel
<1>2. \A i, j \in Nat : <<j, i>> \notin R => i <= j
  OBVIOUS
<1> HIDE DEF R
<1>3. PICK i \in S : \A j \in S : <<j, i>> \notin R
  BY <1>1, WFMin, Zenon
<1>4. \A j \in S : i <= j
  BY <1>2, <1>3
<1> QED BY <1>4

LevelNames == {"low", "medium", "high", "max"}

LEMMA Scores ==
  ASSUME NEW level \in LevelNames
  PROVE  routingScore(level) \in 1..4 /\ Levels[routingScore(level)] = level
<1>1. /\ DOMAIN Levels = 1..4
      /\ Levels[1] = "low" /\ Levels[2] = "medium" /\ Levels[3] = "high" /\ Levels[4] = "max"
  BY DEF Levels
<1>2. \E i \in DOMAIN Levels : Levels[i] = level
  BY <1>1 DEF LevelNames
<1>3. /\ routingScore(level) \in DOMAIN Levels
      /\ Levels[routingScore(level)] = level
  BY <1>2, Zenon DEF routingScore
<1> QED BY <1>1, <1>3

\* One of the usable Agents is better than the others, so the choice is one.
LEMMA BestAgent ==
  ASSUME agents \in [Agent -> AgentRecord], NEW preferred
  PROVE  ResolveAgent(preferred) \in Agent \cup {None}
<1> DEFINE candidates == {a \in Agent : resolveAgentSession(a) # None}
           exact == {a \in candidates : agents[a].level = preferred}
           pool == IF exact # {} THEN exact ELSE candidates
           score(a) == routingScore(agents[a].level)
           better(a, b) == \/ score(a) > score(b)
                           \/ agents[a].level = agents[b].level /\ Rank[a] <= Rank[b]
<1>1. ResolveAgent(preferred) =
        IF pool = {} THEN None ELSE CHOOSE a \in pool : \A b \in pool : better(a, b)
  BY Zenon DEF ResolveAgent
<1>2. pool \subseteq Agent
  OBVIOUS
<1>3. \A a \in Agent : score(a) \in 1..4 /\ Levels[score(a)] = agents[a].level /\ Rank[a] \in Nat
  BY Scores, AgentTurnsAssumption DEF AgentRecord, LevelNames
<1>4. CASE pool # {}
  <2> HIDE DEF pool, score
  <2> DEFINE D == {4 - score(a) : a \in pool}
  <2>1. D \in SUBSET Nat /\ D # {}
    BY <1>2, <1>3, <1>4
  <2>2. PICK d \in D : \A e \in D : d <= e
    BY <2>1, Least
  <2> DEFINE T == {Rank[a] : a \in {b \in pool : 4 - score(b) = d}}
  <2>3. T \in SUBSET Nat /\ T # {}
    BY <1>2, <1>3, <2>2
  <2>4. PICK r \in T : \A q \in T : r <= q
    BY <2>3, Least
  <2>5. PICK a \in pool : 4 - score(a) = d /\ Rank[a] = r
    BY <2>4
  <2>6. ASSUME NEW b \in pool PROVE better(a, b)
    <3>1. 4 - score(b) \in D /\ score(a) \in 1..4 /\ score(b) \in 1..4
      BY <1>2, <1>3
    <3>2. score(a) >= score(b)
      BY <2>1, <2>2, <2>5, <3>1
    <3>3. CASE score(a) = score(b)
      <4>1. agents[a].level = agents[b].level
        BY <1>2, <1>3, <3>3
      <4>2. Rank[b] \in T
        BY <2>5, <3>3
      <4>3. Rank[a] <= Rank[b]
        BY <2>4, <2>5, <4>2
      <4> QED BY <4>1, <4>3
    <3> QED BY <3>1, <3>2, <3>3
  <2>7. (CHOOSE x \in pool : \A b \in pool : better(x, b)) \in pool
    <3> HIDE DEF better
    <3> QED BY <2>6, Zenon
  <2> QED BY <1>1, <1>2, <1>4, <2>7
<1> QED BY <1>1, <1>4

LEMMA ExactAgent ==
  ASSUME NEW a \in Agent
  PROVE  ResolveExactAgent(a) \in Agent \cup {None}
BY DEF ResolveExactAgent

LEMMA CanonicalAgent ==
  ASSUME NEW requested \in Agent \cup {None}
  PROVE  resolveCanonicalAgent(requested) \in Agent \cup {None}
<1> DEFINE candidates == {a \in Agent : agents[a].enabled}
           active == {a \in candidates : SessionBusy(a)}
           only(s) == IF Cardinality(s) = 1
                      THEN ResolveExactAgent(CHOOSE a \in s : TRUE) ELSE None
<1>1. resolveCanonicalAgent(requested) =
        IF requested # None THEN ResolveExactAgent(requested)
        ELSE IF Cardinality(candidates) > 1 THEN only(active) ELSE only(candidates)
  BY Zenon DEF resolveCanonicalAgent
<1>2. ASSUME NEW s \in SUBSET Agent PROVE only(s) \in Agent \cup {None}
  <2>1. CASE Cardinality(s) = 1
    <3>1. s # {}
      BY <2>1, FS_EmptySet
    <3>2. (CHOOSE a \in s : TRUE) \in Agent
      BY <3>1
    <3> QED BY <2>1, <3>2, ExactAgent
  <2> QED BY <2>1
<1>3. candidates \in SUBSET Agent /\ active \in SUBSET Agent
  OBVIOUS
<1> HIDE DEF only, candidates, active
<1>4. requested # None => ResolveExactAgent(requested) \in Agent \cup {None}
  BY ExactAgent
<1> QED BY <1>1, <1>2, <1>3, <1>4

LEMMA CanonicalInterruptAgent ==
  ASSUME agents \in [Agent -> AgentRecord], NEW requested \in Agent \cup {None}
  PROVE  resolveCanonicalInterruptAgent(requested) \in Agent \cup {None}
BY BestAgent, ExactAgent DEF resolveCanonicalInterruptAgent

LEMMA SessionTyped ==
  ASSUME agents \in [Agent -> AgentRecord], NEW a \in Agent
  PROVE  resolveAgentSession(a) \in Relay \cup {None}
BY DEF AgentRecord, resolveAgentSession

\* The epoch the worker is at is one of its page.
LEMMA CurrentIn ==
  ASSUME worker.page \in SUBSET Epochs, worker.page # {}
  PROVE  Current \in worker.page
<1>1. worker.page \in SUBSET Nat
  BY AgentTurnsAssumption DEF Epochs
<1>2. \E e \in worker.page : \A d \in worker.page : e <= d
  BY <1>1, Least
<1> QED BY <1>2, Zenon DEF Current

-----------------------------------------------------------------------------
(* Types.                                                                  *)

Pcs ==
    {"start", "send", "arm", "replace", "status", "interrupt", "acknowledge", "receipt", "done"}
Outcomes ==
    {None, "interrupt_acknowledged", "already_idle", "stale_execution", "timed_out", "failed"}
Sent == {None, "delivered", "failed", "not_submitted"}

LEMMA OperationTyped ==
  ASSUME TypeOK, NEW o \in Op, op[o] # None
  PROVE  op[o] \in Operations
BY DEF TypeOK

LEMMA Fields ==
  ASSUME NEW r \in Operations
  PROVE  /\ \A pc \in Pcs : [r EXCEPT !.pc = pc] \in Operations
         /\ \A pc \in Pcs : \A i \in Outcomes : \A p \in Sent :
              [r EXCEPT !.pc = pc, !.intr = i, !.prompt = p] \in Operations
         /\ \A pc \in Pcs : \A k \in Relay \cup {None} :
              [r EXCEPT !.pc = pc, !.target = k] \in Operations
         /\ \A s \in {"accepted", "running", "completed", "failed"} :
              [r EXCEPT !.status = s] \in Operations
         /\ [r EXCEPT !.status = "running", !.pc = "start"] \in Operations
<1>1. \A pc \in Pcs : [r EXCEPT !.pc = pc] \in Operations
  BY DEF Operations, Pcs
<1>2. \A pc \in Pcs : \A i \in Outcomes : \A p \in Sent :
        [r EXCEPT !.pc = pc, !.intr = i, !.prompt = p] \in Operations
  <2> SUFFICES ASSUME NEW pc \in Pcs, NEW i \in Outcomes, NEW p \in Sent
               PROVE  [r EXCEPT !.pc = pc, !.intr = i, !.prompt = p] \in Operations
    OBVIOUS
  <2>1. \A q \in Operations : [q EXCEPT !.intr = i] \in Operations
    BY DEF Operations, Outcomes
  <2>2. \A q \in Operations : [q EXCEPT !.prompt = p] \in Operations
    BY DEF Operations, Sent
  <2>3. [[[r EXCEPT !.pc = pc] EXCEPT !.intr = i] EXCEPT !.prompt = p] \in Operations
    BY <1>1, <2>1, <2>2
  <2> QED BY <2>3
<1>3. \A pc \in Pcs : \A k \in Relay \cup {None} : [r EXCEPT !.pc = pc, !.target = k] \in Operations
  BY DEF Operations, Pcs
<1>4. \A s \in {"accepted", "running", "completed", "failed"} : [r EXCEPT !.status = s] \in Operations
  BY DEF Operations
<1>5. [r EXCEPT !.status = "running", !.pc = "start"] \in Operations
  BY DEF Operations
<1> QED BY <1>1, <1>2, <1>3, <1>4, <1>5

LEMMA OneChanges ==
  ASSUME TypeOK, NEW o \in Op, NEW r \in Operations, op' = [op EXCEPT ![o] = r]
  PROVE  op' \in [Op -> {None} \cup Operations]
BY DEF TypeOK

LEMMA GoTyped ==
  ASSUME TypeOK, NEW o \in Op, op[o] # None, NEW pc \in Pcs, Go(o, pc)
  PROVE  op' \in [Op -> {None} \cup Operations]
<1>1. [op[o] EXCEPT !.pc = pc] \in Operations
  BY OperationTyped, Fields
<1>2. op' = [op EXCEPT ![o] = [op[o] EXCEPT !.pc = pc]]
  BY DEF Go
<1> QED BY <1>1, <1>2, OneChanges

LEMMA GoWithTyped ==
  ASSUME TypeOK, NEW o \in Op, op[o] # None, NEW pc \in Pcs, NEW i \in Outcomes, NEW p \in Sent,
         GoWith(o, pc, i, p)
  PROVE  op' \in [Op -> {None} \cup Operations]
<1>1. [op[o] EXCEPT !.pc = pc, !.intr = i, !.prompt = p] \in Operations
  BY OperationTyped, Fields
<1>2. op' = [op EXCEPT ![o] = [op[o] EXCEPT !.pc = pc, !.intr = i, !.prompt = p]]
  BY DEF GoWith
<1> QED BY <1>1, <1>2, OneChanges

\* The bookkeeping of a turn that begins or ends touches only the epochs of
\* its relay, and those in the order no, busy, ended.
LEMMA WorkedIs ==
  ASSUME NEW h \in Histories, NEW k, NEW phase, phase = "busy" \/ phase = "ended"
  PROVE  /\ Worked(h, k, phase) \in Histories
         /\ Worked(h, k, phase).sent = h.sent /\ Worked(h, k, phase).stopped = h.stopped
         /\ Worked(h, k, phase).quiet = h.quiet /\ Worked(h, k, phase).runs = h.runs
         /\ Worked(h, k, phase).told = h.told
         /\ \A e \in Epochs :
              Worked(h, k, phase).worked[e] =
                IF e <= Len(epoch) /\ epoch[e].key = k
                   /\ h.worked[e] = (IF phase = "busy" THEN "no" ELSE "busy")
                THEN phase ELSE h.worked[e]
<1> DEFINE w == [e \in Epochs |->
                   IF e <= Len(epoch) /\ epoch[e].key = k
                      /\ h.worked[e] = (IF phase = "busy" THEN "no" ELSE "busy")
                   THEN phase ELSE h.worked[e]]
<1>1. Worked(h, k, phase) = [h EXCEPT !.worked = w]
  BY DEF Worked
<1>2. w \in [Epochs -> {"no", "busy", "ended"}]
  BY DEF Histories
<1>3. \A e \in Epochs : w[e] = IF e <= Len(epoch) /\ epoch[e].key = k
                                  /\ h.worked[e] = (IF phase = "busy" THEN "no" ELSE "busy")
                               THEN phase ELSE h.worked[e]
  OBVIOUS
<1> HIDE DEF w
<1>4. [h EXCEPT !.worked = w] \in Histories
  BY <1>2 DEF Histories
<1>5. /\ [h EXCEPT !.worked = w].sent = h.sent /\ [h EXCEPT !.worked = w].stopped = h.stopped
      /\ [h EXCEPT !.worked = w].quiet = h.quiet /\ [h EXCEPT !.worked = w].runs = h.runs
      /\ [h EXCEPT !.worked = w].told = h.told
      /\ [h EXCEPT !.worked = w].worked = w
  BY DEF Histories
<1> QED BY <1>1, <1>3, <1>4, <1>5

LEMMA HistoryFields ==
  ASSUME NEW h \in Histories
  PROVE  /\ \A o \in Op : [h EXCEPT !.sent[o] = @ + 1] \in Histories
         /\ \A o \in Op : [h EXCEPT !.stopped[o] = @ + 1] \in Histories
         /\ \A o \in Op : [h EXCEPT !.quiet[o] = TRUE] \in Histories
         /\ \A e \in Epochs : [h EXCEPT !.runs[e] = @ + 1] \in Histories
         /\ \A e \in Epochs : \A w \in {"no", "busy", "ended"} :
              [h EXCEPT !.worked[e] = w] \in Histories
         /\ \A a \in SUBSET Nat : [h EXCEPT !.told = a] \in Histories
<1>1. \A o \in Op : [h EXCEPT !.sent[o] = @ + 1] \in Histories
  BY DEF Histories
<1>2. \A o \in Op : [h EXCEPT !.stopped[o] = @ + 1] \in Histories
  BY DEF Histories
<1>3. \A o \in Op : [h EXCEPT !.quiet[o] = TRUE] \in Histories
  BY DEF Histories
<1>4. \A e \in Epochs : [h EXCEPT !.runs[e] = @ + 1] \in Histories
  BY DEF Histories
<1>5. \A e \in Epochs : \A w \in {"no", "busy", "ended"} : [h EXCEPT !.worked[e] = w] \in Histories
  BY DEF Histories
<1>6. \A a \in SUBSET Nat : [h EXCEPT !.told = a] \in Histories
  BY DEF Histories
<1> QED BY <1>1, <1>2, <1>3, <1>4, <1>5, <1>6

Lefts == [crashes : Nat, faults : Nat, changes : Nat]

LEMMA LeftFields ==
  ASSUME left \in Lefts
  PROVE  /\ left.faults > 0 => [left EXCEPT !.faults = @ - 1] \in Lefts
         /\ left.crashes > 0 => [left EXCEPT !.crashes = @ - 1] \in Lefts
         /\ left.changes > 0 => [left EXCEPT !.changes = @ - 1] \in Lefts
BY DEF Lefts

\* What happens outside the gateway.
LEMMA WorldTyped ==
  ASSUME TypeOK,
         \/ \E k \in Relay : TurnEnds(k) \/ RelayGone(k) \/ RelayReturns(k)
         \/ \E a \in Agent : AgentChanges(a)
         \/ ConfigChanges
  PROVE  TypeOK'
<1>1. ASSUME NEW k \in Relay, TurnEnds(k) PROVE TypeOK'
  <2>1. hist' \in Histories
    BY <1>1, WorkedIs DEF TurnEnds, TypeOK
  <2> QED BY <1>1, <2>1 DEF TurnEnds, TypeOK, envVars, opVars, hookVars, tailVars
<1>2. ASSUME NEW k \in Relay, RelayGone(k) PROVE TypeOK'
  <2>1. hist' \in Histories
    BY <1>2, WorkedIs DEF RelayGone, TypeOK
  <2>2. left' \in Lefts
    BY <1>2, LeftFields DEF RelayGone, TypeOK, Lefts
  <2> QED BY <1>2, <2>1, <2>2 DEF Lefts, RelayGone, TypeOK, envVars, opVars, hookVars, tailVars
<1>3. ASSUME NEW k \in Relay, RelayReturns(k) PROVE TypeOK'
  BY <1>3 DEF RelayReturns, TypeOK, envVars, opVars, hookVars, tailVars
<1>4. ASSUME NEW a \in Agent, AgentChanges(a) PROVE TypeOK'
  <2>1. agents' \in [Agent -> AgentRecord]
    <3>1. agents[a] \in AgentRecord
      BY DEF TypeOK
    <3>2. /\ [agents[a] EXCEPT !.enabled = ~@] \in AgentRecord
          /\ \A k \in Relay \cup {None} : [agents[a] EXCEPT !.key = k] \in AgentRecord
      BY <3>1 DEF AgentRecord
    <3>3. PICK rec \in AgentRecord : agents' = [agents EXCEPT ![a] = rec]
      BY <1>4, <3>2 DEF AgentChanges
    <3> QED BY <3>3 DEF TypeOK
  <2>2. left' \in Lefts
    BY <1>4, LeftFields DEF AgentChanges, TypeOK, Lefts
  <2> QED BY <1>4, <2>1, <2>2 DEF Lefts, AgentChanges, TypeOK, opVars, hookVars, tailVars
<1>5. ASSUME ConfigChanges PROVE TypeOK'
  <2>1. PICK h \in mix.hooks : config' = [hook |-> h, rev |-> config.rev + 1]
    BY <1>5 DEF ConfigChanges
  <2>2. config' \in [hook : mix.hooks, rev : Nat]
    BY <2>1 DEF TypeOK
  <2>3. left' \in Lefts
    BY <1>5, LeftFields DEF ConfigChanges, TypeOK, Lefts
  <2> QED BY <1>5, <2>2, <2>3 DEF Lefts, ConfigChanges, TypeOK, opVars, hookVars, tailVars
<1> QED BY <1>1, <1>2, <1>3, <1>4, <1>5

LEMMA AdmitTyped ==
  ASSUME TypeOK, NEW o \in Op, NEW kind, kind = "prompt" \/ kind = "interrupt" \/ kind = "replace",
         NEW a \in Agent \cup {None}, NEW key \in Relay \cup {None}, Admit(o, kind, a, key)
  PROVE  TypeOK'
<1>1. a \in Agent
  BY DEF Admit
<1>2. NewOperation(kind, a, key) \in Operations
  BY <1>1 DEF NewOperation, Operations
<1>3. op' \in [Op -> {None} \cup Operations]
  BY <1>2, OneChanges DEF Admit
<1> QED BY <1>3 DEF Admit, TypeOK, envVars, hookVars, tailVars

LEMMA AdmissionsTyped ==
  ASSUME TypeOK, NEW o \in Op, AgentPromptAsync(o) \/ AgentInterruptAsync(o)
  PROVE  TypeOK'
<1>1. CASE AgentPromptAsync(o)
  <2>1. PICK requested \in Agent \cup {None} :
          Admit(o, "prompt", resolveCanonicalAgent(requested), None)
    BY <1>1 DEF AgentPromptAsync
  <2> QED BY <2>1, CanonicalAgent, AdmitTyped
<1>2. CASE AgentInterruptAsync(o)
  <2>1. PICK requested \in Agent \cup {None}, kind \in {"interrupt", "replace"} :
          LET a == resolveCanonicalInterruptAgent(requested)
          IN  a # None /\ Admit(o, kind, a, agents[a].key)
    BY <1>2 DEF AgentInterruptAsync
  <2> DEFINE a == resolveCanonicalInterruptAgent(requested)
  <2>2. a \in Agent
    BY <2>1, CanonicalInterruptAgent DEF TypeOK
  <2>3. agents[a].key \in Relay \cup {None}
    BY <2>2 DEF TypeOK, AgentRecord
  <2> HIDE DEF a
  <2>4. Admit(o, kind, a, agents[a].key)
    BY <2>1 DEF a
  <2>5. kind = "interrupt" \/ kind = "replace"
    OBVIOUS
  <2> QED BY <2>2, <2>3, <2>4, <2>5, AdmitTyped
<1> QED BY <1>1, <1>2

\* A step of an executor changes its Operation, its receipt, the relay, the
\* bounds, the history and the end of the epoch table, and nothing else.
OpFrame == UNCHANGED <<agents, config, mix, up, hook, worker, text, reader>>

LEMMA OpFrameTyped ==
  ASSUME TypeOK, OpFrame,
         op' \in [Op -> {None} \cup Operations],
         relay' \in [Relay -> {"idle", "running", "gone"}],
         receipt' \in [Op -> {None, "interrupt_acknowledged", "completed"}],
         epoch' \in Seq(EpochRecord), Len(epoch') <= MaxEpochs,
         left' \in Lefts, hist' \in Histories
  PROVE  TypeOK'
BY DEF OpFrame, TypeOK, Lefts

LEMMA Kept ==
  ASSUME TypeOK
  PROVE  /\ relay \in [Relay -> {"idle", "running", "gone"}]
         /\ receipt \in [Op -> {None, "interrupt_acknowledged", "completed"}]
         /\ epoch \in Seq(EpochRecord) /\ Len(epoch) <= MaxEpochs
         /\ left \in Lefts /\ hist \in Histories
BY DEF TypeOK, Lefts

LEMMA StartTyped == ASSUME TypeOK, NEW o \in Op, ExecuteStarts(o) PROVE TypeOK'
<1>1. /\ op[o] # None
      /\ op' = [op EXCEPT ![o] = [op[o] EXCEPT !.status = "running", !.pc = "start"]]
      /\ OpFrame /\ UNCHANGED <<relay, receipt, epoch, left, hist>>
  BY DEF ExecuteStarts, envVars, hookVars, tailVars, OpFrame
<1>2. [op[o] EXCEPT !.status = "running", !.pc = "start"] \in Operations
  BY <1>1, OperationTyped, Fields
<1>3. op' \in [Op -> {None} \cup Operations]
  BY <1>1, <1>2, OneChanges
<1> QED BY <1>1, <1>3, Kept, OpFrameTyped

LEMMA EndTyped == ASSUME TypeOK, NEW o \in Op, ExecuteEnds(o) PROVE TypeOK'
<1>1. /\ op[o] # None
      /\ op' = [op EXCEPT ![o] = [op[o] EXCEPT !.status = "completed"]]
      /\ OpFrame /\ UNCHANGED <<relay, receipt, epoch, left, hist>>
  BY DEF ExecuteEnds, At, envVars, hookVars, tailVars, OpFrame
<1>2. [op[o] EXCEPT !.status = "completed"] \in Operations
  BY <1>1, OperationTyped, Fields
<1>3. op' \in [Op -> {None} \cup Operations]
  BY <1>1, <1>2, OneChanges
<1> QED BY <1>1, <1>3, Kept, OpFrameTyped

LEMMA AfterSendPc == ASSUME NEW o PROVE AfterSend(o) \in Pcs
BY DEF AfterSend, Pcs

LEMMA ResolvesTyped == ASSUME TypeOK, NEW o \in Op, SendResolves(o) PROVE TypeOK'
<1> DEFINE k == resolveAgentSession(op[o].agent)
<1>1. /\ op[o] # None
      /\ \/ GoWith(o, AfterSend(o), op[o].intr, "failed")
         \/ op' = [op EXCEPT ![o] = [op[o] EXCEPT !.pc = "send", !.target = k]]
      /\ OpFrame /\ UNCHANGED <<relay, receipt, epoch, left, hist>>
  BY DEF SendResolves, At, envVars, hookVars, tailVars, OpFrame
<1>2. op[o] \in Operations
  BY <1>1, OperationTyped
<1>3. op[o].intr \in Outcomes /\ op[o].agent \in Agent
  BY <1>2 DEF Operations, Outcomes
<1>4. k \in Relay \cup {None}
  BY <1>3, SessionTyped DEF TypeOK
<1> HIDE DEF k
<1>5. "send" \in Pcs /\ "failed" \in Sent
  BY DEF Pcs, Sent
<1>6. [op[o] EXCEPT !.pc = "send", !.target = k] \in Operations
  BY <1>2, <1>4, <1>5, Fields
<1>7. op' \in [Op -> {None} \cup Operations]
  BY <1>1, <1>3, <1>5, <1>6, AfterSendPc, GoWithTyped, OneChanges
<1> QED BY <1>1, <1>7, Kept, OpFrameTyped

LEMMA PromptTyped == ASSUME TypeOK, NEW o \in Op, PromptWithProvenance(o) PROVE TypeOK'
<1> DEFINE k == op[o].target
           h == [hist EXCEPT !.sent[o] = @ + 1]
<1>1. /\ op[o] # None
      /\ Go(o, "arm") \/ GoWith(o, AfterSend(o), op[o].intr, "failed")
      /\ left' = left \/ (left.faults > 0 /\ left' = [left EXCEPT !.faults = @ - 1])
      /\ \/ relay' = [relay EXCEPT ![k] = "running"] /\ hist' = Worked(h, k, "busy")
         \/ UNCHANGED <<relay, hist>>
      /\ OpFrame /\ UNCHANGED <<receipt, epoch>>
  BY DEF PromptWithProvenance, At, envVars, hookVars, tailVars, OpFrame
<1>2. op[o] \in Operations
  BY <1>1, OperationTyped
<1>3. op[o].intr \in Outcomes
  BY <1>2 DEF Operations, Outcomes
<1>4. "arm" \in Pcs /\ "failed" \in Sent
  BY DEF Pcs, Sent
<1>5. op' \in [Op -> {None} \cup Operations]
  BY <1>1, <1>3, <1>4, AfterSendPc, GoTyped, GoWithTyped
<1>6. left' \in Lefts
  BY <1>1, Kept, LeftFields
<1>7. h \in Histories
  BY Kept, HistoryFields
<1> HIDE DEF h, k
<1>8. hist' \in Histories
  BY <1>1, <1>7, Kept, WorkedIs
<1>9. relay' \in [Relay -> {"idle", "running", "gone"}]
  BY <1>1, Kept
<1> QED BY <1>1, <1>5, <1>6, <1>8, <1>9, Kept, OpFrameTyped

\* Arming adds an epoch that has seen nothing yet.
LEMMA NewEpochTyped == ASSUME NEW k \in Relay PROVE NewEpoch(k) \in EpochRecord
BY DEF NewEpoch, EpochRecord

LEMMA Appended ==
  ASSUME epoch \in Seq(EpochRecord), NEW r \in EpochRecord
  PROVE  /\ Append(epoch, r) \in Seq(EpochRecord)
         /\ Len(Append(epoch, r)) = Len(epoch) + 1
         /\ \A e \in 1..Len(epoch) : Append(epoch, r)[e] = epoch[e]
         /\ Append(epoch, r)[Len(epoch) + 1] = r
BY AppendProperties

LEMMA ArmTyped ==
  ASSUME TypeOK, NEW o \in Op, armAgentWorkFinished(o), op[o].target # None
  PROVE  TypeOK'
<1> DEFINE k == op[o].target
           n == Len(epoch) + 1
<1>1. /\ op[o] # None
      /\ GoWith(o, AfterSend(o), op[o].intr, "delivered")
      /\ \/ Len(epoch) < MaxEpochs /\ ArmCallbackEpoch(k)
         \/ UNCHANGED <<epoch, hist>>
      /\ OpFrame /\ UNCHANGED <<relay, receipt, left>>
  BY DEF armAgentWorkFinished, At, envVars, tailVars, OpFrame
<1>2. op[o] \in Operations
  BY <1>1, OperationTyped
<1>3. op[o].intr \in Outcomes /\ k \in Relay
  BY <1>2 DEF Operations, Outcomes
<1>4. "delivered" \in Sent
  BY DEF Sent
<1>5. op' \in [Op -> {None} \cup Operations]
  BY <1>1, <1>3, <1>4, AfterSendPc, GoWithTyped
<1> HIDE DEF k
<1>6. CASE Len(epoch) < MaxEpochs /\ ArmCallbackEpoch(k)
  <2>1. epoch' \in Seq(EpochRecord) /\ Len(epoch') = Len(epoch) + 1
    BY <1>3, <1>6, Kept, NewEpochTyped, Appended DEF ArmCallbackEpoch
  <2>2. Len(epoch) \in Nat
    BY Kept, LenProperties
  <2>3. n \in Epochs /\ Len(epoch') <= MaxEpochs
    BY <1>6, <2>1, <2>2, AgentTurnsAssumption DEF Epochs
  <2>4. hist' = [hist EXCEPT !.worked[n] = IF relay[k] = "running" THEN "busy" ELSE "no"]
    BY <1>6 DEF ArmCallbackEpoch
  <2>5. hist' \in Histories
    BY <2>3, <2>4, Kept, HistoryFields
  <2> QED BY <1>1, <1>5, <2>1, <2>3, <2>5, Kept, OpFrameTyped
<1>7. CASE UNCHANGED <<epoch, hist>>
  BY <1>1, <1>5, <1>7, Kept, OpFrameTyped
<1> QED BY <1>1, <1>6, <1>7

LEMMA ReadsTyped == ASSUME TypeOK, NEW o \in Op, InterruptReads(o) PROVE TypeOK'
<1>1. /\ op[o] # None
      /\ \/ Go(o, "done") \/ Go(o, "replace") \/ Go(o, "status")
         \/ GoWith(o, "receipt", "stale_execution", None)
      /\ OpFrame /\ UNCHANGED <<relay, receipt, epoch, left, hist>>
  BY DEF InterruptReads, At, envVars, hookVars, tailVars, OpFrame
<1>2. {"done", "replace", "status", "receipt"} \subseteq Pcs /\ "stale_execution" \in Outcomes
      /\ None \in Sent
  BY DEF Pcs, Outcomes, Sent
<1>3. op' \in [Op -> {None} \cup Operations]
  BY <1>1, <1>2, GoTyped, GoWithTyped
<1> QED BY <1>1, <1>3, Kept, OpFrameTyped

LEMMA NotSubmittedIn == ASSUME NEW o PROVE NotSubmitted(o) \in Sent
BY DEF NotSubmitted, Sent

LEMMA ChecksTyped == ASSUME TypeOK, NEW o \in Op, InterruptChecksStatus(o) PROVE TypeOK'
<1>1. /\ op[o] # None
      /\ \/ GoWith(o, "replace", "already_idle", None)
         \/ GoWith(o, "receipt", "already_idle", None)
         \/ Go(o, "interrupt")
         \/ GoWith(o, "receipt", "failed", NotSubmitted(o))
      /\ hist' = [hist EXCEPT !.quiet[o] = TRUE] \/ UNCHANGED hist
      /\ OpFrame /\ UNCHANGED <<relay, receipt, epoch, left>>
  BY DEF InterruptChecksStatus, At, envVars, hookVars, tailVars, OpFrame
<1>2. {"replace", "receipt", "interrupt"} \subseteq Pcs /\ {"already_idle", "failed"} \subseteq Outcomes
      /\ None \in Sent
  BY DEF Pcs, Outcomes, Sent
<1>3. op' \in [Op -> {None} \cup Operations]
  BY <1>1, <1>2, NotSubmittedIn, GoTyped, GoWithTyped
<1>4. hist' \in Histories
  BY <1>1, Kept, HistoryFields
<1> QED BY <1>1, <1>3, <1>4, Kept, OpFrameTyped

LEMMA StopsTyped ==
  ASSUME TypeOK, NEW o \in Op, NEW k, Stops(o, k)
  PROVE  relay' \in [Relay -> {"idle", "running", "gone"}] /\ hist' \in Histories
<1> DEFINE h == [hist EXCEPT !.stopped[o] = @ + 1]
<1>1. h \in Histories
  BY Kept, HistoryFields
<1> HIDE DEF h
<1>2. relay' = [relay EXCEPT ![k] = "idle"] /\ hist' = Worked(h, k, "ended")
  BY DEF Stops, h
<1> QED BY <1>1, <1>2, Kept, WorkedIs

LEMMA InterruptTyped == ASSUME TypeOK, NEW o \in Op, Interrupt(o) PROVE TypeOK'
<1> DEFINE k == op[o].key
<1>1. /\ op[o] # None
      /\ \/ AfterInterrupt(o, "interrupt_acknowledged") \/ AfterInterrupt(o, "already_idle")
         \/ AfterInterrupt(o, "timed_out") \/ AfterInterrupt(o, "failed")
      /\ Stops(o, k) \/ UNCHANGED <<relay, hist>>
      /\ left' = left \/ (left.faults > 0 /\ left' = [left EXCEPT !.faults = @ - 1])
      /\ OpFrame /\ UNCHANGED <<receipt, epoch>>
  BY DEF Interrupt, At, envVars, hookVars, tailVars, OpFrame
<1>2. {"acknowledge", "receipt"} \subseteq Pcs /\ None \in Sent
      /\ {"interrupt_acknowledged", "already_idle", "timed_out", "failed"} \subseteq Outcomes
  BY DEF Pcs, Outcomes, Sent
<1>3. op' \in [Op -> {None} \cup Operations]
  BY <1>1, <1>2, NotSubmittedIn, GoWithTyped DEF AfterInterrupt
<1>4. left' \in Lefts
  BY <1>1, Kept, LeftFields
<1>5. relay' \in [Relay -> {"idle", "running", "gone"}] /\ hist' \in Histories
  BY <1>1, Kept, StopsTyped
<1> QED BY <1>1, <1>3, <1>4, <1>5, Kept, OpFrameTyped

LEMMA PersistTyped ==
  ASSUME TypeOK, NEW o \in Op, op[o] # None,
         NEW phase, phase = "interrupt_acknowledged" \/ phase = "completed",
         NEW next \in Pcs, PersistReceipt(o, phase, next)
  PROVE  TypeOK'
<1>1. /\ \/ receipt' = [receipt EXCEPT ![o] = phase] /\ left' = left /\ Go(o, next)
         \/ /\ left.faults > 0 /\ left' = [left EXCEPT !.faults = @ - 1]
            /\ op' = [op EXCEPT ![o] = [op[o] EXCEPT !.status = "failed"]] /\ UNCHANGED receipt
      /\ OpFrame /\ UNCHANGED <<relay, epoch, hist>>
  BY DEF PersistReceipt, envVars, hookVars, tailVars, OpFrame
<1>2. [op[o] EXCEPT !.status = "failed"] \in Operations
  BY OperationTyped, Fields
<1>3. op' \in [Op -> {None} \cup Operations]
  BY <1>1, <1>2, GoTyped, OneChanges
<1>4. left' \in Lefts
  BY <1>1, Kept, LeftFields
<1>5. receipt' \in [Op -> {None, "interrupt_acknowledged", "completed"}]
  BY <1>1, Kept
<1> QED BY <1>1, <1>3, <1>4, <1>5, Kept, OpFrameTyped

LEMMA OpStepTyped ==
  ASSUME TypeOK, ReceiptBinds, NEW o \in Op, OpStep(o)
  PROVE  TypeOK'
<1>1. CASE InterruptAcknowledged(o)
  BY <1>1, PersistTyped DEF InterruptAcknowledged, At, Pcs
<1>2. CASE finishAgentInterrupt(o)
  BY <1>2, PersistTyped DEF finishAgentInterrupt, At, Pcs
<1>3. CASE armAgentWorkFinished(o)
  <2>1. op[o].target # None
    BY <1>3 DEF ReceiptBinds, Bound, armAgentWorkFinished, At, Steps
  <2> QED BY <1>3, <2>1, ArmTyped
<1> QED
  BY <1>1, <1>2, <1>3, StartTyped, EndTyped, ResolvesTyped, PromptTyped, ReadsTyped, ChecksTyped,
     InterruptTyped DEF OpStep, AgentInterrupt, AgentSend

\* A step of the Hook worker or of a Hook's Procedure.
HookFrame == UNCHANGED <<agents, config, mix, relay, op, receipt, text, reader>>
WorkerTyped ==
    worker \in [pc : {"wait", "next", "observe", "dispatch", "write"}, page : SUBSET Epochs,
                sample : {None, "idle", "running", "error"}]

LEMMA HookFrameTyped ==
  ASSUME TypeOK, HookFrame, up' \in BOOLEAN,
         epoch' \in Seq(EpochRecord), Len(epoch') = Len(epoch),
         hook' \in [Epochs -> HookStates], WorkerTyped', left' \in Lefts, hist' \in Histories
  PROVE  TypeOK'
BY DEF HookFrame, TypeOK, Lefts, WorkerTyped

LEMMA HookKept ==
  ASSUME TypeOK
  PROVE  hook \in [Epochs -> HookStates] /\ WorkerTyped /\ up \in BOOLEAN
BY DEF TypeOK, WorkerTyped

LEMMA EpochChanges ==
  ASSUME epoch \in Seq(EpochRecord), NEW e \in DOMAIN epoch, NEW r \in EpochRecord
  PROVE  /\ [epoch EXCEPT ![e] = r] \in Seq(EpochRecord)
         /\ Len([epoch EXCEPT ![e] = r]) = Len(epoch)
BY ExceptSeq

LEMMA EpochIn ==
  ASSUME TypeOK, NEW e \in DOMAIN epoch
  PROVE  e \in Epochs /\ e \in 1..Len(epoch) /\ epoch[e] \in EpochRecord
<1>1. epoch \in Seq(EpochRecord) /\ Len(epoch) <= MaxEpochs
  BY DEF TypeOK
<1>2. Len(epoch) \in Nat /\ DOMAIN epoch = 1..Len(epoch)
  BY <1>1, LenProperties
<1>3. epoch[e] \in EpochRecord
  BY <1>1, <1>2, ElementOfSeq
<1> QED BY <1>1, <1>2, <1>3, AgentTurnsAssumption DEF Epochs

LEMMA EpochFields ==
  ASSUME NEW r \in EpochRecord
  PROVE  /\ \A s : Observed(r, s) \in EpochRecord
         /\ [r EXCEPT !.emitted = TRUE, !.outcome = "unbound"] \in EpochRecord
         /\ \A n \in Nat : [r EXCEPT !.emitted = TRUE, !.outcome = "pending", !.rev = n] \in EpochRecord
         /\ \A s \in Terminal : [r EXCEPT !.outcome = s] \in EpochRecord
<1>1. ASSUME NEW s PROVE Observed(r, s) \in EpochRecord
  <2>1. \A n \in 0..2 : /\ [r EXCEPT !.busy = TRUE, !.idle = n] \in EpochRecord
                        /\ [r EXCEPT !.idle = n] \in EpochRecord
    BY DEF EpochRecord
  <2> DEFINE n == IF r.idle < 2 THEN r.idle + 1 ELSE r.idle
  <2>2. n \in 0..2 /\ 0 \in 0..2
    BY DEF EpochRecord
  <2>3. Observed(r, s) \in {[r EXCEPT !.busy = TRUE, !.idle = 0], [r EXCEPT !.idle = n], r,
                           [r EXCEPT !.idle = 0]}
    BY DEF Observed
  <2> HIDE DEF n
  <2> QED BY <2>1, <2>2, <2>3
<1>2. /\ [r EXCEPT !.emitted = TRUE, !.outcome = "unbound"] \in EpochRecord
      /\ \A n \in Nat : [r EXCEPT !.emitted = TRUE, !.outcome = "pending", !.rev = n] \in EpochRecord
      /\ \A s \in Terminal : [r EXCEPT !.outcome = s] \in EpochRecord
  BY DEF EpochRecord, Terminal
<1> QED BY <1>1, <1>2

LEMMA CurrentEpoch ==
  ASSUME TypeOK, Turn, worker.pc # "wait"
  PROVE  Current \in worker.page /\ Current \in DOMAIN epoch /\ Current \in Epochs
<1>1. worker.page \in SUBSET Epochs
  BY DEF TypeOK
<1> QED BY <1>1, CurrentIn, EpochIn DEF Turn

LEMMA AdvanceTyped ==
  ASSUME TypeOK, worker' = Advance
  PROVE  WorkerTyped'
BY DEF TypeOK, Advance, WorkerTyped

LEMMA PollsTyped == ASSUME TypeOK, WorkerPolls PROVE TypeOK'
<1>1. PendingCallbackEpochs \subseteq Epochs
  BY EpochIn DEF PendingCallbackEpochs, Pending
<1>2. WorkerTyped'
  BY <1>1 DEF WorkerPolls, WorkerTyped
<1>3. HookFrame /\ UNCHANGED <<up, epoch, hook, left, hist>>
  BY DEF WorkerPolls, envVars, opVars, tailVars, HookFrame
<1> QED BY <1>2, <1>3, Kept, HookKept, HookFrameTyped

LEMMA SamplesTyped == ASSUME TypeOK, Turn, WorkerSamples PROVE TypeOK'
<1> DEFINE s == Status(epoch[Current].key)
<1>1. /\ worker.pc = "next"
      /\ \/ worker' = [worker EXCEPT !.pc = "observe", !.sample = s] /\ left' = left
         \/ worker' = Advance /\ left.faults > 0 /\ left' = [left EXCEPT !.faults = @ - 1]
      /\ HookFrame /\ UNCHANGED <<up, epoch, hook, hist>>
  BY DEF WorkerSamples, envVars, opVars, tailVars, HookFrame
<1>2. epoch[Current].key \in Relay
  BY <1>1, CurrentEpoch, EpochIn DEF EpochRecord
<1>3. s \in {"idle", "running", "error"}
  BY <1>2 DEF TypeOK, Status
<1> HIDE DEF s
<1>4. WorkerTyped'
  BY <1>1, <1>3, AdvanceTyped, HookKept DEF WorkerTyped
<1>5. left' \in Lefts
  BY <1>1, Kept, LeftFields
<1> QED BY <1>1, <1>4, <1>5, Kept, HookKept, HookFrameTyped

LEMMA ObserveTyped == ASSUME TypeOK, Turn, ObserveCallbackEpoch PROVE TypeOK'
<1> DEFINE rec == Observed(epoch[Current], worker.sample)
<1>1. /\ worker.pc = "observe" /\ epoch' = [epoch EXCEPT ![Current] = rec]
      /\ worker' = [worker EXCEPT !.pc = "dispatch"] \/ worker' = Advance
      /\ HookFrame /\ UNCHANGED <<up, hook, left, hist>>
  BY DEF ObserveCallbackEpoch, envVars, opVars, tailVars, HookFrame
<1>2. Current \in DOMAIN epoch /\ rec \in EpochRecord
  BY <1>1, CurrentEpoch, EpochIn, EpochFields
<1> HIDE DEF rec
<1>3. epoch' \in Seq(EpochRecord) /\ Len(epoch') = Len(epoch)
  BY <1>1, <1>2, Kept, EpochChanges
<1>4. WorkerTyped'
  BY <1>1, AdvanceTyped, HookKept DEF WorkerTyped
<1> QED BY <1>1, <1>3, <1>4, Kept, HookKept, HookFrameTyped

LEMMA DispatchTyped == ASSUME TypeOK, Turn, DispatchHook PROVE TypeOK'
<1>1. /\ worker.pc = "dispatch"
      /\ \/ epoch' = [epoch EXCEPT ![Current] = [epoch[Current] EXCEPT
                        !.emitted = TRUE, !.outcome = "pending", !.rev = config.rev]]
         \/ epoch' = [epoch EXCEPT ![Current] = [epoch[Current] EXCEPT
                        !.emitted = TRUE, !.outcome = "unbound"]]
         \/ UNCHANGED epoch
      /\ worker' = [worker EXCEPT !.pc = "write"] \/ worker' = Advance
      /\ HookFrame /\ UNCHANGED <<up, hook, left, hist>>
  BY DEF DispatchHook, envVars, opVars, tailVars, HookFrame, AllocateCallbackEpochOperation,
         ClaimCallbackEpochWithoutHook
<1>2. Current \in DOMAIN epoch /\ epoch[Current] \in EpochRecord /\ config.rev \in Nat
  BY <1>1, CurrentEpoch, EpochIn DEF TypeOK
<1>3. epoch' \in Seq(EpochRecord) /\ Len(epoch') = Len(epoch)
  <2>1. PICK r \in EpochRecord : epoch' = [epoch EXCEPT ![Current] = r] \/ UNCHANGED epoch
    BY <1>1, <1>2, EpochFields
  <2> QED BY <1>2, <2>1, Kept, EpochChanges
<1>4. WorkerTyped'
  BY <1>1, AdvanceTyped, HookKept DEF WorkerTyped
<1> QED BY <1>1, <1>3, <1>4, Kept, HookKept, HookFrameTyped

LEMMA WriteTyped == ASSUME TypeOK, Turn, WriteHookOperation PROVE TypeOK'
<1>1. /\ worker.pc = "write" /\ worker' = Advance
      /\ \/ hook' = [hook EXCEPT ![Current] = "accepted"]
         \/ hook' = [hook EXCEPT ![Current] = "outcome_unknown"]
         \/ UNCHANGED hook
      /\ \/ UNCHANGED epoch
         \/ epoch' = [epoch EXCEPT ![Current] = [epoch[Current] EXCEPT !.outcome = "outcome_unknown"]]
      /\ left' = left \/ (left.faults > 0 /\ left' = [left EXCEPT !.faults = @ - 1])
      /\ HookFrame /\ UNCHANGED <<up, hist>>
  BY DEF WriteHookOperation, envVars, opVars, tailVars, HookFrame,
         RecordCallbackEpochOperationOutcome
<1>2. Current \in DOMAIN epoch /\ epoch[Current] \in EpochRecord /\ Current \in Epochs
  BY <1>1, CurrentEpoch, EpochIn
<1>3. "outcome_unknown" \in Terminal
  BY DEF Terminal
<1>4. epoch' \in Seq(EpochRecord) /\ Len(epoch') = Len(epoch)
  <2>1. PICK r \in EpochRecord : epoch' = [epoch EXCEPT ![Current] = r] \/ UNCHANGED epoch
    BY <1>1, <1>2, <1>3, EpochFields
  <2> QED BY <1>2, <2>1, Kept, EpochChanges
<1>5. hook' \in [Epochs -> HookStates]
  BY <1>1, <1>2, HookKept DEF HookStates, Terminal
<1>6. left' \in Lefts
  BY <1>1, Kept, LeftFields
<1> QED BY <1>1, <1>4, <1>5, <1>6, AdvanceTyped, Kept, HookKept, HookFrameTyped

LEMMA HookStepTyped == ASSUME TypeOK, Told, NEW e \in Epochs, HookStep(e) PROVE TypeOK'
<1>0. HookFrame /\ UNCHANGED <<up, worker, left>>
  BY DEF HookStep, HookStarts, HookRefused, HookLaunches, HookEnds, HookRecords, HookFrame,
         envVars, opVars, tailVars
<1>1. /\ hist' = [hist EXCEPT !.runs[e] = @ + 1] \/ UNCHANGED hist
      /\ (\E s \in HookStates : hook' = [hook EXCEPT ![e] = s]) \/ UNCHANGED hook
      /\ \/ UNCHANGED epoch
         \/ hook[e] \in Terminal /\ epoch' = [epoch EXCEPT ![e] = [epoch[e] EXCEPT !.outcome = hook[e]]]
  <2>1. Terminal \cup {"running", "launched", "failed"} \subseteq HookStates
    BY DEF HookStates, Terminal
  <2>2. CASE HookStarts(e) \/ HookRefused(e)
    BY <2>1, <2>2 DEF HookStarts, HookRefused
  <2>3. CASE HookLaunches(e)
    BY <2>1, <2>3 DEF HookLaunches
  <2>4. CASE HookEnds(e)
    BY <2>1, <2>4 DEF HookEnds
  <2>5. CASE HookRecords(e)
    BY <2>5 DEF HookRecords, RecordCallbackEpochOperationOutcome
  <2> QED BY <2>2, <2>3, <2>4, <2>5 DEF HookStep
<1>2. hist' \in Histories
  <2>1. hist \in Histories /\ (hist' = [hist EXCEPT !.runs[e] = @ + 1] \/ hist' = hist)
    BY <1>1, Kept
  <2>2. [hist EXCEPT !.runs[e] = @ + 1] \in Histories
    BY <2>1, HistoryFields
  <2> QED BY <2>1, <2>2
<1>3. hook' \in [Epochs -> HookStates]
  BY <1>1, HookKept
<1>4. epoch' \in Seq(EpochRecord) /\ Len(epoch') = Len(epoch)
  <2>1. CASE hook[e] \in Terminal /\ epoch' = [epoch EXCEPT ![e] = [epoch[e] EXCEPT !.outcome = hook[e]]]
    <3>1. e \in DOMAIN epoch
      BY <2>1 DEF Told, Terminal
    <3> QED BY <2>1, <3>1, Kept, EpochIn, EpochChanges, EpochFields
  <2> QED BY <1>1, <2>1, Kept
<1>5. WorkerTyped'
  BY <1>0, HookKept DEF WorkerTyped
<1> QED BY <1>0, <1>2, <1>3, <1>4, <1>5, Kept, HookKept, HookFrameTyped

LEMMA CrashTyped == ASSUME TypeOK, Crash PROVE TypeOK'
<1>1. /\ HookFrame /\ UNCHANGED <<epoch, hook, hist>> /\ up' = FALSE
      /\ left.crashes > 0 /\ left' = [left EXCEPT !.crashes = @ - 1]
      /\ worker' = [pc |-> "wait", page |-> {}, sample |-> None]
  BY DEF Crash, envVars, opVars, tailVars, HookFrame
<1>2. left' \in Lefts
  BY <1>1, Kept, LeftFields
<1>3. WorkerTyped'
  BY <1>1 DEF WorkerTyped
<1> QED BY <1>1, <1>2, <1>3, Kept, HookKept, HookFrameTyped

\* A start-up writes every epoch of the table again, in its place.
RestartedEpoch(e) ==
    IF RecoveredHook(hook[e]) \in Terminal
    THEN [epoch[e] EXCEPT !.outcome = RecoveredHook(hook[e])] ELSE epoch[e]

LEMMA RestartIs ==
  ASSUME TypeOK, Restart
  PROVE  /\ ~up /\ up' = TRUE
         /\ \A o \in Op : op'[o] = IF op[o] # None /\ op[o].status = "running"
                                   THEN [op[o] EXCEPT !.status = "accepted"] ELSE op[o]
         /\ \A e \in Epochs : hook'[e] = RecoveredHook(hook[e])
         /\ epoch' \in Seq(EpochRecord) /\ Len(epoch') = Len(epoch) /\ DOMAIN epoch' = DOMAIN epoch
         /\ \A e \in DOMAIN epoch : epoch'[e] = RestartedEpoch(e)
         /\ UNCHANGED <<agents, config, mix, relay, receipt, worker, text, reader, left, hist>>
<1>1. epoch' = [e \in DOMAIN epoch |-> RestartedEpoch(e)]
  BY DEF Restart, RestartedEpoch
<1>2. DOMAIN epoch = 1..Len(epoch) /\ Len(epoch) \in Nat
  BY Kept, LenProperties
<1>3. ASSUME NEW e \in DOMAIN epoch PROVE RestartedEpoch(e) \in EpochRecord
  BY <1>3, EpochIn, EpochFields DEF RestartedEpoch
<1>4. epoch' \in Seq(EpochRecord) /\ Len(epoch') = Len(epoch) /\ DOMAIN epoch' = DOMAIN epoch
  <2>1. epoch' = [e \in 1..Len(epoch) |-> RestartedEpoch(e)]
    BY <1>1, <1>2
  <2>2. \A e \in 1..Len(epoch) : RestartedEpoch(e) \in EpochRecord
    BY <1>2, <1>3
  <2>3. epoch' \in Seq(EpochRecord)
    BY <1>2, <2>1, <2>2, IsASeq
  <2> QED BY <1>1, <1>2, <2>1, <2>3, LenProperties
<1>5. \A e \in DOMAIN epoch : epoch'[e] = RestartedEpoch(e)
  BY <1>1
<1> QED BY <1>4, <1>5 DEF Restart, envVars, tailVars

LEMMA RestartTyped == ASSUME TypeOK, Restart PROVE TypeOK'
<1>1. op' \in [Op -> {None} \cup Operations]
  <2>1. ASSUME NEW o \in Op, op[o] # None PROVE [op[o] EXCEPT !.status = "accepted"] \in Operations
    BY <2>1, OperationTyped, Fields
  <2>2. \A o \in Op : op[o] \in {None} \cup Operations
    BY DEF TypeOK
  <2>3. op' = [o \in Op |-> IF op[o] # None /\ op[o].status = "running"
                            THEN [op[o] EXCEPT !.status = "accepted"] ELSE op[o]]
    BY DEF Restart
  <2> QED BY <2>1, <2>2, <2>3
<1>2. hook' \in [Epochs -> HookStates]
  <2>1. ASSUME NEW s \in HookStates PROVE RecoveredHook(s) \in HookStates
    BY DEF RecoveredHook, HookStates, Terminal
  <2>2. hook' = [e \in Epochs |-> RecoveredHook(hook[e])]
    BY DEF Restart
  <2> QED BY <2>1, <2>2, HookKept
<1>3. WorkerTyped'
  BY RestartIs, HookKept DEF WorkerTyped
<1> QED BY <1>1, <1>2, <1>3, RestartIs, HookKept, Kept DEF TypeOK, WorkerTyped, Lefts

-----------------------------------------------------------------------------
(* The transcript tail.                                                    *)

LEMMA Rest ==
  ASSUME NEW s \in Seq(Nat), NEW c \in 0..Len(s)
  PROVE  /\ SubSeq(s, c + 1, Len(s)) \in Seq(Nat) /\ Len(SubSeq(s, c + 1, Len(s))) = Len(s) - c
         /\ \A i \in 1..(Len(s) - c) : SubSeq(s, c + 1, Len(s))[i] = s[c + i]
<1>1. Len(s) \in Nat /\ c \in Nat /\ c <= Len(s)
  BY LenProperties
<1>2. \A i \in (c + 1)..Len(s) : s[i] \in Nat
  BY <1>1, ElementOfSeq
<1>3. c + 1 \in Int /\ Len(s) \in Int /\ Len(s) - (c + 1) + 1 = Len(s) - c
      /\ (IF c + 1 <= Len(s) THEN Len(s) - (c + 1) + 1 ELSE 0) = Len(s) - c
      /\ \A i \in 1..(Len(s) - c) : (c + 1) + i - 1 = c + i
  BY <1>1
<1> DEFINE m == c + 1
<1>4. m \in Int /\ Len(s) \in Int /\ \A i \in m..Len(s) : s[i] \in Nat
  BY <1>2, <1>3
<1> HIDE DEF m
<1>5. /\ SubSeq(s, m, Len(s)) \in Seq(Nat)
      /\ Len(SubSeq(s, m, Len(s))) = IF m <= Len(s) THEN Len(s) - m + 1 ELSE 0
      /\ \A i \in 1..(Len(s) - m + 1) : SubSeq(s, m, Len(s))[i] = s[m + i - 1]
  BY <1>4, SubSeqProperties
<1> QED BY <1>3, <1>5 DEF m

LEMMA Pieces ==
  ASSUME NEW s \in Seq(Nat), NEW c \in 0..Len(s)
  PROVE  /\ SubSeq(s, 1, c) \in Seq(Nat) /\ SubSeq(s, c + 1, Len(s)) \in Seq(Nat)
         /\ ToSet(s) \subseteq ToSet(SubSeq(s, 1, c)) \cup ToSet(SubSeq(s, c + 1, Len(s)))
<1>1. Len(s) \in Nat /\ DOMAIN s = 1..Len(s)
  BY LenProperties
<1>2. /\ SubSeq(s, 1, c) \in Seq(Nat) /\ Len(SubSeq(s, 1, c)) = c
      /\ \A i \in 1..c : SubSeq(s, 1, c)[i] = s[i]
  BY <1>1, SubSeqProperties
<1>3. /\ SubSeq(s, c + 1, Len(s)) \in Seq(Nat) /\ Len(SubSeq(s, c + 1, Len(s))) = Len(s) - c
      /\ \A i \in 1..(Len(s) - c) : SubSeq(s, c + 1, Len(s))[i] = s[c + i]
  BY Rest
<1>4. ASSUME NEW i \in DOMAIN s
      PROVE  s[i] \in ToSet(SubSeq(s, 1, c)) \cup ToSet(SubSeq(s, c + 1, Len(s)))
  <2>1. CASE i <= c
    <3>1. i \in DOMAIN SubSeq(s, 1, c)
      BY <1>1, <1>2, <2>1, LenProperties
    <3> QED BY <1>1, <1>2, <2>1, <3>1 DEF ToSet
  <2>2. CASE i > c
    <3>1. i - c \in 1..(Len(s) - c) /\ c + (i - c) = i
      BY <1>1, <2>2
    <3>2. i - c \in DOMAIN SubSeq(s, c + 1, Len(s)) /\ SubSeq(s, c + 1, Len(s))[i - c] = s[i]
      BY <1>3, <3>1, LenProperties
    <3> QED BY <3>2 DEF ToSet
  <2> QED BY <1>1, <2>1, <2>2
<1> QED BY <1>2, <1>3, <1>4 DEF ToSet

LEMMA Joined ==
  ASSUME NEW s \in Seq(Nat), NEW u \in Seq(Nat)
  PROVE  s \o u \in Seq(Nat) /\ ToSet(s) \cup ToSet(u) \subseteq ToSet(s \o u)
<1>1. /\ s \o u \in Seq(Nat) /\ Len(s \o u) = Len(s) + Len(u)
      /\ \A i \in 1..(Len(s) + Len(u)) : (s \o u)[i] = IF i <= Len(s) THEN s[i] ELSE u[i - Len(s)]
  BY ConcatProperties
<1>2. /\ Len(s) \in Nat /\ Len(u) \in Nat /\ DOMAIN s = 1..Len(s) /\ DOMAIN u = 1..Len(u)
      /\ DOMAIN (s \o u) = 1..(Len(s) + Len(u))
  BY <1>1, LenProperties
<1>3. ASSUME NEW i \in DOMAIN s PROVE s[i] \in ToSet(s \o u)
  <2>1. i \in DOMAIN (s \o u) /\ (s \o u)[i] = s[i]
    BY <1>1, <1>2
  <2> QED BY <2>1 DEF ToSet
<1>4. ASSUME NEW i \in DOMAIN u PROVE u[i] \in ToSet(s \o u)
  <2>1. Len(s) + i \in 1..(Len(s) + Len(u)) /\ ~(Len(s) + i <= Len(s)) /\ (Len(s) + i) - Len(s) = i
    BY <1>2
  <2>2. Len(s) + i \in DOMAIN (s \o u) /\ (s \o u)[Len(s) + i] = u[i]
    BY <1>1, <1>2, <2>1
  <2> QED BY <2>2 DEF ToSet
<1> QED BY <1>1, <1>3, <1>4 DEF ToSet

LEMMA SetOfNats == ASSUME NEW s \in Seq(Nat) PROVE ToSet(s) \subseteq Nat
<1>1. \A i \in DOMAIN s : s[i] \in Nat
  BY ElementOfSeq, LenProperties
<1> QED BY <1>1 DEF ToSet

\* What the relay shows: the last lines it printed, up to the number asked.
Skipped(m) == IF lines > m THEN lines - m ELSE 0

LEMMA Snapshot ==
  ASSUME lines \in Nat, NEW m \in Nat, m > 0
  PROVE  /\ TailSnapshot(m) \in Seq(Nat) /\ Skipped(m) \in 0..lines
         /\ Len(TailSnapshot(m)) = lines - Skipped(m)
         /\ \A i \in 1..(lines - Skipped(m)) : TailSnapshot(m)[i] = Skipped(m) + i
         /\ \A i \in 1..lines : i > Skipped(m) => i \in ToSet(TailSnapshot(m))
         /\ IsSnapshot(TailSnapshot(m), lines)
         /\ TailSnapshot(m) = <<>> => lines = 0
         /\ TailSnapshot(m) # <<>> => Last(TailSnapshot(m)) = lines
<1> DEFINE s == TailSnapshot(m)
           lo == Skipped(m)
<1>1. lo \in 0..lines /\ (lines > 0 => lo < lines)
  BY DEF Skipped
<1>2. s = [i \in 1..(lines - lo) |-> lo + i]
  BY DEF TailSnapshot, Skipped
<1> HIDE DEF s, lo
<1>3. lines - lo \in Nat
  BY <1>1
<1>4. s \in Seq(Nat)
  <2>1. \A i \in 1..(lines - lo) : lo + i \in Nat
    BY <1>1
  <2> QED BY <1>2, <1>3, <2>1, IsASeq
<1>5. Len(s) = lines - lo /\ DOMAIN s = 1..(lines - lo)
  BY <1>2, <1>3, <1>4, LenProperties
<1>6. \A i \in 1..(lines - lo) : s[i] = lo + i
  BY <1>2
<1>7. ASSUME NEW i \in 1..lines, i > lo PROVE i \in ToSet(s)
  <2>1. i - lo \in 1..(lines - lo) /\ lo + (i - lo) = i
    BY <1>1, <1>7
  <2>2. i - lo \in DOMAIN s /\ s[i - lo] = i
    BY <1>5, <1>6, <2>1
  <2> QED BY <2>2 DEF ToSet
<1>8. IsSnapshot(s, lines)
  <2>1. s = [i \in 1..Len(s) |-> lo + i] /\ lo + Len(s) <= lines
    BY <1>1, <1>2, <1>5
  <2> QED BY <1>1, <2>1 DEF IsSnapshot
<1>9. s = <<>> => lines = 0
  BY <1>1, <1>5
<1>10. s # <<>> => Last(s) = lines
  <2>1. s # <<>> => lines - lo > 0
    BY <1>3, <1>4, <1>5, EmptySeq
  <2>2. lines - lo > 0 => s[lines - lo] = lines
    BY <1>1, <1>3, <1>6
  <2> QED BY <1>5, <2>1, <2>2 DEF Last
<1> QED BY <1>1, <1>4, <1>5, <1>6, <1>7, <1>8, <1>9, <1>10 DEF s, lo

LEMMA SnapshotEnd ==
  ASSUME NEW n \in Nat, NEW s \in Seq(Nat), IsSnapshot(s, n), s # <<>>
  PROVE  Len(s) > 0 /\ Last(s) = s[Len(s)] /\ Last(s) \in 1..n
<1>1. Len(s) \in Nat /\ Len(s) > 0
  BY EmptySeq, LenProperties
<1>2. PICK lo \in 0..n : s = [i \in 1..Len(s) |-> lo + i] /\ lo + Len(s) <= n
  BY DEF IsSnapshot
<1>3. s[Len(s)] = lo + Len(s)
  BY <1>1, <1>2
<1> QED BY <1>1, <1>2, <1>3 DEF Last

\* A comparison that finds the contents of the end of the previous page at
\* the head of the current one leaves out the lines up to there, those of the
\* previous page and those that repeat them; one that does not says so.
LEMMA Delta ==
  ASSUME lines \in Nat, NEW m \in Nat, m > 0, NEW p \in Seq(Nat), IsSnapshot(p, lines)
  PROVE  LET d == agentTailDelta(p, TailSnapshot(m)) IN
         /\ d.new \in Seq(Nat)
         /\ d.cut => d.new = TailSnapshot(m)
         /\ ~d.cut => \A i \in 1..lines :
                        \/ i \in ToSet(d.new)
                        \/ p # <<>> /\ i <= Last(p)
                        \/ i \in Repeated(p, TailSnapshot(m))
<1> DEFINE c == TailSnapshot(m)
           lo == Skipped(m)
           overlaps == Overlaps(p, c)
           d == agentTailDelta(p, c)
<1>1. /\ c \in Seq(Nat) /\ lo \in 0..lines /\ Len(c) = lines - lo
      /\ \A i \in 1..(lines - lo) : c[i] = lo + i
      /\ c = <<>> => lines = 0
  BY Snapshot
<1>2. d = IF overlaps = {} THEN [new |-> c, cut |-> c # <<>>]
          ELSE LET k == CHOOSE k \in overlaps : \A j \in overlaps : j <= k
               IN  [new |-> SubSeq(c, k + 1, Len(c)), cut |-> FALSE]
  BY DEF agentTailDelta
<1>s. Repeated(p, c) =
        {i \in 1..lines : p # <<>> /\ i > Last(p) /\ \E k \in overlaps : i <= c[k]}
  BY DEF Repeated
<1> HIDE DEF c, lo, d
<1>3. Len(p) \in Nat /\ Len(c) \in Nat /\ DOMAIN p = 1..Len(p) /\ DOMAIN c = 1..Len(c)
  BY <1>1, LenProperties
<1>t. overlaps \subseteq 1..Len(p) /\ overlaps \subseteq 1..(lines - lo)
  BY <1>1, <1>3 DEF Overlaps
<1> HIDE DEF overlaps
<1>4. CASE overlaps = {}
  <2>1. d.new = c /\ d.cut = (c # <<>>)
    BY <1>2, <1>4
  <2>2. ~d.cut => lines = 0
    BY <1>1, <2>1
  <2> QED BY <1>1, <2>1, <2>2 DEF d, c
<1>5. CASE overlaps # {}
  <2> DEFINE D == {Len(c) - j : j \in overlaps}
  <2>1. D \in SUBSET Nat /\ D # {}
    <3>1. \A j \in overlaps : Len(c) - j \in Nat
      BY <1>1, <1>3, <1>t
    <3> QED BY <1>5, <3>1
  <2>2. PICK e \in D : \A f \in D : e <= f
    BY <2>1, Least
  <2>3. PICK j \in overlaps : e = Len(c) - j
    BY <2>2
  <2>4. \A i \in overlaps : i <= j
    <3>1. ASSUME NEW i \in overlaps PROVE i <= j
      <4>1. Len(c) - j <= Len(c) - i
        BY <2>2, <2>3
      <4>2. i \in Nat /\ j \in Nat
        BY <1>1, <1>3, <1>t
      <4> QED BY <1>3, <4>1, <4>2
    <3> QED BY <3>1
  <2> DEFINE k == CHOOSE x \in overlaps : \A i \in overlaps : i <= x
  <2>5. k \in overlaps
    BY <2>4, Zenon
  <2>6. d.new = SubSeq(c, k + 1, Len(c)) /\ d.cut = FALSE
    BY <1>2, <1>5
  <2> HIDE DEF k
  <2>7. k \in 1..(lines - lo) /\ k \in 1..Len(p) /\ p # <<>> /\ c[k] = lo + k
    <3>1. k \in 1..(lines - lo) /\ k \in 1..Len(p)
      BY <1>t, <2>5
    <3>2. p # <<>>
      BY <3>1, EmptySeq
    <3> QED BY <1>1, <3>1, <3>2
  <2>8. k \in 0..Len(c)
    BY <1>1, <2>7
  <2>9. /\ d.new \in Seq(Nat) /\ Len(d.new) = Len(c) - k
        /\ \A i \in 1..(Len(c) - k) : d.new[i] = c[k + i]
    BY <1>1, <2>6, <2>8, Rest
  <2>10. ASSUME NEW i \in 1..lines, ~(i <= lo + k) PROVE i \in ToSet(d.new)
    <3>1. i - lo - k \in 1..(Len(c) - k) /\ k + (i - lo - k) = i - lo /\ i - lo \in 1..(lines - lo)
          /\ lo + (i - lo) = i
      BY <1>1, <2>7, <2>10
    <3>2. d.new[i - lo - k] = i
      BY <1>1, <2>9, <3>1
    <3>3. i - lo - k \in DOMAIN d.new
      BY <2>9, <3>1, LenProperties
    <3> QED BY <3>2, <3>3 DEF ToSet
  <2>11. Last(p) \in Nat
    BY <2>7, SnapshotEnd
  <2>12. ASSUME NEW i \in 1..lines, i <= lo + k, ~(i <= Last(p)) PROVE i \in Repeated(p, c)
    BY <1>s, <2>5, <2>7, <2>11, <2>12
  <2> QED BY <2>6, <2>7, <2>9, <2>10, <2>12 DEF d, c
<1> QED BY <1>4, <1>5

\* One page: what was told or kept before still is, and the rest of the lines
\* is told or kept now.
LEMMA PageTells ==
  ASSUME TypeOK, TailKept, NEW n \in Nat, n > 0, NEW backlog \in BOOLEAN, AgentTailPage(n, backlog)
  PROVE  TypeOK' /\ TailKept'
<1> DEFINE m == IF backlog /\ reader # None THEN Window ELSE n
           current == TailSnapshot(m)
           delta == IF reader = None THEN [new |-> current, cut |-> FALSE]
                    ELSE agentTailDelta(reader.last, current)
           kept == IF reader # None /\ backlog THEN reader.pending ELSE <<>>
           dropped == IF reader # None /\ ~backlog THEN reader.pending ELSE <<>>
           selected == kept \o delta.new
           count == IF backlog /\ Len(selected) > n THEN n ELSE Len(selected)
           pending == SubSeq(selected, count + 1, Len(selected))
           unseen == IF reader = None \/ delta.cut THEN 1..(lines - Len(current)) ELSE {}
           taken == IF reader = None THEN {} ELSE Repeated(reader.last, current)
           front == SubSeq(selected, 1, count)
<1>1. /\ reader' = [last |-> current, pending |-> pending]
      /\ hist' = [hist EXCEPT !.told = @ \cup ToSet(front) \cup (ToSet(dropped) \cup unseen)
                                         \cup taken]
      /\ UNCHANGED <<agents, config, mix, relay, up, op, receipt, epoch, hook, worker, text, left>>
  BY DEF AgentTailPage, TailSeen, envVars, opVars, hookVars
<1>2. m \in Nat /\ m > 0 /\ lines \in Nat
  BY AgentTurnsAssumption, LenProperties DEF TypeOK, lines
<1>3. /\ current \in Seq(Nat) /\ Skipped(m) \in 0..lines
      /\ Len(current) = lines - Skipped(m)
      /\ \A i \in 1..lines : i > Skipped(m) => i \in ToSet(current)
      /\ IsSnapshot(current, lines)
      /\ current = <<>> => lines = 0
      /\ current # <<>> => Last(current) = lines
  BY <1>2, Snapshot
<1>4. reader # None => /\ reader.last \in Seq(Nat) /\ reader.pending \in Seq(Nat)
                       /\ IsSnapshot(reader.last, lines)
  BY DEF TypeOK, TailState, TailKept
<1>5. /\ delta.new \in Seq(Nat)
      /\ reader = None \/ delta.cut => delta.new = current
      /\ reader # None /\ ~delta.cut =>
           \A i \in 1..lines :
              \/ i \in ToSet(delta.new)
              \/ reader.last # <<>> /\ i <= Last(reader.last)
              \/ i \in taken
  <2>1. CASE reader = None
    BY <1>3, <2>1
  <2>2. CASE reader # None
    <3>1. delta = agentTailDelta(reader.last, current) /\ taken = Repeated(reader.last, current)
      BY <2>2
    <3> HIDE DEF m
    <3>2. LET d == agentTailDelta(reader.last, current) IN
          /\ d.new \in Seq(Nat)
          /\ d.cut => d.new = current
          /\ ~d.cut => \A i \in 1..lines :
                         \/ i \in ToSet(d.new)
                         \/ reader.last # <<>> /\ i <= Last(reader.last)
                         \/ i \in Repeated(reader.last, current)
      BY <1>2, <1>4, <2>2, Delta
    <3> HIDE DEF current, delta, taken
    <3>3. /\ delta.new \in Seq(Nat)
          /\ delta.cut => delta.new = current
          /\ ~delta.cut => \A i \in 1..lines :
                         \/ i \in ToSet(delta.new)
                         \/ reader.last # <<>> /\ i <= Last(reader.last)
                         \/ i \in taken
      BY <3>1, <3>2
    <3> QED BY <2>2, <3>3
  <2> QED BY <2>1, <2>2
<1>6. kept \in Seq(Nat) /\ dropped \in Seq(Nat)
  BY <1>4, EmptySeq
<1>7. (reader # None => ToSet(reader.pending) \subseteq ToSet(kept) \cup ToSet(dropped))
  OBVIOUS
<1> HIDE DEF m, current, delta, kept, dropped
<1>8. selected \in Seq(Nat) /\ ToSet(kept) \cup ToSet(delta.new) \subseteq ToSet(selected)
  BY <1>5, <1>6, Joined
<1> HIDE DEF selected
<1>9. count \in 0..Len(selected)
  BY <1>8, LenProperties
<1> HIDE DEF count
<1>10. /\ front \in Seq(Nat) /\ pending \in Seq(Nat)
       /\ ToSet(selected) \subseteq ToSet(front) \cup ToSet(pending)
  BY <1>8, <1>9, Pieces
<1>11. unseen \subseteq Nat /\ taken \subseteq Nat
  BY <1>2 DEF Repeated
<1> HIDE DEF front, pending
<1>12. unseen = IF reader = None \/ delta.cut THEN 1..Skipped(m) ELSE {}
  BY <1>2, <1>3
<1> HIDE DEF unseen, taken
<1>13. hist.told \subseteq Nat /\ hist \in Histories
  BY DEF TypeOK, Histories
<1> DEFINE told == hist.told \cup ToSet(front) \cup (ToSet(dropped) \cup unseen) \cup taken
<1>14. told \in SUBSET Nat
  BY <1>6, <1>10, <1>11, <1>13, SetOfNats
<1>15. hist' = [hist EXCEPT !.told = told]
  BY <1>1
<1> HIDE DEF told
<1>16. hist' \in Histories /\ hist'.told = told
  BY <1>13, <1>14, <1>15, HistoryFields DEF Histories
<1>17. reader' \in TailState /\ reader'.last = current /\ reader'.pending = pending
  BY <1>1, <1>3, <1>10 DEF TailState
<1>18. TypeOK'
  BY <1>1, <1>16, <1>17 DEF TypeOK
<1>19. ASSUME NEW i \in 1..lines PROVE i \in told \cup ToSet(pending)
  <2>1. CASE reader = None \/ delta.cut
    <3>1. i > Skipped(m) => i \in ToSet(selected)
      BY <1>3, <1>5, <1>8, <2>1
    <3>2. ~(i > Skipped(m)) => i \in unseen
      BY <1>3, <1>12, <2>1
    <3> QED BY <1>10, <3>1, <3>2 DEF told
  <2>2. CASE reader # None /\ ~delta.cut
    <3>1. \/ i \in ToSet(delta.new) \/ (reader.last # <<>> /\ i <= Last(reader.last))
          \/ i \in taken
      BY <1>5, <2>2
    <3>2. CASE i \in ToSet(delta.new)
      BY <1>8, <1>10, <3>2 DEF told
    <3>3. CASE reader.last # <<>> /\ i <= Last(reader.last)
      <4>1. Last(reader.last) \in 1..lines
        BY <1>2, <1>4, <2>2, <3>3, SnapshotEnd
      <4>2. i \in 1..Last(reader.last)
        BY <1>2, <3>3, <4>1
      <4>3. i \in hist.told \cup ToSet(reader.pending)
        BY <2>2, <3>3, <4>2 DEF TailKept, TailLossIsReported
      <4> QED BY <1>7, <1>8, <1>10, <2>2, <4>3 DEF told
    <3>4. CASE i \in taken
      BY <3>4 DEF told
    <3> QED BY <3>1, <3>2, <3>3, <3>4
  <2> QED BY <2>1, <2>2
<1>20. IsSnapshot(reader.last, lines)'
  BY <1>1, <1>3, <1>17 DEF lines
<1>21. TailLossIsReported'
  <2>1. ASSUME NEW i \in 1..(IF current = <<>> THEN 0 ELSE Last(current))
        PROVE  i \in told \cup ToSet(pending)
    <3>1. i \in 1..lines
      BY <1>2, <1>3
    <3> QED BY <1>19, <3>1
  <2> QED BY <1>16, <1>17, <2>1 DEF TailLossIsReported
<1> QED BY <1>18, <1>20, <1>21 DEF TailKept

LEMMA PrintTells == ASSUME TypeOK, TailKept, PrintLine PROVE TypeOK' /\ TailKept'
<1>0. PICK content \in {lines + 1} \cup ToSet(text) : text' = Append(text, content)
  BY DEF PrintLine
<1>1. /\ lines \in Nat /\ lines' = lines + 1 /\ text' \in Seq(Nat)
      /\ UNCHANGED <<agents, config, mix, relay, up, op, receipt, epoch, hook, worker, reader, left,
                     hist>>
  <2>1. text \in Seq(Nat) /\ lines \in Nat
    BY LenProperties DEF TypeOK, lines
  <2>2. content \in Nat
    BY <2>1, SetOfNats
  <2>3. text' \in Seq(Nat) /\ Len(text') = Len(text) + 1
    BY <1>0, <2>1, <2>2, AppendProperties
  <2> QED BY <2>1, <2>3 DEF PrintLine, lines, envVars, opVars, hookVars
<1>2. TypeOK'
  BY <1>1 DEF TypeOK
<1>3. ASSUME NEW s, IsSnapshot(s, lines), Len(s) \in Nat PROVE IsSnapshot(s, lines + 1)
  <2>1. PICK lo \in 0..lines : s = [i \in 1..Len(s) |-> lo + i] /\ lo + Len(s) <= lines
    BY <1>3 DEF IsSnapshot
  <2>2. lo \in 0..(lines + 1) /\ lo + Len(s) <= lines + 1
    BY <1>1, <1>3, <2>1
  <2> QED BY <2>1, <2>2 DEF IsSnapshot
<1>4. reader # None => Len(reader.last) \in Nat
  BY LenProperties DEF TypeOK, TailState
<1>5. TailKept'
  BY <1>1, <1>3, <1>4 DEF TailKept, TailLossIsReported
<1> QED BY <1>2, <1>5

LEMMA MoreLines ==
  /\ TailLines \subseteq Nat /\ \A n \in TailLines : n > 0
  /\ (CHOOSE n \in TailLines : \A m \in TailLines : m <= n) \in TailLines
<1>1. TailLines \subseteq 1..Window /\ TailLines # {} /\ Window \in Nat
  BY AgentTurnsAssumption
<1> DEFINE D == {Window - n : n \in TailLines}
<1>2. D \in SUBSET Nat /\ D # {}
  <2>1. \A n \in TailLines : Window - n \in Nat
    BY <1>1
  <2> QED BY <1>1, <2>1
<1>3. PICK d \in D : \A e \in D : d <= e
  BY <1>2, Least
<1>4. PICK n \in TailLines : d = Window - n
  BY <1>3
<1>5. \A m \in TailLines : m <= n
  BY <1>1, <1>3, <1>4
<1>6. (CHOOSE x \in TailLines : \A m \in TailLines : m <= x) \in TailLines
  BY <1>5, Zenon
<1> QED BY <1>1, <1>6

LEMMA TailTells ==
  ASSUME TypeOK, TailKept, canonicalAgentTail \/ canonicalAgentAwait \/ agentStatusContinuation
  PROVE  TypeOK' /\ TailKept'
<1>1. PICK n \in TailLines, backlog \in BOOLEAN : AgentTailPage(n, backlog)
  BY MoreLines DEF canonicalAgentTail, canonicalAgentAwait, agentStatusContinuation
<1>2. n \in Nat /\ n > 0
  BY MoreLines
<1> QED BY <1>1, <1>2, PageTells

-----------------------------------------------------------------------------
(* Receipts.                                                               *)

\* What an executor's step may do to the record of its Operation.
Relabels(o, pc) ==
    /\ op'[o] # None /\ op'[o].pc = pc
    /\ op'[o].kind = op[o].kind /\ op'[o].status = op[o].status /\ op'[o].target = op[o].target

\* A step for Operation o leaves the other Operations as they are.
Alone(o) ==
    \A p \in Op \ {o} :
      op'[p] = op[p] /\ receipt'[p] = receipt[p] /\ hist'.sent[p] = hist.sent[p]
      /\ hist'.stopped[p] = hist.stopped[p] /\ hist'.quiet[p] = hist.quiet[p]

\* What InterruptNotRepeated says of a step, for one Operation.
Repeats(o) ==
    /\ receipt[o] # None => hist'.stopped[o] = hist.stopped[o]
    /\ receipt[o] = "completed" => receipt'[o] = "completed" /\ hist'.sent[o] = hist.sent[o]
    /\ hist'.sent[o] > hist.sent[o] /\ op[o].kind = "replace" => hist.stopped[o] > 0 \/ hist.quiet[o]

BoundNow(o) == Bound(op[o], receipt[o], hist.stopped[o], hist.quiet[o])
Binds(o) == BoundNow(o)' /\ Repeats(o) /\ Alone(o)

LEMMA GoIs ==
  ASSUME TypeOK, NEW o \in Op, op[o] # None, NEW pc \in Pcs, Go(o, pc)
  PROVE  Relabels(o, pc) /\ \A p \in Op \ {o} : op'[p] = op[p]
<1>1. op[o] \in Operations
  BY OperationTyped
<1>2. op'[o] \in Operations
  BY <1>1, Fields DEF Go, TypeOK
<1>3. op'[o] = [op[o] EXCEPT !.pc = pc] /\ \A p \in Op \ {o} : op'[p] = op[p]
  BY DEF Go, TypeOK
<1>4. op'[o] # None
  BY <1>2, NoneAssumption
<1> QED BY <1>1, <1>3, <1>4 DEF Relabels, Operations

LEMMA GoWithIs ==
  ASSUME TypeOK, NEW o \in Op, op[o] # None, NEW pc \in Pcs, NEW i \in Outcomes, NEW s \in Sent,
         GoWith(o, pc, i, s)
  PROVE  Relabels(o, pc) /\ \A p \in Op \ {o} : op'[p] = op[p]
<1>1. op[o] \in Operations
  BY OperationTyped
<1>2. op'[o] = [op[o] EXCEPT !.pc = pc, !.intr = i, !.prompt = s] /\ \A p \in Op \ {o} : op'[p] = op[p]
  BY DEF GoWith, TypeOK
<1>3. [op[o] EXCEPT !.pc = pc, !.intr = i, !.prompt = s] \in Operations
  BY <1>1, Fields
<1>4. op'[o] # None
  BY <1>2, <1>3, NoneAssumption
<1> QED BY <1>1, <1>2, <1>4 DEF Relabels, Operations


\* A counter is not above itself.
LEMMA Sents ==
  ASSUME TypeOK, NEW o \in Op
  PROVE  hist.sent[o] \in Nat /\ ~(hist.sent[o] > hist.sent[o]) /\ hist.stopped[o] \in Nat
BY DEF TypeOK, Histories

LEMMA StartBinds == ASSUME TypeOK, ReceiptBinds, NEW o \in Op, ExecuteStarts(o) PROVE Binds(o)
<1>1. /\ op[o] # None /\ UNCHANGED <<receipt, hist>>
      /\ op' = [op EXCEPT ![o] = [op[o] EXCEPT !.status = "running", !.pc = "start"]]
  BY DEF ExecuteStarts
<1>2. op[o] \in Operations
  BY <1>1, OperationTyped
<1>3. op'[o] = [op[o] EXCEPT !.status = "running", !.pc = "start"] /\ \A p \in Op \ {o} : op'[p] = op[p]
  BY <1>1 DEF TypeOK
<1>4. op'[o] # None
  <2>1. [op[o] EXCEPT !.status = "running", !.pc = "start"] \in Operations
    BY <1>2, Fields
  <2> QED BY <1>3, <2>1, NoneAssumption
<1>5. op'[o].kind = op[o].kind /\ op'[o].pc = "start"
  BY <1>2, <1>3 DEF Operations
<1>6. BoundNow(o)
  BY DEF ReceiptBinds, BoundNow
<1>7. Bound(op'[o], receipt[o], hist.stopped[o], hist.quiet[o])
  BY <1>1, <1>4, <1>5, <1>6 DEF Bound, BoundNow, Steps
<1> QED BY <1>1, <1>3, <1>7, Sents DEF Binds, BoundNow, Repeats, Alone

LEMMA EndBinds == ASSUME TypeOK, ReceiptBinds, NEW o \in Op, ExecuteEnds(o) PROVE Binds(o)
<1>1. /\ op[o] # None /\ UNCHANGED <<receipt, hist>>
      /\ op' = [op EXCEPT ![o] = [op[o] EXCEPT !.status = "completed"]]
  BY DEF ExecuteEnds, At
<1>2. op[o] \in Operations
  BY <1>1, OperationTyped
<1>3. op'[o] = [op[o] EXCEPT !.status = "completed"] /\ \A p \in Op \ {o} : op'[p] = op[p]
  BY <1>1 DEF TypeOK
<1>4. op'[o] # None
  <2>1. [op[o] EXCEPT !.status = "completed"] \in Operations
    BY <1>2, Fields
  <2> QED BY <1>3, <2>1, NoneAssumption
<1>5. op'[o].kind = op[o].kind /\ op'[o].status = "completed"
  BY <1>2, <1>3 DEF Operations
<1>6. BoundNow(o)
  BY DEF ReceiptBinds, BoundNow
<1>7. Bound(op'[o], receipt[o], hist.stopped[o], hist.quiet[o])
  BY <1>1, <1>4, <1>5, <1>6 DEF Bound, BoundNow, Steps
<1> QED BY <1>1, <1>3, <1>7, Sents DEF Binds, BoundNow, Repeats, Alone

LEMMA ResolvesBinds == ASSUME TypeOK, ReceiptBinds, NEW o \in Op, SendResolves(o) PROVE Binds(o)
<1> DEFINE k == resolveAgentSession(op[o].agent)
           pc == AfterSend(o)
<1>1. /\ op[o] # None /\ op[o].status = "running" /\ UNCHANGED <<receipt, hist>>
      /\ \/ op[o].kind = "prompt" /\ op[o].pc = "start"
         \/ op[o].kind # "prompt" /\ op[o].pc = "replace"
      /\ \/ GoWith(o, pc, op[o].intr, "failed")
         \/ k # None /\ op' = [op EXCEPT ![o] = [op[o] EXCEPT !.pc = "send", !.target = k]]
  BY DEF SendResolves, At
<1>2. op[o] \in Operations
  BY <1>1, OperationTyped
<1>3. op[o].intr \in Outcomes /\ op[o].agent \in Agent /\ "failed" \in Sent /\ pc \in Pcs
  BY <1>2, AfterSendPc DEF Operations, Outcomes, Sent
<1>4. k \in Relay \cup {None}
  BY <1>3, SessionTyped DEF TypeOK
<1>5. pc = IF op[o].kind = "prompt" THEN "done" ELSE "receipt"
  BY DEF AfterSend
<1> HIDE DEF k, pc
<1>6. BoundNow(o)
  BY DEF ReceiptBinds, BoundNow
<1>7. CASE GoWith(o, pc, op[o].intr, "failed")
  <2>1. Relabels(o, pc) /\ \A p \in Op \ {o} : op'[p] = op[p]
    BY <1>1, <1>3, <1>7, GoWithIs
  <2>2. Bound(op'[o], receipt[o], hist.stopped[o], hist.quiet[o])
    BY <1>1, <1>5, <1>6, <2>1 DEF Bound, BoundNow, Steps, Relabels
  <2> QED BY <1>1, <2>1, <2>2, Sents DEF Binds, BoundNow, Repeats, Alone
<1>8. CASE k # None /\ op' = [op EXCEPT ![o] = [op[o] EXCEPT !.pc = "send", !.target = k]]
  <2>1. op'[o] = [op[o] EXCEPT !.pc = "send", !.target = k] /\ \A p \in Op \ {o} : op'[p] = op[p]
    BY <1>8 DEF TypeOK
  <2>2. op'[o] \in Operations
    <3>1. "send" \in Pcs
      BY DEF Pcs
    <3>2. [op[o] EXCEPT !.pc = "send", !.target = k] \in Operations
      BY <1>2, <1>4, <3>1, Fields
    <3> QED BY <2>1, <3>2
  <2>3. op'[o] # None
    BY <2>2, NoneAssumption
  <2>4. op'[o].kind = op[o].kind /\ op'[o].pc = "send" /\ op'[o].target = k
    BY <1>2, <2>1 DEF Operations
  <2>5. Bound(op'[o], receipt[o], hist.stopped[o], hist.quiet[o])
    BY <1>1, <1>6, <1>8, <2>3, <2>4, NoneAssumption DEF Bound, BoundNow, Steps
  <2> QED BY <1>1, <2>1, <2>5, Sents DEF Binds, BoundNow, Repeats, Alone
<1> QED BY <1>1, <1>7, <1>8

\* A delivery is counted, and the bookkeeping of the relay touches no counter.
LEMMA SentIs ==
  ASSUME TypeOK, NEW o \in Op
  PROVE  LET h == [hist EXCEPT !.sent[o] = @ + 1] IN
         /\ h \in Histories /\ h.stopped = hist.stopped /\ h.quiet = hist.quiet
         /\ h.sent[o] = hist.sent[o] + 1 /\ \A p \in Op \ {o} : h.sent[p] = hist.sent[p]
<1> DEFINE h == [hist EXCEPT !.sent[o] = @ + 1]
<1>1. hist \in Histories
  BY DEF TypeOK
<1>2. h \in Histories
  BY <1>1, HistoryFields
<1>3. h.stopped = hist.stopped /\ h.quiet = hist.quiet
  BY <1>1 DEF Histories
<1>4. h.sent[o] = hist.sent[o] + 1 /\ \A p \in Op \ {o} : h.sent[p] = hist.sent[p]
  BY <1>1 DEF Histories
<1> QED BY <1>2, <1>3, <1>4

LEMMA StoppedIs ==
  ASSUME TypeOK, NEW o \in Op
  PROVE  LET h == [hist EXCEPT !.stopped[o] = @ + 1] IN
         /\ h \in Histories /\ h.sent = hist.sent /\ h.quiet = hist.quiet
         /\ h.stopped[o] = hist.stopped[o] + 1 /\ \A p \in Op \ {o} : h.stopped[p] = hist.stopped[p]
<1> DEFINE h == [hist EXCEPT !.stopped[o] = @ + 1]
<1>1. hist \in Histories
  BY DEF TypeOK
<1>2. h \in Histories
  BY <1>1, HistoryFields
<1>3. h.sent = hist.sent /\ h.quiet = hist.quiet
  BY <1>1 DEF Histories
<1>4. h.stopped[o] = hist.stopped[o] + 1 /\ \A p \in Op \ {o} : h.stopped[p] = hist.stopped[p]
  BY <1>1 DEF Histories
<1> QED BY <1>2, <1>3, <1>4

LEMMA PromptBinds == ASSUME TypeOK, ReceiptBinds, NEW o \in Op, PromptWithProvenance(o) PROVE Binds(o)
<1> DEFINE k == op[o].target
           pc == AfterSend(o)
           h == [hist EXCEPT !.sent[o] = @ + 1]
<1>1. /\ op[o] # None /\ op[o].status = "running" /\ op[o].pc = "send" /\ UNCHANGED receipt
      /\ Go(o, "arm") \/ GoWith(o, pc, op[o].intr, "failed")
      /\ hist' = Worked(h, k, "busy") \/ UNCHANGED hist
  BY DEF PromptWithProvenance, At
<1>2. op[o] \in Operations
  BY <1>1, OperationTyped
<1>3. op[o].intr \in Outcomes /\ "failed" \in Sent /\ pc \in Pcs /\ "arm" \in Pcs
  BY <1>2, AfterSendPc DEF Operations, Outcomes, Sent, Pcs
<1>4. pc = IF op[o].kind = "prompt" THEN "done" ELSE "receipt"
  BY DEF AfterSend
<1>5. /\ h \in Histories /\ h.stopped = hist.stopped /\ h.quiet = hist.quiet
      /\ h.sent[o] = hist.sent[o] + 1 /\ \A p \in Op \ {o} : h.sent[p] = hist.sent[p]
  BY SentIs
<1> HIDE DEF k, pc, h
<1>6. /\ hist'.stopped = hist.stopped /\ hist'.quiet = hist.quiet
      /\ \A p \in Op \ {o} : hist'.sent[p] = hist.sent[p]
  BY <1>1, <1>5, WorkedIs
<1>7. BoundNow(o)
  BY DEF ReceiptBinds, BoundNow
<1>8. \/ Relabels(o, "arm") /\ \A p \in Op \ {o} : op'[p] = op[p]
      \/ Relabels(o, pc) /\ \A p \in Op \ {o} : op'[p] = op[p]
  BY <1>1, <1>3, GoIs, GoWithIs
<1>9. Bound(op'[o], receipt[o], hist.stopped[o], hist.quiet[o])
  BY <1>1, <1>4, <1>7, <1>8 DEF Bound, BoundNow, Steps, Relabels
<1>10. Repeats(o)
  BY <1>1, <1>6, <1>7 DEF Repeats, Bound, BoundNow, Steps
<1> QED BY <1>1, <1>6, <1>8, <1>9, <1>10 DEF Binds, BoundNow, Alone

LEMMA ArmBinds == ASSUME TypeOK, ReceiptBinds, NEW o \in Op, armAgentWorkFinished(o) PROVE Binds(o)
<1> DEFINE pc == AfterSend(o)
           n == Len(epoch) + 1
<1>1. /\ op[o] # None /\ op[o].status = "running" /\ op[o].pc = "arm" /\ UNCHANGED receipt
      /\ GoWith(o, pc, op[o].intr, "delivered")
      /\ UNCHANGED hist \/ \E w : hist' = [hist EXCEPT !.worked[n] = w]
  BY DEF armAgentWorkFinished, ArmCallbackEpoch, At
<1>2. op[o] \in Operations
  BY <1>1, OperationTyped
<1>3. op[o].intr \in Outcomes /\ "delivered" \in Sent /\ pc \in Pcs
  BY <1>2, AfterSendPc DEF Operations, Outcomes, Sent
<1>4. pc = IF op[o].kind = "prompt" THEN "done" ELSE "receipt"
  BY DEF AfterSend
<1>5. hist'.stopped = hist.stopped /\ hist'.quiet = hist.quiet /\ hist'.sent = hist.sent
  BY <1>1 DEF TypeOK, Histories
<1> HIDE DEF pc
<1>6. BoundNow(o)
  BY DEF ReceiptBinds, BoundNow
<1>7. Relabels(o, pc) /\ \A p \in Op \ {o} : op'[p] = op[p]
  BY <1>1, <1>3, GoWithIs
<1>8. Bound(op'[o], receipt[o], hist.stopped[o], hist.quiet[o])
  BY <1>1, <1>4, <1>6, <1>7 DEF Bound, BoundNow, Steps, Relabels
<1> QED BY <1>1, <1>5, <1>7, <1>8, Sents DEF Binds, BoundNow, Repeats, Alone

LEMMA ReadsBinds == ASSUME TypeOK, ReceiptBinds, NEW o \in Op, InterruptReads(o) PROVE Binds(o)
<1>1. /\ op[o] # None /\ op[o].status = "running" /\ op[o].pc = "start" /\ op[o].kind # "prompt"
      /\ UNCHANGED <<receipt, hist>>
      /\ \/ receipt[o] = "completed" /\ Go(o, "done")
         \/ receipt[o] = "interrupt_acknowledged" /\ Go(o, "replace")
         \/ receipt[o] \notin {"completed", "interrupt_acknowledged"}
            /\ (Go(o, "status") \/ GoWith(o, "receipt", "stale_execution", None))
  BY DEF InterruptReads, At
<1>2. {"done", "replace", "status", "receipt"} \subseteq Pcs /\ "stale_execution" \in Outcomes
      /\ None \in Sent
  BY DEF Pcs, Outcomes, Sent
<1>3. \A p \in Op \ {o} : op'[p] = op[p]
  BY <1>1, <1>2, GoIs, GoWithIs
<1>4. \/ receipt[o] = "completed" /\ Relabels(o, "done")
      \/ receipt[o] = "interrupt_acknowledged" /\ Relabels(o, "replace")
      \/ receipt[o] = None /\ (Relabels(o, "status") \/ Relabels(o, "receipt"))
  BY <1>1, <1>2, GoIs, GoWithIs, Kept
<1>5. BoundNow(o)
  BY DEF ReceiptBinds, BoundNow
<1>6. Bound(op'[o], receipt[o], hist.stopped[o], hist.quiet[o])
  BY <1>1, <1>4, <1>5, NoneAssumption DEF Bound, BoundNow, Steps, Relabels
<1> QED BY <1>1, <1>3, <1>6, Sents DEF Binds, BoundNow, Repeats, Alone

LEMMA ChecksBinds == ASSUME TypeOK, ReceiptBinds, NEW o \in Op, InterruptChecksStatus(o) PROVE Binds(o)
<1>1. /\ op[o] # None /\ op[o].status = "running" /\ op[o].pc = "status" /\ UNCHANGED receipt
      /\ \/ /\ hist' = [hist EXCEPT !.quiet[o] = TRUE]
            /\ \/ GoWith(o, "replace", "already_idle", None)
               \/ GoWith(o, "receipt", "already_idle", None)
         \/ UNCHANGED hist /\ (Go(o, "interrupt") \/ GoWith(o, "receipt", "failed", NotSubmitted(o)))
  BY DEF InterruptChecksStatus, At
<1>2. {"replace", "receipt", "interrupt"} \subseteq Pcs /\ {"already_idle", "failed"} \subseteq Outcomes
      /\ None \in Sent
  BY DEF Pcs, Outcomes, Sent
<1>3. \A p \in Op \ {o} : op'[p] = op[p]
  BY <1>1, <1>2, NotSubmittedIn, GoIs, GoWithIs
<1>4. \/ hist' = [hist EXCEPT !.quiet[o] = TRUE] /\ (Relabels(o, "replace") \/ Relabels(o, "receipt"))
      \/ UNCHANGED hist /\ (Relabels(o, "interrupt") \/ Relabels(o, "receipt"))
  BY <1>1, <1>2, NotSubmittedIn, GoIs, GoWithIs
<1>5. /\ hist'.sent = hist.sent /\ hist'.stopped = hist.stopped
      /\ \A p \in Op \ {o} : hist'.quiet[p] = hist.quiet[p]
      /\ hist' = [hist EXCEPT !.quiet[o] = TRUE] => hist'.quiet[o] = TRUE
  BY <1>4 DEF TypeOK, Histories
<1>6. BoundNow(o)
  BY DEF ReceiptBinds, BoundNow
<1>7. hist'.quiet[o] = TRUE \/ (hist' = hist /\ (Relabels(o, "interrupt") \/ Relabels(o, "receipt")))
  BY <1>4, <1>5
<1>8. Bound(op'[o], receipt[o], hist.stopped[o], hist'.quiet[o])
  BY <1>1, <1>4, <1>6, <1>7 DEF Bound, BoundNow, Steps, Relabels
<1> QED BY <1>1, <1>3, <1>5, <1>8, Sents DEF Binds, BoundNow, Repeats, Alone

LEMMA InterruptBinds == ASSUME TypeOK, ReceiptBinds, NEW o \in Op, Interrupt(o) PROVE Binds(o)
<1> DEFINE k == op[o].key
           h == [hist EXCEPT !.stopped[o] = @ + 1]
<1>1. /\ op[o] # None /\ op[o].status = "running" /\ op[o].pc = "interrupt" /\ UNCHANGED receipt
      /\ \/ Stops(o, k) /\ AfterInterrupt(o, "interrupt_acknowledged")
         \/ /\ AfterInterrupt(o, "already_idle") \/ AfterInterrupt(o, "timed_out")
               \/ AfterInterrupt(o, "failed")
            /\ Stops(o, k) \/ UNCHANGED hist
  BY DEF Interrupt, At
<1>2. {"acknowledge", "receipt"} \subseteq Pcs /\ None \in Sent
      /\ {"interrupt_acknowledged", "already_idle", "timed_out", "failed"} \subseteq Outcomes
  BY DEF Pcs, Outcomes, Sent
<1>3. \/ Stops(o, k) /\ op[o].kind = "replace" /\ GoWith(o, "acknowledge", "interrupt_acknowledged", None)
      \/ /\ Stops(o, k) \/ UNCHANGED hist
         /\ \E i \in Outcomes : GoWith(o, "receipt", i, NotSubmitted(o))
  BY <1>1, <1>2 DEF AfterInterrupt
<1>4. \A p \in Op \ {o} : op'[p] = op[p]
  BY <1>1, <1>2, <1>3, NotSubmittedIn, GoWithIs
<1>5. \/ Stops(o, k) /\ op[o].kind = "replace" /\ Relabels(o, "acknowledge")
      \/ (Stops(o, k) \/ UNCHANGED hist) /\ Relabels(o, "receipt")
  BY <1>1, <1>2, <1>3, NotSubmittedIn, GoWithIs
<1>6. /\ h \in Histories /\ h.sent = hist.sent /\ h.quiet = hist.quiet
      /\ h.stopped[o] = hist.stopped[o] + 1 /\ \A p \in Op \ {o} : h.stopped[p] = hist.stopped[p]
  BY StoppedIs
<1>7. Stops(o, k) => hist' = Worked(h, k, "ended")
  BY DEF Stops
<1> HIDE DEF k, h
<1>8. /\ hist'.sent = hist.sent /\ hist'.quiet = hist.quiet
      /\ \A p \in Op \ {o} : hist'.stopped[p] = hist.stopped[p]
      /\ Stops(o, k) => hist'.stopped[o] = hist.stopped[o] + 1
  BY <1>5, <1>6, <1>7, WorkedIs
<1>9. Stops(o, k) => hist'.stopped[o] > 0
  BY <1>8, Sents
<1>10. BoundNow(o)
  BY DEF ReceiptBinds, BoundNow
<1>11. receipt[o] = None /\ op[o].kind # "prompt"
  BY <1>1, <1>10 DEF BoundNow, Bound, Steps
<1>12. Bound(op'[o], receipt[o], hist'.stopped[o], hist.quiet[o])
  BY <1>1, <1>5, <1>9, <1>11, NoneAssumption DEF Bound, Steps, Relabels
<1>13. Repeats(o)
  BY <1>8, <1>11, Sents, NoneAssumption DEF Repeats
<1> QED BY <1>1, <1>4, <1>8, <1>12, <1>13 DEF Binds, BoundNow, Alone

LEMMA PersistBinds ==
  ASSUME TypeOK, ReceiptBinds, NEW o \in Op, InterruptAcknowledged(o) \/ finishAgentInterrupt(o)
  PROVE  Binds(o)
<1> DEFINE Fails == UNCHANGED receipt /\ op' = [op EXCEPT ![o] = [op[o] EXCEPT !.status = "failed"]]
<1>1. /\ op[o] # None /\ op[o].status = "running" /\ UNCHANGED hist
      /\ \/ Fails /\ op[o].pc \in {"acknowledge", "receipt"}
         \/ /\ op[o].pc = "acknowledge" /\ Go(o, "replace")
            /\ receipt' = [receipt EXCEPT ![o] = "interrupt_acknowledged"]
         \/ /\ op[o].pc = "receipt" /\ Go(o, "done")
            /\ receipt' = [receipt EXCEPT ![o] = "completed"]
  BY DEF InterruptAcknowledged, finishAgentInterrupt, PersistReceipt, At
<1>2. "replace" \in Pcs /\ "done" \in Pcs
  BY DEF Pcs
<1>3. op[o] \in Operations /\ receipt \in [Op -> {None, "interrupt_acknowledged", "completed"}]
  BY <1>1, OperationTyped, Kept
<1>4. BoundNow(o)
  BY DEF ReceiptBinds, BoundNow
<1>5. CASE Fails
  <2>1. op'[o] = [op[o] EXCEPT !.status = "failed"] /\ \A p \in Op \ {o} : op'[p] = op[p]
    BY <1>5 DEF TypeOK
  <2>2. op'[o] # None
    <3>1. [op[o] EXCEPT !.status = "failed"] \in Operations
      BY <1>3, Fields
    <3> QED BY <2>1, <3>1, NoneAssumption
  <2>3. op'[o].kind = op[o].kind /\ op'[o].status = "failed"
    BY <1>3, <2>1 DEF Operations
  <2>4. Bound(op'[o], receipt[o], hist.stopped[o], hist.quiet[o])
    BY <1>1, <1>4, <2>2, <2>3 DEF Bound, BoundNow, Steps
  <2> QED BY <1>1, <1>5, <2>1, <2>4, Sents DEF Binds, BoundNow, Repeats, Alone
<1>6. CASE /\ op[o].pc = "acknowledge" /\ Go(o, "replace")
           /\ receipt' = [receipt EXCEPT ![o] = "interrupt_acknowledged"]
  <2>1. Relabels(o, "replace") /\ \A p \in Op \ {o} : op'[p] = op[p]
    BY <1>1, <1>2, <1>6, GoIs
  <2>2. receipt'[o] = "interrupt_acknowledged" /\ \A p \in Op \ {o} : receipt'[p] = receipt[p]
    BY <1>3, <1>6
  <2>3. op[o].kind = "replace" /\ hist.stopped[o] > 0 /\ receipt[o] = None
    BY <1>1, <1>4, <1>6 DEF Bound, BoundNow, Steps
  <2>4. Bound(op'[o], receipt'[o], hist.stopped[o], hist.quiet[o])
    BY <1>1, <2>1, <2>2, <2>3, NoneAssumption DEF Bound, Steps, Relabels
  <2>5. Repeats(o)
    BY <1>1, <2>3, Sents, NoneAssumption DEF Repeats
  <2> QED BY <1>1, <2>1, <2>2, <2>4, <2>5 DEF Binds, BoundNow, Alone
<1>7. CASE /\ op[o].pc = "receipt" /\ Go(o, "done")
           /\ receipt' = [receipt EXCEPT ![o] = "completed"]
  <2>1. Relabels(o, "done") /\ \A p \in Op \ {o} : op'[p] = op[p]
    BY <1>1, <1>2, <1>7, GoIs
  <2>2. receipt'[o] = "completed" /\ \A p \in Op \ {o} : receipt'[p] = receipt[p]
    BY <1>3, <1>7
  <2>3. op[o].kind # "prompt"
    BY <1>1, <1>4, <1>7 DEF Bound, BoundNow, Steps
  <2>4. Bound(op'[o], receipt'[o], hist.stopped[o], hist.quiet[o])
    BY <1>1, <2>1, <2>2, <2>3 DEF Bound, Steps, Relabels
  <2>5. Repeats(o)
    BY <1>1, <2>2, Sents DEF Repeats
  <2> QED BY <1>1, <2>1, <2>2, <2>4, <2>5 DEF Binds, BoundNow, Alone
<1> QED BY <1>1, <1>5, <1>6, <1>7

LEMMA OpStepBinds == ASSUME TypeOK, ReceiptBinds, NEW o \in Op, OpStep(o) PROVE Binds(o)
BY StartBinds, EndBinds, ResolvesBinds, PromptBinds, ArmBinds, ReadsBinds, ChecksBinds, InterruptBinds,
   PersistBinds DEF OpStep, AgentInterrupt, AgentSend

\* A step of one executor keeps what the receipts say, and repeats nothing.
LEMMA ExecutorBinds ==
  ASSUME TypeOK, ReceiptBinds, NEW o \in Op, OpStep(o)
  PROVE  ReceiptBinds' /\ \A p \in Op : Repeats(p)
<1>1. BoundNow(o)' /\ Repeats(o) /\ Alone(o)
  BY OpStepBinds DEF Binds
<1>2. ASSUME NEW p \in Op \ {o} PROVE BoundNow(p)' /\ Repeats(p)
  <2>1. /\ op'[p] = op[p] /\ receipt'[p] = receipt[p] /\ hist'.sent[p] = hist.sent[p]
        /\ hist'.stopped[p] = hist.stopped[p] /\ hist'.quiet[p] = hist.quiet[p]
    BY <1>1 DEF Alone
  <2>2. Bound(op[p], receipt[p], hist.stopped[p], hist.quiet[p])
    BY DEF ReceiptBinds
  <2> QED BY <2>1, <2>2, Sents DEF BoundNow, Repeats
<1> QED BY <1>1, <1>2 DEF ReceiptBinds, BoundNow

\* Steps that touch no Operation.
OpsKept ==
    UNCHANGED <<op, receipt>> /\ hist'.sent = hist.sent /\ hist'.stopped = hist.stopped
    /\ hist'.quiet = hist.quiet

LEMMA OpsKeptBinds ==
  ASSUME TypeOK, ReceiptBinds, OpsKept
  PROVE  ReceiptBinds' /\ \A p \in Op : Repeats(p)
BY Sents DEF ReceiptBinds, OpsKept, Repeats

LEMMA AdmitBinds ==
  ASSUME TypeOK, ReceiptBinds, NEW o \in Op, NEW kind, NEW a, NEW key, Admit(o, kind, a, key),
         TypeOK'
  PROVE  ReceiptBinds' /\ \A p \in Op : Repeats(p)
<1>1. /\ op[o] = None /\ op' = [op EXCEPT ![o] = NewOperation(kind, a, key)]
      /\ UNCHANGED <<receipt, hist>>
  BY DEF Admit
<1>2. /\ op'[o] = NewOperation(kind, a, key) /\ \A p \in Op \ {o} : op'[p] = op[p]
  BY <1>1 DEF TypeOK
<1>3. op'[o].status = "accepted" /\ receipt[o] = None
  BY <1>1, <1>2 DEF NewOperation, ReceiptBinds, Bound
<1>4. Bound(op'[o], receipt[o], hist.stopped[o], hist.quiet[o])
  BY <1>3, NoneAssumption DEF Bound, Steps
<1> QED BY <1>1, <1>2, <1>4, Sents DEF ReceiptBinds, Repeats

LEMMA RestartBinds ==
  ASSUME TypeOK, ReceiptBinds, Restart
  PROVE  ReceiptBinds' /\ \A p \in Op : Repeats(p)
<1>1. /\ UNCHANGED <<receipt, hist>>
      /\ \A o \in Op : op'[o] = IF op[o] # None /\ op[o].status = "running"
                                THEN [op[o] EXCEPT !.status = "accepted"] ELSE op[o]
  BY RestartIs
<1>2. ASSUME NEW o \in Op PROVE Bound(op'[o], receipt[o], hist.stopped[o], hist.quiet[o])
  <2>1. Bound(op[o], receipt[o], hist.stopped[o], hist.quiet[o])
    BY DEF ReceiptBinds
  <2>2. CASE op[o] # None /\ op[o].status = "running"
    <3>1. op[o] \in Operations /\ op'[o] = [op[o] EXCEPT !.status = "accepted"]
      BY <1>1, <2>2, OperationTyped
    <3>2. op'[o] \in Operations
      <4>1. [op[o] EXCEPT !.status = "accepted"] \in Operations
        BY <3>1, Fields
      <4> QED BY <3>1, <4>1
    <3>4. op'[o].kind = op[o].kind /\ op'[o].status = "accepted"
      BY <3>1 DEF Operations
    <3>3. op'[o] # None
      BY <3>2, NoneAssumption
    <3> QED BY <2>1, <2>2, <3>3, <3>4 DEF Bound, Steps
  <2>3. CASE ~(op[o] # None /\ op[o].status = "running")
    <3>1. op'[o] = op[o]
      BY <1>1, <2>3
    <3> QED BY <2>1, <3>1
  <2> QED BY <2>2, <2>3
<1> QED BY <1>1, <1>2, Sents DEF ReceiptBinds, Repeats

-----------------------------------------------------------------------------
(* Epochs, their Hooks and the worker.                                     *)

\* The past of an epoch only grows.
Later(w, v) == (w # "no" => v # "no") /\ (w = "ended" => v = "ended")

HooksHold == Seen /\ Told /\ Turn

\* Steps of relays and executors keep the epochs there are, write no Procedure
\* and leave the worker where it is.
Beside ==
    /\ UNCHANGED <<hook, worker, up>> /\ hist'.runs = hist.runs
    /\ \A e \in DOMAIN epoch :
         e \in DOMAIN epoch' /\ epoch'[e] = epoch[e] /\ Later(hist.worked[e], hist'.worked[e])

LEMMA BesideTurn == ASSUME TypeOK, Turn, Beside PROVE Turn'
<1>1. Current' = Current
  BY DEF Beside, Current
<1>2. worker.pc # "wait" => Current \in DOMAIN epoch
  BY CurrentEpoch
<1>3. worker.pc # "wait" =>
        /\ epoch'[Current] = epoch[Current] /\ Later(hist.worked[Current], hist'.worked[Current])
        /\ Ready(worker.pc, worker.sample, epoch[Current], hist.worked[Current], hook[Current])
  BY <1>2 DEF Beside, Turn
<1>4. worker.pc # "wait" =>
        Ready(worker.pc, worker.sample, epoch'[Current], hist'.worked[Current], hook[Current])
  BY <1>3 DEF Ready, Later
<1>5. \A e \in worker.page :
        /\ e \in DOMAIN epoch' /\ epoch'[e] = epoch[e]
        /\ ~epoch[e].emitted \/ (worker.pc = "write" /\ e = Current)
  BY DEF Beside, Turn
<1> HIDE DEF Current
<1>6. UNCHANGED <<hook, worker, up>>
  BY DEF Beside
<1> QED BY <1>1, <1>4, <1>5, <1>6 DEF Turn

\* The same with no new epoch.
LEMMA BesideTold == ASSUME Told, Beside, UNCHANGED epoch PROVE Told'
BY DEF Told, Beside

\* Relay k goes from one state to another and its epochs are told.
Moves(k, s, phase) ==
    /\ \A r \in Relay : relay'[r] = IF r = k THEN s ELSE relay[r]
    /\ UNCHANGED epoch
    /\ \A e \in DOMAIN epoch :
         hist'.worked[e] = IF epoch[e].key = k
                              /\ hist.worked[e] = (IF phase = "busy" THEN "no" ELSE "busy")
                           THEN phase ELSE hist.worked[e]

LEMMA MovesHold ==
  ASSUME TypeOK, HooksHold, NEW k, NEW s, NEW phase,
         (s = "running" /\ phase = "busy") \/ (s # "running" /\ phase = "ended"),
         Moves(k, s, phase), UNCHANGED <<hook, worker, up>>, hist'.runs = hist.runs
  PROVE  HooksHold'
<1>1. ASSUME NEW e \in DOMAIN epoch
      PROVE  /\ Saw(epoch[e], hist'.worked[e], relay'[epoch[e].key])
             /\ Later(hist.worked[e], hist'.worked[e])
  <2>1. epoch[e].key \in Relay /\ e \in Epochs
    BY EpochIn DEF EpochRecord
  <2>2. hist.worked[e] \in {"no", "busy", "ended"}
    BY <2>1 DEF TypeOK, Histories
  <2>3. Saw(epoch[e], hist.worked[e], relay[epoch[e].key])
    BY DEF HooksHold, Seen
  <2>4. /\ relay'[epoch[e].key] = IF epoch[e].key = k THEN s ELSE relay[epoch[e].key]
        /\ hist'.worked[e] = IF epoch[e].key = k
                                /\ hist.worked[e] = (IF phase = "busy" THEN "no" ELSE "busy")
                             THEN phase ELSE hist.worked[e]
    BY <2>1 DEF Moves
  <2>5. CASE s = "running" /\ phase = "busy"
    BY <2>2, <2>3, <2>4, <2>5 DEF Saw, Later
  <2>6. CASE s # "running" /\ phase = "ended"
    BY <2>2, <2>3, <2>4, <2>6 DEF Saw, Later
  <2> QED BY <2>5, <2>6
<1>2. Seen'
  BY <1>1 DEF Seen, Moves
<1>3. Beside
  BY <1>1 DEF Beside, Moves
<1> QED BY <1>2, <1>3, BesideTurn, BesideTold DEF HooksHold, Moves

LEMMA EndsMoves ==
  ASSUME TypeOK, NEW h \in Histories, h.worked = hist.worked, h.runs = hist.runs, NEW k, NEW s,
         NEW phase, phase = "busy" \/ phase = "ended",
         relay' = [relay EXCEPT ![k] = s], hist' = Worked(h, k, phase), UNCHANGED epoch
  PROVE  Moves(k, s, phase) /\ hist'.runs = hist.runs
<1>1. \A r \in Relay : relay'[r] = IF r = k THEN s ELSE relay[r]
  BY DEF TypeOK
<1>2. \A e \in DOMAIN epoch : e \in Epochs /\ e <= Len(epoch)
  BY EpochIn
<1> QED BY <1>1, <1>2, WorkedIs DEF Moves

LEMMA WorldHolds ==
  ASSUME TypeOK, HooksHold,
         \/ \E k \in Relay : TurnEnds(k) \/ RelayGone(k) \/ RelayReturns(k)
         \/ \E a \in Agent : AgentChanges(a)
         \/ ConfigChanges
  PROVE  HooksHold'
<1>1. ASSUME NEW k \in Relay, TurnEnds(k) \/ RelayGone(k) PROVE HooksHold'
  <2>1. PICK s : s # "running" /\ relay' = [relay EXCEPT ![k] = s]
    BY <1>1 DEF TurnEnds, RelayGone
  <2>2. hist' = Worked(hist, k, "ended") /\ UNCHANGED <<epoch, hook, worker, up>> /\ hist \in Histories
    BY <1>1, Kept DEF TurnEnds, RelayGone, hookVars
  <2>3. Moves(k, s, "ended") /\ hist'.runs = hist.runs
    BY <2>1, <2>2, EndsMoves
  <2> QED BY <2>1, <2>2, <2>3, MovesHold
<1>2. ASSUME NEW k \in Relay, RelayReturns(k) PROVE HooksHold'
  <2>1. relay[k] = "gone" /\ relay' = [relay EXCEPT ![k] = "idle"] /\ UNCHANGED <<epoch, hook, worker, up, hist>>
    BY <1>2 DEF RelayReturns, hookVars
  <2>2. \A r \in Relay : relay'[r] = IF r = k THEN "idle" ELSE relay[r]
    BY <2>1 DEF TypeOK
  <2>3. ASSUME NEW e \in DOMAIN epoch, epoch[e].key = k PROVE hist.worked[e] # "busy"
    BY <2>1, <2>3 DEF HooksHold, Seen, Saw
  <2>4. Moves(k, "idle", "ended")
    BY <2>1, <2>2, <2>3 DEF Moves
  <2> QED BY <2>1, <2>4, MovesHold
<1>3. ASSUME (\E a \in Agent : AgentChanges(a)) \/ ConfigChanges PROVE HooksHold'
  <2>1. UNCHANGED <<relay, epoch, hook, worker, up, hist>>
    BY <1>3 DEF AgentChanges, ConfigChanges, hookVars
  <2>2. Seen' /\ Told'
    BY <2>1 DEF HooksHold, Seen, Told
  <2>3. Beside
    BY <2>1 DEF Beside, Later
  <2> QED BY <2>2, <2>3, BesideTurn DEF HooksHold
<1> QED BY <1>1, <1>2, <1>3

\* Steps that touch neither a relay nor an epoch.
HooksKept ==
    /\ UNCHANGED <<relay, epoch, hook, worker, up>>
    /\ hist'.runs = hist.runs /\ hist'.worked = hist.worked

LEMMA HooksKeptHold == ASSUME TypeOK, HooksHold, HooksKept PROVE HooksHold'
<1>1. Seen' /\ Told'
  BY DEF HooksKept, HooksHold, Seen, Told
<1>2. Beside
  BY DEF HooksKept, Beside, Later
<1> QED BY <1>1, <1>2, BesideTurn DEF HooksHold

\* Arming: the new epoch knows whether its relay works at this moment.
LEMMA ArmHolds ==
  ASSUME TypeOK, HooksHold, NEW o \in Op, armAgentWorkFinished(o), op[o].target # None
  PROVE  HooksHold'
<1> DEFINE k == op[o].target
           n == Len(epoch) + 1
           w == IF relay[k] = "running" THEN "busy" ELSE "no"
<1>1. /\ op[o] # None /\ UNCHANGED <<relay, hook, worker, up>>
      /\ \/ /\ epoch' = Append(epoch, NewEpoch(k)) /\ hist' = [hist EXCEPT !.worked[n] = w]
            /\ Len(epoch) < MaxEpochs
         \/ UNCHANGED <<epoch, hist>>
  BY DEF armAgentWorkFinished, ArmCallbackEpoch, At
<1>2. op[o] \in Operations
  BY <1>1, OperationTyped
<1>3. k \in Relay
  BY <1>2 DEF Operations
<1> HIDE DEF k
<1>4. CASE /\ epoch' = Append(epoch, NewEpoch(k)) /\ hist' = [hist EXCEPT !.worked[n] = w]
           /\ Len(epoch) < MaxEpochs
  <2>1. /\ epoch' \in Seq(EpochRecord) /\ Len(epoch') = Len(epoch) + 1
        /\ \A e \in 1..Len(epoch) : epoch'[e] = epoch[e]
        /\ epoch'[n] = NewEpoch(k)
    BY <1>3, <1>4, Kept, NewEpochTyped, Appended
  <2>2. Len(epoch) \in Nat /\ DOMAIN epoch = 1..Len(epoch) /\ DOMAIN epoch' = 1..(Len(epoch) + 1)
    BY <2>1, Kept, LenProperties
  <2>3. n \in Epochs
    BY <1>4, <2>2, AgentTurnsAssumption DEF Epochs
  <2>4. /\ DOMAIN epoch' = DOMAIN epoch \cup {n} /\ n \notin DOMAIN epoch
        /\ \A e \in DOMAIN epoch : epoch'[e] = epoch[e] /\ e \in Epochs /\ e # n
    BY <2>1, <2>2, EpochIn
  <2> HIDE DEF n, w
  <2>5. /\ hist'.runs = hist.runs /\ hist'.worked[n] = w
        /\ \A e \in Epochs : e # n => hist'.worked[e] = hist.worked[e]
    BY <1>4, <2>3 DEF TypeOK, Histories
  <2>6. /\ NewEpoch(k).key = k /\ ~NewEpoch(k).busy /\ NewEpoch(k).idle = 0 /\ ~NewEpoch(k).emitted
        /\ NewEpoch(k).outcome = "none"
    BY DEF NewEpoch
  <2>7. Seen'
    <3>1. ASSUME NEW e \in DOMAIN epoch PROVE Saw(epoch'[e], hist'.worked[e], relay[epoch'[e].key])
      BY <2>4, <2>5 DEF HooksHold, Seen
    <3>2. Saw(epoch'[n], hist'.worked[n], relay[epoch'[n].key])
      BY <2>1, <2>5, <2>6 DEF Saw, w
    <3> QED BY <1>1, <2>4, <3>1, <3>2 DEF Seen
  <2>8. Told'
    <3>1. ASSUME NEW e \in Epochs
          PROVE  /\ hist.runs[e] <= 1
                 /\ hook[e] \in Unlaunched => hist.runs[e] = 0
                 /\ hook[e] # "none" => e \in DOMAIN epoch'
                 /\ e \in DOMAIN epoch' => Reports(epoch'[e], hook[e])
      <4>1. /\ hist.runs[e] <= 1
            /\ hook[e] \in Unlaunched => hist.runs[e] = 0
            /\ hook[e] # "none" => e \in DOMAIN epoch
            /\ e \in DOMAIN epoch => Reports(epoch[e], hook[e])
        BY DEF HooksHold, Told
      <4>2. Reports(epoch'[n], "none")
        BY <2>1, <2>6 DEF Reports, Open, Terminal
      <4> QED BY <2>4, <4>1, <4>2
    <3> QED BY <1>1, <2>5, <3>1 DEF Told
  <2>9. Beside
    BY <1>1, <2>4, <2>5 DEF Beside, Later
  <2> QED BY <2>7, <2>8, <2>9, BesideTurn DEF HooksHold
<1>5. CASE UNCHANGED <<epoch, hist>>
  BY <1>1, <1>5, HooksKeptHold DEF HooksKept
<1> QED BY <1>1, <1>4, <1>5

LEMMA PromptHolds ==
  ASSUME TypeOK, HooksHold, NEW o \in Op, PromptWithProvenance(o) PROVE HooksHold'
<1> DEFINE k == op[o].target
           h == [hist EXCEPT !.sent[o] = @ + 1]
<1>1. /\ UNCHANGED <<epoch, hook, worker, up>>
      /\ \/ relay' = [relay EXCEPT ![k] = "running"] /\ hist' = Worked(h, k, "busy")
         \/ UNCHANGED <<relay, hist>>
  BY DEF PromptWithProvenance, hookVars
<1>2. CASE UNCHANGED <<relay, hist>>
  BY <1>1, <1>2, HooksKeptHold DEF HooksKept
<1>3. CASE relay' = [relay EXCEPT ![k] = "running"] /\ hist' = Worked(h, k, "busy")
  <2>1. h \in Histories /\ h.worked = hist.worked /\ h.runs = hist.runs
    <3>1. hist \in Histories
      BY Kept
    <3>2. h \in Histories
      BY <3>1, HistoryFields
    <3> QED BY <3>1, <3>2 DEF Histories
  <2> HIDE DEF h, k
  <2>2. Moves(k, "running", "busy") /\ hist'.runs = hist.runs
    BY <1>1, <1>3, <2>1, EndsMoves
  <2> QED BY <1>1, <2>2, MovesHold
<1> QED BY <1>1, <1>2, <1>3

LEMMA InterruptHolds ==
  ASSUME TypeOK, HooksHold, NEW o \in Op, Interrupt(o) PROVE HooksHold'
<1> DEFINE k == op[o].key
           h == [hist EXCEPT !.stopped[o] = @ + 1]
<1>1. /\ UNCHANGED <<epoch, hook, worker, up>>
      /\ \/ relay' = [relay EXCEPT ![k] = "idle"] /\ hist' = Worked(h, k, "ended")
         \/ UNCHANGED <<relay, hist>>
  BY DEF Interrupt, Stops, hookVars
<1>2. CASE UNCHANGED <<relay, hist>>
  BY <1>1, <1>2, HooksKeptHold DEF HooksKept
<1>3. CASE relay' = [relay EXCEPT ![k] = "idle"] /\ hist' = Worked(h, k, "ended")
  <2>1. h \in Histories /\ h.worked = hist.worked /\ h.runs = hist.runs
    <3>1. hist \in Histories
      BY Kept
    <3>2. h \in Histories
      BY <3>1, HistoryFields
    <3> QED BY <3>1, <3>2 DEF Histories
  <2> HIDE DEF h, k
  <2>2. Moves(k, "idle", "ended") /\ hist'.runs = hist.runs
    BY <1>1, <1>3, <2>1, EndsMoves
  <2> QED BY <1>1, <2>2, MovesHold
<1> QED BY <1>1, <1>2, <1>3

LEMMA ExecutorHolds ==
  ASSUME TypeOK, ReceiptBinds, HooksHold, NEW o \in Op, OpStep(o)
  PROVE  HooksHold'
<1>1. CASE armAgentWorkFinished(o)
  <2>1. op[o].target # None
    BY <1>1 DEF ReceiptBinds, Bound, armAgentWorkFinished, At, Steps
  <2> QED BY <1>1, <2>1, ArmHolds
<1>2. CASE InterruptChecksStatus(o)
  <2>1. /\ UNCHANGED <<relay, epoch, hook, worker, up>>
        /\ hist' = [hist EXCEPT !.quiet[o] = TRUE] \/ UNCHANGED hist
    BY <1>2 DEF InterruptChecksStatus, hookVars
  <2>2. hist'.runs = hist.runs /\ hist'.worked = hist.worked
    BY <2>1 DEF TypeOK, Histories
  <2> QED BY <2>1, <2>2, HooksKeptHold DEF HooksKept
<1>3. CASE ExecuteStarts(o) \/ ExecuteEnds(o) \/ SendResolves(o) \/ InterruptReads(o)
           \/ InterruptAcknowledged(o) \/ finishAgentInterrupt(o)
  <2>1. UNCHANGED <<relay, epoch, hook, worker, up, hist>>
    BY <1>3 DEF ExecuteStarts, ExecuteEnds, SendResolves, InterruptReads, InterruptAcknowledged,
                finishAgentInterrupt, PersistReceipt, hookVars
  <2> QED BY <2>1, HooksKeptHold DEF HooksKept
<1> QED BY <1>1, <1>2, <1>3, PromptHolds, InterruptHolds DEF OpStep, AgentInterrupt, AgentSend

\* The pending epochs are not empty pages: the oldest one is on the page.
LEMMA PageHasEpochs ==
  ASSUME TypeOK, Pending # {}
  PROVE  PendingCallbackEpochs # {}
<1>1. Pending \in SUBSET Nat
  BY EpochIn, AgentTurnsAssumption DEF Pending, Epochs
<1>2. PICK e \in Pending : \A d \in Pending : e <= d
  BY <1>1, Least
<1>3. {d \in Pending : d < e} = {}
  <2>1. ASSUME NEW d \in Pending, d < e PROVE FALSE
    <3>1. d \in Nat /\ e \in Nat /\ e <= d
      BY <1>1, <1>2
    <3> QED BY <2>1, <3>1
  <2> QED BY <2>1
<1>4. Cardinality({d \in Pending : d < e}) = 0
  BY <1>3, FS_EmptySet
<1>5. Cardinality({d \in Pending : d < e}) < Page
  BY <1>4, AgentTurnsAssumption
<1> QED BY <1>2, <1>5 DEF PendingCallbackEpochs

LEMMA PollsHolds == ASSUME TypeOK, HooksHold, WorkerPolls PROVE HooksHold'
<1>1. /\ worker' = [pc |-> "next", page |-> PendingCallbackEpochs, sample |-> None] /\ up
      /\ Pending # {} /\ UNCHANGED <<up, relay, epoch, hook, hist>>
  BY DEF WorkerPolls
<1>2. Seen' /\ Told'
  BY <1>1 DEF HooksHold, Seen, Told
<1>3. PendingCallbackEpochs # {}
  BY <1>1, PageHasEpochs
<1>4. \A e \in PendingCallbackEpochs : e \in DOMAIN epoch /\ ~epoch[e].emitted
  BY DEF PendingCallbackEpochs, Pending
<1> HIDE DEF PendingCallbackEpochs
<1>5. worker'.pc = "next" /\ worker'.page = PendingCallbackEpochs
  BY <1>1
<1>6. Ready(worker'.pc, worker'.sample, epoch'[Current'], hist'.worked[Current'], hook'[Current'])
  BY <1>5 DEF Ready
<1>7. Turn'
  BY <1>1, <1>3, <1>4, <1>5, <1>6 DEF Turn
<1> QED BY <1>2, <1>7 DEF HooksHold

\* The worker goes on with what is left of its page.
LEMMA AdvanceTurn ==
  ASSUME Turn, worker.pc # "wait", worker' = Advance, up, UNCHANGED up,
         \A e \in worker.page \ {Current} : e \in DOMAIN epoch' /\ epoch'[e].emitted = epoch[e].emitted
  PROVE  Turn'
<1>1. /\ worker'.page = worker.page \ {Current}
      /\ worker'.pc = IF worker.page = {Current} THEN "wait" ELSE "next"
  BY DEF Advance
<1>2. \A e \in worker'.page : e \in DOMAIN epoch' /\ ~epoch'[e].emitted
  BY <1>1 DEF Turn
<1>3. worker'.pc # "wait" => worker'.page # {}
  BY <1>1 DEF Turn
<1>4. Ready(worker'.pc, worker'.sample, epoch'[Current'], hist'.worked[Current'], hook'[Current'])
  BY <1>1 DEF Ready
<1> QED BY <1>2, <1>3, <1>4 DEF Turn

LEMMA SamplesHolds == ASSUME TypeOK, HooksHold, WorkerSamples PROVE HooksHold'
<1> DEFINE s == Status(epoch[Current].key)
<1>1. /\ worker.pc = "next" /\ up
      /\ worker' = [worker EXCEPT !.pc = "observe", !.sample = s] \/ worker' = Advance
      /\ UNCHANGED <<up, relay, epoch, hook, hist>>
  BY DEF WorkerSamples
<1>2. Seen' /\ Told'
  BY <1>1 DEF HooksHold, Seen, Told
<1>3. Turn
  BY DEF HooksHold
<1>4. CASE worker' = Advance
  <2>1. \A e \in worker.page \ {Current} :
          e \in DOMAIN epoch' /\ epoch'[e].emitted = epoch[e].emitted
    BY <1>1, <1>3 DEF Turn
  <2>2. Turn'
    BY <1>1, <1>3, <1>4, <2>1, AdvanceTurn
  <2> QED BY <1>2, <2>2 DEF HooksHold
<1>5. CASE worker' = [worker EXCEPT !.pc = "observe", !.sample = s]
  <2>1. Current \in DOMAIN epoch /\ Current \in Epochs /\ epoch[Current] \in EpochRecord
    BY <1>1, <1>3, CurrentEpoch, EpochIn
  <2>2. hist.worked[Current] \in {"no", "busy", "ended"}
    BY <2>1 DEF TypeOK, Histories
  <2>3. Saw(epoch[Current], hist.worked[Current], relay[epoch[Current].key])
    BY <2>1 DEF HooksHold, Seen
  <2>4. /\ s = "running" => relay[epoch[Current].key] = "running"
        /\ s = "idle" => relay[epoch[Current].key] # "running"
    BY DEF Status
  <2>5. worker'.pc = "observe" /\ worker'.page = worker.page /\ worker'.sample = s
    BY <1>5, HookKept DEF WorkerTyped
  <2> HIDE DEF s
  <2>6. Ready("observe", s, epoch[Current], hist.worked[Current], hook[Current])
    BY <2>2, <2>3, <2>4 DEF Ready, Saw
  <2>7. Current' = Current
    BY <2>5 DEF Current
  <2> HIDE DEF Current
  <2>8. \A e \in worker.page : e \in DOMAIN epoch /\ ~epoch[e].emitted
    BY <1>1, <1>3 DEF Turn
  <2>9. Turn'
    BY <1>1, <1>3, <2>5, <2>6, <2>7, <2>8 DEF Turn
  <2> QED BY <1>2, <2>9 DEF HooksHold
<1> QED BY <1>1, <1>4, <1>5

\* A step of the worker changes one epoch and its Procedure.
OnlyOne(c, r, h) ==
    /\ DOMAIN epoch' = DOMAIN epoch /\ c \in DOMAIN epoch
    /\ epoch'[c] = r /\ \A e \in DOMAIN epoch \ {c} : epoch'[e] = epoch[e]
    /\ hook'[c] = h /\ \A e \in Epochs \ {c} : hook'[e] = hook[e]
    /\ UNCHANGED <<relay, up>>

LEMMA OneEpoch ==
  ASSUME TypeOK, NEW c \in DOMAIN epoch, NEW r, epoch' = [epoch EXCEPT ![c] = r]
  PROVE  DOMAIN epoch' = DOMAIN epoch /\ epoch'[c] = r /\ \A e \in DOMAIN epoch \ {c} : epoch'[e] = epoch[e]
OBVIOUS

LEMMA OneHolds ==
  ASSUME TypeOK, Seen, Told, NEW c, NEW r, NEW h, OnlyOne(c, r, h), UNCHANGED hist,
         r.key = epoch[c].key, Saw(r, hist.worked[c], relay[r.key]), Reports(r, h),
         h \in Unlaunched => hist.runs[c] = 0
  PROVE  Seen' /\ Told'
<1>1. Seen'
  BY DEF Seen, OnlyOne
<1>2. ASSUME NEW e \in Epochs
      PROVE  /\ hist.runs[e] <= 1
             /\ hook'[e] \in Unlaunched => hist.runs[e] = 0
             /\ hook'[e] # "none" => e \in DOMAIN epoch
             /\ e \in DOMAIN epoch => Reports(epoch'[e], hook'[e])
  <2>1. /\ hist.runs[e] <= 1
        /\ hook[e] \in Unlaunched => hist.runs[e] = 0
        /\ hook[e] # "none" => e \in DOMAIN epoch
        /\ e \in DOMAIN epoch => Reports(epoch[e], hook[e])
    BY DEF Told
  <2>2. CASE e = c
    BY <2>1, <2>2 DEF OnlyOne
  <2>3. CASE e # c
    BY <2>1, <2>3 DEF OnlyOne
  <2> QED BY <2>2, <2>3
<1>3. Told'
  BY <1>2 DEF Told, OnlyOne
<1> QED BY <1>1, <1>3

LEMMA ObserveHolds == ASSUME TypeOK, HooksHold, ObserveCallbackEpoch PROVE HooksHold'
<1> DEFINE c == Current
           rec == Observed(epoch[c], worker.sample)
<1>1. /\ worker.pc = "observe" /\ up /\ epoch' = [epoch EXCEPT ![c] = rec]
      /\ worker' = IF worker.sample = "idle" /\ rec.idle >= 2
                   THEN [worker EXCEPT !.pc = "dispatch"] ELSE Advance
      /\ UNCHANGED <<up, relay, hook, hist>>
  BY DEF ObserveCallbackEpoch, opVars, envVars
<1>2. Turn /\ Seen /\ Told
  BY DEF HooksHold
<1>3. c \in DOMAIN epoch /\ c \in Epochs /\ c \in worker.page /\ epoch[c] \in EpochRecord
  BY <1>1, <1>2, CurrentEpoch, EpochIn
<1>4. /\ hist.worked[c] \in {"no", "busy", "ended"} /\ Saw(epoch[c], hist.worked[c], relay[epoch[c].key])
      /\ Reports(epoch[c], hook[c]) /\ (hook[c] \in Unlaunched => hist.runs[c] = 0)
      /\ Ready("observe", worker.sample, epoch[c], hist.worked[c], hook[c]) /\ ~epoch[c].emitted
  BY <1>1, <1>2, <1>3 DEF TypeOK, Histories, Seen, Told, Turn
<1> DEFINE r0 == epoch[c]
           w == worker.sample
<1>5. /\ rec.key = r0.key /\ rec.emitted = r0.emitted /\ rec.outcome = r0.outcome
      /\ w = "running" => rec.busy /\ rec.idle = 0
      /\ w = "idle" /\ r0.busy => rec.busy
      /\ w = "idle" /\ ~r0.busy => rec = r0
      /\ w \notin {"running", "idle"} => rec.busy = r0.busy /\ rec.idle = 0
  BY <1>3 DEF Observed, EpochRecord
<1>6. OnlyOne(c, rec, hook[c])
  BY <1>1, <1>3, OneEpoch DEF OnlyOne
<1> HIDE DEF rec, c, w, r0
<1>7. rec.idle \in 0..2
  BY <1>3, EpochFields DEF EpochRecord, rec, r0
<1>8. Saw(rec, hist.worked[c], relay[rec.key]) /\ Reports(rec, hook[c])
  <2>1. Saw(r0, hist.worked[c], relay[r0.key]) /\ Reports(r0, hook[c])
        /\ (w = "running" => hist.worked[c] # "no")
    BY <1>4 DEF r0, w, Ready
  <2>2. Reports(rec, hook[c])
    BY <1>5, <2>1 DEF Reports
  <2>3. Saw(rec, hist.worked[c], relay[rec.key])
    BY <1>5, <2>1 DEF Saw
  <2> QED BY <2>2, <2>3
<1>9. Seen' /\ Told'
  BY <1>1, <1>2, <1>4, <1>5, <1>6, <1>8, OneHolds DEF r0
<1>10. Turn'
  <2>1. CASE worker' = Advance
    <3>1. \A e \in worker.page \ {Current} :
            e \in DOMAIN epoch' /\ epoch'[e].emitted = epoch[e].emitted
      BY <1>2, <1>6 DEF Turn, OnlyOne, c
    <3> QED BY <1>1, <1>2, <2>1, <3>1, AdvanceTurn
  <2>2. CASE w = "idle" /\ rec.idle >= 2 /\ worker' = [worker EXCEPT !.pc = "dispatch"]
    <3>1. worker'.pc = "dispatch" /\ worker'.page = worker.page
      BY <2>2, HookKept DEF WorkerTyped
    <3>2. Current' = c
      BY <3>1 DEF Current, c
    <3>3. rec.idle > 0
      BY <1>7, <2>2
    <3>4. r0.busy
      BY <1>4, <1>5, <2>2, <3>3 DEF Saw, r0
    <3>5. hist.worked[c] = "ended"
      BY <1>4, <2>2, <3>4 DEF Ready, r0, w
    <3>6. Ready("dispatch", worker'.sample, epoch'[c], hist.worked[c], hook[c])
      BY <3>5 DEF Ready
    <3>7. \A e \in worker.page : e \in DOMAIN epoch' /\ ~epoch'[e].emitted
      <4>1. ~rec.emitted
        BY <1>4, <1>5 DEF r0
      <4>2. \A e \in worker.page : e \in DOMAIN epoch /\ ~epoch[e].emitted
        BY <1>1, <1>2 DEF Turn
      <4> QED BY <1>6, <4>1, <4>2 DEF OnlyOne
    <3> QED BY <1>1, <1>2, <3>1, <3>2, <3>6, <3>7 DEF Turn
  <2> QED BY <1>1, <2>1, <2>2 DEF w, rec
<1> QED BY <1>9, <1>10 DEF HooksHold

LEMMA DispatchHolds == ASSUME TypeOK, HooksHold, DispatchHook PROVE HooksHold'
<1> DEFINE c == Current
           claimed == [epoch[c] EXCEPT !.emitted = TRUE, !.outcome = "pending", !.rev = config.rev]
           closed == [epoch[c] EXCEPT !.emitted = TRUE, !.outcome = "unbound"]
<1>1. /\ worker.pc = "dispatch" /\ up /\ UNCHANGED <<up, relay, hook, hist>>
      /\ \/ epoch' = [epoch EXCEPT ![c] = claimed] /\ worker' = [worker EXCEPT !.pc = "write"]
         \/ epoch' = [epoch EXCEPT ![c] = closed] /\ worker' = Advance
         \/ UNCHANGED epoch /\ worker' = Advance
  BY DEF DispatchHook, AllocateCallbackEpochOperation, ClaimCallbackEpochWithoutHook
<1>2. Turn /\ Seen /\ Told
  BY DEF HooksHold
<1>3. c \in DOMAIN epoch /\ c \in Epochs /\ c \in worker.page /\ epoch[c] \in EpochRecord
  BY <1>1, <1>2, CurrentEpoch, EpochIn
<1>4. /\ Saw(epoch[c], hist.worked[c], relay[epoch[c].key])
      /\ Reports(epoch[c], hook[c]) /\ (hook[c] \in Unlaunched => hist.runs[c] = 0)
      /\ hist.worked[c] = "ended" /\ ~epoch[c].emitted
  BY <1>1, <1>2, <1>3 DEF Seen, Told, Turn, Ready
<1>5. hook[c] = "none"
  BY <1>4 DEF Reports
<1>6. /\ claimed.key = epoch[c].key /\ claimed.busy = epoch[c].busy /\ claimed.idle = epoch[c].idle
      /\ claimed.emitted /\ claimed.outcome = "pending"
      /\ closed.key = epoch[c].key /\ closed.busy = epoch[c].busy /\ closed.idle = epoch[c].idle
      /\ closed.emitted /\ closed.outcome = "unbound"
  BY <1>3 DEF EpochRecord
<1> HIDE DEF claimed, closed, c
<1>7. Saw(claimed, hist.worked[c], relay[claimed.key]) /\ Reports(claimed, hook[c])
      /\ Saw(closed, hist.worked[c], relay[closed.key]) /\ Reports(closed, hook[c])
  BY <1>4, <1>5, <1>6 DEF Saw, Reports, Open, Terminal
<1>8. CASE epoch' = [epoch EXCEPT ![c] = claimed] /\ worker' = [worker EXCEPT !.pc = "write"]
  <2>1. OnlyOne(c, claimed, hook[c])
    BY <1>1, <1>3, <1>8, OneEpoch DEF OnlyOne
  <2>2. Seen' /\ Told'
    BY <1>1, <1>2, <1>4, <1>6, <1>7, <2>1, OneHolds
  <2>3. worker'.pc = "write" /\ worker'.page = worker.page
    BY <1>8, HookKept DEF WorkerTyped
  <2>4. Current' = c
    BY <2>3 DEF Current, c
  <2>5. Ready("write", worker'.sample, epoch'[c], hist.worked[c], hook[c])
    BY <1>5, <1>6, <2>1 DEF Ready, OnlyOne
  <2>6. \A e \in worker.page : e \in DOMAIN epoch' /\ (~epoch'[e].emitted \/ e = c)
    BY <1>1, <1>2, <2>1 DEF Turn, OnlyOne
  <2>7. Turn'
    BY <1>1, <1>2, <2>3, <2>4, <2>5, <2>6 DEF Turn
  <2> QED BY <2>2, <2>7 DEF HooksHold
<1>9. CASE epoch' = [epoch EXCEPT ![c] = closed] /\ worker' = Advance
  <2>1. OnlyOne(c, closed, hook[c])
    BY <1>1, <1>3, <1>9, OneEpoch DEF OnlyOne
  <2>2. Seen' /\ Told'
    BY <1>1, <1>2, <1>4, <1>6, <1>7, <2>1, OneHolds
  <2>3. \A e \in worker.page \ {Current} :
          e \in DOMAIN epoch' /\ epoch'[e].emitted = epoch[e].emitted
    BY <1>2, <2>1 DEF Turn, OnlyOne, c
  <2>4. Turn'
    BY <1>1, <1>2, <1>9, <2>3, AdvanceTurn
  <2> QED BY <2>2, <2>4 DEF HooksHold
<1>10. CASE UNCHANGED epoch /\ worker' = Advance
  <2>1. Seen' /\ Told'
    BY <1>1, <1>2, <1>10 DEF Seen, Told
  <2>2. \A e \in worker.page \ {Current} :
          e \in DOMAIN epoch' /\ epoch'[e].emitted = epoch[e].emitted
    BY <1>2, <1>10 DEF Turn
  <2>3. Turn'
    BY <1>1, <1>2, <1>10, <2>2, AdvanceTurn
  <2> QED BY <2>1, <2>3 DEF HooksHold
<1> QED BY <1>1, <1>8, <1>9, <1>10

LEMMA WriteHolds == ASSUME TypeOK, HooksHold, WriteHookOperation PROVE HooksHold'
<1> DEFINE c == Current
           unknown == [epoch[c] EXCEPT !.outcome = "outcome_unknown"]
<1>1. /\ worker.pc = "write" /\ up /\ worker' = Advance /\ UNCHANGED <<up, relay, hist>>
      /\ \/ hook' = [hook EXCEPT ![c] = "accepted"] /\ UNCHANGED epoch
         \/ /\ hook' = hook \/ hook' = [hook EXCEPT ![c] = "outcome_unknown"]
            /\ epoch' = [epoch EXCEPT ![c] = unknown]
  BY DEF WriteHookOperation, RecordCallbackEpochOperationOutcome
<1>2. Turn /\ Seen /\ Told
  BY DEF HooksHold
<1>3. c \in DOMAIN epoch /\ c \in Epochs /\ c \in worker.page /\ epoch[c] \in EpochRecord
  BY <1>1, <1>2, CurrentEpoch, EpochIn
<1>4. /\ Saw(epoch[c], hist.worked[c], relay[epoch[c].key])
      /\ (hook[c] \in Unlaunched => hist.runs[c] = 0)
      /\ epoch[c].emitted /\ epoch[c].outcome = "pending" /\ hook[c] = "none"
  BY <1>1, <1>2, <1>3 DEF Seen, Told, Turn, Ready
<1>5. /\ unknown.key = epoch[c].key /\ unknown.busy = epoch[c].busy /\ unknown.idle = epoch[c].idle
      /\ unknown.emitted = epoch[c].emitted /\ unknown.outcome = "outcome_unknown"
  BY <1>3 DEF EpochRecord
<1> HIDE DEF unknown, c
<1>6. /\ Saw(unknown, hist.worked[c], relay[unknown.key])
      /\ Reports(unknown, "none") /\ Reports(unknown, "outcome_unknown") /\ Reports(epoch[c], "accepted")
  BY <1>4, <1>5 DEF Saw, Reports, Open, Terminal
<1>7. PICK r \in {epoch[c], unknown}, h \in {"none", "accepted", "outcome_unknown"} :
        OnlyOne(c, r, h) /\ Reports(r, h)
  <2>1. \A h : hook' = [hook EXCEPT ![c] = h] => hook'[c] = h /\ \A e \in Epochs \ {c} : hook'[e] = hook[e]
    BY <1>3, HookKept
  <2>2. CASE hook' = [hook EXCEPT ![c] = "accepted"] /\ UNCHANGED epoch
    <3>1. OnlyOne(c, epoch[c], "accepted")
      BY <1>1, <1>3, <2>1, <2>2 DEF OnlyOne
    <3> QED BY <1>6, <3>1
  <2>3. CASE hook' = hook /\ epoch' = [epoch EXCEPT ![c] = unknown]
    <3>1. OnlyOne(c, unknown, "none")
      BY <1>1, <1>3, <1>4, <2>3, OneEpoch DEF OnlyOne
    <3> QED BY <1>6, <3>1
  <2>4. CASE hook' = [hook EXCEPT ![c] = "outcome_unknown"] /\ epoch' = [epoch EXCEPT ![c] = unknown]
    <3>1. OnlyOne(c, unknown, "outcome_unknown")
      BY <1>1, <1>3, <2>1, <2>4, OneEpoch DEF OnlyOne
    <3> QED BY <1>6, <3>1
  <2> QED BY <1>1, <2>2, <2>3, <2>4
<1>8. hist.runs[c] = 0
  BY <1>4 DEF Unlaunched
<1>9. r.key = epoch[c].key /\ Saw(r, hist.worked[c], relay[r.key])
  BY <1>4, <1>5, <1>6
<1>10. Seen' /\ Told'
  BY <1>1, <1>2, <1>7, <1>8, <1>9, OneHolds
<1>11. \A e \in worker.page \ {Current} :
         e \in DOMAIN epoch' /\ epoch'[e].emitted = epoch[e].emitted
  BY <1>2, <1>7 DEF Turn, OnlyOne, c
<1>12. Turn'
  BY <1>1, <1>2, <1>11, AdvanceTurn
<1> QED BY <1>10, <1>12 DEF HooksHold

LEMMA WorkerHolds == ASSUME TypeOK, HooksHold, WorkerStep PROVE HooksHold'
BY PollsHolds, SamplesHolds, ObserveHolds, DispatchHolds, WriteHolds DEF WorkerStep

LEMMA HookHolds ==
  ASSUME TypeOK, HooksHold, NEW e \in Epochs, HookStep(e)
  PROVE  HooksHold'
<1> DEFINE s == hook[e]
           r == epoch[e]
           told == [r EXCEPT !.outcome = s]
<1>1. /\ UNCHANGED <<relay, up, worker>>
      /\ \/ s = "accepted" /\ hook' = [hook EXCEPT ![e] = "running"] /\ UNCHANGED <<epoch, hist>>
         \/ s = "running" /\ hook' = [hook EXCEPT ![e] = "failed"] /\ UNCHANGED <<epoch, hist>>
         \/ /\ s = "running" /\ hook' = [hook EXCEPT ![e] = "launched"] /\ UNCHANGED epoch
            /\ hist' = [hist EXCEPT !.runs[e] = @ + 1]
         \/ /\ s = "launched" /\ \E t \in Terminal : hook' = [hook EXCEPT ![e] = t]
            /\ UNCHANGED <<epoch, hist>>
         \/ s \in Terminal /\ epoch' = [epoch EXCEPT ![e] = told] /\ UNCHANGED <<hook, hist>>
  BY DEF HookStep, HookStarts, HookRefused, HookLaunches, HookEnds, HookRecords,
         RecordCallbackEpochOperationOutcome
<1>2. Seen /\ Told /\ Turn
  BY DEF HooksHold
<1>3. s # "none"
  BY <1>1 DEF Terminal
<1>4. /\ e \in DOMAIN epoch /\ r \in EpochRecord /\ Reports(r, s)
      /\ (s \in Unlaunched => hist.runs[e] = 0) /\ hist.runs[e] <= 1
      /\ Saw(r, hist.worked[e], relay[r.key])
  BY <1>2, <1>3, EpochIn DEF Told, Seen
<1>5. /\ told.key = r.key /\ told.busy = r.busy /\ told.idle = r.idle /\ told.emitted = r.emitted
      /\ told.outcome = s
  BY <1>4 DEF EpochRecord
<1>6. /\ hist'.worked = hist.worked /\ hist'.runs[e] <= 1 /\ hist'.runs[e] \in Nat
      /\ \A d \in Epochs \ {e} : hist'.runs[d] = hist.runs[d]
      /\ hook'[e] \in Unlaunched => hist'.runs[e] = 0
  <2>1. hist \in Histories /\ hook \in [Epochs -> HookStates] /\ hist.runs[e] \in Nat
    BY DEF TypeOK, Histories
  <2>2. CASE hist' = [hist EXCEPT !.runs[e] = @ + 1] /\ s = "running" /\ hook' = [hook EXCEPT ![e] = "launched"]
    <3>1. /\ hist'.worked = hist.worked /\ hist'.runs[e] = hist.runs[e] + 1
          /\ \A d \in Epochs \ {e} : hist'.runs[d] = hist.runs[d]
      BY <2>1, <2>2 DEF Histories
    <3>2. hist.runs[e] = 0
      BY <1>4, <2>2 DEF Unlaunched
    <3>3. hook'[e] = "launched"
      BY <2>1, <2>2
    <3> QED BY <3>1, <3>2, <3>3 DEF Unlaunched
  <2>3. CASE UNCHANGED hist
    <3>1. hook'[e] \in Unlaunched => s \in Unlaunched
      BY <1>1, <2>1, <2>3 DEF Unlaunched, Terminal
    <3> QED BY <1>4, <2>1, <2>3, <3>1
  <2> QED BY <1>1, <2>2, <2>3
<1> HIDE DEF told
<1>7. /\ hook'[e] # "none" /\ \A d \in Epochs \ {e} : hook'[d] = hook[d]
      /\ DOMAIN epoch' = DOMAIN epoch /\ epoch'[e] \in {r, told}
      /\ \A d \in DOMAIN epoch \ {e} : epoch'[d] = epoch[d]
      /\ Reports(epoch'[e], hook'[e])
  <2>1. hook \in [Epochs -> HookStates]
    BY HookKept
  <2>2. CASE s \in Terminal /\ epoch' = [epoch EXCEPT ![e] = told] /\ UNCHANGED hook
    <3>1. DOMAIN epoch' = DOMAIN epoch /\ epoch'[e] = told /\ \A d \in DOMAIN epoch \ {e} : epoch'[d] = epoch[d]
      BY <1>4, <2>2, OneEpoch
    <3>2. Reports(told, s)
      BY <1>4, <1>5, <2>2 DEF Reports, Open, Terminal
    <3> QED BY <1>3, <2>2, <3>1, <3>2
  <2>3. CASE UNCHANGED epoch /\ s \in Open /\ \E t \in {"running", "launched"} \cup Terminal : hook' = [hook EXCEPT ![e] = t]
    <3>1. PICK t \in {"running", "launched"} \cup Terminal : hook' = [hook EXCEPT ![e] = t]
      BY <2>3
    <3>2. hook'[e] = t /\ \A d \in Epochs \ {e} : hook'[d] = hook[d]
      BY <2>1, <3>1
    <3>3. Reports(r, t)
      BY <1>4, <2>3 DEF Reports, Open, Terminal
    <3>4. t # "none"
      BY DEF Terminal
    <3> QED BY <2>3, <3>2, <3>3, <3>4
  <2> QED BY <1>1, <2>2, <2>3 DEF Open, Terminal
<1>8. epoch'[e].key = r.key /\ epoch'[e].busy = r.busy /\ epoch'[e].idle = r.idle
      /\ epoch'[e].emitted = r.emitted
  BY <1>5, <1>7
<1>9. Seen'
  <2>1. Saw(epoch'[e], hist.worked[e], relay[epoch'[e].key])
    BY <1>4, <1>8 DEF Saw
  <2> QED BY <1>1, <1>2, <1>4, <1>6, <1>7, <2>1 DEF Seen
<1>10. Told'
  <2>1. ASSUME NEW d \in Epochs
        PROVE  /\ hist'.runs[d] <= 1
               /\ hook'[d] \in Unlaunched => hist'.runs[d] = 0
               /\ hook'[d] # "none" => d \in DOMAIN epoch'
               /\ d \in DOMAIN epoch' => Reports(epoch'[d], hook'[d])
    <3>1. CASE d = e
      BY <1>4, <1>6, <1>7, <3>1
    <3>2. CASE d # e
      <4>1. /\ hist.runs[d] <= 1
            /\ hook[d] \in Unlaunched => hist.runs[d] = 0
            /\ hook[d] # "none" => d \in DOMAIN epoch
            /\ d \in DOMAIN epoch => Reports(epoch[d], hook[d])
        BY <1>2 DEF Told
      <4> QED BY <1>6, <1>7, <3>2, <4>1
    <3> QED BY <3>1, <3>2
  <2> QED BY <2>1 DEF Told
<1>11. Turn'
  <2>1. Current' = Current
    BY <1>1 DEF Current
  <2>2. worker.pc # "wait" => Current \in DOMAIN epoch /\ Current \in Epochs
    BY <1>2, CurrentEpoch
  <2>3. worker.pc # "wait" =>
          Ready(worker.pc, worker.sample, epoch[Current], hist.worked[Current], hook[Current])
    BY <1>2 DEF Turn
  <2>4. worker.pc # "wait" =>
          Ready(worker.pc, worker.sample, epoch'[Current], hist'.worked[Current], hook'[Current])
    <3>1. CASE Current = e
      <4>1. worker.pc # "wait" => worker.pc # "write"
        BY <1>3, <2>3, <3>1 DEF Ready
      <4> QED BY <1>6, <1>8, <2>3, <3>1, <4>1 DEF Ready
    <3>2. CASE Current # e
      BY <1>6, <1>7, <2>2, <2>3, <3>2
    <3> QED BY <3>1, <3>2
  <2>5. \A d \in worker.page :
          /\ d \in DOMAIN epoch' /\ epoch'[d].emitted = epoch[d].emitted
          /\ ~epoch[d].emitted \/ (worker.pc = "write" /\ d = Current)
    BY <1>2, <1>7, <1>8 DEF Turn
  <2> HIDE DEF Current
  <2> QED BY <1>1, <1>2, <2>1, <2>4, <2>5 DEF Turn
<1> QED BY <1>9, <1>10, <1>11 DEF HooksHold

LEMMA CrashHolds == ASSUME TypeOK, HooksHold, Crash PROVE HooksHold'
<1>1. /\ worker'.pc = "wait" /\ worker'.page = {}
      /\ UNCHANGED <<relay, epoch, hook, hist>>
  BY DEF Crash
<1>2. Seen' /\ Told'
  BY <1>1 DEF HooksHold, Seen, Told
<1>3. Turn'
  BY <1>1 DEF Turn
<1> QED BY <1>2, <1>3 DEF HooksHold

\* Start-up closes what may have been launched and says so in the epoch.
LEMMA RestartHolds == ASSUME TypeOK, HooksHold, Restart PROVE HooksHold'
<1>1. /\ ~up /\ up' = TRUE /\ UNCHANGED <<relay, worker, hist>>
      /\ \A e \in Epochs : hook'[e] = RecoveredHook(hook[e])
      /\ DOMAIN epoch' = DOMAIN epoch
      /\ \A e \in DOMAIN epoch : epoch'[e] = RestartedEpoch(e)
  BY RestartIs
<1>2. Seen /\ Told /\ Turn
  BY DEF HooksHold
<1>3. ASSUME NEW s \in HookStates
      PROVE  /\ RecoveredHook(s) \in Terminal \cup {"none"} /\ (RecoveredHook(s) = "none") = (s = "none")
             /\ RecoveredHook(s) \notin Open
  BY DEF RecoveredHook, HookStates, Terminal, Open
<1>4. ASSUME NEW e \in DOMAIN epoch
      PROVE  /\ epoch'[e].key = epoch[e].key /\ epoch'[e].busy = epoch[e].busy
             /\ epoch'[e].idle = epoch[e].idle /\ epoch'[e].emitted = epoch[e].emitted
             /\ hook'[e] \in Terminal => epoch'[e].outcome = hook'[e]
             /\ hook'[e] \notin Terminal => epoch'[e] = epoch[e]
  <2>1. e \in Epochs /\ epoch[e] \in EpochRecord
    BY EpochIn
  <2>2. epoch'[e] = IF hook'[e] \in Terminal
                    THEN [epoch[e] EXCEPT !.outcome = hook'[e]] ELSE epoch[e]
    BY <1>1, <2>1 DEF RestartedEpoch
  <2> QED BY <2>1, <2>2 DEF EpochRecord
<1>5. Seen'
  <2>1. ASSUME NEW e \in DOMAIN epoch PROVE Saw(epoch'[e], hist.worked[e], relay[epoch'[e].key])
    <3>1. Saw(epoch[e], hist.worked[e], relay[epoch[e].key])
      BY <1>2 DEF Seen
    <3> QED BY <1>4, <3>1 DEF Saw
  <2> QED BY <1>1, <2>1 DEF Seen
<1>6. Told'
  <2>1. ASSUME NEW e \in Epochs
        PROVE  /\ hist.runs[e] <= 1
               /\ hook'[e] \in Unlaunched => hist.runs[e] = 0
               /\ hook'[e] # "none" => e \in DOMAIN epoch
               /\ e \in DOMAIN epoch => Reports(epoch'[e], hook'[e])
    <3>1. /\ hist.runs[e] <= 1
          /\ hook[e] \in Unlaunched => hist.runs[e] = 0
          /\ hook[e] # "none" => e \in DOMAIN epoch
          /\ e \in DOMAIN epoch => Reports(epoch[e], hook[e])
      BY <1>2 DEF Told
    <3>2. /\ hook'[e] \in Terminal \cup {"none"} /\ (hook'[e] = "none") = (hook[e] = "none")
          /\ hook'[e] \notin Open
      BY <1>1, <1>3, HookKept
    <3>3. hook'[e] \in Unlaunched => hist.runs[e] = 0
      BY <3>1, <3>2 DEF Unlaunched, Terminal
    <3>4. e \in DOMAIN epoch => Reports(epoch'[e], hook'[e])
      <4>1. CASE e \in DOMAIN epoch /\ hook'[e] \in Terminal
        BY <1>4, <3>1, <3>2, <4>1 DEF Reports, Terminal
      <4>2. CASE e \in DOMAIN epoch /\ hook'[e] \notin Terminal
        BY <1>4, <3>1, <3>2, <4>2
      <4> QED BY <4>1, <4>2
    <3> QED BY <3>1, <3>2, <3>3, <3>4
  <2> QED BY <1>1, <2>1 DEF Told
<1>7. Turn'
  BY <1>1, <1>2 DEF Turn
<1> QED BY <1>5, <1>6, <1>7 DEF HooksHold

-----------------------------------------------------------------------------
(* The inductive invariant.                                                *)

LEMMA InitInv == Init => IInv
<1> SUFFICES ASSUME Init PROVE IInv
  OBVIOUS
<1>1. mix \in Mixes /\ IsMix(mix)
  BY AgentTurnsAssumption DEF Init
<1>2. Op \subseteq Nat /\ Epochs \subseteq Nat
  BY AgentTurnsAssumption DEF Op, Epochs
<1>3. hist \in Histories /\ hist.worked = [e \in Epochs |-> "no"] /\ hist.runs = [e \in Epochs |-> 0]
  BY DEF Init, Histories
<1>4. epoch = <<>> /\ epoch \in Seq(EpochRecord) /\ Len(epoch) = 0 /\ DOMAIN epoch = {}
  BY EmptySeq DEF Init
<1>5. agents \in [Agent -> AgentRecord] /\ left \in [crashes : Nat, faults : Nat, changes : Nat]
      /\ relay \in [Relay -> {"idle", "running", "gone"}] /\ config \in [hook : mix.hooks, rev : Nat]
  BY <1>1 DEF Init, IsMix
<1>6. op \in [Op -> {None} \cup Operations]
      /\ receipt \in [Op -> {None, "interrupt_acknowledged", "completed"}]
      /\ hook \in [Epochs -> HookStates]
  BY DEF Init, HookStates
<1>7. worker \in [pc : {"wait", "next", "observe", "dispatch", "write"}, page : SUBSET Epochs,
                  sample : {None, "idle", "running", "error"}]
  BY DEF Init
<1>8. TypeOK
  <2>1. up \in BOOLEAN /\ text \in Seq(Nat) /\ reader = None /\ mix \in Mixes
    BY DEF Init
  <2>2. Len(epoch) <= MaxEpochs
    BY <1>4, AgentTurnsAssumption
  <2> QED BY <1>3, <1>4, <1>5, <1>6, <1>7, <2>1, <2>2 DEF TypeOK
<1>9. ReceiptBinds
  <2>1. ASSUME NEW o \in Op PROVE op[o] = None /\ receipt[o] = None
    BY DEF Init
  <2> QED BY <2>1, NoneAssumption DEF ReceiptBinds, Bound, Steps
<1>10. Seen /\ Told
  BY <1>3, <1>4 DEF Init, Seen, Told
<1>11. Turn /\ TailKept
  BY DEF Init, Turn, TailKept
<1> QED BY <1>8, <1>9, <1>10, <1>11 DEF IInv

\* The transcript is beside all this.
LEMMA TailBeside ==
  ASSUME TailKept, UNCHANGED <<text, reader>>, hist'.told = hist.told
  PROVE  TailKept'
BY DEF TailKept, TailLossIsReported, IsSnapshot, lines

\* Histories of steps that are not about the transcript.
LEMMA ToldTails ==
  ASSUME TypeOK,
         \/ UNCHANGED hist
         \/ \E k, phase : phase \in {"busy", "ended"} /\ hist' = Worked(hist, k, phase)
         \/ \E k : \E o \in Op : hist' = Worked([hist EXCEPT !.sent[o] = @ + 1], k, "busy")
         \/ \E k : \E o \in Op : hist' = Worked([hist EXCEPT !.stopped[o] = @ + 1], k, "ended")
         \/ \E o \in Op : hist' = [hist EXCEPT !.quiet[o] = TRUE]
         \/ \E e \in Epochs : hist' = [hist EXCEPT !.runs[e] = @ + 1]
         \/ \E n, w : hist' = [hist EXCEPT !.worked[n] = w]
  PROVE  hist'.told = hist.told
<1>1. hist \in Histories
  BY Kept
<1>2. ASSUME NEW k, NEW phase \in {"busy", "ended"}, hist' = Worked(hist, k, phase)
      PROVE  hist'.told = hist.told
  BY <1>1, <1>2, WorkedIs
<1>3. ASSUME NEW o \in Op, NEW k, hist' = Worked([hist EXCEPT !.sent[o] = @ + 1], k, "busy")
      PROVE  hist'.told = hist.told
  <2> DEFINE h == [hist EXCEPT !.sent[o] = @ + 1]
  <2>1. h \in Histories
    BY <1>1, HistoryFields
  <2>2. h.told = hist.told
    BY <1>1 DEF Histories
  <2> HIDE DEF h
  <2>3. hist' = Worked(h, k, "busy")
    BY <1>3 DEF h
  <2> QED BY <2>1, <2>2, <2>3, WorkedIs
<1>4. ASSUME NEW o \in Op, NEW k, hist' = Worked([hist EXCEPT !.stopped[o] = @ + 1], k, "ended")
      PROVE  hist'.told = hist.told
  <2> DEFINE h == [hist EXCEPT !.stopped[o] = @ + 1]
  <2>1. h \in Histories
    BY <1>1, HistoryFields
  <2>2. h.told = hist.told
    BY <1>1 DEF Histories
  <2> HIDE DEF h
  <2>3. hist' = Worked(h, k, "ended")
    BY <1>4 DEF h
  <2> QED BY <2>1, <2>2, <2>3, WorkedIs
<1>5. ASSUME \/ UNCHANGED hist
             \/ \E o \in Op : hist' = [hist EXCEPT !.quiet[o] = TRUE]
             \/ \E e \in Epochs : hist' = [hist EXCEPT !.runs[e] = @ + 1]
             \/ \E n, w : hist' = [hist EXCEPT !.worked[n] = w]
      PROVE  hist'.told = hist.told
  BY <1>1, <1>5 DEF Histories
<1> QED BY <1>2, <1>3, <1>4, <1>5

\* Steps of the world outside, of admissions, of executors, of Hooks and of
\* restarts leave the transcript alone.
LEMMA OthersTails ==
  ASSUME TypeOK, TailKept,
         \/ \E k \in Relay : TurnEnds(k) \/ RelayGone(k) \/ RelayReturns(k)
         \/ \E a \in Agent : AgentChanges(a)
         \/ ConfigChanges
         \/ \E o \in Op : AgentPromptAsync(o) \/ AgentInterruptAsync(o) \/ OpStep(o)
         \/ WorkerStep
         \/ \E e \in Epochs : HookStep(e)
         \/ Crash \/ Restart
  PROVE  TailKept'
<1>1. ASSUME NEW k \in Relay, TurnEnds(k) \/ RelayGone(k) \/ RelayReturns(k) PROVE TailKept'
  <2>1. UNCHANGED <<text, reader>> /\ (UNCHANGED hist \/ hist' = Worked(hist, k, "ended"))
    BY <1>1 DEF TurnEnds, RelayGone, RelayReturns, tailVars
  <2>2. hist'.told = hist.told
    BY <2>1, ToldTails
  <2> QED BY <2>1, <2>2, TailBeside
<1>2. ASSUME \/ \E a \in Agent : AgentChanges(a)
             \/ ConfigChanges
             \/ \E o \in Op : AgentPromptAsync(o) \/ AgentInterruptAsync(o)
             \/ WorkerStep
             \/ Crash \/ Restart
      PROVE  TailKept'
  <2>1. UNCHANGED <<text, reader, hist>>
    BY <1>2 DEF AgentChanges, ConfigChanges, AgentPromptAsync, AgentInterruptAsync, Admit, WorkerStep,
                WorkerPolls, WorkerSamples, ObserveCallbackEpoch, DispatchHook, WriteHookOperation,
                Crash, Restart, tailVars
  <2> QED BY <2>1, TailBeside
<1>3. ASSUME NEW e \in Epochs, HookStep(e) PROVE TailKept'
  <2>1. UNCHANGED <<text, reader>> /\ (UNCHANGED hist \/ hist' = [hist EXCEPT !.runs[e] = @ + 1])
    BY <1>3 DEF HookStep, HookStarts, HookRefused, HookLaunches, HookEnds, HookRecords, tailVars
  <2>2. hist'.told = hist.told
    BY <2>1, ToldTails
  <2> QED BY <2>1, <2>2, TailBeside
<1>4. ASSUME NEW o \in Op, OpStep(o) PROVE TailKept'
  <2>1. CASE PromptWithProvenance(o)
    <3>1. /\ UNCHANGED <<text, reader>>
          /\ UNCHANGED hist \/ hist' = Worked([hist EXCEPT !.sent[o] = @ + 1], op[o].target, "busy")
      BY <2>1 DEF PromptWithProvenance, tailVars
    <3>2. hist'.told = hist.told
      BY <3>1, ToldTails
    <3> QED BY <3>1, <3>2, TailBeside
  <2>2. CASE Interrupt(o)
    <3>1. /\ UNCHANGED <<text, reader>>
          /\ UNCHANGED hist \/ hist' = Worked([hist EXCEPT !.stopped[o] = @ + 1], op[o].key, "ended")
      BY <2>2 DEF Interrupt, Stops, tailVars
    <3>2. hist'.told = hist.told
      BY <3>1, ToldTails
    <3> QED BY <3>1, <3>2, TailBeside
  <2>3. CASE armAgentWorkFinished(o) \/ InterruptChecksStatus(o)
    <3>1. /\ UNCHANGED <<text, reader>>
          /\ \/ UNCHANGED hist
             \/ hist' = [hist EXCEPT !.quiet[o] = TRUE]
             \/ \E n, w : hist' = [hist EXCEPT !.worked[n] = w]
      BY <2>3 DEF armAgentWorkFinished, ArmCallbackEpoch, InterruptChecksStatus, tailVars
    <3>2. hist'.told = hist.told
      BY <3>1, ToldTails
    <3> QED BY <3>1, <3>2, TailBeside
  <2>4. CASE ExecuteStarts(o) \/ ExecuteEnds(o) \/ SendResolves(o) \/ InterruptReads(o)
             \/ InterruptAcknowledged(o) \/ finishAgentInterrupt(o)
    <3>1. UNCHANGED <<text, reader, hist>>
      BY <2>4 DEF ExecuteStarts, ExecuteEnds, SendResolves, InterruptReads, InterruptAcknowledged,
                  finishAgentInterrupt, PersistReceipt, tailVars
    <3> QED BY <3>1, TailBeside
  <2> QED BY <1>4, <2>1, <2>2, <2>3, <2>4 DEF OpStep, AgentInterrupt, AgentSend
<1> QED BY <1>1, <1>2, <1>3, <1>4

\* No other step touches a receipt or counts for an Operation.
LEMMA WorldBinds ==
  ASSUME TypeOK, ReceiptBinds,
         \/ \E k \in Relay : TurnEnds(k) \/ RelayGone(k) \/ RelayReturns(k)
         \/ \E a \in Agent : AgentChanges(a)
         \/ ConfigChanges
         \/ WorkerStep
         \/ \E e \in Epochs : HookStep(e)
         \/ Crash
  PROVE  ReceiptBinds' /\ \A p \in Op : Repeats(p)
<1>1. CASE \E k \in Relay : TurnEnds(k) \/ RelayGone(k) \/ RelayReturns(k)
  <2>1. PICK k \in Relay : TurnEnds(k) \/ RelayGone(k) \/ RelayReturns(k)
    BY <1>1
  <2>2. UNCHANGED <<op, receipt>> /\ (UNCHANGED hist \/ hist' = Worked(hist, k, "ended"))
    BY <2>1 DEF TurnEnds, RelayGone, RelayReturns, opVars
  <2>3. hist \in Histories
    BY Kept
  <2> QED BY <2>2, <2>3, WorkedIs, OpsKeptBinds DEF OpsKept
<1>2. CASE (\E a \in Agent : AgentChanges(a)) \/ ConfigChanges \/ WorkerStep \/ Crash
  <2>1. UNCHANGED <<op, receipt, hist>>
    BY <1>2 DEF AgentChanges, ConfigChanges, WorkerStep, WorkerPolls, WorkerSamples,
                ObserveCallbackEpoch, DispatchHook, WriteHookOperation, Crash, opVars
  <2> QED BY <2>1, OpsKeptBinds DEF OpsKept
<1>3. CASE \E e \in Epochs : HookStep(e)
  <2>1. PICK e \in Epochs : HookStep(e)
    BY <1>3
  <2>2. UNCHANGED <<op, receipt>> /\ (UNCHANGED hist \/ hist' = [hist EXCEPT !.runs[e] = @ + 1])
    BY <2>1 DEF HookStep, HookStarts, HookRefused, HookLaunches, HookEnds, HookRecords, opVars
  <2>3. hist'.sent = hist.sent /\ hist'.stopped = hist.stopped /\ hist'.quiet = hist.quiet
    BY <2>2 DEF TypeOK, Histories
  <2> QED BY <2>2, <2>3, OpsKeptBinds DEF OpsKept
<1> QED BY <1>1, <1>2, <1>3

\* What one step keeps, and what it may not do.
Holds == IInv' /\ \A p \in Op : Repeats(p)

LEMMA NextInv == ASSUME IInv, [Next]_vars PROVE Holds
<1>1. TypeOK /\ ReceiptBinds /\ HooksHold /\ TailKept /\ Seen /\ Told /\ Turn
  BY DEF IInv, HooksHold
<1>2. CASE \/ \E k \in Relay : TurnEnds(k) \/ RelayGone(k) \/ RelayReturns(k)
           \/ \E a \in Agent : AgentChanges(a)
           \/ ConfigChanges
  <2>1. TypeOK' /\ HooksHold' /\ ReceiptBinds' /\ TailKept' /\ \A p \in Op : Repeats(p)
    BY <1>1, <1>2, WorldTyped, WorldHolds, WorldBinds, OthersTails
  <2> QED BY <2>1 DEF Holds, IInv, HooksHold
<1>3. ASSUME NEW o \in Op, AgentPromptAsync(o) \/ AgentInterruptAsync(o) PROVE Holds
  <2>1. PICK kind, a, key : Admit(o, kind, a, key)
    BY <1>3 DEF AgentPromptAsync, AgentInterruptAsync
  <2>2. TypeOK'
    BY <1>1, <1>3, AdmissionsTyped
  <2>3. ReceiptBinds' /\ \A p \in Op : Repeats(p)
    BY <1>1, <2>1, <2>2, AdmitBinds
  <2>4. HooksKept
    BY <2>1 DEF HooksKept, Admit, hookVars
  <2>5. HooksHold' /\ TailKept'
    BY <1>1, <1>3, <2>4, HooksKeptHold, OthersTails
  <2> QED BY <2>2, <2>3, <2>5 DEF Holds, IInv, HooksHold
<1>4. ASSUME NEW o \in Op, OpStep(o) PROVE Holds
  <2>1. TypeOK' /\ HooksHold' /\ ReceiptBinds' /\ TailKept' /\ \A p \in Op : Repeats(p)
    BY <1>1, <1>4, OpStepTyped, ExecutorHolds, ExecutorBinds, OthersTails
  <2> QED BY <2>1 DEF Holds, IInv, HooksHold
<1>5. CASE WorkerStep
  <2>1. TypeOK'
    BY <1>1, <1>5, PollsTyped, SamplesTyped, ObserveTyped, DispatchTyped, WriteTyped DEF WorkerStep
  <2>2. HooksHold' /\ ReceiptBinds' /\ TailKept' /\ \A p \in Op : Repeats(p)
    BY <1>1, <1>5, WorkerHolds, WorldBinds, OthersTails
  <2> QED BY <2>1, <2>2 DEF Holds, IInv, HooksHold
<1>6. ASSUME NEW e \in Epochs, HookStep(e) PROVE Holds
  <2>1. TypeOK' /\ HooksHold' /\ ReceiptBinds' /\ TailKept' /\ \A p \in Op : Repeats(p)
    BY <1>1, <1>6, HookStepTyped, HookHolds, WorldBinds, OthersTails
  <2> QED BY <2>1 DEF Holds, IInv, HooksHold
<1>7. CASE Crash
  <2>1. TypeOK' /\ HooksHold' /\ ReceiptBinds' /\ TailKept' /\ \A p \in Op : Repeats(p)
    BY <1>1, <1>7, CrashTyped, CrashHolds, WorldBinds, OthersTails
  <2> QED BY <2>1 DEF Holds, IInv, HooksHold
<1>8. CASE Restart
  <2>1. TypeOK' /\ HooksHold' /\ ReceiptBinds' /\ TailKept' /\ \A p \in Op : Repeats(p)
    BY <1>1, <1>8, RestartTyped, RestartHolds, RestartBinds, OthersTails
  <2> QED BY <2>1 DEF Holds, IInv, HooksHold
<1>9. CASE PrintLine \/ canonicalAgentTail \/ canonicalAgentAwait \/ agentStatusContinuation
  <2>1. TypeOK' /\ TailKept'
    BY <1>1, <1>9, PrintTells, TailTells
  <2>2. /\ UNCHANGED <<op, receipt, relay, epoch, hook, worker, up>>
        /\ UNCHANGED hist \/ \E a : hist' = [hist EXCEPT !.told = a]
    <3>1. CASE PrintLine
      BY <3>1 DEF PrintLine, opVars, hookVars
    <3>2. ASSUME NEW n, NEW backlog, AgentTailPage(n, backlog)
          PROVE  /\ UNCHANGED <<op, receipt, relay, epoch, hook, worker, up>>
                 /\ \E a : hist' = [hist EXCEPT !.told = a]
      <4>1. UNCHANGED <<op, receipt, relay, epoch, hook, worker, up>>
        BY <3>2 DEF AgentTailPage, opVars, hookVars
      <4>2. \E a, b, c : hist' = [hist EXCEPT !.told = @ \cup a \cup b \cup c]
        BY <3>2, Zenon DEF AgentTailPage
      <4> QED BY <4>1, <4>2
    <3>3. \E n, backlog : AgentTailPage(n, backlog) \/ PrintLine
      BY <1>9 DEF canonicalAgentTail, canonicalAgentAwait, agentStatusContinuation
    <3> QED BY <3>1, <3>2, <3>3
  <2>3. /\ hist'.sent = hist.sent /\ hist'.stopped = hist.stopped /\ hist'.quiet = hist.quiet
        /\ hist'.runs = hist.runs /\ hist'.worked = hist.worked
    <3>1. hist \in Histories
      BY <1>1, Kept
    <3> QED BY <2>2, <3>1 DEF Histories
  <2>4. HooksHold' /\ ReceiptBinds' /\ \A p \in Op : Repeats(p)
    BY <1>1, <2>2, <2>3, HooksKeptHold, OpsKeptBinds DEF HooksKept, OpsKept
  <2> QED BY <2>1, <2>4 DEF Holds, IInv, HooksHold
<1>10. CASE UNCHANGED vars
  <2>1. /\ UNCHANGED <<op, receipt, relay, epoch, hook, worker, up, text, reader, hist>>
        /\ UNCHANGED <<agents, config, mix, left>>
    BY <1>10 DEF vars
  <2>2. TypeOK'
    BY <1>1, <2>1 DEF TypeOK
  <2>3. HooksHold' /\ ReceiptBinds' /\ TailKept' /\ \A p \in Op : Repeats(p)
    BY <1>1, <2>1, HooksKeptHold, OpsKeptBinds, TailBeside DEF HooksKept, OpsKept
  <2> QED BY <2>2, <2>3 DEF Holds, IInv, HooksHold
<1> QED BY <1>2, <1>3, <1>4, <1>5, <1>6, <1>7, <1>8, <1>9, <1>10 DEF Next

LEMMA Inductive == Spec => []IInv
<1>1. IInv /\ [Next]_vars => IInv'
  BY NextInv DEF Holds
<1> QED BY InitInv, <1>1, PTL DEF Spec

\* What the registry, the relays, the Operations with their receipts, the
\* epochs with their Hook files and the observer's state file hold, in every
\* reachable state.
THEOREM AgentTurnsTypeCorrect == Spec => []TypeOK
<1>1. IInv => TypeOK
  BY DEF IInv
<1> QED BY Inductive, <1>1, PTL

\* agent_work_finished_hooks.go, callback_epochs.go: whatever restarts and
\* failures happen, the Hook of a turn runs at most once, after the turn it
\* follows began and ended, and its epoch never contradicts its record.
THEOREM HooksFollowWork == Spec => []HookFollowsWork
<1>1. IInv => HookFollowsWork
  <2> SUFFICES ASSUME IInv, NEW e \in DOMAIN epoch
               PROVE  /\ hist.runs[e] <= 1
                      /\ hist.runs[e] = 1 => hist.worked[e] = "ended" /\ epoch[e].emitted
                      /\ epoch[e].outcome \in {"completed", "failed"} => hook[e] = epoch[e].outcome
                      /\ hook[e] \in Terminal => epoch[e].outcome \in {"pending", hook[e]}
    BY DEF HookFollowsWork
  <2>1. TypeOK /\ Seen /\ Told
    BY DEF IInv
  <2>2. e \in Epochs
    BY <2>1, EpochIn
  <2>3. Saw(epoch[e], hist.worked[e], relay[epoch[e].key])
    BY <2>1 DEF Seen
  <2>4. /\ hist.runs[e] <= 1 /\ (hook[e] \in Unlaunched => hist.runs[e] = 0)
        /\ Reports(epoch[e], hook[e])
    BY <2>1, <2>2 DEF Told
  <2>5. hist.runs[e] = 1 => hook[e] # "none"
    BY <2>4 DEF Unlaunched
  <2> QED BY <2>3, <2>4, <2>5 DEF Saw, Reports
<1> QED BY Inductive, <1>1, PTL

\* agent_interrupt_interrupt_execution.go: an interrupt whose receipt is on
\* disk is not carried out again by a later execution, and a replacement waits
\* until the turn was stopped or found idle.
THEOREM InterruptsAreNotRepeated == Spec => InterruptNotRepeated
<1>1. IInv /\ [Next]_vars => \A p \in Op : Repeats(p)
  BY NextInv DEF Holds
<1>2. (\A p \in Op : Repeats(p)) <=>
        \A o \in Op :
          /\ receipt[o] # None => hist'.stopped[o] = hist.stopped[o]
          /\ receipt[o] = "completed" =>
               receipt'[o] = "completed" /\ hist'.sent[o] = hist.sent[o]
          /\ hist'.sent[o] > hist.sent[o] /\ op[o].kind = "replace" =>
               hist.stopped[o] > 0 \/ hist.quiet[o]
  BY DEF Repeats
<1> QED BY Inductive, <1>1, <1>2, PTL DEF Spec, InterruptNotRepeated

\* agent_transcript.go: a line printed before the last observation was shown,
\* is kept for the next page, or its loss was announced, for any window and any
\* sequence of reads.
THEOREM TailLossesAreReported == Spec => []TailLossIsReported
<1>1. IInv => TailLossIsReported
  BY DEF IInv, TailKept, TailLossIsReported
<1> QED BY Inductive, <1>1, PTL
=============================================================================
