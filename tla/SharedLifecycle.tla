-------------------------- MODULE SharedLifecycle --------------------------
(***************************************************************************)
(* The Shared store's commit unit and the service handlers that use it.    *)
(*                                                                         *)
(* internal/sqlitestore keeps, for every kind of Shared entity (Rule, ADR, *)
(* Task, Milestone), one state row, an immutable history row per content   *)
(* revision, a chain of lifecycle events (status changes) and a Hub outbox *)
(* row per committed mutation.  A mutation is committed by one SQLite      *)
(* batch, but what it commits is computed by a handler of internal/service *)
(* from rows it read earlier, in separate queries.  MCP requests run the   *)
(* handlers concurrently; only the Task handlers share a mutex.            *)
(*                                                                         *)
(* Every query, every batch and the mutex are one step here.  Kinds have   *)
(* sequences of their own and share nothing but the outbox table, whose    *)
(* rows are keyed by operation identity.                                   *)
(*                                                                         *)
(* Abstractions.  A payload is its revision, its status, its content and   *)
(* the request that wrote it (for updated_at and updated_by, which make    *)
(* the bytes of two writes differ).  Content is a value per field.         *)
(* Validation of texts, actors and reasons is left out: every request is   *)
(* well formed.  The store revision column and the revision inside the     *)
(* payload always change together, so the two CAS conditions on them are   *)
(* one.  ADR history seeding is left out: it writes nothing for an entity  *)
(* whose current revision can be read, and every seeded ADR here can be.   *)
(***************************************************************************)
EXTENDS Naturals, Sequences, FiniteSets

CONSTANTS
  Requests,           \* MCP requests; each runs one handler once
  Workloads,          \* the sets of requests that arrive in one behaviour
  Kind,               \* the kind of entity a request is about
  Verb,               \* the handler of a request
  Target,             \* the number of the entity it mutates
  Edit,               \* the field it sets and the value it sets it to
  To,                 \* the status an update asks for, or "keep"
  Given,              \* the expected revision a caller supplies, or 0
  Fields, Values,     \* the content of an entity; 0 is the initial value
  Seeded,             \* the entities that exist at the start
  MaxNumber,          \* bound on entity numbers
  CreateAttempts      \* attempts of CommitSharedLifecycleCreate (8)

Blank == [f \in Fields |-> 0]

NoEdit == [field |-> "none", value |-> 0]

Edits == [field : Fields, value : Values] \cup {NoEdit}

Verbs ==
  {"create", "update", "archive", "complete", "activate", "append",
   "remove"}

(* The statuses and the status transitions of the registry.                *)
AllowedTransitions ==
  [rule      |-> [proposed  |-> {"accepted", "archived"},
                  accepted  |-> {"archived"},
                  archived  |-> {}],
   adr       |-> [proposed   |-> {"accepted", "archived"},
                  accepted   |-> {"superseded", "archived"},
                  superseded |-> {"archived"},
                  archived   |-> {}],
   task      |-> [planned  |-> {"ready", "done", "archived"},
                  ready    |-> {"done", "archived"},
                  done     |-> {"archived"},
                  archived |-> {}],
   milestone |-> [planned   |-> {"active"},
                  active    |-> {"completed"},
                  completed |-> {"archived"},
                  archived  |-> {}]]

Kinds == {"rule", "adr", "task", "milestone"}

(* An entity is named by its kind and its number.                          *)
Ids == Kinds \X (1 .. MaxNumber)

AllowedStatuses ==
  {"proposed", "accepted", "superseded", "planned", "ready", "done",
   "active", "completed", "archived"}

DefaultCreateStatus ==
  [rule |-> "proposed", adr |-> "proposed", task |-> "planned",
   milestone |-> "planned"]

ASSUME RequestAssumption ==
  /\ "seed" \notin Requests
  /\ Workloads \subseteq SUBSET Requests
  /\ Kind \in [Requests -> Kinds]
  /\ Verb \in [Requests -> Verbs]
  /\ Target \in [Requests -> 1 .. MaxNumber]
  /\ Edit \in [Requests -> Edits]
  /\ To \in [Requests -> AllowedStatuses \cup {"keep"}]
  /\ Given \in [Requests -> Nat]
  /\ \A r \in Requests :
       /\ Verb[r] # "create" => <<Kind[r], Target[r]>> \in Seeded
       /\ To[r] # "keep" => To[r] \in DOMAIN AllowedTransitions[Kind[r]]
       /\ Verb[r] \in {"archive", "complete", "activate"} =>
            Edit[r] = NoEdit

ASSUME BoundAssumption ==
  /\ 0 \in Values
  /\ "none" \notin Fields
  /\ MaxNumber \in Nat
  /\ Seeded \subseteq Ids
  /\ \A e \in Seeded : \A n \in 1 .. e[2] : <<e[1], n>> \in Seeded
  /\ CreateAttempts \in Nat \ {0}

Statuses == AllowedStatuses \cup {"absent"}

Payloads ==
  [rev : Nat, status : Statuses,
   content : [Fields -> Values], by : Requests \cup {"seed"}]

Absent ==
  [rev |-> 0, status |-> "absent", content |-> Blank, by |-> "seed"]

(* Operation identities: the primary key of the outbox.                    *)
OpIds ==
  [verb : Verbs, id : Kinds \X Nat, edit : Edits, to : Statuses \cup {"keep"},
   rev : Nat, by : Requests \cup {"digest", "seed"}]

NoOp ==
  [verb |-> "update", id |-> <<"rule", 0>>, edit |-> NoEdit, to |-> "keep", rev |-> 0,
   by |-> "digest"]

VARIABLES
  seq,       \* next_number of shared_entity_sequences, per kind
  state,     \* the state tables: entity -> payload, or Absent
  history,   \* shared_entity_revisions rows, primary key (id, rev)
  events,    \* shared_lifecycle_events of every entity, in insertion order
  outbox,    \* hub_outbox rows, primary key op
  mutex,     \* holder of taskExecutionMu, or "seed" when it is free
  req        \* the local state of every request

store == <<seq, state, history, events, outbox>>
vars == <<seq, state, history, events, outbox, mutex, req>>

Free == "seed"

Rows == [id : Ids, rev : Nat, payload : Payloads]

Events ==
  [op : OpIds, rev : Nat, from : Statuses, to : Statuses]

Entries == [op : OpIds, id : Ids, rev : Nat, payload : Payloads]

Local ==
  [pc : {"idle", "read", "check", "reuse", "batch", "recheck", "number",
         "create", "recreate", "done"},
   path : {"revision", "event", "create"},
   exp : Nat, read : Payloads, next : Payloads, op : OpIds,
   number : Nat, tries : 0 .. CreateAttempts,
   out : {"none", "refused", "unchanged", "committed", "reused",
          "exhausted", "cancelled"}]

Idle ==
  [pc |-> "idle", path |-> "revision", exp |-> 0, read |-> Absent,
   next |-> Absent, op |-> NoOp, number |-> 0, tries |-> 0,
   out |-> "none"]

(* A request that no caller makes.                                         *)
NotSent == [Idle EXCEPT !.pc = "done"]

SeedPayload(e) ==
  [rev |-> 1, status |-> DefaultCreateStatus[e[1]], content |-> Blank,
   by |-> "seed"]

SeedOp(e) ==
  [verb |-> "create", id |-> e, edit |-> NoEdit, to |-> "keep", rev |-> 0,
   by |-> "seed"]

SeededOf(k) == {e \in Seeded : e[1] = k}

Init ==
  /\ seq = [k \in Kinds |-> Cardinality(SeededOf(k)) + 1]
  /\ state = [e \in Ids |-> IF e \in Seeded THEN SeedPayload(e) ELSE Absent]
  /\ history = {[id |-> e, rev |-> 1, payload |-> SeedPayload(e)] :
                  e \in Seeded}
  /\ events = [e \in Ids |-> <<>>]
  /\ outbox = {[op |-> SeedOp(e), id |-> e, rev |-> 1,
                payload |-> SeedPayload(e)] : e \in Seeded}
  /\ mutex = Free
  /\ \E W \in Workloads :
       req = [r \in Requests |-> IF r \in W THEN Idle ELSE NotSent]

----------------------------------------------------------------------------
(* Helpers of the handlers.                                                *)

At(r, pc) == req[r].pc = pc

Is(r, kind, verb) == Kind[r] = kind /\ Verb[r] = verb

(* The entity a request mutates.                                           *)
Entity(r) == <<Kind[r], Target[r]>>

Edited(content, edit) ==
  [f \in Fields |-> IF f = edit.field THEN edit.value ELSE content[f]]

(* Mutant: the deferred unlock is missing.                                 *)
MutantFinish(r, out) ==
  /\ req' = [req EXCEPT ![r].pc = "done", ![r].out = out]
  /\ UNCHANGED mutex

(* The request returns to its caller; deferred unlocks run.                *)
Finish(r, out) ==
  /\ req' = [req EXCEPT ![r].pc = "done", ![r].out = out]
  /\ mutex' = IF mutex = r THEN Free ELSE mutex

(* taskExecutionMu is taken by the Task update and completion handlers     *)
(* and not by the archive handler.                                         *)
Locks(r) == Kind[r] = "task" /\ Verb[r] \in {"update", "complete"}

(* The handler hands a payload to one of the commit functions.  A content  *)
(* revision goes through CommitSharedLifecycleRevision, which queries the  *)
(* current payload first; a status event has been validated against the    *)
(* payload it was computed from.                                           *)
Submit(r, path, p, next, op) ==
  /\ req' = [req EXCEPT ![r].pc = IF path = "revision" THEN "check"
                                  ELSE "reuse",
                        ![r].path = path, ![r].exp = p.rev, ![r].read = p,
                        ![r].next = next, ![r].op = op]
  /\ UNCHANGED mutex

Written(r, rev, status, content) ==
  [rev |-> rev, status |-> status, content |-> content, by |-> r]

----------------------------------------------------------------------------
(* Handlers.  Each first reads the revision it expects (Begin), then the   *)
(* entity, decides, and submits.                                           *)

(* RuleUpdateCurrent, RuleArchiveCurrent and their ADR twins read the      *)
(* current revision as the expected one; a Task or Milestone update brings *)
(* the revision its caller expects.  The Task handlers first lock.         *)
Begin(r) ==
  /\ At(r, "idle")
  /\ Verb[r] # "create"
  /\ Locks(r) => mutex = Free
  /\ mutex' = IF Locks(r) THEN r ELSE mutex
  /\ req' = [req EXCEPT ![r].pc = "read",
                        ![r].exp = IF Given[r] = 0 THEN state[Entity(r)].rev
                                   ELSE Given[r]]
  /\ UNCHANGED store

(* Mutant: the identity names the entity and not the edit.                 *)
MutantInputDigest(r) ==
  [verb |-> Verb[r], id |-> Entity(r), edit |-> NoEdit, to |-> To[r],
   rev |-> 0, by |-> "digest"]

(* The digest of a Rule or ADR input: its expected revision is excluded    *)
(* from the encoding.                                                      *)
InputDigest(r) ==
  [verb |-> Verb[r], id |-> Entity(r), edit |-> Edit[r], to |-> To[r],
   rev |-> 0, by |-> "digest"]

(* CommitSharedLifecycleEvent validates the transition and the event kind  *)
(* against the payload the handler read: only an archive event reaches the *)
(* archive status, and it reaches no other.                                *)
EventIsLegal(r, p, status, eventKind) ==
  /\ status \in AllowedTransitions[Kind[r]][p.status]
  /\ (eventKind = "archive") <=> (status = "archived")

(* A status change is an event, with a new revision when content changes   *)
(* too; a content change alone is a revision.                              *)
RuleUpdate(r) ==
  LET p == state[Entity(r)]
      content == Edited(p.content, Edit[r])
      status == IF To[r] = "keep" THEN p.status ELSE To[r]
      rev == IF content = p.content THEN p.rev ELSE p.rev + 1
      next == Written(r, rev, status, content)
      open == p.rev = req[r].exp /\ p.status # "archived"
  IN \/ ~open /\ Finish(r, "refused")
     \/ /\ open /\ content = p.content /\ status = p.status
        /\ Finish(r, "unchanged")
     \/ /\ open /\ status # p.status
        /\ EventIsLegal(r, p, status, "status")
        /\ Submit(r, "event", p, next, InputDigest(r))
     \/ /\ open /\ status # p.status
        /\ ~EventIsLegal(r, p, status, "status")
        /\ Finish(r, "refused")
     \/ /\ open /\ content # p.content /\ status = p.status
        /\ Submit(r, "revision", p, next, InputDigest(r))

RuleArchive(r) ==
  LET p == state[Entity(r)]
      open == p.rev = req[r].exp /\ p.status # "archived"
  IN \/ ~open /\ Finish(r, "refused")
     \/ /\ open /\ EventIsLegal(r, p, "archived", "archive")
        /\ Submit(r, "event", p,
                  Written(r, p.rev, "archived", p.content), InputDigest(r))

(* The ADR handlers decide as the Rule handlers do; their statuses differ. *)
ADRUpdate(r) == RuleUpdate(r)

ADRArchive(r) == RuleArchive(r)

(* taskAuthoringUpdateShared and model.UpdateTask: an edited Task is       *)
(* planned again, and every update has an identity of its own.  The Task   *)
(* has no nonterminal execution.                                           *)
TaskUpdate(r) ==
  LET p == state[Entity(r)]
      content == Edited(p.content, Edit[r])
      open == p.rev = req[r].exp /\ p.status \in {"planned", "ready"}
      op == [NoOp EXCEPT !.id = Entity(r), !.by = r]
  IN \/ ~open /\ Finish(r, "refused")
     \/ open /\ content = p.content /\ Finish(r, "unchanged")
     \/ /\ open /\ content # p.content
        /\ Submit(r, "revision", p,
                  Written(r, p.rev + 1, "planned", content), op)

(* The contract of a completion or an archive names the Task revision and  *)
(* the status it leaves; its digest is the operation identity.             *)
ContractOp(r, p) ==
  [verb |-> Verb[r], id |-> Entity(r), edit |-> NoEdit, to |-> p.status,
   rev |-> p.rev, by |-> "digest"]

Completed(e) == \E i \in DOMAIN events[e] : events[e][i].to = "done"

(* TaskComplete, given its completion proofs.  A completed Task is         *)
(* replayed from its completion event.                                     *)
TaskComplete(r) ==
  LET e == Entity(r)
      p == state[e]
      open == p.status \in {"planned", "ready"} /\ ~Completed(e)
  IN \/ p.status = "done" /\ Completed(e) /\ Finish(r, "unchanged")
     \/ ~open /\ ~(p.status = "done" /\ Completed(e))
        /\ Finish(r, "refused")
     \/ /\ open
        /\ Submit(r, "event", p, Written(r, p.rev, "done", p.content),
                  ContractOp(r, p))

(* TaskLifecycleArchive holds no lock.                                     *)
TaskArchive(r) ==
  LET p == state[Entity(r)]
  IN \/ p.status = "archived" /\ Finish(r, "unchanged")
     \/ /\ p.status # "archived"
        /\ Submit(r, "event", p, Written(r, p.rev, "archived", p.content),
                  ContractOp(r, p))

(* The identity of a Milestone mutation: its kind, the Milestone and the   *)
(* revision it would make.                                                 *)
RevisionOp(r, p) ==
  [verb |-> Verb[r], id |-> Entity(r), edit |-> NoEdit, to |-> "keep",
   rev |-> p.rev + 1, by |-> "digest"]

MilestoneOpen(p) == p.status \notin {"completed", "archived"}

MilestoneRevise(r, p, status, content) ==
  Submit(r, "revision", p, Written(r, p.rev + 1, status, content),
         RevisionOp(r, p))

MilestoneUpdate(r) ==
  LET p == state[Entity(r)]
      open == MilestoneOpen(p) /\ p.rev = req[r].exp
  IN \/ ~open /\ Finish(r, "refused")
     \/ open /\ MilestoneRevise(r, p, p.status, Edited(p.content, Edit[r]))

(* mutateMilestoneMembership: the field stands for one Task's membership.  *)
MilestoneAppend(r) ==
  LET p == state[Entity(r)]
      content == Edited(p.content, Edit[r])
  IN \/ ~MilestoneOpen(p) /\ Finish(r, "refused")
     \/ MilestoneOpen(p) /\ content = p.content /\ Finish(r, "unchanged")
     \/ /\ MilestoneOpen(p) /\ content # p.content
        /\ MilestoneRevise(r, p, p.status, content)

(* Removing also fails while a nonterminal Track owns the Task.            *)
MilestoneRemove(r) ==
  \/ MilestoneOpen(state[Entity(r)]) /\ Finish(r, "refused")
  \/ MilestoneAppend(r)

MilestoneActivate(r) ==
  LET p == state[Entity(r)]
  IN \/ p.status # "planned" /\ Finish(r, "refused")
     \/ p.status = "planned" /\ MilestoneRevise(r, p, "active", p.content)

(* Completion is also refused while a Track is open or a Task is not done. *)
MilestoneComplete(r) ==
  LET p == state[Entity(r)]
  IN \/ Finish(r, "refused")
     \/ p.status = "active" /\ MilestoneRevise(r, p, "completed", p.content)

(* Archiving is also refused while a Track is open.                        *)
MilestoneArchive(r) ==
  LET p == state[Entity(r)]
  IN \/ p.status = "archived" /\ Finish(r, "unchanged")
     \/ p.status # "archived" /\ Finish(r, "refused")
     \/ p.status = "completed" /\ MilestoneRevise(r, p, "archived", p.content)

(* The handler reads the entity and decides.                               *)
Handle(r) ==
  /\ At(r, "read")
  /\ \/ Is(r, "rule", "update") /\ RuleUpdate(r)
     \/ Is(r, "rule", "archive") /\ RuleArchive(r)
     \/ Is(r, "adr", "update") /\ ADRUpdate(r)
     \/ Is(r, "adr", "archive") /\ ADRArchive(r)
     \/ Is(r, "task", "update") /\ TaskUpdate(r)
     \/ Is(r, "task", "complete") /\ TaskComplete(r)
     \/ Is(r, "task", "archive") /\ TaskArchive(r)
     \/ Is(r, "milestone", "update") /\ MilestoneUpdate(r)
     \/ Is(r, "milestone", "append") /\ MilestoneAppend(r)
     \/ Is(r, "milestone", "remove") /\ MilestoneRemove(r)
     \/ Is(r, "milestone", "activate") /\ MilestoneActivate(r)
     \/ Is(r, "milestone", "complete") /\ MilestoneComplete(r)
     \/ Is(r, "milestone", "archive") /\ MilestoneArchive(r)
  /\ UNCHANGED store

----------------------------------------------------------------------------
(* The commit functions of the store.                                      *)

Goto(r, pc) == req' = [req EXCEPT ![r].pc = pc] /\ UNCHANGED mutex

HasOp(op) == \E o \in outbox : o.op = op

HasRow(e, rev) == \E h \in history : h.id = e /\ h.rev = rev

(* validateMilestoneMutation.                                              *)
MilestonePolicy(r, from, to) ==
  \/ from = to /\ from \notin {"completed", "archived"}
  \/ from = "planned" /\ to = "active" /\ Verb[r] = "activate"
  \/ from = "active" /\ to = "completed" /\ Verb[r] = "complete"
  \/ from = "completed" /\ to = "archived" /\ Verb[r] = "archive"

(* validateSharedLifecycleStatus for a mutation, then the Milestone policy.*)
StatusIsLegal(r, from, to) ==
  /\ from = to \/ to \in AllowedTransitions[Kind[r]][from]
  /\ Kind[r] = "milestone" => MilestonePolicy(r, from, to)

(* The first query of CommitSharedLifecycleRevision.                       *)
CheckStatus(r) ==
  LET from == state[Entity(r)].status
      to == req[r].next.status
  IN /\ At(r, "check")
     /\ \/ StatusIsLegal(r, from, to) /\ Goto(r, "reuse")
        \/ ~StatusIsLegal(r, from, to) /\ Finish(r, "refused")
     /\ UNCHANGED store

(* An operation identity already in the outbox is reported as committed.   *)
CheckReuse(r) ==
  /\ At(r, "reuse")
  /\ \/ HasOp(req[r].op) /\ Finish(r, "reused")
     \/ ~HasOp(req[r].op) /\ Goto(r, "batch")
  /\ UNCHANGED store

Row(e, p) == [id |-> e, rev |-> p.rev, payload |-> p]

Entry(op, e, p) == [op |-> op, id |-> e, rev |-> p.rev, payload |-> p]

(* Mutant: a status event compares the revision only.                      *)
MutantStateCAS(r) == state[Entity(r)].rev = req[r].exp

(* The WHERE clauses of the two UPDATE statements: a revision compares the *)
(* revision, an event the whole payload.                                   *)
StateCAS(r) ==
  LET p == state[Entity(r)]
  IN \/ req[r].path = "revision" /\ p.rev = req[r].exp
     \/ req[r].path = "event" /\ p = req[r].read

(* Mutant: the batch does not require its UPDATE to affect a row.          *)
MutantBatchApplies(r) ==
  /\ ~HasOp(req[r].op)
  /\ req[r].next.rev # req[r].exp => ~HasRow(Entity(r), req[r].next.rev)

(* Every statement of the batch must affect one row.                       *)
BatchApplies(r) ==
  /\ StateCAS(r)
  /\ ~HasOp(req[r].op)
  /\ req[r].next.rev # req[r].exp => ~HasRow(Entity(r), req[r].next.rev)

(* Mutant: the UPDATE increments whatever revision it finds.               *)
MutantCommitBatch(r) ==
  LET e == Entity(r)
      next == [req[r].next EXCEPT !.rev = state[e].rev + 1]
  IN /\ At(r, "batch")
     /\ ~HasOp(req[r].op)
     /\ state' = [state EXCEPT ![e] = next]
     /\ history' = history \cup {Row(e, next)}
     /\ outbox' = outbox \cup {Entry(req[r].op, e, next)}
     /\ Finish(r, "committed")
     /\ UNCHANGED <<seq, events>>

CommitBatch(r) ==
  LET e == Entity(r)
      next == req[r].next
  IN /\ At(r, "batch")
     /\ BatchApplies(r)
     /\ state' = [state EXCEPT ![e] = next]
     /\ history' = IF next.rev = req[r].exp THEN history
                   ELSE history \cup {Row(e, next)}
     /\ events' = IF req[r].path = "revision" THEN events
                  ELSE [events EXCEPT ![e] =
                          Append(@, [op |-> req[r].op, rev |-> next.rev,
                                     from |-> req[r].read.status,
                                     to |-> next.status])]
     /\ outbox' = outbox \cup {Entry(req[r].op, e, next)}
     /\ Finish(r, "committed")
     /\ UNCHANGED seq

BatchFails(r) ==
  /\ At(r, "batch")
  /\ ~BatchApplies(r)
  /\ Goto(r, "recheck")
  /\ UNCHANGED store

(* After a failed batch the outbox is queried once more.                   *)
Recheck(r) ==
  /\ At(r, "recheck")
  /\ Finish(r, IF HasOp(req[r].op) THEN "reused" ELSE "refused")
  /\ UNCHANGED store

----------------------------------------------------------------------------
(* CommitSharedLifecycleCreate.                                            *)

(* Rule, ADR and Milestone creates are identified by the digest of their   *)
(* input, Task creates by their time.                                      *)
CreateOp(r) ==
  [verb |-> "create", id |-> <<Kind[r], 0>>, edit |-> Edit[r],
   to |-> "keep", rev |-> 0, by |-> IF Kind[r] = "task" THEN r ELSE "digest"]

(* The entity as its first revision.                                       *)
Created(r) ==
  Written(r, 1, DefaultCreateStatus[Kind[r]], Edited(Blank, Edit[r]))

(* An attempt begins with the reuse check.                                 *)
CreateReuse(r) ==
  /\ At(r, "idle")
  /\ Verb[r] = "create"
  /\ \/ /\ ~HasOp(CreateOp(r))
        /\ req' = [req EXCEPT ![r].pc = "number", ![r].path = "create",
                              ![r].op = CreateOp(r)]
     \/ \E o \in outbox :
          /\ o.op = CreateOp(r)
          /\ req' = [req EXCEPT ![r].pc = "done", ![r].out = "reused",
                                ![r].op = CreateOp(r), ![r].number = o.id[2]]
  /\ UNCHANGED <<store, mutex>>

(* nextSharedLifecycleNumber.                                              *)
CreateNumber(r) ==
  /\ At(r, "number")
  /\ seq[Kind[r]] \in 1 .. MaxNumber
  /\ req' = [req EXCEPT ![r].pc = "create", ![r].number = seq[Kind[r]],
                        ![r].next = Created(r)]
  /\ UNCHANGED <<store, mutex>>

(* The entity a create makes.                                              *)
NewEntity(r) == <<Kind[r], req[r].number>>

CreateApplies(r) ==
  /\ seq[Kind[r]] = req[r].number
  /\ state[NewEntity(r)] = Absent
  /\ ~HasRow(NewEntity(r), 1)
  /\ ~HasOp(req[r].op)

CreateBatch(r) ==
  LET e == NewEntity(r)
      p == req[r].next
  IN /\ At(r, "create")
     /\ CreateApplies(r)
     /\ seq' = [seq EXCEPT ![Kind[r]] = @ + 1]
     /\ state' = [state EXCEPT ![e] = p]
     /\ history' = history \cup {Row(e, p)}
     /\ outbox' = outbox \cup {Entry(req[r].op, e, p)}
     /\ Finish(r, "committed")
     /\ UNCHANGED events

CreateFails(r) ==
  /\ At(r, "create")
  /\ ~CreateApplies(r)
  /\ Goto(r, "recreate")
  /\ UNCHANGED store

(* Reuse, or retry a sequence conflict until the attempts are used up.     *)
CreateRecheck(r) ==
  LET last == req[r].tries + 1 = CreateAttempts
  IN /\ At(r, "recreate")
     /\ \/ \E o \in outbox :
             /\ o.op = req[r].op
             /\ req' = [req EXCEPT ![r].pc = "done", ![r].out = "reused",
                                   ![r].number = o.id[2]]
        \/ /\ ~HasOp(req[r].op)
           /\ req' = [req EXCEPT ![r].pc = IF last THEN "done" ELSE "idle",
                                 ![r].out = IF last THEN "exhausted"
                                            ELSE "none",
                                 ![r].tries = @ + 1]
     /\ UNCHANGED <<store, mutex>>

----------------------------------------------------------------------------
(* The context of a request is cancelled, or the process dies: what the    *)
(* request had not committed is lost.                                      *)
Cancel(r) ==
  /\ req[r].pc \notin {"idle", "done"}
  /\ Finish(r, "cancelled")
  /\ UNCHANGED store

Step(r) ==
  \/ Begin(r)
  \/ Handle(r)
  \/ CheckStatus(r)
  \/ CheckReuse(r)
  \/ CommitBatch(r)
  \/ BatchFails(r)
  \/ Recheck(r)
  \/ CreateReuse(r)
  \/ CreateNumber(r)
  \/ CreateBatch(r)
  \/ CreateFails(r)
  \/ CreateRecheck(r)

Next == \E r \in Requests : Step(r) \/ Cancel(r)

Spec == Init /\ [][Next]_vars

(* Some request that can run does run.                                     *)
FairSpec == Spec /\ WF_vars(\E r \in Requests : Step(r))

----------------------------------------------------------------------------
(* Properties.                                                             *)

TypeOK ==
  /\ seq \in [Kinds -> Nat]
  /\ state \in [Ids -> Payloads]
  /\ history \subseteq Rows
  /\ events \in [Ids -> Seq(Events)]
  /\ outbox \subseteq Entries
  /\ mutex \in Requests \cup {Free}
  /\ req \in [Requests -> Local]

(* The history of an entity is its content revisions 1 .. revision, each   *)
(* exactly once, and the newest is the content of the state row, whatever  *)
(* revisions and status events were committed in between.                  *)
HistoryComplete ==
  /\ \A h \in history : h.rev \in 1 .. state[h.id].rev
  /\ \A g, h \in history : g.id = h.id /\ g.rev = h.rev => g = h
  /\ \A e \in Ids : \A k \in 1 .. state[e].rev :
       \E h \in history :
         /\ h.id = e /\ h.rev = k
         /\ k = state[e].rev => h.payload.content = state[e].content

(* No lost update: every revision after the first is its predecessor with  *)
(* its author's edit and nothing else, although the author computed it     *)
(* from rows it read in earlier queries.                                   *)
BuiltOnPredecessor ==
  \A h \in history : h.rev > 1 =>
    \E g \in history :
      /\ g.id = h.id /\ g.rev = h.rev - 1
      /\ h.payload.by \in Requests
      /\ h.payload.content =
           Edited(g.payload.content, Edit[h.payload.by])

(* The identity of a Milestone mutation names the revision it makes and    *)
(* not what it writes: of two concurrent mutations by one handler, the     *)
(* second is answered with the revision the first one made.                *)
MadeByTwin(r, h) ==
  /\ Kind[r] = "milestone" /\ req[r].out = "reused"
  /\ h.rev = req[r].next.rev
  /\ h.payload.by \in Requests /\ Verb[h.payload.by] = Verb[r]

Acknowledged(r) == req[r].out \in {"committed", "reused"}

(* A mutation reported to its caller took effect: a revision after the one *)
(* its request observed has its edit, or an event reached its status.  A   *)
(* request that found its identity in the outbox is only known to have     *)
(* taken effect at some revision, which may be older than the observed one,*)
(* and a Milestone mutation to share its handler with one that did.        *)
AckedTookEffect ==
  \A r \in {q \in Requests : Verb[q] # "create" /\ Acknowledged(q)} :
    LET e == Entity(r)
    IN /\ req[r].next.rev # req[r].read.rev /\ Edit[r] # NoEdit =>
            \E h \in history :
              /\ h.id = e
              /\ req[r].out = "committed" => h.rev > req[r].read.rev
              /\ \/ h.payload.content[Edit[r].field] = Edit[r].value
                 \/ MadeByTwin(r, h)
       /\ req[r].path = "event" =>
            \E i \in DOMAIN events[e] :
              events[e][i].to = req[r].next.status

(* A content revision whose status was checked before an event at the same *)
(* revision, and committed after it, took the event's status back.         *)
Overtaken(e) ==
  \E h \in history, i \in DOMAIN events[e] :
    /\ h.id = e
    /\ h.rev = events[e][i].rev + 1
    /\ i < Len(events[e]) => events[e][i + 1].rev # events[e][i].rev
    /\ h.payload.status # events[e][i].to

(* What validateSharedLifecycleChain demands of every read of a lifecycle  *)
(* history and every publication: the events are continuous and end in the *)
(* status of the state row.  No race but the one above breaks a chain.     *)
ChainAgrees ==
  \A e \in {d \in Ids : ~Overtaken(d)} :
    LET chain == events[e]
        last == Len(chain)
    IN /\ \A i \in 2 .. last : chain[i].from = chain[i - 1].to
       /\ \A i \in 2 .. last : chain[i].rev >= chain[i - 1].rev
       /\ last > 0 => /\ chain[last].to = state[e].status
                      /\ chain[last].rev <= state[e].rev

(* Numbers are allocated without gaps, also when an allocation is lost to  *)
(* a conflict, a cancelled request or a reused create.                     *)
DenseNumbers == \A e \in Ids : (state[e].rev > 0) <=> (e[2] < seq[e[1]])

(* Two acknowledged creates of a Rule, an ADR or a Milestone name one      *)
(* entity exactly when they asked for the same one: a retried create is    *)
(* not a second entity.                                                    *)
CreatedOnce ==
  LET creates == {r \in Requests : /\ Verb[r] = "create" /\ Kind[r] # "task"
                                   /\ Acknowledged(r)}
  IN \A r, s \in creates :
       Kind[r] = Kind[s] =>
         (req[r].number = req[s].number) <=> (Edit[r] = Edit[s])

(* A create gives up only after it lost every one of its attempts to a     *)
(* different create that succeeded.                                        *)
ExhaustedUnderContention ==
  \A r \in Requests :
    req[r].out = "exhausted" =>
      seq[Kind[r]] > Cardinality(SeededOf(Kind[r])) + CreateAttempts

(* What a caller is told is true: an acknowledged edit or status is in the *)
(* store, a retried create is not a second entity and leaves no gap in the *)
(* numbers, and a create that gave up had lost every attempt.              *)
AnswersAreTrue ==
  AckedTookEffect /\ CreatedOnce /\ DenseNumbers /\ ExhaustedUnderContention

(* Every request returns: nobody keeps taskExecutionMu and no retry loop   *)
(* runs for ever.                                                          *)
EveryRequestReturns == <>(\A r \in Requests : req[r].pc = "done")
============================================================================
