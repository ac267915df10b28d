----------------------- MODULE SharedLifecycleProofs -----------------------
(***************************************************************************)
(* Proofs about SharedLifecycle, for every entity kind and any number of   *)
(* requests: type correctness; concurrent handlers never lose an update    *)
(* nor tear the revision history; what they answer is true; and the event  *)
(* chains agree with the rows unless a content revision overtook an event. *)
(***************************************************************************)
EXTENDS SharedLifecycle, FiniteSetTheorems, WellFoundedInduction, TLAPS

(* What a handler computed from the payload p it read: a new revision is p *)
(* with the request's edit, the same revision keeps p's content.           *)
Computed(r, path, p, next) ==
  /\ next.by = r
  /\ path = "revision" => next.rev = p.rev + 1
  /\ next.rev \in {p.rev, p.rev + 1}
  /\ next.rev = p.rev => next.content = p.content
  /\ next.rev = p.rev + 1 => next.content = Edited(p.content, Edit[r])

HasContent(e, rev, content) ==
  \E g \in history : g.id = e /\ g.rev = rev /\ g.payload.content = content

(* A request that is about to commit was computed from a revision that is  *)
(* in the history.                                                         *)
PendingOf(r) ==
  /\ req[r].pc \in {"check", "reuse", "batch"} =>
       /\ req[r].read.rev = req[r].exp
       /\ req[r].path \in {"revision", "event"}
       /\ Computed(r, req[r].path, req[r].read, req[r].next)
       /\ HasContent(Entity(r), req[r].exp, req[r].read.content)
  /\ req[r].pc = "create" =>
       NewEntity(r) \in Ids /\ req[r].next.rev = 1
  /\ req[r].pc # "done" => req[r].tries < CreateAttempts

Pending == \A r \in Requests : PendingOf(r)

SeededPresent == \A e \in Seeded : state[e].rev >= 1

IInv ==
  /\ TypeOK
  /\ SeededPresent
  /\ HistoryComplete
  /\ BuiltOnPredecessor
  /\ Pending
----------------------------------------------------------------------------
(* Facts about the operators the handlers are built from.                  *)

(* The initial status of a kind is a status.                               *)
LEMMA DefaultIsStatus ==
  ASSUME NEW k \in Kinds
  PROVE  DefaultCreateStatus[k] \in Statuses
BY DEF DefaultCreateStatus, AllowedStatuses, Statuses, Kinds

(* Every status a handler writes is a status.                              *)
LEMMA HandlerStatuses ==
  {"planned", "done", "active", "completed", "archived"} \subseteq Statuses
BY DEF AllowedStatuses, Statuses

(* A request is about an entity.                                           *)
LEMMA EntityType ==
  ASSUME NEW r \in Requests
  PROVE  Kind[r] \in Kinds /\ Entity(r) \in Ids /\ Entity(r) \in Kinds \X Nat
BY RequestAssumption, BoundAssumption DEF Entity, Ids

(* An edit of a field keeps the content a function of the fields.          *)
LEMMA EditedType ==
  ASSUME NEW c \in [Fields -> Values], NEW d \in Edits
  PROVE  Edited(c, d) \in [Fields -> Values]
BY BoundAssumption DEF Edited, Edits, NoEdit

(* The empty edit changes nothing.                                         *)
LEMMA EditedNone ==
  ASSUME NEW c \in [Fields -> Values]
  PROVE  Edited(c, NoEdit) = c
BY BoundAssumption DEF Edited, NoEdit

LEMMA AbsentType == Absent \in Payloads
BY BoundAssumption DEF Absent, Payloads, Blank, Statuses

LEMMA WrittenType ==
  ASSUME NEW r \in Requests, NEW rev \in Nat, NEW s \in Statuses,
         NEW c \in [Fields -> Values]
  PROVE  Written(r, rev, s, c) \in Payloads
BY DEF Written, Payloads

LEMMA NoOpType == NoOp \in OpIds
BY DEF NoOp, OpIds, Edits, Verbs, Kinds

(* A request's local record keeps its type when it finishes.               *)
LEMMA FinishType ==
  ASSUME TypeOK, NEW r \in Requests,
         NEW out \in {"none", "refused", "unchanged", "committed", "reused",
                      "exhausted", "cancelled"},
         Finish(r, out)
  PROVE  /\ req' \in [Requests -> Local]
         /\ mutex' \in Requests \cup {Free}
<1> DEFINE next == [req[r] EXCEPT !.pc = "done", !.out = out]
<1>1. req[r] \in Local
  BY DEF TypeOK
<1>2. next \in Local
  BY <1>1 DEF Local
<1>3. req' = [req EXCEPT ![r] = next]
  BY DEF Finish
<1>4. mutex' \in Requests \cup {Free}
  BY DEF Finish, TypeOK
<1>. HIDE DEF next
<1>. QED
  BY <1>2, <1>3, <1>4 DEF TypeOK

LEMMA SubmitType ==
  ASSUME TypeOK, NEW r \in Requests, NEW path \in {"revision", "event"},
         NEW p \in Payloads, NEW next \in Payloads, NEW op \in OpIds,
         Submit(r, path, p, next, op)
  PROVE  /\ req' \in [Requests -> Local]
         /\ mutex' \in Requests \cup {Free}
<1> DEFINE l == [req[r] EXCEPT
                   !.pc = IF path = "revision" THEN "check" ELSE "reuse",
                   !.path = path, !.exp = p.rev, !.read = p,
                   !.next = next, !.op = op]
<1>1. req[r] \in Local
  BY DEF TypeOK
<1>2. p.rev \in Nat
  BY DEF Payloads
<1>3. l \in Local
  BY <1>1, <1>2 DEF Local
<1>4. req' = [req EXCEPT ![r] = l]
  BY DEF Submit
<1>5. mutex' \in Requests \cup {Free}
  BY DEF Submit, TypeOK
<1>. HIDE DEF l
<1>. QED
  BY <1>3, <1>4, <1>5 DEF TypeOK

(* The operation identities are identities.                                *)
LEMMA OpTypes ==
  ASSUME NEW r \in Requests, NEW p \in Payloads
  PROVE  /\ InputDigest(r) \in OpIds
         /\ ContractOp(r, p) \in OpIds
         /\ RevisionOp(r, p) \in OpIds
         /\ CreateOp(r) \in OpIds
         /\ [NoOp EXCEPT !.id = Entity(r), !.by = r] \in OpIds
<1>1. /\ Verb[r] \in Verbs /\ Edit[r] \in Edits
      /\ Kind[r] \in Kinds /\ Entity(r) \in Kinds \X Nat
      /\ To[r] \in Statuses \cup {"keep"}
  BY RequestAssumption, EntityType DEF Statuses
<1>2. p.status \in Statuses /\ p.rev \in Nat
  BY DEF Payloads
<1>3. InputDigest(r) \in OpIds
  BY <1>1 DEF InputDigest, OpIds
<1>4. ContractOp(r, p) \in OpIds
  BY <1>1, <1>2 DEF ContractOp, OpIds, Edits
<1>5. RevisionOp(r, p) \in OpIds
  BY <1>1, <1>2 DEF RevisionOp, OpIds, Edits
<1>6. CreateOp(r) \in OpIds
  BY <1>1 DEF CreateOp, OpIds, Verbs
<1>7. [NoOp EXCEPT !.id = Entity(r), !.by = r] \in OpIds
  BY <1>1, NoOpType DEF OpIds
<1>. QED
  BY <1>3, <1>4, <1>5, <1>6, <1>7

----------------------------------------------------------------------------
(* Every handler finishes or submits what it computed from the payload it  *)
(* reads in this step.                                                     *)

Submits(r) ==
  \E path \in {"revision", "event"}, next \in Payloads, op \in OpIds :
    /\ Submit(r, path, state[Entity(r)], next, op)
    /\ Computed(r, path, state[Entity(r)], next)

Decides(r) ==
  \/ \E out \in {"refused", "unchanged"} : Finish(r, out)
  \/ Submits(r)

(* A new revision that carries the edit is computed.                       *)
LEMMA SubmitRevision ==
  ASSUME TypeOK, NEW r \in Requests, Entity(r) \in Ids,
         NEW s \in Statuses, NEW c \in [Fields -> Values], NEW op \in OpIds,
         NEW path \in {"revision", "event"},
         c = Edited(state[Entity(r)].content, Edit[r]),
         Submit(r, path, state[Entity(r)],
                Written(r, state[Entity(r)].rev + 1, s, c), op)
  PROVE  Submits(r)
<1> DEFINE p == state[Entity(r)]
           next == Written(r, p.rev + 1, s, c)
<1>1. p \in Payloads /\ p.rev \in Nat /\ p.rev + 1 \in Nat
  BY DEF TypeOK, Payloads
<1>2. next \in Payloads
  BY <1>1, WrittenType
<1>3. /\ next.by = r /\ next.rev = p.rev + 1 /\ next.content = c
  BY DEF Written
<1>4. Computed(r, path, p, next)
  BY <1>1, <1>3 DEF Computed
<1>. QED
  BY <1>2, <1>4 DEF Submits

(* A status event at the same revision keeps the content.                  *)
LEMMA SubmitEvent ==
  ASSUME TypeOK, NEW r \in Requests, Entity(r) \in Ids,
         NEW s \in Statuses, NEW op \in OpIds,
         Submit(r, "event", state[Entity(r)],
                Written(r, state[Entity(r)].rev, s,
                        state[Entity(r)].content), op)
  PROVE  Submits(r)
<1> DEFINE p == state[Entity(r)]
           next == Written(r, p.rev, s, p.content)
<1>1. p \in Payloads /\ p.rev \in Nat /\ p.content \in [Fields -> Values]
  BY DEF TypeOK, Payloads
<1>2. next \in Payloads
  BY <1>1, WrittenType
<1>3. /\ next.by = r /\ next.rev = p.rev /\ next.content = p.content
  BY DEF Written
<1>4. Computed(r, "event", p, next)
  BY <1>1, <1>3 DEF Computed
<1>. QED
  BY <1>2, <1>4 DEF Submits

LEMMA RuleDecides ==
  ASSUME TypeOK, NEW r \in Requests
  PROVE  /\ RuleUpdate(r) => Decides(r)
         /\ RuleArchive(r) => Decides(r)
<1> DEFINE p == state[Entity(r)]
           c == Edited(p.content, Edit[r])
           st == IF To[r] = "keep" THEN p.status ELSE To[r]
<1>1. /\ p \in Payloads /\ p.rev \in Nat /\ p.status \in Statuses
      /\ p.content \in [Fields -> Values] /\ Entity(r) \in Ids
      /\ Edit[r] \in Edits
  BY RequestAssumption, EntityType DEF TypeOK, Payloads
<1>2. c \in [Fields -> Values]
  BY <1>1, EditedType
<1>3. st \in Statuses
  BY <1>1, RequestAssumption DEF Statuses
<1>4. InputDigest(r) \in OpIds
  BY <1>1, OpTypes
<1>5. "archived" \in Statuses
  BY HandlerStatuses
<1>6. ASSUME NEW path \in {"revision", "event"}, path = "revision" => c # p.content,
             Submit(r, path, p,
               Written(r, IF c = p.content THEN p.rev ELSE p.rev + 1, st, c),
               InputDigest(r))
      PROVE  Submits(r)
  <2>1. CASE c = p.content
    <3>1. Submit(r, "event", p, Written(r, p.rev, st, p.content),
                 InputDigest(r))
      BY <1>6, <2>1
    <3>. QED
      BY <3>1, <1>1, <1>3, <1>4, SubmitEvent
  <2>2. CASE c # p.content
    <3>1. Submit(r, path, p, Written(r, p.rev + 1, st, c), InputDigest(r))
      BY <1>6, <2>2
    <3>. QED
      BY <3>1, <1>1, <1>2, <1>3, <1>4, <1>6, SubmitRevision
  <2>. QED
    BY <2>1, <2>2
<1>7. RuleUpdate(r) => Decides(r)
  BY <1>6 DEF RuleUpdate, Decides
<1>8. RuleArchive(r) => Decides(r)
  BY <1>1, <1>4, <1>5, SubmitEvent DEF RuleArchive, Decides
<1>. QED
  BY <1>7, <1>8

LEMMA TaskDecides ==
  ASSUME TypeOK, NEW r \in Requests
  PROVE  /\ TaskUpdate(r) => Decides(r)
         /\ TaskComplete(r) => Decides(r)
         /\ TaskArchive(r) => Decides(r)
<1> DEFINE p == state[Entity(r)]
           c == Edited(p.content, Edit[r])
<1>1. /\ p \in Payloads /\ p.content \in [Fields -> Values]
      /\ Entity(r) \in Ids /\ Edit[r] \in Edits
  BY RequestAssumption, EntityType DEF TypeOK, Payloads
<1>2. c \in [Fields -> Values]
  BY <1>1, EditedType
<1>3. {"planned", "done", "archived"} \subseteq Statuses
  BY HandlerStatuses
<1>4. /\ ContractOp(r, p) \in OpIds
      /\ [NoOp EXCEPT !.id = Entity(r), !.by = r] \in OpIds
  BY <1>1, OpTypes
<1>5. TaskUpdate(r) => Decides(r)
  BY <1>1, <1>2, <1>3, <1>4, SubmitRevision DEF TaskUpdate, Decides
<1>6. TaskComplete(r) => Decides(r)
  BY <1>1, <1>3, <1>4, SubmitEvent DEF TaskComplete, Decides
<1>7. TaskArchive(r) => Decides(r)
  BY <1>1, <1>3, <1>4, SubmitEvent DEF TaskArchive, Decides
<1>. QED
  BY <1>5, <1>6, <1>7

LEMMA MilestoneDecides ==
  ASSUME TypeOK, NEW r \in Requests
  PROVE  /\ MilestoneUpdate(r) => Decides(r)
         /\ MilestoneAppend(r) => Decides(r)
         /\ MilestoneRemove(r) => Decides(r)
         /\ Verb[r] = "activate" /\ MilestoneActivate(r) => Decides(r)
         /\ Verb[r] = "complete" /\ MilestoneComplete(r) => Decides(r)
         /\ Verb[r] = "archive" /\ MilestoneArchive(r) => Decides(r)
<1> DEFINE p == state[Entity(r)]
           c == Edited(p.content, Edit[r])
<1>1. /\ p \in Payloads /\ p.content \in [Fields -> Values]
      /\ Entity(r) \in Ids /\ Edit[r] \in Edits /\ p.status \in Statuses
  BY RequestAssumption, EntityType DEF TypeOK, Payloads
<1>2. c \in [Fields -> Values]
  BY <1>1, EditedType
<1>3. {"active", "completed", "archived"} \subseteq Statuses
  BY HandlerStatuses
<1>4. RevisionOp(r, p) \in OpIds
  BY <1>1, OpTypes
<1>5. ASSUME NEW s \in Statuses, MilestoneRevise(r, p, s, c)
      PROVE  Submits(r)
  BY <1>1, <1>2, <1>4, <1>5, SubmitRevision DEF MilestoneRevise
<1>6. Verb[r] \in {"activate", "complete", "archive"} => c = p.content
  BY <1>1, EditedNone, RequestAssumption
<1>7. MilestoneUpdate(r) => Decides(r)
  BY <1>1, <1>5 DEF MilestoneUpdate, Decides
<1>8. MilestoneAppend(r) => Decides(r)
  BY <1>1, <1>5 DEF MilestoneAppend, Decides
<1>9. MilestoneRemove(r) => Decides(r)
  BY <1>8 DEF MilestoneRemove, Decides
<1>10. Verb[r] = "activate" /\ MilestoneActivate(r) => Decides(r)
  BY <1>3, <1>5, <1>6 DEF MilestoneActivate, Decides
<1>11. Verb[r] = "complete" /\ MilestoneComplete(r) => Decides(r)
  BY <1>3, <1>5, <1>6 DEF MilestoneComplete, Decides
<1>12. Verb[r] = "archive" /\ MilestoneArchive(r) => Decides(r)
  BY <1>3, <1>5, <1>6 DEF MilestoneArchive, Decides
<1>. QED
  BY <1>7, <1>8, <1>9, <1>10, <1>11, <1>12

LEMMA HandleDecides ==
  ASSUME TypeOK, NEW r \in Requests, Handle(r)
  PROVE  Decides(r) /\ UNCHANGED store
BY RuleDecides, TaskDecides, MilestoneDecides
   DEF Handle, Is, ADRUpdate, ADRArchive

----------------------------------------------------------------------------
(* Preservation of the inductive invariant.                                *)

(* A step of r leaves the others' local state alone; a step that writes    *)
(* nothing but r's local state keeps the store's invariants.               *)
LEMMA LocalStep ==
  ASSUME IInv, NEW r \in Requests, UNCHANGED store,
         req' \in [Requests -> Local], mutex' \in Requests \cup {Free},
         \A s \in Requests \ {r} : req'[s] = req[s],
         PendingOf(r)'
  PROVE  IInv'
<1>1. TypeOK'
  BY DEF IInv, TypeOK, store
<1>2. SeededPresent' /\ HistoryComplete' /\ BuiltOnPredecessor'
  BY DEF IInv, SeededPresent, HistoryComplete, BuiltOnPredecessor, store
<1>3. Pending'
  <2>1. ASSUME NEW s \in Requests, s # r
        PROVE  PendingOf(s)'
    BY <2>1 DEF IInv, Pending, PendingOf, HasContent, Computed, store,
       NewEntity
  <2>. QED
    BY <2>1 DEF Pending
<1>. QED
  BY <1>1, <1>2, <1>3 DEF IInv

(* Finishing without writing keeps the invariant.                          *)
LEMMA FinishStep ==
  ASSUME IInv, NEW r \in Requests, UNCHANGED store,
         NEW out \in {"refused", "unchanged", "reused", "cancelled"},
         Finish(r, out)
  PROVE  IInv'
<1>1. req' \in [Requests -> Local] /\ mutex' \in Requests \cup {Free}
  BY FinishType DEF IInv
<1>2. req'[r].pc = "done" /\ \A s \in Requests \ {r} : req'[s] = req[s]
  BY DEF Finish, IInv, TypeOK, Local
<1>3. PendingOf(r)'
  BY <1>2 DEF PendingOf
<1>. QED
  BY <1>1, <1>2, <1>3, LocalStep

(* Moving on to the next query of a commit function keeps the invariant.   *)
LEMMA GotoStep ==
  ASSUME IInv, NEW r \in Requests, UNCHANGED store,
         NEW pc \in {"reuse", "batch", "recheck", "recreate"}, Goto(r, pc),
         req[r].pc # "done",
         pc \in {"reuse", "batch"} => req[r].pc \in {"check", "reuse"}
  PROVE  IInv'
<1> DEFINE l == [req[r] EXCEPT !.pc = pc]
<1>1. req[r] \in Local
  BY DEF IInv, TypeOK
<1>2. l \in Local /\ l.pc = pc
  BY <1>1 DEF Local
<1>3. /\ l.read = req[r].read /\ l.exp = req[r].exp /\ l.path = req[r].path
      /\ l.next = req[r].next /\ l.tries = req[r].tries
  BY <1>1 DEF Local
<1>4. req' = [req EXCEPT ![r] = l]
  BY DEF Goto
<1>. HIDE DEF l
<1>5. /\ req' \in [Requests -> Local] /\ req'[r] = l
      /\ \A s \in Requests \ {r} : req'[s] = req[s]
  BY <1>2, <1>4 DEF IInv, TypeOK
<1>6. mutex' \in Requests \cup {Free}
  BY DEF Goto, IInv, TypeOK
<1>7. PendingOf(r) /\ req[r].pc # "done"
  BY DEF IInv, Pending
<1>8. PendingOf(r)'
  BY <1>2, <1>3, <1>5, <1>7 DEF PendingOf, HasContent, Computed, store
<1>. QED
  BY <1>5, <1>6, <1>8, LocalStep

(* The lock and the expected revision.                                     *)
LEMMA BeginStep ==
  ASSUME IInv, NEW r \in Requests, Begin(r)
  PROVE  IInv'
<1> DEFINE x == IF Given[r] = 0 THEN state[Entity(r)].rev ELSE Given[r]
           l == [req[r] EXCEPT !.pc = "read", !.exp = x]
<1>1. req[r] \in Local
  BY DEF IInv, TypeOK
<1>2. x \in Nat
  BY RequestAssumption, EntityType DEF IInv, TypeOK, Payloads
<1>. HIDE DEF x
<1>3. l \in Local /\ l.pc = "read" /\ l.tries = req[r].tries
  BY <1>1, <1>2 DEF Local
<1>4. req' = [req EXCEPT ![r] = l]
  BY DEF Begin, x
<1>. HIDE DEF l
<1>5. /\ req' \in [Requests -> Local] /\ req'[r] = l
      /\ \A s \in Requests \ {r} : req'[s] = req[s]
  BY <1>3, <1>4 DEF IInv, TypeOK
<1>6. mutex' \in Requests \cup {Free} /\ UNCHANGED store
  BY DEF Begin, IInv, TypeOK
<1>7. PendingOf(r)'
  BY <1>3, <1>5 DEF PendingOf, IInv, Pending, Begin, At
<1>. QED
  BY <1>5, <1>6, <1>7, LocalStep

(* A handler's decision: what is pending was computed from the newest      *)
(* revision, which the history holds.                                      *)
LEMMA HandleStep ==
  ASSUME IInv, NEW r \in Requests, Handle(r)
  PROVE  IInv'
<1>1. Decides(r) /\ UNCHANGED store
  BY HandleDecides DEF IInv
<1>2. ASSUME NEW out \in {"refused", "unchanged"}, Finish(r, out)
      PROVE  IInv'
  BY <1>1, <1>2, FinishStep
<1>3. ASSUME Submits(r)
      PROVE  IInv'
  <2> DEFINE p == state[Entity(r)]
  <2>1. PICK path \in {"revision", "event"}, next \in Payloads, op \in OpIds :
          Submit(r, path, p, next, op) /\ Computed(r, path, p, next)
    BY <1>3 DEF Submits
  <2>2. p \in Payloads /\ p.rev \in Nat /\ Entity(r) \in Ids
    BY EntityType DEF IInv, TypeOK, Payloads
  <2>3. req' \in [Requests -> Local] /\ mutex' \in Requests \cup {Free}
    BY <2>1, <2>2, SubmitType DEF IInv
  <2>4. /\ req'[r].pc \in {"check", "reuse"} /\ req'[r].path = path
        /\ req'[r].exp = p.rev /\ req'[r].read = p /\ req'[r].next = next
        /\ req'[r].tries = req[r].tries
        /\ \A s \in Requests \ {r} : req'[s] = req[s]
    BY <2>1 DEF Submit, IInv, TypeOK, Local
  <2>5. Verb[r] # "create"
    BY DEF Handle, Is
  <2>6. p.rev >= 1
    BY <2>5, RequestAssumption DEF IInv, SeededPresent, Entity
  <2>7. HasContent(Entity(r), p.rev, p.content)
    BY <2>2, <2>6 DEF IInv, HistoryComplete, HasContent
  <2>8. req[r].tries < CreateAttempts
    BY DEF Handle, At, IInv, Pending, PendingOf
  <2>9. PendingOf(r)'
    BY <1>1, <2>1, <2>4, <2>7, <2>8
       DEF PendingOf, HasContent, Computed, store
  <2>. QED
    BY <1>1, <2>3, <2>4, <2>9, LocalStep
<1>. QED
  BY <1>1, <1>2, <1>3 DEF Decides

(* The batch that writes the next revision of e and its history row keeps  *)
(* the history complete and every revision built on its predecessor.       *)
LEMMA NewRevision ==
  ASSUME IInv, NEW e \in Ids, NEW p \in Payloads,
         p.rev = state[e].rev + 1,
         state' = [state EXCEPT ![e] = p],
         history' = history \cup {Row(e, p)},
         NEW c \in [Fields -> Values],
         p.rev > 1 => /\ p.by \in Requests
                      /\ HasContent(e, state[e].rev, c)
                      /\ p.content = Edited(c, Edit[p.by])
  PROVE  SeededPresent' /\ HistoryComplete' /\ BuiltOnPredecessor'
<1> DEFINE n == state[e].rev
           row == Row(e, p)
<1>1. /\ n \in Nat /\ history \subseteq Rows /\ state \in [Ids -> Payloads]
      /\ \A d \in Ids : state[d].rev \in Nat
  BY DEF IInv, TypeOK, Payloads
<1>2. row.id = e /\ row.rev = n + 1 /\ row.payload = p
  BY DEF Row
<1>3. /\ state'[e] = p /\ state'[e].rev = n + 1
      /\ \A d \in Ids \ {e} : state'[d] = state[d]
  BY <1>1
<1>4. \A h \in history : h.id \in Ids /\ h.rev \in Nat
  BY <1>1 DEF Rows
<1>. HIDE DEF row
<1>5. history' = history \cup {row}
  BY DEF row
<1>6. SeededPresent'
  BY <1>1, <1>3, BoundAssumption DEF IInv, SeededPresent
<1>7. HistoryComplete'
  <2>1. \A h \in history' : h.rev \in 1 .. state'[h.id].rev
    BY <1>1, <1>2, <1>3, <1>4, <1>5 DEF IInv, HistoryComplete
  <2>2. \A h \in history : h.id = e => h.rev \in 1 .. n
    BY DEF IInv, HistoryComplete
  <2>3. \A g, h \in history' : g.id = h.id /\ g.rev = h.rev => g = h
    BY <1>1, <1>2, <1>5, <2>2 DEF IInv, HistoryComplete
  <2>4. ASSUME NEW d \in Ids, NEW k \in 1 .. state'[d].rev
        PROVE  \E h \in history' :
                 /\ h.id = d /\ h.rev = k
                 /\ k = state'[d].rev => h.payload.content = state'[d].content
    <3>1. CASE d # e
      BY <1>3, <1>5, <3>1 DEF IInv, HistoryComplete
    <3>2. CASE d = e /\ k = n + 1
      BY <1>2, <1>3, <1>5, <3>2
    <3>3. CASE d = e /\ k # n + 1
      <4>1. k \in 1 .. n
        BY <1>1, <1>3, <3>3
      <4>2. PICK h \in history : h.id = e /\ h.rev = k
        BY <4>1 DEF IInv, HistoryComplete
      <4>. QED
        BY <1>1, <1>3, <1>5, <3>3, <4>2
    <3>. QED
      BY <3>1, <3>2, <3>3
  <2>. QED
    BY <2>1, <2>3, <2>4 DEF HistoryComplete
<1>8. BuiltOnPredecessor'
  <2>1. ASSUME NEW h \in history', h.rev > 1
        PROVE  \E g \in history' :
                 /\ g.id = h.id /\ g.rev = h.rev - 1
                 /\ h.payload.by \in Requests
                 /\ h.payload.content =
                      Edited(g.payload.content, Edit[h.payload.by])
    <3>1. CASE h \in history
      BY <1>5, <2>1, <3>1 DEF IInv, BuiltOnPredecessor
    <3>2. CASE h = row
      <4>1. PICK g \in history :
              g.id = e /\ g.rev = n /\ g.payload.content = c
        BY <1>2, <2>1, <3>2 DEF HasContent
      <4>. QED
        BY <1>1, <1>2, <1>5, <2>1, <3>2, <4>1
    <3>. QED
      BY <1>5, <3>1, <3>2
  <2>. QED
    BY <2>1 DEF BuiltOnPredecessor
<1>. QED
  BY <1>6, <1>7, <1>8

(* A finishing step of r that only adds history keeps what is pending.     *)
LEMMA PendingKept ==
  ASSUME IInv, NEW r \in Requests, history \subseteq history',
         NEW out, Finish(r, out)
  PROVE  Pending'
<1>1. req'[r].pc = "done" /\ \A s \in Requests \ {r} : req'[s] = req[s]
  BY DEF Finish, IInv, TypeOK, Local
<1>2. PendingOf(r)'
  BY <1>1 DEF PendingOf
<1>3. ASSUME NEW s \in Requests, s # r
      PROVE  PendingOf(s)'
  BY <1>1, <1>3 DEF IInv, Pending, PendingOf, HasContent, Computed,
     NewEntity
<1>. QED
  BY <1>2, <1>3 DEF Pending

(* The committing batch of a revision or an event.                         *)
LEMMA CommitStep ==
  ASSUME IInv, NEW r \in Requests, CommitBatch(r)
  PROVE  IInv'
<1> DEFINE e == Entity(r)
           next == req[r].next
           read == req[r].read
           exp == req[r].exp
           ev == [op |-> req[r].op, rev |-> next.rev, from |-> read.status,
                  to |-> next.status]
<1>1. req[r] \in Local /\ e \in Ids
  BY EntityType DEF IInv, TypeOK
<1>2. /\ next \in Payloads /\ read \in Payloads /\ exp \in Nat
      /\ req[r].op \in OpIds
  BY <1>1 DEF Local
<1>3. /\ next.rev \in Nat /\ next.status \in Statuses
      /\ read.status \in Statuses /\ read.content \in [Fields -> Values]
  BY <1>2 DEF Payloads
<1>4. /\ read.rev = exp /\ Computed(r, req[r].path, read, next)
      /\ HasContent(e, exp, read.content)
      /\ req[r].path \in {"revision", "event"}
  BY DEF IInv, Pending, PendingOf, CommitBatch, At
<1>5. state[e].rev = exp /\ (req[r].path = "event" => state[e] = read)
  BY <1>4 DEF CommitBatch, BatchApplies, StateCAS
<1>6. TypeOK'
  <2>1. state' \in [Ids -> Payloads]
    BY <1>1, <1>2 DEF CommitBatch, IInv, TypeOK
  <2>2. history' \subseteq Rows
    BY <1>1, <1>2, <1>3 DEF CommitBatch, IInv, TypeOK, Row, Rows
  <2>3. ev \in Events
    BY <1>2, <1>3 DEF Events
  <2>4. events' = IF req[r].path = "revision" THEN events
                  ELSE [events EXCEPT ![e] = Append(@, ev)]
    BY DEF CommitBatch
  <2>. HIDE DEF ev
  <2>5. events' \in [Ids -> Seq(Events)]
    BY <1>1, <2>3, <2>4 DEF IInv, TypeOK
  <2>6. outbox' \subseteq Entries
    BY <1>1, <1>2, <1>3 DEF CommitBatch, IInv, TypeOK, Entry, Entries
  <2>7. req' \in [Requests -> Local] /\ mutex' \in Requests \cup {Free}
    BY FinishType DEF CommitBatch, IInv
  <2>8. seq' \in [Kinds -> Nat]
    BY DEF CommitBatch, IInv, TypeOK
  <2>. QED
    BY <2>1, <2>2, <2>5, <2>6, <2>7, <2>8 DEF TypeOK
<1>7. SeededPresent' /\ HistoryComplete' /\ BuiltOnPredecessor'
  <2>1. CASE next.rev = exp
    <3>1. next.content = state[e].content
      BY <1>2, <1>4, <1>5, <2>1 DEF Computed
    <3>2. history' = history /\ state' = [state EXCEPT ![e] = next]
      BY <2>1 DEF CommitBatch
    <3>3. \A d \in Ids : /\ state'[d].rev = state[d].rev
                          /\ state'[d].content = state[d].content
      BY <1>1, <1>5, <2>1, <3>1, <3>2 DEF IInv, TypeOK
    <3>4. SeededPresent'
      BY <3>3, BoundAssumption DEF IInv, SeededPresent
    <3>5. \A h \in history : h.id \in Ids
      BY DEF IInv, TypeOK, Rows
    <3>6. HistoryComplete'
      BY <3>2, <3>3, <3>5 DEF IInv, HistoryComplete
    <3>7. BuiltOnPredecessor'
      BY <3>2 DEF IInv, BuiltOnPredecessor
    <3>. QED
      BY <3>4, <3>6, <3>7
  <2>2. CASE next.rev # exp
    <3>1. next.rev = exp + 1 /\ next.content = Edited(read.content, Edit[r])
      BY <1>2, <1>4, <2>2 DEF Computed
    <3>2. next.by = r
      BY <1>4 DEF Computed
    <3>3. /\ history' = history \cup {Row(e, next)}
          /\ state' = [state EXCEPT ![e] = next]
      BY <2>2 DEF CommitBatch
    <3>. QED
      BY <1>1, <1>2, <1>3, <1>4, <1>5, <3>1, <3>2, <3>3, NewRevision
  <2>. QED
    BY <2>1, <2>2
<1>8. Pending'
  BY PendingKept DEF CommitBatch
<1>. QED
  BY <1>6, <1>7, <1>8 DEF IInv

(* The queries of a create write only the request's own state.             *)
LEMMA CreateLocalStep ==
  ASSUME IInv, NEW r \in Requests,
         CreateReuse(r) \/ CreateNumber(r) \/ CreateRecheck(r)
  PROVE  IInv'
<1>1. /\ req[r] \in Local /\ CreateOp(r) \in OpIds
      /\ UNCHANGED <<store, mutex>>
  BY OpTypes, AbsentType
     DEF IInv, TypeOK, CreateReuse, CreateNumber, CreateRecheck
<1>2. mutex' \in Requests \cup {Free}
  BY <1>1 DEF IInv, TypeOK
<1>0. req[r].tries < CreateAttempts /\ req[r].tries \in 0 .. CreateAttempts
  BY <1>1 DEF IInv, Pending, PendingOf, CreateReuse, CreateNumber,
     CreateRecheck, At, Local
<1>3. \A o \in outbox : o.id[2] \in Nat
  BY BoundAssumption DEF IInv, TypeOK, Entries, Ids
<1>4. \E l \in Local :
        /\ req' = [req EXCEPT ![r] = l]
        /\ l.pc = "create" => <<Kind[r], l.number>> \in Ids /\ l.next.rev = 1
        /\ l.pc \notin {"check", "reuse", "batch"}
        /\ l.pc # "done" => l.tries < CreateAttempts
  <2>1. ASSUME CreateReuse(r)
        PROVE  <1>4!:
    <3>1. CASE ~HasOp(CreateOp(r))
      <4> DEFINE l == [req[r] EXCEPT !.pc = "number", !.path = "create",
                                     !.op = CreateOp(r)]
      <4>1. l \in Local /\ l.pc = "number" /\ l.tries = req[r].tries
        BY <1>1 DEF Local
      <4>2. req' = [req EXCEPT ![r] = l]
        BY <2>1, <3>1 DEF CreateReuse, HasOp
      <4>. QED
        BY <1>0, <4>1, <4>2
    <3>2. CASE HasOp(CreateOp(r))
      <4>1. PICK o \in outbox :
              req' = [req EXCEPT ![r].pc = "done", ![r].out = "reused",
                                 ![r].op = CreateOp(r), ![r].number = o.id[2]]
        BY <2>1, <3>2 DEF CreateReuse
      <4> DEFINE l == [req[r] EXCEPT !.pc = "done", !.out = "reused",
                                     !.op = CreateOp(r), !.number = o.id[2]]
      <4>2. l \in Local /\ l.pc = "done"
        BY <1>1, <1>3 DEF Local
      <4>3. req' = [req EXCEPT ![r] = l]
        BY <4>1
      <4>. QED
        BY <4>2, <4>3
    <3>. QED
      BY <3>1, <3>2
  <2>2. ASSUME CreateNumber(r)
        PROVE  <1>4!:
    <3> DEFINE p == Created(r)
               n == seq[Kind[r]]
               l == [req[r] EXCEPT !.pc = "create", !.number = n,
                                   !.next = p]
    <3>1. Edited(Blank, Edit[r]) \in [Fields -> Values]
      BY EditedType, BoundAssumption, RequestAssumption DEF Blank
    <3>2. p \in Payloads
      BY <3>1, DefaultIsStatus, EntityType, WrittenType DEF Created
    <3>3. p.rev = 1
      BY DEF Created, Written
    <3>4. <<Kind[r], n>> \in Ids /\ n \in Nat
      BY <2>2, EntityType DEF CreateNumber, IInv, TypeOK, Ids
    <3>5. req' = [req EXCEPT ![r] = l]
      BY <2>2 DEF CreateNumber
    <3>. HIDE DEF p, n
    <3>6. /\ l \in Local /\ l.pc = "create" /\ l.number = n /\ l.next = p
          /\ l.tries = req[r].tries
      BY <1>1, <3>2, <3>4 DEF Local
    <3>. QED
      BY <1>0, <3>3, <3>4, <3>5, <3>6
  <2>3. ASSUME CreateRecheck(r)
        PROVE  <1>4!:
    <3>1. CASE HasOp(req[r].op)
      <4>1. PICK o \in outbox :
              req' = [req EXCEPT ![r].pc = "done", ![r].out = "reused",
                                 ![r].number = o.id[2]]
        BY <2>3, <3>1 DEF CreateRecheck
      <4> DEFINE l == [req[r] EXCEPT !.pc = "done", !.out = "reused",
                                     !.number = o.id[2]]
      <4>2. l \in Local /\ l.pc = "done"
        BY <1>1, <1>3 DEF Local
      <4>3. req' = [req EXCEPT ![r] = l]
        BY <4>1
      <4>. QED
        BY <4>2, <4>3
    <3>2. CASE ~HasOp(req[r].op)
      <4> DEFINE last == req[r].tries + 1 = CreateAttempts
                 l == [req[r] EXCEPT
                         !.pc = IF last THEN "done" ELSE "idle",
                         !.out = IF last THEN "exhausted" ELSE "none",
                         !.tries = @ + 1]
      <4>1. req' = [req EXCEPT ![r] = l]
        BY <2>3, <3>2 DEF CreateRecheck, HasOp
      <4>2. req[r].tries + 1 \in 0 .. CreateAttempts
        BY <1>0, BoundAssumption
      <4>3. /\ l \in Local /\ l.pc \in {"done", "idle"}
            /\ l.pc = "idle" => l.tries # CreateAttempts
            /\ l.tries = req[r].tries + 1
        BY <1>1, <4>2 DEF Local
      <4>4. l.pc # "done" => l.tries < CreateAttempts
        BY <1>0, <4>3, BoundAssumption
      <4>. HIDE DEF l
      <4>. QED
        BY <4>1, <4>3, <4>4
    <3>. QED
      BY <3>1, <3>2
  <2>. QED
    BY <2>1, <2>2, <2>3
<1>5. PICK l \in Local :
        /\ req' = [req EXCEPT ![r] = l]
        /\ l.pc = "create" => <<Kind[r], l.number>> \in Ids /\ l.next.rev = 1
        /\ l.pc \notin {"check", "reuse", "batch"}
        /\ l.pc # "done" => l.tries < CreateAttempts
  BY <1>4
<1>6. /\ req' \in [Requests -> Local] /\ req'[r] = l
      /\ \A s \in Requests \ {r} : req'[s] = req[s]
  BY <1>5 DEF IInv, TypeOK
<1>7. PendingOf(r)'
  BY <1>5, <1>6 DEF PendingOf, NewEntity
<1>. QED
  BY <1>1, <1>2, <1>6, <1>7, LocalStep

(* The batch of a create.                                                  *)
LEMMA CreateStep ==
  ASSUME IInv, NEW r \in Requests, CreateBatch(r)
  PROVE  IInv'
<1> DEFINE e == NewEntity(r)
           p == req[r].next
<1>1. req[r] \in Local /\ e \in Ids /\ p.rev = 1
  BY DEF IInv, TypeOK, Pending, PendingOf, CreateBatch, At
<1>2. p \in Payloads /\ req[r].op \in OpIds
  BY <1>1 DEF Local
<1>3. state[e].rev = 0
  BY DEF CreateBatch, CreateApplies, Absent
<1>4. TypeOK'
  <2>1. state' \in [Ids -> Payloads] /\ seq' \in [Kinds -> Nat]
    BY <1>1, <1>2, EntityType DEF CreateBatch, IInv, TypeOK
  <2>2. history' \subseteq Rows
    BY <1>1, <1>2 DEF CreateBatch, IInv, TypeOK, Row, Rows
  <2>3. outbox' \subseteq Entries
    BY <1>1, <1>2 DEF CreateBatch, IInv, TypeOK, Entry, Entries
  <2>4. req' \in [Requests -> Local] /\ mutex' \in Requests \cup {Free}
    BY FinishType DEF CreateBatch, IInv
  <2>5. events' \in [Ids -> Seq(Events)]
    BY DEF CreateBatch, IInv, TypeOK
  <2>. QED
    BY <2>1, <2>2, <2>3, <2>4, <2>5 DEF TypeOK
<1>5. SeededPresent' /\ HistoryComplete' /\ BuiltOnPredecessor'
  <2>1. /\ history' = history \cup {Row(e, p)}
        /\ state' = [state EXCEPT ![e] = p]
    BY DEF CreateBatch
  <2>2. Blank \in [Fields -> Values]
    BY BoundAssumption DEF Blank
  <2>3. p.rev = state[e].rev + 1 /\ ~(p.rev > 1)
    BY <1>1, <1>3
  <2>. QED
    BY <1>1, <1>2, <2>1, <2>2, <2>3, NewRevision
<1>6. Pending'
  BY PendingKept DEF CreateBatch
<1>. QED
  BY <1>4, <1>5, <1>6 DEF IInv

(* The seeded entities of a kind are finitely many.                        *)
LEMMA SeededFinite ==
  ASSUME NEW k \in Kinds
  PROVE  IsFiniteSet(SeededOf(k))
<1>1. IsFiniteSet(1 .. MaxNumber)
  <2>1. MaxNumber \in Int
    BY BoundAssumption
  <2>. QED
    BY <2>1, FS_Interval
<1>2. IsFiniteSet({k} \X (1 .. MaxNumber))
  BY <1>1, FS_Singleton, FS_Product
<1>3. SeededOf(k) \subseteq {k} \X (1 .. MaxNumber)
  BY BoundAssumption DEF SeededOf, Ids
<1>. QED
  BY <1>2, <1>3, FS_Subset

LEMMA InitIInv == Init => IInv
<1> SUFFICES ASSUME Init PROVE IInv
  OBVIOUS
<1>1. \A e \in Ids : SeedPayload(e) \in Payloads /\ SeedPayload(e).rev = 1
  <2>1. \A e \in Ids : e[1] \in Kinds
    BY DEF Ids
  <2>. QED
    BY <2>1, DefaultIsStatus, BoundAssumption DEF SeedPayload, Payloads, Blank
<1>2. \A e \in Ids : SeedOp(e) \in OpIds
  <2>1. \A e \in Ids : e \in Kinds \X Nat
    BY BoundAssumption DEF Ids
  <2>. QED
    BY <2>1 DEF SeedOp, OpIds, Edits, Verbs
<1>3. Idle \in Local /\ NotSent \in Local
  BY AbsentType, NoOpType, BoundAssumption DEF Idle, NotSent, Local
<1>4. seq \in [Kinds -> Nat]
  <2>1. \A k \in Kinds : Cardinality(SeededOf(k)) \in Nat
    BY FS_CardinalityType, SeededFinite
  <2>. QED
    BY <2>1 DEF Init
<1>5. TypeOK
  <2>1. state \in [Ids -> Payloads]
    BY <1>1, AbsentType DEF Init
  <2>2. history \subseteq Rows
    BY <1>1, BoundAssumption DEF Init, Rows
  <2>3. outbox \subseteq Entries
    BY <1>1, <1>2, BoundAssumption DEF Init, Entries
  <2>4. events \in [Ids -> Seq(Events)]
    BY DEF Init
  <2>5. req \in [Requests -> Local] /\ mutex \in Requests \cup {Free}
    BY <1>3 DEF Init
  <2>. QED
    BY <1>4, <2>1, <2>2, <2>3, <2>4, <2>5 DEF TypeOK
<1>6. \A e \in Ids :
        state[e] = IF e \in Seeded THEN SeedPayload(e) ELSE Absent
  BY DEF Init
<1>7. SeededPresent
  BY <1>1, <1>6, BoundAssumption DEF SeededPresent
<1>8. HistoryComplete
  <2>1. \A e \in Ids : state[e].rev = IF e \in Seeded THEN 1 ELSE 0
    BY <1>1, <1>6 DEF Absent
  <2>2. \A h \in history : /\ h.id \in Seeded /\ h.rev = 1
                            /\ h = [id |-> h.id, rev |-> 1,
                                    payload |-> SeedPayload(h.id)]
    BY DEF Init
  <2>3. \A h \in history : h.rev \in 1 .. state[h.id].rev
    BY <2>1, <2>2, BoundAssumption
  <2>4. \A g, h \in history : g.id = h.id /\ g.rev = h.rev => g = h
    BY <2>2
  <2>5. ASSUME NEW e \in Ids, NEW k \in 1 .. state[e].rev
        PROVE  \E h \in history :
                 /\ h.id = e /\ h.rev = k
                 /\ k = state[e].rev => h.payload.content = state[e].content
    <3>1. e \in Seeded /\ k = 1
      BY <2>1
    <3>2. [id |-> e, rev |-> 1, payload |-> SeedPayload(e)] \in history
      BY <3>1 DEF Init
    <3>. QED
      BY <1>6, <3>1, <3>2
  <2>. QED
    BY <2>3, <2>4, <2>5 DEF HistoryComplete
<1>9. BuiltOnPredecessor
  BY DEF BuiltOnPredecessor, Init
<1>10. Pending
  <2>1. \A r \in Requests : req[r].pc \in {"idle", "done"} /\ req[r].tries = 0
    BY DEF Init, Idle, NotSent
  <2>. QED
    BY <2>1, BoundAssumption DEF Pending, PendingOf
<1>. QED
  BY <1>5, <1>7, <1>8, <1>9, <1>10 DEF IInv

LEMMA NextIInv == IInv /\ [Next]_vars => IInv'
<1> SUFFICES ASSUME IInv, [Next]_vars PROVE IInv'
  OBVIOUS
<1>1. CASE UNCHANGED vars
  <2>1. (TypeOK /\ SeededPresent /\ HistoryComplete /\ BuiltOnPredecessor)'
    BY <1>1 DEF vars, IInv, TypeOK, SeededPresent, HistoryComplete,
       BuiltOnPredecessor
  <2>2. Pending'
    BY <1>1 DEF vars, IInv, Pending, PendingOf, HasContent, Computed,
       NewEntity
  <2>. QED
    BY <2>1, <2>2 DEF IInv
<1>2. ASSUME NEW r \in Requests, Step(r) \/ Cancel(r)
      PROVE  IInv'
  <2>1. CASE Begin(r)
    BY <2>1, BeginStep
  <2>2. CASE Handle(r)
    BY <2>2, HandleStep
  <2>3. CASE CheckStatus(r)
    BY <2>3, GotoStep, FinishStep DEF CheckStatus, At
  <2>4. CASE CheckReuse(r)
    BY <2>4, GotoStep, FinishStep DEF CheckReuse, At
  <2>5. CASE CommitBatch(r)
    BY <2>5, CommitStep
  <2>6. CASE BatchFails(r)
    BY <2>6, GotoStep DEF BatchFails, At
  <2>7. CASE Recheck(r)
    BY <2>7, FinishStep DEF Recheck
  <2>8. CASE CreateReuse(r) \/ CreateNumber(r) \/ CreateRecheck(r)
    BY <2>8, CreateLocalStep
  <2>9. CASE CreateBatch(r)
    BY <2>9, CreateStep
  <2>10. CASE CreateFails(r)
    BY <2>10, GotoStep DEF CreateFails, At
  <2>11. CASE Cancel(r)
    BY <2>11, FinishStep DEF Cancel
  <2>. QED
    BY <1>2, <2>1, <2>2, <2>3, <2>4, <2>5, <2>6, <2>7, <2>8, <2>9, <2>10,
       <2>11 DEF Step
<1>. QED
  BY <1>1, <1>2 DEF Next

(* Type correctness of the Shared store and of every request.              *)
THEOREM TypeCorrect == Spec => []TypeOK
<1>1. IInv => TypeOK
  BY DEF IInv
<1>. QED
  BY <1>1, InitIInv, NextIInv, PTL DEF Spec

(* The history of every entity is complete whatever revisions, status      *)
(* events, creates and cancellations interleave.                           *)
THEOREM HistoryIsComplete == Spec => []HistoryComplete
<1>1. IInv => HistoryComplete
  BY DEF IInv
<1>. QED
  BY <1>1, InitIInv, NextIInv, PTL DEF Spec

(* No update is lost: the compare-and-set of the batch suffices for every  *)
(* handler, however long before the batch it read its rows.                *)
THEOREM NoLostUpdate == Spec => []BuiltOnPredecessor
<1>1. IInv => BuiltOnPredecessor
  BY DEF IInv
<1>. QED
  BY <1>1, InitIInv, NextIInv, PTL DEF Spec
-----------------------------------------------------------------------------
(* What the answers and the chains rest on.                                *)

(* The first number a kind allocates.                                      *)
First(k) == Cardinality(SeededOf(k)) + 1

(* A status an entity was created with or that an event gave it.           *)
Reached(e, s, ev) ==
  \/ s = DefaultCreateStatus[e[1]]
  \/ \E i \in DOMAIN ev[e] : ev[e][i].to = s

(* The statuses a handler writes.                                          *)
Held(k) ==
  CASE k = "rule" -> {"proposed", "accepted", "archived"}
    [] k = "adr"  -> {"proposed", "accepted", "superseded", "archived"}
    [] OTHER      -> {"planned", "done", "archived"}

HasEdit(e, d, hist) ==
  \E h \in hist : h.id = e /\ h.payload.content[d.field] = d.value

MadeBy(e, rev, verb, hist) ==
  \E h \in hist :
    /\ h.id = e /\ h.rev = rev
    /\ h.payload.by \in Requests /\ Verb[h.payload.by] = verb

(* What a committed operation identity says of the store.                  *)
Effect(op, hist, ev) ==
  LET e == op.id
  IN /\ e \in Ids
     /\ e[1] \in {"rule", "adr"} =>
          /\ op.edit # NoEdit => HasEdit(e, op.edit, hist)
          /\ op.verb = "update" /\ op.to # "keep" => Reached(e, op.to, ev)
     /\ e[1] # "milestone" =>
          /\ op.verb = "archive" => Reached(e, "archived", ev)
          /\ op.verb = "complete" => Reached(e, "done", ev)
     /\ e[1] = "milestone" => MadeBy(e, op.rev, op.verb, hist)

RowIsTrue(o, sq, hist, ev) ==
  IF o.op.verb = "create"
  THEN o.id[1] = o.op.id[1] /\ o.id[2] < sq[o.id[1]]
  ELSE Effect(o.op, hist, ev)

(* The outbox is keyed by operation identity, and one create made an       *)
(* entity.                                                                 *)
Keyed(ob) ==
  \A o1, o2 \in ob :
    \/ o1.op = o2.op
    \/ o1.op.verb = "create" /\ o2.op.verb = "create" /\ o1.id = o2.id
    => o1 = o2

OutboxIsTrue == Keyed(outbox) /\ \A o \in outbox : RowIsTrue(o, seq, history, events)

(* The entities of a kind are exactly those numbered below its sequence.   *)
Numbered ==
  \A e \in Ids : /\ state[e] = Absent <=> ~(e[2] < seq[e[1]])
                 /\ state[e].rev = 0 => state[e] = Absent

(* No status comes from nowhere: what is not a Milestone has the status    *)
(* its last event or its creation gave it, and only seeded entities are    *)
(* mutated.                                                                *)
StatusOf(e) ==
  /\ e[1] # "milestone" /\ state[e] # Absent =>
       /\ Reached(e, state[e].status, events)
       /\ state[e].status \in Held(e[1])
  /\ events[e] # <<>> => e \in Seeded /\ e[1] # "milestone"

StatusesReached == \A e \in Ids : StatusOf(e)

(* What a handler submits for the payload p it read.                       *)
Shape(r, path, p, next, op) ==
  /\ Verb[r] # "create" /\ op.id = Entity(r) /\ op.verb = Verb[r]
  /\ Kind[r] # "milestone" => next.status \in Held(Kind[r])
  /\ Kind[r] \in {"rule", "adr"} =>
       /\ op.edit = Edit[r] /\ op.to = To[r]
       /\ Verb[r] \in {"update", "archive"}
       /\ Verb[r] = "archive" => path = "event" /\ next.status = "archived"
       /\ Verb[r] = "update" /\ path = "event" =>
            To[r] # "keep" /\ next.status # "proposed"
       /\ Verb[r] = "update" /\ To[r] # "keep" => next.status = To[r]
       /\ next.rev = p.rev /\ Edit[r] # NoEdit =>
            p.content[Edit[r].field] = Edit[r].value
       /\ path = "revision" => next.status = p.status
  /\ Kind[r] = "task" =>
       \/ /\ Verb[r] = "update" /\ op.by = r /\ path = "revision"
          /\ next.status = "planned" /\ p.status \in {"planned", "ready"}
       \/ /\ path = "event" /\ next.rev = p.rev
          /\ \/ Verb[r] = "complete" /\ next.status = "done"
             \/ Verb[r] = "archive" /\ next.status = "archived"
  /\ Kind[r] = "milestone" =>
       path = "revision" /\ op.rev = next.rev

Flying == {"check", "reuse", "batch", "recheck"}

(* The payload a request read is still the newest or the store moved on:   *)
(* to a later revision, or by an event at this one.                        *)
Sent(r, l, st, ev) ==
  LET e == Entity(r)
      last == Len(ev[e])
  IN /\ Shape(r, l.path, l.read, l.next, l.op)
     /\ Kind[r] # "milestone" => Reached(e, l.read.status, ev)
     /\ Kind[r] # "milestone" => l.read.status \in Held(Kind[r])
     /\ l.read.rev <= st[e].rev
     /\ st[e].rev = l.read.rev /\ st[e].status # l.read.status
          /\ Kind[r] # "milestone" =>
          last > 0 /\ ev[e][last].rev = st[e].rev

(* The answer of a mutation.                                               *)
Told(r, l, hist, ev) ==
  LET e == Entity(r)
  IN /\ l.next.rev # l.read.rev /\ Edit[r] # NoEdit =>
          \E h \in hist :
            /\ h.id = e
            /\ l.out = "committed" => h.rev > l.read.rev
            /\ \/ h.payload.content[Edit[r].field] = Edit[r].value
               \/ /\ Kind[r] = "milestone" /\ l.out = "reused"
                  /\ h.rev = l.next.rev
                  /\ h.payload.by \in Requests /\ Verb[h.payload.by] = Verb[r]
     /\ l.path = "event" =>
          \E i \in DOMAIN ev[e] : ev[e][i].to = l.next.status

MutationOf(r, l, st, hist, ev) ==
  /\ l.pc \in {"number", "create", "recreate"} => Verb[r] = "create"
  /\ l.pc = "read" => Verb[r] # "create"
  /\ l.pc \in Flying => Sent(r, l, st, ev)
  /\ Verb[r] # "create" /\ l.out \in {"committed", "reused"} =>
       Told(r, l, hist, ev)

(* A create between its attempts, and its answer.                          *)
CreateOf(r, l, sq, ob) ==
  LET k == Kind[r]
      goal == First(k) + l.tries
  IN /\ l.pc \in {"number", "create", "recreate"} => l.op = CreateOp(r)
     /\ l.pc \in {"idle", "number"} => sq[k] >= goal
     /\ l.pc = "create" => /\ l.number >= goal /\ l.number <= sq[k]
                           /\ l.next.status = DefaultCreateStatus[k]
     /\ l.pc = "recreate" =>
          \/ \E o \in ob : o.op = l.op
          \/ sq[k] > goal
     /\ l.out = "exhausted" => sq[k] >= First(k) + CreateAttempts
     /\ Verb[r] = "create" /\ l.out \in {"committed", "reused"} =>
          \E o \in ob : o.op = CreateOp(r) /\ o.id[2] = l.number

Requested ==
  \A r \in Requests : /\ MutationOf(r, req[r], state, history, events)
                      /\ CreateOf(r, req[r], seq, outbox)
                      /\ req[r].out # "none" => req[r].pc = "done"

(* A Task update has an identity of its own, spent once.                   *)
Spent ==
  \A o \in outbox : o.op.verb = "update" /\ o.op.id[1] = "task" =>
    o.op.by \in Requests /\ req[o.op.by].pc = "done"

Answering == OutboxIsTrue /\ Numbered /\ StatusesReached /\ Requested /\ Spent

(* Every handler submits a mutation of the shape its answer needs.         *)
ShapedDecision(r) ==
  \/ \E out \in {"refused", "unchanged"} : Finish(r, out)
  \/ \E path \in {"revision", "event"}, next \in Payloads, op \in OpIds :
       /\ Submit(r, path, state[Entity(r)], next, op)
       /\ Shape(r, path, state[Entity(r)], next, op)

LEMMA EditIsFixed ==
  ASSUME NEW c \in [Fields -> Values], NEW d \in Edits, Edited(c, d) = c,
         d # NoEdit
  PROVE  c[d.field] = d.value
<1>1. d.field \in Fields
  BY DEF Edits
<1>2. Edited(c, d)[d.field] = d.value
  BY <1>1 DEF Edited
<1>. QED
  BY <1>2

LEMMA EditIsMade ==
  ASSUME NEW c \in [Fields -> Values], NEW d \in Edits, d # NoEdit
  PROVE  d.field \in Fields /\ Edited(c, d)[d.field] = d.value
<1>1. d.field \in Fields
  BY DEF Edits
<1>. QED
  BY <1>1 DEF Edited

LEMMA RuleShape ==
  ASSUME TypeOK, NEW r \in Requests,
         state[Entity(r)].status \in Held(Kind[r]), Kind[r] \in {"rule", "adr"},
         \/ Verb[r] = "update" /\ RuleUpdate(r)
         \/ Verb[r] = "archive" /\ RuleArchive(r)
  PROVE  ShapedDecision(r)
<1> DEFINE p == state[Entity(r)]
           c == Edited(p.content, Edit[r])
           st == IF To[r] = "keep" THEN p.status ELSE To[r]
           rev == IF c = p.content THEN p.rev ELSE p.rev + 1
           op == InputDigest(r)
<1>1. /\ p \in Payloads /\ p.rev \in Nat /\ p.status \in Statuses
      /\ p.content \in [Fields -> Values] /\ Entity(r) \in Ids
      /\ Edit[r] \in Edits
  BY RequestAssumption, EntityType DEF TypeOK, Payloads
<1>2. c \in [Fields -> Values]
  BY <1>1, EditedType
<1>3. st \in Statuses /\ "archived" \in Statuses
  BY <1>1, RequestAssumption, HandlerStatuses DEF Statuses
<1>4. op \in OpIds
  BY <1>1, OpTypes
<1>5. /\ op.id = Entity(r) /\ op.verb = Verb[r] /\ op.edit = Edit[r]
      /\ op.to = To[r]
  BY DEF InputDigest
<1>6. rev \in Nat /\ (rev = p.rev => c = p.content)
  BY <1>1
<1>7. rev = p.rev /\ Edit[r] # NoEdit => p.content[Edit[r].field] = Edit[r].value
  BY <1>1, <1>6, EditIsFixed
<1>8. CASE Verb[r] = "update" /\ RuleUpdate(r)
  <2> DEFINE next == Written(r, rev, st, c)
  <2>1. next \in Payloads /\ next.rev = rev /\ next.status = st
    BY <1>2, <1>3, <1>6, WrittenType DEF Written
  <2>2. CASE \E out \in {"refused", "unchanged"} : Finish(r, out)
    BY <2>2 DEF ShapedDecision
  <2>3. CASE /\ st # p.status /\ EventIsLegal(r, p, st, "status")
             /\ Submit(r, "event", p, next, op)
    <3>1. To[r] # "keep" /\ st = To[r]
      BY <2>3
    <3>2. st # "proposed" /\ st \in Held(Kind[r])
      BY <2>3 DEF EventIsLegal, AllowedTransitions, Held
    <3>3. Shape(r, "event", p, next, op)
      BY <1>5, <1>7, <1>8, <2>1, <3>1, <3>2 DEF Shape
    <3>. HIDE DEF next, op
    <3>. QED
      BY <1>4, <2>1, <2>3, <3>3 DEF ShapedDecision
  <2>4. CASE /\ c # p.content /\ st = p.status
             /\ Submit(r, "revision", p, next, op)
    <3>1. (To[r] # "keep" => st = To[r]) /\ st \in Held(Kind[r])
      BY <2>4
    <3>3. Shape(r, "revision", p, next, op)
      BY <1>5, <1>7, <1>8, <2>1, <2>4, <3>1 DEF Shape
    <3>. HIDE DEF next, op
    <3>. QED
      BY <1>4, <2>1, <2>4, <3>3 DEF ShapedDecision
  <2>. QED
    BY <1>8, <2>2, <2>3, <2>4 DEF RuleUpdate
<1>9. CASE Verb[r] = "archive" /\ RuleArchive(r)
  <2> DEFINE next == Written(r, p.rev, "archived", p.content)
  <2>1. next \in Payloads /\ next.status = "archived"
    BY <1>1, <1>3, WrittenType DEF Written
  <2>2. Edit[r] = NoEdit /\ "archived" \in Held(Kind[r])
    BY <1>9, RequestAssumption DEF Held
  <2>3. Shape(r, "event", p, next, op)
    BY <1>5, <1>9, <2>1, <2>2 DEF Shape
  <2>4. \/ Finish(r, "refused")
        \/ Submit(r, "event", p, next, op)
    BY <1>9 DEF RuleArchive
  <2>. HIDE DEF next, op
  <2>. QED
    BY <1>4, <2>1, <2>3, <2>4 DEF ShapedDecision
<1>. QED
  BY <1>8, <1>9

LEMMA TaskShape ==
  ASSUME TypeOK, NEW r \in Requests,
         state[Entity(r)].status \in Held(Kind[r]), Kind[r] = "task",
         \/ Verb[r] = "update" /\ TaskUpdate(r)
         \/ Verb[r] = "complete" /\ TaskComplete(r)
         \/ Verb[r] = "archive" /\ TaskArchive(r)
  PROVE  ShapedDecision(r)
<1> DEFINE p == state[Entity(r)]
           c == Edited(p.content, Edit[r])
<1>1. /\ p \in Payloads /\ p.rev \in Nat /\ p.rev + 1 \in Nat
      /\ p.content \in [Fields -> Values]
      /\ Entity(r) \in Ids /\ Edit[r] \in Edits
  BY RequestAssumption, EntityType DEF TypeOK, Payloads
<1>2. c \in [Fields -> Values]
  BY <1>1, EditedType
<1>3. {"planned", "done", "archived"} \subseteq Statuses
  BY HandlerStatuses
<1>4. CASE Verb[r] = "update" /\ TaskUpdate(r)
  <2> DEFINE next == Written(r, p.rev + 1, "planned", c)
             op == [NoOp EXCEPT !.id = Entity(r), !.by = r]
  <2>1. next \in Payloads /\ next.status = "planned"
    BY <1>1, <1>2, <1>3, WrittenType DEF Written
  <2>2. op \in OpIds
    BY <1>1, OpTypes
  <2>3. op.id = Entity(r) /\ op.by = r /\ op.verb = "update"
    BY DEF NoOp
  <2>4. CASE p.status \in {"planned", "ready"}
    <3>1. Shape(r, "revision", p, next, op)
      BY <1>4, <2>1, <2>3, <2>4 DEF Shape, Held
    <3>2. \/ \E out \in {"refused", "unchanged"} : Finish(r, out)
          \/ Submit(r, "revision", p, next, op)
      BY <1>4 DEF TaskUpdate
    <3>. HIDE DEF next, op
    <3>. QED
      BY <2>1, <2>2, <3>1, <3>2 DEF ShapedDecision
  <2>5. CASE p.status \notin {"planned", "ready"}
    BY <1>4, <2>5 DEF TaskUpdate, ShapedDecision
  <2>. QED
    BY <2>4, <2>5
<1>5. CASE \/ Verb[r] = "complete" /\ TaskComplete(r)
           \/ Verb[r] = "archive" /\ TaskArchive(r)
  <2> DEFINE s == IF Verb[r] = "complete" THEN "done" ELSE "archived"
             next == Written(r, p.rev, s, p.content)
             op == ContractOp(r, p)
  <2>1. next \in Payloads /\ next.status = s /\ next.rev = p.rev
    BY <1>1, <1>3, WrittenType DEF Written
  <2>2. op \in OpIds /\ op.id = Entity(r) /\ op.verb = Verb[r]
    BY <1>1, OpTypes DEF ContractOp
  <2>3. Shape(r, "event", p, next, op)
    BY <1>5, <2>1, <2>2 DEF Shape, Held
  <2>4. \/ \E out \in {"refused", "unchanged"} : Finish(r, out)
        \/ Submit(r, "event", p, next, op)
    BY <1>5 DEF TaskComplete, TaskArchive
  <2>. HIDE DEF next, op
  <2>. QED
    BY <2>1, <2>2, <2>3, <2>4 DEF ShapedDecision
<1>. QED
  BY <1>4, <1>5

LEMMA MilestoneShape ==
  ASSUME TypeOK, NEW r \in Requests, Kind[r] = "milestone",
         \/ Verb[r] = "update" /\ MilestoneUpdate(r)
         \/ Verb[r] = "append" /\ MilestoneAppend(r)
         \/ Verb[r] = "remove" /\ MilestoneRemove(r)
         \/ Verb[r] = "activate" /\ MilestoneActivate(r)
         \/ Verb[r] = "complete" /\ MilestoneComplete(r)
         \/ Verb[r] = "archive" /\ MilestoneArchive(r)
  PROVE  ShapedDecision(r)
<1> DEFINE p == state[Entity(r)]
           c == Edited(p.content, Edit[r])
           op == RevisionOp(r, p)
<1>1. /\ p \in Payloads /\ p.content \in [Fields -> Values]
      /\ p.rev \in Nat /\ p.rev + 1 \in Nat /\ p.status \in Statuses
      /\ Entity(r) \in Ids /\ Edit[r] \in Edits
  BY RequestAssumption, EntityType DEF TypeOK, Payloads
<1>2. c \in [Fields -> Values]
  BY <1>1, EditedType
<1>3. {"active", "completed", "archived"} \subseteq Statuses
  BY HandlerStatuses
<1>4. /\ op \in OpIds /\ op.id = Entity(r) /\ op.verb = Verb[r]
      /\ op.rev = p.rev + 1
  BY <1>1, OpTypes DEF RevisionOp
<1>5. ASSUME NEW s \in Statuses, NEW d \in [Fields -> Values],
             MilestoneRevise(r, p, s, d)
      PROVE  ShapedDecision(r)
  <2> DEFINE next == Written(r, p.rev + 1, s, d)
  <2>1. next \in Payloads /\ next.rev = p.rev + 1
    BY <1>1, WrittenType DEF Written
  <2>2. Verb[r] # "create"
    OBVIOUS
  <2>3. Shape(r, "revision", p, next, op)
    BY <1>4, <2>1, <2>2 DEF Shape
  <2>4. Submit(r, "revision", p, next, op)
    BY <1>5 DEF MilestoneRevise
  <2>. HIDE DEF next, op
  <2>. QED
    BY <1>4, <2>1, <2>3, <2>4 DEF ShapedDecision
<1>6. \/ \E out \in {"refused", "unchanged"} : Finish(r, out)
      \/ \E s \in Statuses, d \in [Fields -> Values] :
           MilestoneRevise(r, p, s, d)
  <2>1. MilestoneAppend(r) \/ MilestoneUpdate(r) => <1>6!:
    BY <1>1, <1>2 DEF MilestoneAppend, MilestoneUpdate
  <2>2. MilestoneRemove(r) => <1>6!:
    BY <2>1 DEF MilestoneRemove
  <2>3. MilestoneActivate(r) \/ MilestoneComplete(r) \/ MilestoneArchive(r)
          => <1>6!:
    BY <1>1, <1>3 DEF MilestoneActivate, MilestoneComplete, MilestoneArchive
  <2>. QED
    BY <2>1, <2>2, <2>3
<1>. QED
  BY <1>5, <1>6 DEF ShapedDecision

LEMMA HandlerShape ==
  ASSUME TypeOK, NEW r \in Requests, Handle(r),
         Kind[r] # "milestone" => state[Entity(r)].status \in Held(Kind[r])
  PROVE  ShapedDecision(r) /\ UNCHANGED store /\ At(r, "read")
BY RuleShape, TaskShape, MilestoneShape
   DEF Handle, Is, ADRUpdate, ADRArchive

----------------------------------------------------------------------------
(* The store only grows, and what was true of a row or a request stays so. *)

EntityGrown(e) ==
  /\ \A i \in DOMAIN events[e] :
       i \in DOMAIN events'[e] /\ events'[e][i] = events[e][i]
  /\ state[e].rev <= state'[e].rev
  /\ state'[e].rev = state[e].rev /\ e[1] # "milestone" =>
       \/ state'[e].status = state[e].status /\ events'[e] = events[e]
       \/ /\ Len(events'[e]) > 0
          /\ events'[e][Len(events'[e])].rev = state'[e].rev

Grown ==
  /\ \A k \in Kinds : seq[k] <= seq'[k]
  /\ history \subseteq history' /\ outbox \subseteq outbox'
  /\ \A e \in Ids : EntityGrown(e)

LEMMA ReachedStays ==
  ASSUME Grown, NEW e \in Ids, NEW s, Reached(e, s, events)
  PROVE  Reached(e, s, events')
BY DEF Grown, EntityGrown, Reached

LEMMA EffectStays ==
  ASSUME Grown, NEW op, Effect(op, history, events)
  PROVE  Effect(op, history', events')
<1>1. op.id \in Ids
  BY DEF Effect
<1>2. history \subseteq history'
  BY DEF Grown
<1>3. \A s : Reached(op.id, s, events) => Reached(op.id, s, events')
  BY <1>1, ReachedStays
<1>4. /\ HasEdit(op.id, op.edit, history) => HasEdit(op.id, op.edit, history')
      /\ MadeBy(op.id, op.rev, op.verb, history) =>
           MadeBy(op.id, op.rev, op.verb, history')
  BY <1>2 DEF HasEdit, MadeBy
<1>. QED
  BY <1>1, <1>3, <1>4 DEF Effect

LEMMA RowStays ==
  ASSUME TypeOK, TypeOK', Grown, NEW o \in outbox,
         RowIsTrue(o, seq, history, events)
  PROVE  RowIsTrue(o, seq', history', events')
<1>1. o.id[1] \in Kinds /\ o.id[2] \in Nat
  BY BoundAssumption DEF TypeOK, Entries, Ids
<1>2. seq[o.id[1]] <= seq'[o.id[1]]
  BY <1>1 DEF Grown
<1>3. seq[o.id[1]] \in Nat /\ seq'[o.id[1]] \in Nat
  BY <1>1 DEF TypeOK
<1>4. CASE o.op.verb = "create"
  BY <1>1, <1>2, <1>3, <1>4 DEF RowIsTrue
<1>5. CASE o.op.verb # "create"
  BY <1>5, EffectStays DEF RowIsTrue
<1>. QED
  BY <1>4, <1>5

(* What a request read is as new as it was, or an event or a revision has  *)
(* been committed since.                                                   *)
LEMMA SentStays ==
  ASSUME TypeOK, TypeOK', Grown, NEW r \in Requests, NEW l \in Local,
         Sent(r, l, state, events)
  PROVE  Sent(r, l, state', events')
<1> DEFINE e == Entity(r)
<1>1. e \in Ids /\ e[1] = Kind[r]
  BY EntityType DEF Entity
<1>2. EntityGrown(e)
  BY <1>1 DEF Grown
<1>3. /\ state[e].rev \in Nat /\ state'[e].rev \in Nat /\ l.read.rev \in Nat
  BY <1>1 DEF TypeOK, Payloads, Local
<1>4. Shape(r, l.path, l.read, l.next, l.op)
  BY DEF Sent
<1>5. Kind[r] # "milestone" =>
        /\ l.read.status \in Held(Kind[r])
        /\ Reached(e, l.read.status, events')
  BY <1>1, ReachedStays DEF Sent
<1>6. l.read.rev <= state[e].rev /\ l.read.rev <= state'[e].rev
  BY <1>2, <1>3 DEF Sent, EntityGrown
<1>7. ASSUME state'[e].rev = l.read.rev, state'[e].status # l.read.status,
             Kind[r] # "milestone"
      PROVE  /\ Len(events'[e]) > 0
             /\ events'[e][Len(events'[e])].rev = state'[e].rev
  <2>1. state'[e].rev = state[e].rev
    BY <1>2, <1>3, <1>6, <1>7 DEF EntityGrown
  <2>2. CASE state'[e].status = state[e].status /\ events'[e] = events[e]
    BY <1>7, <2>1, <2>2 DEF Sent
  <2>. QED
    BY <1>1, <1>2, <1>7, <2>1, <2>2 DEF EntityGrown
<1>. QED
  BY <1>4, <1>5, <1>6, <1>7 DEF Sent

LEMMA ToldStays ==
  ASSUME Grown, NEW r \in Requests, NEW l, Told(r, l, history, events)
  PROVE  Told(r, l, history', events')
<1>1. history \subseteq history'
  BY DEF Grown
<1>2. EntityGrown(Entity(r))
  BY EntityType DEF Grown
<1>. QED
  BY <1>1, <1>2 DEF Told, EntityGrown

LEMMA MutationStays ==
  ASSUME TypeOK, TypeOK', Grown, NEW r \in Requests, NEW l \in Local,
         MutationOf(r, l, state, history, events)
  PROVE  MutationOf(r, l, state', history', events')
BY SentStays, ToldStays DEF MutationOf

LEMMA FirstType ==
  ASSUME NEW k \in Kinds
  PROVE  First(k) \in Nat
BY SeededFinite, FS_CardinalityType DEF First

LEMMA CreateStays ==
  ASSUME TypeOK, TypeOK', Grown, NEW r \in Requests, NEW l \in Local,
         CreateOf(r, l, seq, outbox)
  PROVE  CreateOf(r, l, seq', outbox')
<1> DEFINE k == Kind[r]
<1>1. k \in Kinds /\ First(k) \in Nat
  BY EntityType, FirstType
<1>2. /\ seq[k] \in Nat /\ seq'[k] \in Nat /\ seq[k] <= seq'[k]
      /\ l.tries \in Nat /\ l.number \in Nat /\ CreateAttempts \in Nat
  BY <1>1, BoundAssumption DEF TypeOK, Grown, Local
<1>3. outbox \subseteq outbox'
  BY DEF Grown
<1>4. /\ seq[k] >= First(k) + l.tries => seq'[k] >= First(k) + l.tries
      /\ seq[k] > First(k) + l.tries => seq'[k] > First(k) + l.tries
      /\ seq[k] >= First(k) + CreateAttempts =>
           seq'[k] >= First(k) + CreateAttempts
      /\ l.number <= seq[k] => l.number <= seq'[k]
  BY <1>1, <1>2
<1>. QED
  BY <1>3, <1>4 DEF CreateOf

----------------------------------------------------------------------------
(* Steps that write only the local state of a request.                     *)

LocalTo(r, l) ==
  /\ UNCHANGED store
  /\ req' = [req EXCEPT ![r] = l]
  /\ req[r].pc # "done"

LEMMA AnswerLocal ==
  ASSUME TypeOK, Answering, NEW r \in Requests, NEW l, LocalTo(r, l),
         MutationOf(r, l, state, history, events),
         CreateOf(r, l, seq, outbox),
         l.out # "none" => l.pc = "done"
  PROVE  Answering'
<1>1. UNCHANGED <<seq, state, history, events, outbox>>
  BY DEF LocalTo, store
<1>2. req'[r] = l /\ \A s \in Requests \ {r} : req'[s] = req[s]
  BY DEF LocalTo, TypeOK
<1>3. OutboxIsTrue' /\ Numbered' /\ StatusesReached'
  BY <1>1 DEF Answering, OutboxIsTrue, Keyed, Numbered, StatusesReached, StatusOf
<1>4. Requested'
  BY <1>1, <1>2 DEF Answering, Requested
<1>5. Spent'
  BY <1>1, <1>2 DEF Answering, Spent, LocalTo
<1>. QED
  BY <1>3, <1>4, <1>5 DEF Answering

(* A request that returns without an acknowledgement says nothing.         *)
LEMMA AnswerFinish ==
  ASSUME TypeOK, Answering, NEW r \in Requests, UNCHANGED store,
         req[r].pc # "done",
         NEW out \in {"refused", "unchanged", "cancelled"}, Finish(r, out)
  PROVE  Answering'
<1> DEFINE l == [req[r] EXCEPT !.pc = "done", !.out = out]
<1>1. req[r] \in Local
  BY DEF TypeOK
<1>2. l.pc = "done" /\ l.out = out
  BY <1>1 DEF Local
<1>3. LocalTo(r, l)
  BY DEF Finish, LocalTo
<1>. HIDE DEF l
<1>4. /\ MutationOf(r, l, state, history, events)
      /\ CreateOf(r, l, seq, outbox)
  BY <1>2 DEF MutationOf, CreateOf, Flying
<1>. QED
  BY <1>2, <1>3, <1>4, AnswerLocal

LEMMA RequestFacts ==
  ASSUME Answering, NEW r \in Requests
  PROVE  /\ MutationOf(r, req[r], state, history, events)
         /\ CreateOf(r, req[r], seq, outbox)
         /\ req[r].out # "none" => req[r].pc = "done"
BY DEF Answering, Requested

LEMMA AnswerBegin ==
  ASSUME TypeOK, Answering, NEW r \in Requests, Begin(r)
  PROVE  Answering'
<1> DEFINE n == IF Given[r] = 0 THEN state[Entity(r)].rev ELSE Given[r]
           l == [req[r] EXCEPT !.pc = "read", !.exp = n]
<1>1. req[r] \in Local /\ req[r].pc = "idle" /\ req[r].out = "none"
  BY RequestFacts DEF TypeOK, Begin, At
<1>2. l.pc = "read" /\ l.out = "none"
  BY <1>1 DEF Local
<1>3. LocalTo(r, l)
  BY <1>1 DEF Begin, LocalTo
<1>. HIDE DEF l
<1>4. /\ MutationOf(r, l, state, history, events)
      /\ CreateOf(r, l, seq, outbox)
  BY <1>2 DEF MutationOf, CreateOf, Flying, Begin
<1>. QED
  BY <1>2, <1>3, <1>4, AnswerLocal

(* A mutation is about an entity that exists.                              *)
LEMMA MutatedExists ==
  ASSUME TypeOK, Answering, SeededPresent, NEW r \in Requests,
         Verb[r] # "create"
  PROVE  /\ Entity(r) \in Ids /\ Entity(r) \in Seeded
         /\ Entity(r)[1] = Kind[r] /\ Kind[r] \in Kinds
         /\ state[Entity(r)] # Absent /\ state[Entity(r)].rev > 0
         /\ Kind[r] # "milestone" =>
              /\ Reached(Entity(r), state[Entity(r)].status, events)
              /\ state[Entity(r)].status \in Held(Kind[r])
<1>1. Entity(r) \in Ids /\ Entity(r) \in Seeded /\ Entity(r)[1] = Kind[r]
  BY RequestAssumption, EntityType DEF Entity
<1>2. state[Entity(r)].rev >= 1
  BY <1>1 DEF SeededPresent
<1>3. state[Entity(r)] # Absent
  BY <1>2 DEF Absent
<1>4. StatusOf(Entity(r))
  BY <1>1 DEF Answering, StatusesReached
<1>. QED
  BY <1>1, <1>2, <1>3, <1>4, EntityType DEF StatusOf, TypeOK, Payloads

LEMMA AnswerHandle ==
  ASSUME TypeOK, Answering, SeededPresent, NEW r \in Requests, Handle(r)
  PROVE  Answering'
<1> DEFINE p == state[Entity(r)]
<1>1. req[r] \in Local /\ req[r].pc = "read" /\ req[r].out = "none"
  BY RequestFacts DEF TypeOK, Handle, At
<1>2. Verb[r] # "create"
  BY <1>1, RequestFacts DEF MutationOf
<1>3. ShapedDecision(r) /\ UNCHANGED store
  BY <1>2, MutatedExists, HandlerShape
<1>4. CASE \E out \in {"refused", "unchanged"} : Finish(r, out)
  BY <1>1, <1>3, <1>4, AnswerFinish
<1>5. ASSUME NEW path \in {"revision", "event"}, NEW next \in Payloads,
             NEW op \in OpIds, Submit(r, path, p, next, op),
             Shape(r, path, p, next, op)
      PROVE  Answering'
  <2> DEFINE pc == IF path = "revision" THEN "check" ELSE "reuse"
             l == [req[r] EXCEPT !.pc = pc, !.path = path, !.exp = p.rev,
                                 !.read = p, !.next = next, !.op = op]
  <2>1. /\ l.pc \in {"check", "reuse"} /\ l.path = path /\ l.read = p
        /\ l.next = next /\ l.op = op /\ l.out = "none"
    BY <1>1 DEF Local
  <2>2. LocalTo(r, l)
    BY <1>1, <1>3, <1>5 DEF Submit, LocalTo
  <2>. HIDE DEF l
  <2>3. p.rev \in Nat
    BY <1>2, MutatedExists DEF TypeOK, Payloads
  <2>4. Sent(r, l, state, events)
    BY <1>2, <1>5, <2>1, <2>3, MutatedExists DEF Sent
  <2>5. /\ MutationOf(r, l, state, history, events)
        /\ CreateOf(r, l, seq, outbox)
    BY <2>1, <2>4, <1>2 DEF MutationOf, CreateOf
  <2>. QED
    BY <2>1, <2>2, <2>5, AnswerLocal
<1>. QED
  BY <1>3, <1>4, <1>5 DEF ShapedDecision

(* From one query of a commit function to the next.                        *)
LEMMA AnswerGoto ==
  ASSUME TypeOK, Answering, NEW r \in Requests, UNCHANGED store,
         req[r].pc \in Flying, NEW pc \in Flying, Goto(r, pc)
  PROVE  Answering'
<1> DEFINE l == [req[r] EXCEPT !.pc = pc]
<1>1. req[r] \in Local /\ req[r].out = "none"
  BY RequestFacts DEF TypeOK, Flying
<1>2. /\ l.pc = pc /\ l.path = req[r].path /\ l.read = req[r].read
      /\ l.next = req[r].next /\ l.op = req[r].op /\ l.out = "none"
  BY <1>1 DEF Local
<1>3. LocalTo(r, l)
  BY DEF Goto, LocalTo, Flying
<1>. HIDE DEF l
<1>4. Sent(r, l, state, events)
  BY <1>2, RequestFacts DEF MutationOf, Sent
<1>5. /\ MutationOf(r, l, state, history, events)
      /\ CreateOf(r, l, seq, outbox)
  BY <1>2, <1>4 DEF MutationOf, CreateOf, Flying
<1>. QED
  BY <1>2, <1>3, <1>5, AnswerLocal

(* What a request finds committed under its identity is what it asked for. *)
LEMMA ReusedIsTold ==
  ASSUME TypeOK, Answering, NEW r \in Requests,
         req[r].pc \in Flying, HasOp(req[r].op), NEW l,
         l.out = "reused", l.path = req[r].path, l.read = req[r].read,
         l.next = req[r].next
  PROVE  Told(r, l, history, events)
<1> DEFINE e == Entity(r)
           op == req[r].op
<1>1. Shape(r, l.path, l.read, l.next, op)
  BY RequestFacts DEF MutationOf, Sent
<1>2. PICK o \in outbox : o.op = op
  BY DEF HasOp
<1>3. e \in Ids /\ e[1] = Kind[r] /\ op.id = e /\ op.verb = Verb[r]
      /\ Verb[r] # "create" /\ Kind[r] \in Kinds
  BY <1>1, EntityType DEF Entity, Shape
<1>4. Effect(op, history, events)
  BY <1>2, <1>3 DEF Answering, OutboxIsTrue, RowIsTrue
<1>5. CASE Kind[r] \in {"rule", "adr"}
  <2>1. DefaultCreateStatus[Kind[r]] = "proposed"
    BY <1>5 DEF DefaultCreateStatus
  <2>2. Edit[r] # NoEdit => HasEdit(e, Edit[r], history)
    BY <1>1, <1>3, <1>4, <1>5 DEF Shape, Effect
  <2>3. l.path = "event" =>
          Reached(e, l.next.status, events) /\ l.next.status # "proposed"
    BY <1>1, <1>3, <1>4, <1>5 DEF Shape, Effect
  <2>. QED
    BY <1>3, <2>1, <2>2, <2>3 DEF Told, HasEdit, Reached
<1>6. CASE Kind[r] = "task"
  <2>1. DefaultCreateStatus[Kind[r]] = "planned"
    BY <1>6 DEF DefaultCreateStatus
  <2>2. Verb[r] # "update" \/ op.by # r
    BY <1>2, <1>3, <1>6 DEF Answering, Spent, Flying
  <2>3. /\ l.path = "event" /\ l.next.rev = l.read.rev
        /\ \/ Verb[r] = "complete" /\ l.next.status = "done"
           \/ Verb[r] = "archive" /\ l.next.status = "archived"
    BY <1>1, <1>6, <2>2 DEF Shape
  <2>4. Reached(e, l.next.status, events)
    BY <1>3, <1>4, <1>6, <2>3 DEF Effect
  <2>. QED
    BY <1>3, <2>1, <2>3, <2>4 DEF Told, Reached
<1>7. CASE Kind[r] = "milestone"
  <2>1. MadeBy(e, l.next.rev, Verb[r], history) /\ l.path = "revision"
    BY <1>1, <1>3, <1>4, <1>7 DEF Shape, Effect
  <2>. QED
    BY <1>7, <2>1 DEF Told, MadeBy
<1>. QED
  BY <1>3, <1>5, <1>6, <1>7 DEF Kinds

LEMMA AnswerReused ==
  ASSUME TypeOK, Answering, NEW r \in Requests, UNCHANGED store,
         req[r].pc \in Flying, HasOp(req[r].op), Finish(r, "reused")
  PROVE  Answering'
<1> DEFINE l == [req[r] EXCEPT !.pc = "done", !.out = "reused"]
<1>1. req[r] \in Local
  BY DEF TypeOK
<1>2. /\ l.pc = "done" /\ l.out = "reused" /\ l.path = req[r].path
      /\ l.read = req[r].read /\ l.next = req[r].next
  BY <1>1 DEF Local
<1>3. LocalTo(r, l)
  BY DEF Finish, LocalTo, Flying
<1>. HIDE DEF l
<1>4. Told(r, l, history, events)
  BY <1>2, ReusedIsTold
<1>5. Verb[r] # "create"
  BY RequestFacts DEF MutationOf, Sent, Shape
<1>6. /\ MutationOf(r, l, state, history, events)
      /\ CreateOf(r, l, seq, outbox)
  BY <1>2, <1>4, <1>5 DEF MutationOf, CreateOf, Flying
<1>. QED
  BY <1>2, <1>3, <1>6, AnswerLocal

LEMMA AnswerCommitQueries ==
  ASSUME TypeOK, Answering, NEW r \in Requests,
         CheckStatus(r) \/ CheckReuse(r) \/ BatchFails(r) \/ Recheck(r)
  PROVE  Answering'
<1>1. req[r].pc \in Flying /\ UNCHANGED store /\ req[r].pc # "done"
  BY DEF CheckStatus, CheckReuse, BatchFails, Recheck, At, Flying
<1>2. \/ \E pc \in Flying : Goto(r, pc)
      \/ Finish(r, "refused")
      \/ HasOp(req[r].op) /\ Finish(r, "reused")
  BY DEF CheckStatus, CheckReuse, BatchFails, Recheck, Flying
<1>. QED
  BY <1>1, <1>2, AnswerGoto, AnswerFinish, AnswerReused

----------------------------------------------------------------------------
(* The queries of a create.                                                *)

LEMMA CreateFacts ==
  ASSUME TypeOK, Answering, NEW r \in Requests
  PROVE  /\ req[r] \in Local /\ Kind[r] \in Kinds /\ First(Kind[r]) \in Nat
         /\ seq[Kind[r]] \in Nat /\ req[r].tries \in Nat
         /\ req[r].number \in Nat /\ CreateAttempts \in Nat
<1>1. req[r] \in Local /\ Kind[r] \in Kinds
  BY EntityType DEF TypeOK
<1>2. req[r].tries \in Nat /\ req[r].number \in Nat
  BY <1>1, BoundAssumption DEF Local
<1>. QED
  BY <1>1, <1>2, FirstType, BoundAssumption DEF TypeOK

LEMMA AnswerCreateReuse ==
  ASSUME TypeOK, Answering, NEW r \in Requests, CreateReuse(r)
  PROVE  Answering'
<1>1. /\ req[r] \in Local /\ req[r].pc = "idle" /\ req[r].out = "none"
      /\ Verb[r] = "create" /\ UNCHANGED store
      /\ CreateOf(r, req[r], seq, outbox)
  BY RequestFacts DEF TypeOK, CreateReuse, At
<1>2. CASE HasOp(CreateOp(r))
  <2>1. PICK o \in outbox :
          /\ o.op = CreateOp(r)
          /\ req' = [req EXCEPT ![r].pc = "done", ![r].out = "reused",
                                ![r].op = CreateOp(r), ![r].number = o.id[2]]
    BY <1>2 DEF CreateReuse
  <2> DEFINE l == [req[r] EXCEPT !.pc = "done", !.out = "reused",
                                 !.op = CreateOp(r), !.number = o.id[2]]
  <2>2. l.pc = "done" /\ l.out = "reused" /\ l.number = o.id[2]
    BY <1>1 DEF Local
  <2>3. LocalTo(r, l)
    BY <1>1, <2>1 DEF LocalTo
  <2>. HIDE DEF l
  <2>4. MutationOf(r, l, state, history, events)
    BY <1>1, <2>2 DEF MutationOf, Flying
  <2>5. CreateOf(r, l, seq, outbox)
    BY <2>1, <2>2 DEF CreateOf
  <2>. QED
    BY <2>2, <2>3, <2>4, <2>5, AnswerLocal
<1>3. CASE ~HasOp(CreateOp(r))
  <2> DEFINE l == [req[r] EXCEPT !.pc = "number", !.path = "create",
                                 !.op = CreateOp(r)]
  <2>1. req' = [req EXCEPT ![r].pc = "number", ![r].path = "create",
                           ![r].op = CreateOp(r)]
    BY <1>3 DEF CreateReuse, HasOp
  <2>2. /\ l.pc = "number" /\ l.out = "none" /\ l.op = CreateOp(r)
        /\ l.tries = req[r].tries
    BY <1>1 DEF Local
  <2>3. LocalTo(r, l)
    BY <1>1, <2>1 DEF LocalTo
  <2>. HIDE DEF l
  <2>4. MutationOf(r, l, state, history, events)
    BY <1>1, <2>2 DEF MutationOf, Flying
  <2>5. CreateOf(r, l, seq, outbox)
    BY <1>1, <2>2 DEF CreateOf
  <2>. QED
    BY <2>2, <2>3, <2>4, <2>5, AnswerLocal
<1>. QED
  BY <1>2, <1>3

LEMMA AnswerCreateNumber ==
  ASSUME TypeOK, Answering, NEW r \in Requests, CreateNumber(r)
  PROVE  Answering'
<1> DEFINE n == seq[Kind[r]]
           l == [req[r] EXCEPT !.pc = "create", !.number = n,
                               !.next = Created(r)]
<1>1. /\ req[r] \in Local /\ req[r].pc = "number" /\ req[r].out = "none"
      /\ UNCHANGED store
      /\ CreateOf(r, req[r], seq, outbox) /\ Verb[r] = "create"
  BY RequestFacts DEF TypeOK, CreateNumber, At, MutationOf
<1>2. /\ l.pc = "create" /\ l.out = "none" /\ l.op = req[r].op
      /\ l.tries = req[r].tries /\ l.number = n /\ l.next = Created(r)
  BY <1>1 DEF Local
<1>3. LocalTo(r, l)
  BY <1>1 DEF LocalTo, CreateNumber
<1>. HIDE DEF l
<1>4. l.next.status = DefaultCreateStatus[Kind[r]]
  BY <1>2 DEF Created, Written
<1>5. n \in Nat /\ n <= n
  BY CreateFacts
<1>6. MutationOf(r, l, state, history, events)
  BY <1>1, <1>2 DEF MutationOf, Flying
<1>7. CreateOf(r, l, seq, outbox)
  BY <1>1, <1>2, <1>4, <1>5 DEF CreateOf
<1>. QED
  BY <1>2, <1>3, <1>6, <1>7, AnswerLocal

(* A create loses its batch to a create that took its number or its        *)
(* identity.                                                               *)
LEMMA AnswerCreateFails ==
  ASSUME TypeOK, Answering, HistoryComplete,
         NEW r \in Requests, PendingOf(r), CreateFails(r)
  PROVE  Answering'
<1> DEFINE e == NewEntity(r)
           k == Kind[r]
           l == [req[r] EXCEPT !.pc = "recreate"]
<1>1. /\ req[r] \in Local /\ req[r].pc = "create" /\ req[r].out = "none"
      /\ UNCHANGED store
      /\ CreateOf(r, req[r], seq, outbox) /\ Verb[r] = "create"
  BY RequestFacts DEF TypeOK, CreateFails, At, MutationOf
<1>2. /\ l.pc = "recreate" /\ l.out = "none" /\ l.op = req[r].op
      /\ l.tries = req[r].tries
  BY <1>1 DEF Local
<1>3. LocalTo(r, l)
  BY <1>1 DEF LocalTo, CreateFails, Goto
<1>. HIDE DEF l
<1>4. /\ e \in Ids /\ e[1] = k /\ e[2] = req[r].number
  BY <1>1 DEF PendingOf, NewEntity
<1>5. ASSUME seq[k] = req[r].number
      PROVE  state[e] = Absent /\ ~HasRow(e, 1)
  <2>1. state[e] = Absent
    BY <1>4, <1>5, CreateFacts DEF Answering, Numbered
  <2>2. ~HasRow(e, 1)
    BY <2>1 DEF HasRow, HistoryComplete, Absent
  <2>. QED
    BY <2>1, <2>2
<1>6. seq[k] # req[r].number \/ HasOp(req[r].op)
  BY <1>5 DEF CreateFails, CreateApplies
<1>7. req[r].number >= First(k) + req[r].tries /\ req[r].number <= seq[k]
  BY <1>1 DEF CreateOf
<1>8. seq[k] # req[r].number => seq[k] > First(k) + req[r].tries
  BY <1>7, CreateFacts
<1>9. MutationOf(r, l, state, history, events)
  BY <1>1, <1>2 DEF MutationOf, Flying
<1>10. CreateOf(r, l, seq, outbox)
  BY <1>1, <1>2, <1>6, <1>8 DEF CreateOf, HasOp
<1>. QED
  BY <1>2, <1>3, <1>9, <1>10, AnswerLocal

LEMMA AnswerCreateRecheck ==
  ASSUME TypeOK, Answering, NEW r \in Requests, CreateRecheck(r)
  PROVE  Answering'
<1> DEFINE k == Kind[r]
<1>1. /\ req[r] \in Local /\ req[r].pc = "recreate" /\ req[r].out = "none"
      /\ UNCHANGED store
      /\ CreateOf(r, req[r], seq, outbox) /\ Verb[r] = "create"
  BY RequestFacts DEF TypeOK, CreateRecheck, At, MutationOf
<1>2. req[r].op = CreateOp(r)
  BY <1>1 DEF CreateOf
<1>3. CASE HasOp(req[r].op)
  <2>1. PICK o \in outbox :
          /\ o.op = req[r].op
          /\ req' = [req EXCEPT ![r].pc = "done", ![r].out = "reused",
                                ![r].number = o.id[2]]
    BY <1>3 DEF CreateRecheck
  <2> DEFINE l == [req[r] EXCEPT !.pc = "done", !.out = "reused",
                                 !.number = o.id[2]]
  <2>2. l.pc = "done" /\ l.out = "reused" /\ l.number = o.id[2]
    BY <1>1 DEF Local
  <2>3. LocalTo(r, l)
    BY <1>1, <2>1 DEF LocalTo
  <2>. HIDE DEF l
  <2>4. MutationOf(r, l, state, history, events)
    BY <1>1, <2>2 DEF MutationOf, Flying
  <2>5. CreateOf(r, l, seq, outbox)
    BY <1>2, <2>1, <2>2 DEF CreateOf
  <2>. QED
    BY <2>2, <2>3, <2>4, <2>5, AnswerLocal
<1>4. CASE ~HasOp(req[r].op)
  <2> DEFINE last == req[r].tries + 1 = CreateAttempts
             l == [req[r] EXCEPT !.pc = IF last THEN "done" ELSE "idle",
                                 !.out = IF last THEN "exhausted" ELSE "none",
                                 !.tries = @ + 1]
  <2>1. req' = [req EXCEPT ![r] = l]
    BY <1>4 DEF CreateRecheck, HasOp
  <2>2. /\ l.pc = (IF last THEN "done" ELSE "idle")
        /\ l.out = (IF last THEN "exhausted" ELSE "none")
        /\ l.tries = req[r].tries + 1
    BY <1>1 DEF Local
  <2>3. LocalTo(r, l)
    BY <1>1, <2>1 DEF LocalTo
  <2>. HIDE DEF l
  <2>4. seq[k] > First(k) + req[r].tries
    BY <1>1, <1>4 DEF CreateOf, HasOp
  <2>5. /\ seq[k] >= First(k) + l.tries
        /\ last => seq[k] >= First(k) + CreateAttempts
    BY <2>2, <2>4, CreateFacts
  <2>6. MutationOf(r, l, state, history, events)
    BY <1>1, <2>2 DEF MutationOf, Flying
  <2>7. CreateOf(r, l, seq, outbox)
    BY <2>2, <2>5 DEF CreateOf
  <2>. QED
    BY <2>2, <2>3, <2>6, <2>7, AnswerLocal
<1>. QED
  BY <1>3, <1>4

----------------------------------------------------------------------------
(* The committing batch of a revision or an event.                         *)

Appended(r) ==
  [op |-> req[r].op, rev |-> req[r].next.rev, from |-> req[r].read.status,
   to |-> req[r].next.status]

(* The request and its entity when the batch of r applies.                 *)
CommitsFrom(r) ==
  LET e == Entity(r)
      l == req[r]
  IN /\ l \in Local /\ l.pc = "batch" /\ l.out = "none"
     /\ e \in Ids /\ e \in Seeded /\ e[1] = Kind[r]
     /\ Kind[r] \in Kinds /\ Verb[r] # "create" /\ Edit[r] \in Edits
     /\ l.path \in {"revision", "event"}
     /\ l.read.rev = state[e].rev /\ l.exp = l.read.rev
     /\ state[e].rev \in Nat /\ l.next.rev \in Nat /\ state[e].rev > 0
     /\ l.read.content \in [Fields -> Values]
     /\ l.path = "event" => state[e] = l.read
     /\ l.path = "revision" => l.next.rev = l.read.rev + 1
     /\ Computed(r, l.path, l.read, l.next)
     /\ HasContent(e, l.read.rev, l.read.content)
     /\ Sent(r, l, state, events)
     /\ Shape(r, l.path, l.read, l.next, l.op)
     /\ ~HasOp(l.op)

LEMMA CommitFacts ==
  ASSUME TypeOK, Answering, SeededPresent, NEW r \in Requests,
         PendingOf(r), CommitBatch(r)
  PROVE  CommitsFrom(r)
<1> DEFINE e == Entity(r)
           l == req[r]
<1>1. l \in Local /\ l.pc = "batch" /\ l.out = "none"
  BY RequestFacts DEF TypeOK, CommitBatch, At
<1>2. Sent(r, l, state, events) /\ Shape(r, l.path, l.read, l.next, l.op)
  BY <1>1, RequestFacts DEF MutationOf, Flying, Sent
<1>3. Verb[r] # "create"
  BY <1>2 DEF Shape
<1>4. /\ l.path \in {"revision", "event"} /\ l.read.rev = l.exp
      /\ Computed(r, l.path, l.read, l.next)
      /\ HasContent(e, l.read.rev, l.read.content)
  BY <1>1 DEF PendingOf
<1>5. StateCAS(r) /\ ~HasOp(l.op)
  BY DEF CommitBatch, BatchApplies
<1>6. state[e].rev = l.exp /\ (l.path = "event" => state[e] = l.read)
  BY <1>4, <1>5 DEF StateCAS
<1>7. l.read \in Payloads /\ l.next \in Payloads
  BY <1>1 DEF Local
<1>8. l.next.rev \in Nat /\ l.read.content \in [Fields -> Values]
  BY <1>7 DEF Payloads
<1>9. Edit[r] \in Edits
  BY RequestAssumption
<1>10. /\ e \in Ids /\ e \in Seeded /\ e[1] = Kind[r] /\ Kind[r] \in Kinds
       /\ state[e].rev > 0 /\ state[e].rev \in Nat
  BY <1>3, MutatedExists DEF TypeOK, Payloads
<1>11. l.path = "revision" => l.next.rev = l.read.rev + 1
  BY <1>4 DEF Computed
<1>. QED
  BY <1>1, <1>2, <1>3, <1>4, <1>5, <1>6, <1>8, <1>9, <1>10, <1>11
     DEF CommitsFrom

(* What the batch of r writes.                                             *)
CommitsTo(r) ==
  LET e == Entity(r)
      next == req[r].next
  IN /\ seq' = seq
     /\ state' = [state EXCEPT ![e] = next]
     /\ state'[e] = next
     /\ \A d \in Ids \ {e} : /\ state'[d] = state[d]
                             /\ events'[d] = events[d]
     /\ history \subseteq history' /\ outbox \subseteq outbox'
     /\ next.rev # req[r].read.rev => Row(e, next) \in history'
     /\ \A h \in history' : h \in history \/ h = Row(e, next)
     /\ outbox' = outbox \cup {Entry(req[r].op, e, next)}
     /\ req[r].path = "revision" => events'[e] = events[e]
     /\ req[r].path = "event" =>
          events'[e] = Append(events[e], Appended(r))
     /\ req' = [req EXCEPT ![r].pc = "done", ![r].out = "committed"]

LEMMA CommitWrites ==
  ASSUME TypeOK, Answering, SeededPresent, NEW r \in Requests,
         PendingOf(r), CommitBatch(r)
  PROVE  CommitsTo(r)
<1>1. CommitsFrom(r)
  BY CommitFacts
<1>2. events' = IF req[r].path = "revision" THEN events
                ELSE [events EXCEPT ![Entity(r)] = Append(@, Appended(r))]
  BY DEF CommitBatch, Appended
<1>3. /\ req[r].path = "revision" => events'[Entity(r)] = events[Entity(r)]
      /\ req[r].path = "event" =>
           events'[Entity(r)] = Append(events[Entity(r)], Appended(r))
      /\ \A d \in Ids \ {Entity(r)} : events'[d] = events[d]
  BY <1>1, <1>2 DEF TypeOK, CommitsFrom
<1>4. history' = IF req[r].next.rev = req[r].exp THEN history
                 ELSE history \cup {Row(Entity(r), req[r].next)}
  BY DEF CommitBatch
<1>5. /\ seq' = seq /\ state' = [state EXCEPT ![Entity(r)] = req[r].next]
      /\ outbox' = outbox \cup {Entry(req[r].op, Entity(r), req[r].next)}
      /\ req' = [req EXCEPT ![r].pc = "done", ![r].out = "committed"]
  BY DEF CommitBatch, Finish
<1>6. /\ state'[Entity(r)] = req[r].next
      /\ \A d \in Ids \ {Entity(r)} : state'[d] = state[d]
  BY <1>1, <1>5 DEF TypeOK, CommitsFrom
<1>7. /\ history \subseteq history'
      /\ req[r].next.rev # req[r].read.rev =>
           Row(Entity(r), req[r].next) \in history'
      /\ \A h \in history' : h \in history \/ h = Row(Entity(r), req[r].next)
  BY <1>1, <1>4 DEF CommitsFrom
<1>. QED
  BY <1>3, <1>5, <1>6, <1>7 DEF CommitsTo

LEMMA CommitGrows ==
  ASSUME TypeOK, TypeOK', Answering, SeededPresent, NEW r \in Requests,
         PendingOf(r), CommitBatch(r)
  PROVE  Grown
<1> DEFINE e == Entity(r)
           next == req[r].next
<1>1. CommitsFrom(r)
  BY CommitFacts
<1>2. CommitsTo(r)
  BY CommitWrites
<1>3. EntityGrown(e)
  <2>1. state[e].rev <= state'[e].rev
    BY <1>1, <1>2 DEF Computed, CommitsFrom, CommitsTo
  <2>2. events[e] \in Seq(Events)
    BY <1>1 DEF TypeOK, CommitsFrom
  <2>3. CASE req[r].path = "revision"
    <3>1. state'[e].rev # state[e].rev
      BY <1>1, <1>2, <2>3 DEF CommitsFrom, CommitsTo
    <3>. QED
      BY <1>2, <2>1, <2>3, <3>1 DEF EntityGrown, CommitsTo
  <2>4. CASE req[r].path = "event"
    <3>1. events'[e] = Append(events[e], Appended(r))
      BY <1>2, <2>4 DEF CommitsTo
    <3>2. /\ Len(events'[e]) = Len(events[e]) + 1 /\ Len(events[e]) \in Nat
          /\ events'[e][Len(events[e]) + 1] = Appended(r)
          /\ \A i \in DOMAIN events[e] :
               i \in DOMAIN events'[e] /\ events'[e][i] = events[e][i]
      BY <2>2, <3>1
    <3>3. Appended(r).rev = state'[e].rev
      BY <1>2 DEF Appended, CommitsTo
    <3>. QED
      BY <2>1, <3>2, <3>3 DEF EntityGrown
  <2>. QED
    BY <1>1, <2>3, <2>4 DEF CommitsFrom
<1>4. \A d \in Ids \ {e} : EntityGrown(d)
  BY <1>2 DEF EntityGrown, TypeOK, Payloads, CommitsTo
<1>5. \A k \in Kinds : seq[k] <= seq'[k]
  BY <1>2 DEF TypeOK, CommitsTo
<1>. QED
  BY <1>2, <1>3, <1>4, <1>5 DEF Grown, CommitsTo

(* The status of the entity is one it was given.                           *)
LEMMA CommitReached ==
  ASSUME TypeOK, TypeOK', Answering, SeededPresent, NEW r \in Requests,
         PendingOf(r), CommitBatch(r)
  PROVE  /\ Kind[r] # "milestone" =>
              Reached(Entity(r), req[r].next.status, events')
         /\ req[r].path = "event" =>
              \E i \in DOMAIN events'[Entity(r)] :
                events'[Entity(r)][i].to = req[r].next.status
<1> DEFINE e == Entity(r)
           next == req[r].next
<1>1. CommitsFrom(r)
  BY CommitFacts
<1>2. CommitsTo(r)
  BY CommitWrites
<1>3. req[r].path = "event" =>
        \E i \in DOMAIN events'[e] : events'[e][i].to = next.status
  <2> SUFFICES ASSUME req[r].path = "event"
               PROVE  \E i \in DOMAIN events'[e] : events'[e][i].to = next.status
    OBVIOUS
  <2>1. events[e] \in Seq(Events) /\ events'[e] = Append(events[e], Appended(r))
    BY <1>1, <1>2 DEF TypeOK, CommitsFrom, CommitsTo
  <2>2. /\ Len(events[e]) + 1 \in DOMAIN events'[e]
        /\ events'[e][Len(events[e]) + 1] = Appended(r)
    BY <2>1
  <2>. QED
    BY <2>2 DEF Appended
<1>4. Kind[r] # "milestone" /\ req[r].path = "revision" =>
        Reached(e, next.status, events')
  <2>1. Kind[r] \in {"rule", "adr"} /\ req[r].path = "revision" =>
          next.status = req[r].read.status
    BY <1>1 DEF Shape, CommitsFrom
  <2>2. Kind[r] = "task" /\ req[r].path = "revision" =>
          next.status = DefaultCreateStatus[e[1]]
    BY <1>1 DEF Shape, DefaultCreateStatus, CommitsFrom
  <2>3. Kind[r] # "milestone" => Reached(e, req[r].read.status, events')
    BY <1>1, CommitGrows, ReachedStays DEF Sent, CommitsFrom
  <2>. QED
    BY <1>1, <2>1, <2>2, <2>3 DEF Reached, Kinds, CommitsFrom
<1>5. req[r].path = "event" => Reached(e, next.status, events')
  BY <1>3 DEF Reached
<1>. QED
  BY <1>1, <1>3, <1>4, <1>5 DEF CommitsFrom

(* The new row of the outbox tells the truth.                              *)
LEMMA CommitEffect ==
  ASSUME TypeOK, TypeOK', Answering, SeededPresent, NEW r \in Requests,
         PendingOf(r), CommitBatch(r)
  PROVE  Effect(req[r].op, history', events')
<1> DEFINE e == Entity(r)
           next == req[r].next
           read == req[r].read
           op == req[r].op
<1>1. CommitsFrom(r)
  BY CommitFacts
<1>2. CommitsTo(r)
  BY CommitWrites
<1>3. op.id = e /\ op.verb = Verb[r] /\ e \in Ids /\ e[1] = Kind[r]
  BY <1>1 DEF Shape, CommitsFrom
<1>4. ASSUME Kind[r] \in {"rule", "adr"}, Edit[r] # NoEdit
      PROVE  HasEdit(e, Edit[r], history')
  <2>1. CASE next.rev = read.rev
    <3>1. read.content[Edit[r].field] = Edit[r].value
      BY <1>1, <1>4, <2>1 DEF Shape, CommitsFrom
    <3>2. PICK h \in history : h.id = e /\ h.payload.content = read.content
      BY <1>1 DEF HasContent, CommitsFrom
    <3>. QED
      BY <1>2, <3>1, <3>2 DEF HasEdit, CommitsTo
  <2>2. CASE next.rev # read.rev
    <3>1. next.content = Edited(read.content, Edit[r])
      BY <1>1, <2>2 DEF Computed, CommitsFrom
    <3>2. next.content[Edit[r].field] = Edit[r].value
      BY <1>1, <1>4, <3>1, EditIsMade DEF CommitsFrom
    <3>3. Row(e, next) \in history'
      BY <1>2, <2>2 DEF CommitsTo
    <3>. QED
      BY <3>2, <3>3 DEF HasEdit, Row
  <2>. QED
    BY <2>1, <2>2
<1>5. Kind[r] # "milestone" => Reached(e, next.status, events')
  BY CommitReached
<1>6. Kind[r] \in {"rule", "adr"} =>
        /\ op.edit = Edit[r] /\ op.to = To[r]
        /\ Verb[r] \in {"update", "archive"}
        /\ Verb[r] = "update" /\ To[r] # "keep" => next.status = To[r]
        /\ Verb[r] = "archive" => next.status = "archived"
  BY <1>1 DEF Shape, CommitsFrom
<1>7. Kind[r] = "task" =>
        \/ Verb[r] = "update"
        \/ Verb[r] = "complete" /\ next.status = "done"
        \/ Verb[r] = "archive" /\ next.status = "archived"
  BY <1>1 DEF Shape, CommitsFrom
<1>8. Kind[r] = "milestone" => MadeBy(e, op.rev, Verb[r], history')
  <2> SUFFICES ASSUME Kind[r] = "milestone"
               PROVE  MadeBy(e, op.rev, Verb[r], history')
    OBVIOUS
  <2>1. req[r].path = "revision" /\ op.rev = next.rev
    BY <1>1 DEF Shape, CommitsFrom
  <2>2. Row(e, next) \in history' /\ next.by = r
    BY <1>1, <1>2, <2>1 DEF Computed, CommitsFrom, CommitsTo
  <2>. QED
    BY <2>1, <2>2 DEF MadeBy, Row
<1>. QED
  BY <1>1, <1>3, <1>4, <1>5, <1>6, <1>7, <1>8 DEF Effect, Kinds, CommitsFrom

LEMMA AnswerCommit ==
  ASSUME TypeOK, TypeOK', Answering, SeededPresent, NEW r \in Requests,
         PendingOf(r), CommitBatch(r)
  PROVE  Answering'
<1> DEFINE e == Entity(r)
           next == req[r].next
           read == req[r].read
           op == req[r].op
           o == Entry(op, e, next)
<1>1. CommitsFrom(r)
  BY CommitFacts
<1>2. CommitsTo(r)
  BY CommitWrites
<1>3. Grown
  BY CommitGrows
<1>4. o.op = op /\ o.id = e /\ op.id = e /\ op.verb = Verb[r]
  BY <1>1 DEF Entry, Shape, CommitsFrom
<1>. HIDE DEF o
<1>5. OutboxIsTrue'
  <2>1. Keyed(outbox')
    <3>1. \A p \in outbox : p.op # o.op /\ ~(o.op.verb = "create")
      BY <1>1, <1>4 DEF HasOp, CommitsFrom
    <3>2. Keyed(outbox) /\ outbox' = outbox \cup {o}
      BY <1>2 DEF Answering, OutboxIsTrue, o, CommitsTo
    <3>. QED
      BY <3>1, <3>2 DEF Keyed
  <2>2. \A p \in outbox : RowIsTrue(p, seq', history', events')
    BY <1>3, RowStays DEF Answering, OutboxIsTrue
  <2>3. RowIsTrue(o, seq', history', events')
    BY <1>1, <1>4, CommitEffect DEF RowIsTrue, CommitsFrom
  <2>4. \A p \in outbox' : RowIsTrue(p, seq', history', events')
    BY <1>2, <2>2, <2>3 DEF o, CommitsTo
  <2>. QED
    BY <2>1, <2>4 DEF OutboxIsTrue
<1>6. Numbered'
  <2>1. /\ next.rev > 0 /\ next.rev # 0
        /\ state[e] # Absent /\ next # Absent
    BY <1>1 DEF Computed, Absent, CommitsFrom
  <2>. QED
    BY <1>1, <1>2, <2>1 DEF Answering, Numbered, CommitsFrom, CommitsTo
<1>7. StatusesReached'
  <2>1. ASSUME NEW d \in Ids, d # e
        PROVE  StatusOf(d)'
    BY <1>2, <2>1 DEF Answering, StatusesReached, StatusOf, Reached,
       CommitsTo
  <2>2. StatusOf(e)'
    <3>1. Kind[r] # "milestone" =>
            /\ Reached(e, state'[e].status, events')
            /\ state'[e].status \in Held(e[1])
      BY <1>1, <1>2, CommitReached DEF Shape, CommitsFrom, CommitsTo
    <3>2. events'[e] # <<>> => e \in Seeded /\ e[1] # "milestone"
      <4>1. CASE req[r].path = "revision"
        BY <1>1, <1>2, <4>1 DEF Answering, StatusesReached, StatusOf,
           CommitsFrom, CommitsTo
      <4>2. CASE req[r].path = "event"
        BY <1>1, <4>2 DEF Shape, CommitsFrom
      <4>. QED
        BY <1>1, <4>1, <4>2 DEF CommitsFrom
    <3>. QED
      BY <1>1, <3>1, <3>2 DEF StatusOf, CommitsFrom
  <2>. QED
    BY <2>1, <2>2 DEF StatusesReached
<1> DEFINE l == [req[r] EXCEPT !.pc = "done", !.out = "committed"]
<1>8. /\ req' = [req EXCEPT ![r] = l] /\ l.pc = "done" /\ l.out = "committed"
      /\ l.path = req[r].path /\ l.read = read /\ l.next = next
  BY <1>1, <1>2 DEF Local, CommitsFrom, CommitsTo
<1>. HIDE DEF l
<1>9. req'[r] = l /\ \A s \in Requests \ {r} : req'[s] = req[s]
  BY <1>8 DEF TypeOK
<1>10. Requested'
  <2>1. ASSUME NEW s \in Requests, s # r
        PROVE  /\ MutationOf(s, req[s], state', history', events')
               /\ CreateOf(s, req[s], seq', outbox')
               /\ req[s].out # "none" => req[s].pc = "done"
    BY <1>3, MutationStays, CreateStays, RequestFacts DEF TypeOK
  <2>2. Told(r, l, history', events')
    <3>1. ASSUME next.rev # read.rev, Edit[r] # NoEdit
          PROVE  \E h \in history' :
                   /\ h.id = e /\ h.rev > read.rev
                   /\ h.payload.content[Edit[r].field] = Edit[r].value
      <4>1. next.content = Edited(read.content, Edit[r]) /\ next.rev > read.rev
        BY <1>1, <3>1 DEF Computed, CommitsFrom
      <4>2. next.content[Edit[r].field] = Edit[r].value
        BY <1>1, <3>1, <4>1, EditIsMade DEF CommitsFrom
      <4>. QED
        BY <1>2, <3>1, <4>1, <4>2 DEF Row, CommitsTo
    <3>. QED
      BY <1>8, <3>1, CommitReached DEF Told
  <2>3. /\ MutationOf(r, l, state', history', events')
        /\ CreateOf(r, l, seq', outbox')
    BY <1>1, <1>8, <2>2 DEF MutationOf, CreateOf, Flying, CommitsFrom
  <2>. QED
    BY <1>8, <1>9, <2>1, <2>3 DEF Requested
<1>11. Spent'
  <2>1. Kind[r] = "task" /\ Verb[r] = "update" => op.by = r
    BY <1>1 DEF Shape, CommitsFrom
  <2>2. o.op.verb = "update" /\ o.op.id[1] = "task" =>
          o.op.by \in Requests /\ req'[o.op.by].pc = "done"
    BY <1>1, <1>4, <1>8, <1>9, <2>1 DEF CommitsFrom
  <2>3. \A p \in outbox : p.op.verb = "update" /\ p.op.id[1] = "task" =>
          p.op.by \in Requests /\ req'[p.op.by].pc = "done"
    BY <1>8, <1>9 DEF Answering, Spent
  <2>. QED
    BY <1>2, <2>2, <2>3 DEF Spent, o, CommitsTo
<1>. QED
  BY <1>5, <1>6, <1>7, <1>10, <1>11 DEF Answering

----------------------------------------------------------------------------
(* The batch of a create.                                                  *)

CreatesFrom(r) ==
  LET e == NewEntity(r)
      l == req[r]
  IN /\ l \in Local /\ l.pc = "create" /\ l.out = "none"
     /\ Verb[r] = "create" /\ Kind[r] \in Kinds
     /\ e \in Ids /\ e = <<Kind[r], l.number>> /\ l.number = seq[Kind[r]]
     /\ seq[Kind[r]] \in Nat
     /\ state[e] = Absent /\ state[e].rev = 0 /\ events[e] = <<>>
     /\ l.next.rev = 1 /\ l.next.status = DefaultCreateStatus[Kind[r]]
     /\ l.op = CreateOp(r) /\ ~HasOp(l.op)

LEMMA CreateBatchFacts ==
  ASSUME TypeOK, Answering, SeededPresent, NEW r \in Requests,
         PendingOf(r), CreateBatch(r)
  PROVE  CreatesFrom(r)
<1> DEFINE e == NewEntity(r)
           l == req[r]
<1>1. /\ l \in Local /\ l.pc = "create" /\ l.out = "none"
      /\ Verb[r] = "create" /\ CreateOf(r, l, seq, outbox)
  BY RequestFacts DEF TypeOK, CreateBatch, At, MutationOf
<1>2. /\ l.op = CreateOp(r) /\ l.next.status = DefaultCreateStatus[Kind[r]]
  BY <1>1 DEF CreateOf
<1>3. e \in Ids /\ e = <<Kind[r], l.number>> /\ l.next.rev = 1
  BY <1>1 DEF PendingOf, NewEntity
<1>4. l.number = seq[Kind[r]] /\ state[e] = Absent /\ ~HasOp(l.op)
  BY DEF CreateBatch, CreateApplies
<1>5. state[e].rev = 0
  BY <1>4 DEF Absent
<1>6. e \notin Seeded
  BY <1>5 DEF SeededPresent
<1>7. events[e] = <<>>
  BY <1>3, <1>6 DEF Answering, StatusesReached, StatusOf
<1>. QED
  BY <1>1, <1>2, <1>3, <1>4, <1>5, <1>7, CreateFacts DEF CreatesFrom

CreatesTo(r) ==
  LET e == NewEntity(r)
      p == req[r].next
  IN /\ seq' = [seq EXCEPT ![Kind[r]] = @ + 1]
     /\ seq'[Kind[r]] = seq[Kind[r]] + 1
     /\ \A k \in Kinds \ {Kind[r]} : seq'[k] = seq[k]
     /\ state'[e] = p /\ \A d \in Ids \ {e} : state'[d] = state[d]
     /\ history' = history \cup {Row(e, p)}
     /\ outbox' = outbox \cup {Entry(req[r].op, e, p)}
     /\ events' = events
     /\ req' = [req EXCEPT ![r].pc = "done", ![r].out = "committed"]

LEMMA CreateBatchWrites ==
  ASSUME TypeOK, Answering, SeededPresent, NEW r \in Requests,
         PendingOf(r), CreateBatch(r)
  PROVE  CreatesTo(r)
<1>1. CreatesFrom(r)
  BY CreateBatchFacts
<1>2. /\ seq' = [seq EXCEPT ![Kind[r]] = @ + 1]
      /\ state' = [state EXCEPT ![NewEntity(r)] = req[r].next]
  BY DEF CreateBatch
<1>3. /\ seq'[Kind[r]] = seq[Kind[r]] + 1
      /\ \A k \in Kinds \ {Kind[r]} : seq'[k] = seq[k]
  BY <1>1, <1>2 DEF CreatesFrom, TypeOK
<1>4. /\ state'[NewEntity(r)] = req[r].next
      /\ \A d \in Ids \ {NewEntity(r)} : state'[d] = state[d]
  BY <1>1, <1>2 DEF CreatesFrom, TypeOK
<1>. QED
  BY <1>2, <1>3, <1>4 DEF CreatesTo, CreateBatch, Finish

LEMMA CreateGrows ==
  ASSUME TypeOK, TypeOK', Answering, SeededPresent, NEW r \in Requests,
         PendingOf(r), CreateBatch(r)
  PROVE  Grown
<1> DEFINE e == NewEntity(r)
<1>1. CreatesFrom(r) /\ CreatesTo(r)
  BY CreateBatchFacts, CreateBatchWrites
<1>2. EntityGrown(e)
  BY <1>1 DEF EntityGrown, CreatesFrom, CreatesTo
<1>3. ASSUME NEW d \in Ids, d # e
      PROVE  EntityGrown(d)
  <2>1. state'[d] = state[d] /\ events' = events /\ state[d].rev \in Nat
    BY <1>1, <1>3 DEF CreatesTo, TypeOK, Payloads
  <2>. QED
    BY <2>1 DEF EntityGrown
<1>4. ASSUME NEW k \in Kinds
      PROVE  seq[k] <= seq'[k]
  <2>1. seq[k] \in Nat
    BY DEF TypeOK
  <2>2. seq'[k] = seq[k] \/ seq'[k] = seq[k] + 1
    BY <1>1 DEF CreatesTo
  <2>. QED
    BY <2>1, <2>2
<1>. QED
  BY <1>1, <1>2, <1>3, <1>4 DEF Grown, CreatesTo

LEMMA AnswerCreate ==
  ASSUME TypeOK, TypeOK', Answering, SeededPresent, NEW r \in Requests,
         PendingOf(r), CreateBatch(r)
  PROVE  Answering'
<1> DEFINE e == NewEntity(r)
           k == Kind[r]
           p == req[r].next
           op == req[r].op
           o == Entry(op, e, p)
<1>1. CreatesFrom(r) /\ CreatesTo(r)
  BY CreateBatchFacts, CreateBatchWrites
<1>2. Grown
  BY CreateGrows
<1>3. /\ o.op = op /\ o.id = e /\ op = CreateOp(r) /\ op.verb = "create"
      /\ op.id[1] = k /\ e[1] = k /\ e[2] = seq[k]
  BY <1>1 DEF Entry, CreatesFrom, CreateOp
<1>4. outbox' = outbox \cup {o}
  BY <1>1 DEF CreatesTo
<1>. HIDE DEF o
<1>5. OutboxIsTrue'
  <2>1. \A q \in outbox : q.op.verb = "create" => q.id # o.id
    <3> SUFFICES ASSUME NEW q \in outbox, q.op.verb = "create", q.id = o.id
                 PROVE  FALSE
      OBVIOUS
    <3>1. q.id[2] < seq[q.id[1]]
      BY DEF Answering, OutboxIsTrue, RowIsTrue
    <3>2. seq[k] < seq[k] /\ seq[k] \in Nat
      BY <1>1, <1>3, <3>1 DEF CreatesFrom
    <3>. QED
      BY <3>2
  <2>2. \A q \in outbox : q.op # o.op
    BY <1>1, <1>3 DEF HasOp, CreatesFrom
  <2>3. Keyed(outbox')
    BY <1>4, <2>1, <2>2 DEF Keyed, Answering, OutboxIsTrue
  <2>4. \A q \in outbox : RowIsTrue(q, seq', history', events')
    BY <1>2, RowStays DEF Answering, OutboxIsTrue
  <2>5. o.id[2] < seq'[o.id[1]]
    BY <1>1, <1>3 DEF CreatesFrom, CreatesTo
  <2>6. RowIsTrue(o, seq', history', events')
    BY <1>3, <2>5 DEF RowIsTrue
  <2>. QED
    BY <1>4, <2>3, <2>4, <2>6 DEF OutboxIsTrue
<1>6. Numbered'
  <2>1. ASSUME NEW d \in Ids, d # e
        PROVE  /\ state'[d] = Absent <=> ~(d[2] < seq'[d[1]])
               /\ state'[d].rev = 0 => state'[d] = Absent
    <3>1. /\ state'[d] = state[d] /\ d[1] \in Kinds /\ d[2] \in Nat
          /\ d = <<d[1], d[2]>>
      BY <1>1, <2>1, BoundAssumption DEF CreatesTo, Ids
    <3>2. /\ state[d] = Absent <=> ~(d[2] < seq[d[1]])
          /\ state[d].rev = 0 => state[d] = Absent
      BY DEF Answering, Numbered
    <3>3. CASE d[1] # k
      BY <1>1, <3>1, <3>2, <3>3 DEF CreatesTo
    <3>4. CASE d[1] = k
      <4>1. d[2] # seq[k]
        BY <1>1, <2>1, <3>1, <3>4 DEF CreatesFrom
      <4>2. seq'[k] = seq[k] + 1 /\ seq[k] \in Nat
        BY <1>1 DEF CreatesFrom, CreatesTo
      <4>3. (d[2] < seq'[k]) <=> (d[2] < seq[k])
        BY <3>1, <4>1, <4>2
      <4>. QED
        BY <3>1, <3>2, <3>4, <4>3
    <3>. QED
      BY <3>3, <3>4
  <2>2. /\ state'[e] # Absent /\ state'[e].rev # 0 /\ e[2] < seq'[e[1]]
    BY <1>1, <1>3 DEF CreatesFrom, CreatesTo, Absent
  <2>. QED
    BY <2>1, <2>2 DEF Numbered
<1>7. StatusesReached'
  <2>1. ASSUME NEW d \in Ids, d # e
        PROVE  StatusOf(d)'
    BY <1>1, <2>1 DEF Answering, StatusesReached, StatusOf, CreatesTo
  <2>2. ASSUME NEW d \in Ids, d = e
        PROVE  StatusOf(d)'
    <3>1. /\ state'[d].status = DefaultCreateStatus[k] /\ events'[d] = <<>>
          /\ d[1] = k
      BY <1>1, <1>3, <2>2 DEF CreatesFrom, CreatesTo
    <3>2. k # "milestone" => DefaultCreateStatus[k] \in Held(k)
      BY <1>1 DEF CreatesFrom, DefaultCreateStatus, Held, Kinds
    <3>3. Reached(d, state'[d].status, events')
      BY <3>1 DEF Reached
    <3>. QED
      BY <3>1, <3>2, <3>3 DEF StatusOf
  <2>. QED
    BY <2>1, <2>2 DEF StatusesReached
<1> DEFINE l == [req[r] EXCEPT !.pc = "done", !.out = "committed"]
<1>8. /\ req' = [req EXCEPT ![r] = l] /\ l.pc = "done" /\ l.out = "committed"
      /\ l.number = seq[k]
  BY <1>1 DEF Local, CreatesFrom, CreatesTo
<1>. HIDE DEF l
<1>9. req'[r] = l /\ \A s \in Requests \ {r} : req'[s] = req[s]
  BY <1>8 DEF TypeOK
<1>10. Requested'
  <2>1. ASSUME NEW s \in Requests, s # r
        PROVE  /\ MutationOf(s, req[s], state', history', events')
               /\ CreateOf(s, req[s], seq', outbox')
               /\ req[s].out # "none" => req[s].pc = "done"
    BY <1>2, MutationStays, CreateStays, RequestFacts DEF TypeOK
  <2>2. MutationOf(r, l, state', history', events')
    BY <1>1, <1>8 DEF MutationOf, Flying, CreatesFrom
  <2>3. CreateOf(r, l, seq', outbox')
    BY <1>3, <1>4, <1>8 DEF CreateOf
  <2>. QED
    BY <1>8, <1>9, <2>1, <2>2, <2>3 DEF Requested
<1>11. Spent'
  BY <1>3, <1>4, <1>8, <1>9 DEF Answering, Spent
<1>. QED
  BY <1>5, <1>6, <1>7, <1>10, <1>11 DEF Answering

----------------------------------------------------------------------------
(* The initial states.                                                     *)

(* A set of numbers that is not empty has a least element.                 *)
LEMMA Least ==
  ASSUME NEW S \in SUBSET Nat, S # {}
  PROVE  \E i \in S : \A j \in S : i <= j
<1> DEFINE R == {p \in Nat \X Nat : p[1] < p[2]}
<1>1. IsWellFoundedOn(R, Nat)
  BY NatLessThanWellFounded DEF OpToRel
<1>2. \A i, j \in Nat : <<j, i>> \notin R => i <= j
  OBVIOUS
<1>. HIDE DEF R
<1>3. PICK i \in S : \A j \in S : <<j, i>> \notin R
  BY <1>1, WFMin, Zenon
<1>4. \A j \in S : i <= j
  BY <1>2, <1>3
<1>. QED
  BY <1>4

(* The seeded entities of a kind are numbered without gaps from 1.         *)
LEMMA SeededNumbers ==
  ASSUME NEW k \in Kinds, NEW n \in 1 .. MaxNumber
  PROVE  <<k, n>> \in Seeded <=> n < First(k)
<1> DEFINE Unseeded == {m \in Nat : <<k, m + 1>> \notin Seeded}
<1>1. MaxNumber \in Nat /\ <<k, MaxNumber + 1>> \notin Ids
  BY BoundAssumption DEF Ids
<1>2. MaxNumber \in Unseeded
  BY <1>1, BoundAssumption
<1>3. PICK c \in Unseeded : \A m \in Unseeded : c <= m
  BY <1>2, Least
<1>4. c \in Nat /\ <<k, c + 1>> \notin Seeded
  OBVIOUS
<1>5. ASSUME NEW e \in Seeded, e[1] = k
      PROVE  /\ e = <<k, e[2]>> /\ e[2] \in Nat /\ e[2] \in 1 .. c
  <2>1. e \in Ids /\ e = <<k, e[2]>> /\ e[2] \in 1 .. MaxNumber
    BY <1>5, BoundAssumption DEF Ids
  <2>2. \A n1 \in 1 .. e[2] : <<k, n1>> \in Seeded
    BY <1>5, BoundAssumption
  <2>3. ~(c + 1 <= e[2])
    BY <1>4, <2>1, <2>2
  <2>. QED
    BY <1>4, <2>1, <2>3
<1>6. ASSUME NEW m \in 1 .. c
      PROVE  <<k, m>> \in Seeded
  <2>1. m - 1 \in Nat /\ ~(c <= m - 1) /\ (m - 1) + 1 = m
    BY <1>4
  <2>2. m - 1 \notin Unseeded
    BY <1>3, <2>1
  <2>. QED
    BY <2>1, <2>2
<1>7. SeededOf(k) = {k} \X (1 .. c)
  <2>1. SeededOf(k) \subseteq {k} \X (1 .. c)
    BY <1>5 DEF SeededOf
  <2>2. {k} \X (1 .. c) \subseteq SeededOf(k)
    BY <1>6 DEF SeededOf
  <2>. QED
    BY <2>1, <2>2
<1>8. Cardinality(SeededOf(k)) = c
  <2>1. c \in Int
    BY <1>4
  <2>2. IsFiniteSet(1 .. c) /\ Cardinality(1 .. c) = c
    <3>1. /\ IsFiniteSet(1 .. c)
          /\ Cardinality(1 .. c) = IF 1 > c THEN 0 ELSE c - 1 + 1
      <4>1. 1 \in Int
        OBVIOUS
      <4>. QED
        BY <2>1, <4>1, FS_Interval, Zenon
    <3>. QED
      BY <1>4, <3>1
  <2>3. IsFiniteSet({k}) /\ Cardinality({k}) = 1
    BY FS_Singleton
  <2>4. Cardinality({k} \X (1 .. c)) = Cardinality({k}) * Cardinality(1 .. c)
    BY <2>2, <2>3, FS_Product
  <2>. QED
    BY <1>4, <1>7, <2>2, <2>3, <2>4
<1>9. First(k) = c + 1
  BY <1>8 DEF First
<1>. QED
  BY <1>4, <1>5, <1>6, <1>9

LEMMA InitAnswering ==
  ASSUME Init, TypeOK
  PROVE  Answering
<1>1. /\ \A e \in Ids : state[e] = IF e \in Seeded THEN SeedPayload(e)
                                   ELSE Absent
      /\ \A k \in Kinds : seq[k] = First(k)
      /\ events = [e \in Ids |-> <<>>]
  BY DEF Init, First
<1>2. \A e \in Ids : /\ e[1] \in Kinds /\ e[2] \in 1 .. MaxNumber
                     /\ e = <<e[1], e[2]>>
  BY DEF Ids
<1>3. \A e \in Ids : e \in Seeded <=> e[2] < seq[e[1]]
  BY <1>1, <1>2, SeededNumbers
<1>4. Numbered
  <2>1. \A e \in Ids : /\ SeedPayload(e) # Absent /\ SeedPayload(e).rev = 1
    BY DEF SeedPayload, Absent
  <2>. QED
    BY <1>1, <1>3, <2>1 DEF Numbered
<1>5. OutboxIsTrue
  <2>1. \A o \in outbox : /\ o.id \in Seeded /\ o.op = SeedOp(o.id)
                          /\ o = [op |-> SeedOp(o.id), id |-> o.id, rev |-> 1,
                                  payload |-> SeedPayload(o.id)]
    BY DEF Init
  <2>2. \A e : SeedOp(e).verb = "create" /\ SeedOp(e).id = e
    BY DEF SeedOp
  <2>3. Keyed(outbox)
    <3>1. \A o1, o2 \in outbox : o1.op = o2.op => o1.id = o2.id
      BY <2>1, <2>2
    <3>2. \A o1, o2 \in outbox : o1.id = o2.id => o1 = o2
      BY <2>1
    <3>. QED
      BY <3>1, <3>2 DEF Keyed
  <2>4. \A o \in outbox : RowIsTrue(o, seq, history, events)
    BY <1>3, <2>1, <2>2, BoundAssumption DEF RowIsTrue
  <2>. QED
    BY <2>3, <2>4 DEF OutboxIsTrue
<1>6. StatusesReached
  <2>1. \A k \in Kinds : k # "milestone" => DefaultCreateStatus[k] \in Held(k)
    BY DEF Kinds, DefaultCreateStatus, Held
  <2>2. ASSUME NEW e \in Ids
        PROVE  StatusOf(e)
    <3>1. events[e] = <<>>
      BY <1>1
    <3>2. state[e] # Absent => state[e].status = DefaultCreateStatus[e[1]]
      <4>1. state[e] # Absent => state[e] = SeedPayload(e)
        BY <1>1
      <4>2. SeedPayload(e).status = DefaultCreateStatus[e[1]]
        BY DEF SeedPayload
      <4>. QED
        BY <4>1, <4>2
    <3>. QED
      BY <1>2, <2>1, <3>1, <3>2 DEF StatusOf, Reached
  <2>. QED
    BY <2>2 DEF StatusesReached
<1>7. Requested
  <2>1. ASSUME NEW r \in Requests
        PROVE  /\ MutationOf(r, req[r], state, history, events)
               /\ CreateOf(r, req[r], seq, outbox)
               /\ req[r].out # "none" => req[r].pc = "done"
    <3>1. /\ req[r].pc \in {"idle", "done"} /\ req[r].out = "none"
          /\ req[r].tries = 0
      BY DEF Init, Idle, NotSent
    <3>2. seq[Kind[r]] = First(Kind[r]) /\ First(Kind[r]) \in Nat
      BY <1>1, EntityType, FirstType
    <3>3. seq[Kind[r]] >= First(Kind[r]) + req[r].tries
      BY <3>1, <3>2
    <3>. QED
      BY <3>1, <3>3 DEF MutationOf, CreateOf, Flying
  <2>. QED
    BY <2>1 DEF Requested
<1>8. Spent
  BY DEF Init, Spent, SeedOp
<1>. QED
  BY <1>4, <1>5, <1>6, <1>7, <1>8 DEF Answering

----------------------------------------------------------------------------
(* Every step keeps the answers true.                                      *)

LEMMA NextAnswering ==
  ASSUME IInv, IInv', Answering, [Next]_vars
  PROVE  Answering'
<1>1. /\ TypeOK /\ TypeOK' /\ SeededPresent /\ HistoryComplete
      /\ \A r \in Requests : PendingOf(r)
  BY DEF IInv, Pending
<1>2. CASE UNCHANGED vars
  BY <1>2 DEF vars, Answering, OutboxIsTrue, Keyed, Numbered, StatusesReached,
     StatusOf, Requested, Spent
<1>3. ASSUME NEW r \in Requests, Step(r) \/ Cancel(r)
      PROVE  Answering'
  <2>1. CASE Begin(r)
    BY <1>1, <2>1, AnswerBegin
  <2>2. CASE Handle(r)
    BY <1>1, <2>2, AnswerHandle
  <2>3. CASE CheckStatus(r) \/ CheckReuse(r) \/ BatchFails(r) \/ Recheck(r)
    BY <1>1, <2>3, AnswerCommitQueries
  <2>4. CASE CommitBatch(r)
    BY <1>1, <2>4, AnswerCommit
  <2>5. CASE CreateReuse(r)
    BY <1>1, <2>5, AnswerCreateReuse
  <2>6. CASE CreateNumber(r)
    BY <1>1, <2>6, AnswerCreateNumber
  <2>7. CASE CreateBatch(r)
    BY <1>1, <2>7, AnswerCreate
  <2>8. CASE CreateFails(r)
    BY <1>1, <2>8, AnswerCreateFails
  <2>9. CASE CreateRecheck(r)
    BY <1>1, <2>9, AnswerCreateRecheck
  <2>10. CASE Cancel(r)
    BY <1>1, <2>10, AnswerFinish DEF Cancel
  <2>. QED
    BY <1>3, <2>1, <2>2, <2>3, <2>4, <2>5, <2>6, <2>7, <2>8, <2>9, <2>10
       DEF Step
<1>. QED
  BY <1>2, <1>3 DEF Next

LEMMA AnswersFollow ==
  ASSUME IInv, Answering
  PROVE  AnswersAreTrue
<1>1. AckedTookEffect
  <2> SUFFICES ASSUME NEW r \in Requests, Verb[r] # "create", Acknowledged(r)
               PROVE  /\ req[r].next.rev # req[r].read.rev /\ Edit[r] # NoEdit =>
                           \E h \in history :
                             /\ h.id = Entity(r)
                             /\ req[r].out = "committed" => h.rev > req[r].read.rev
                             /\ \/ h.payload.content[Edit[r].field] = Edit[r].value
                                \/ MadeByTwin(r, h)
                      /\ req[r].path = "event" =>
                           \E i \in DOMAIN events[Entity(r)] :
                             events[Entity(r)][i].to = req[r].next.status
    BY DEF AckedTookEffect
  <2>1. Told(r, req[r], history, events)
    BY RequestFacts DEF MutationOf, Acknowledged
  <2>. QED
    BY <2>1 DEF Told, MadeByTwin
<1>2. CreatedOnce
  <2> SUFFICES ASSUME NEW r \in Requests, NEW s \in Requests,
                      Verb[r] = "create", Kind[r] # "task", Acknowledged(r),
                      Verb[s] = "create", Kind[s] # "task", Acknowledged(s),
                      Kind[r] = Kind[s]
               PROVE  (req[r].number = req[s].number) <=> (Edit[r] = Edit[s])
    BY DEF CreatedOnce
  <2>1. PICK o \in outbox : o.op = CreateOp(r) /\ o.id[2] = req[r].number
    BY RequestFacts DEF CreateOf, Acknowledged
  <2>2. PICK q \in outbox : q.op = CreateOp(s) /\ q.id[2] = req[s].number
    BY RequestFacts DEF CreateOf, Acknowledged
  <2>3. o.op.verb = "create" /\ q.op.verb = "create"
    BY <2>1, <2>2 DEF CreateOp
  <2>4. o.id[1] = Kind[r] /\ q.id[1] = Kind[s]
    <3>1. o.id[1] = o.op.id[1] /\ q.id[1] = q.op.id[1]
      BY <2>3 DEF Answering, OutboxIsTrue, RowIsTrue
    <3>. QED
      BY <2>1, <2>2, <3>1 DEF CreateOp
  <2>5. o.id = <<o.id[1], o.id[2]>> /\ q.id = <<q.id[1], q.id[2]>>
    BY DEF IInv, TypeOK, Entries, Ids
  <2>6. CreateOp(r) = CreateOp(s) <=> Edit[r] = Edit[s]
    BY DEF CreateOp
  <2>7. /\ o.op = q.op => o = q
        /\ o.id = q.id => o = q
    BY <2>3 DEF Answering, OutboxIsTrue, Keyed
  <2>. QED
    BY <2>1, <2>2, <2>4, <2>5, <2>6, <2>7
<1>3. DenseNumbers
  <2>1. ASSUME NEW e \in Ids
        PROVE  (state[e].rev > 0) <=> (e[2] < seq[e[1]])
    <3>1. state[e].rev \in Nat
      BY DEF IInv, TypeOK, Payloads
    <3>2. state[e] = Absent => state[e].rev = 0
      BY DEF Absent
    <3>3. state[e].rev = 0 <=> ~(e[2] < seq[e[1]])
      BY <3>2 DEF Answering, Numbered
    <3>. QED
      BY <3>1, <3>3
  <2>. QED
    BY <2>1 DEF DenseNumbers
<1>4. ExhaustedUnderContention
  <2>1. ASSUME NEW r \in Requests, req[r].out = "exhausted"
        PROVE  seq[Kind[r]] > Cardinality(SeededOf(Kind[r])) + CreateAttempts
    <3>1. seq[Kind[r]] >= First(Kind[r]) + CreateAttempts
      BY <2>1, RequestFacts DEF CreateOf
    <3>2. /\ Cardinality(SeededOf(Kind[r])) \in Nat /\ CreateAttempts \in Nat
          /\ seq[Kind[r]] \in Nat
      BY EntityType, SeededFinite, FS_CardinalityType, BoundAssumption
         DEF IInv, TypeOK
    <3>. QED
      BY <3>1, <3>2 DEF First
  <2>. QED
    BY <2>1 DEF ExhaustedUnderContention
<1>. QED
  BY <1>1, <1>2, <1>3, <1>4 DEF AnswersAreTrue

(* What a caller is told is true, however its request interleaves with the *)
(* others: acknowledged edits and statuses are in the store, one create    *)
(* makes one entity, numbers have no gaps, and a create that gave up lost  *)
(* all its attempts.                                                       *)
THEOREM AnswersHold == Spec => []AnswersAreTrue
<1>1. Init => IInv /\ Answering
  BY InitIInv, InitAnswering DEF IInv
<1>2. IInv /\ Answering /\ [Next]_vars => (IInv /\ Answering)'
  BY NextIInv, NextAnswering
<1>3. IInv /\ Answering => AnswersAreTrue
  BY AnswersFollow
<1>. QED
  BY <1>1, <1>2, <1>3, PTL DEF Spec

----------------------------------------------------------------------------
(* The event chains.                                                       *)

ChainOf(e) ==
  LET chain == events[e]
      last == Len(chain)
  IN /\ \A i \in 2 .. last : chain[i].from = chain[i - 1].to
     /\ \A i \in 2 .. last : chain[i].rev >= chain[i - 1].rev
     /\ last > 0 => /\ chain[last].to = state[e].status
                    /\ chain[last].rev <= state[e].rev

LEMMA ChainAgreesPerEntity ==
  ChainAgrees <=> \A e \in Ids : ~Overtaken(e) => ChainOf(e)
BY DEF ChainAgrees, ChainOf

(* An entity that was overtaken stays so: later events are at later        *)
(* revisions.                                                              *)
LEMMA OvertakenByMore ==
  ASSUME TypeOK, HistoryComplete, history \subseteq history', NEW d \in Ids,
         events'[d] = events[d], Overtaken(d)
  PROVE  Overtaken(d)'
BY DEF Overtaken

LEMMA CommitChain ==
  ASSUME TypeOK, TypeOK', Answering, SeededPresent, HistoryComplete,
         ChainAgrees, NEW r \in Requests, PendingOf(r), CommitBatch(r)
  PROVE  ChainAgrees'
<1> DEFINE e == Entity(r)
           next == req[r].next
           chain == events[e]
           n == Len(chain)
<1>1. CommitsFrom(r) /\ CommitsTo(r)
  BY CommitFacts, CommitWrites
<1>2. ASSUME NEW d \in Ids, d # e, ~Overtaken(d)'
      PROVE  ChainOf(d)'
  <2>1. events'[d] = events[d] /\ state'[d] = state[d] /\ history \subseteq history'
    BY <1>1, <1>2 DEF CommitsTo
  <2>2. ~Overtaken(d)
    BY <1>2, <2>1, OvertakenByMore
  <2>3. ChainOf(d)
    BY <2>2, ChainAgreesPerEntity
  <2>. QED
    BY <2>1, <2>3 DEF ChainOf
<1>3. e \in Ids /\ chain \in Seq(Events) /\ n \in Nat
  BY <1>1 DEF CommitsFrom, TypeOK
<1>4. \A i \in 1 .. n : chain[i] \in Events /\ chain[i].rev \in Nat
  <2>1. \A i \in 1 .. n : chain[i] \in Events
    BY <1>3
  <2>2. \A ev \in Events : ev.rev \in Nat
    BY DEF Events
  <2>. QED
    BY <2>1, <2>2
<1>5. ASSUME req[r].path = "event", ~Overtaken(e)'
      PROVE  ChainOf(e)'
  <2> DEFINE ev == Appended(r)
             longer == events'[e]
  <2>1. longer = Append(chain, ev)
    BY <1>1, <1>5 DEF CommitsTo
  <2>2. /\ Len(longer) = n + 1 /\ longer[n + 1] = ev
        /\ \A i \in 1 .. n : longer[i] = chain[i]
        /\ DOMAIN longer = 1 .. n + 1 /\ DOMAIN chain = 1 .. n
    BY <1>3, <2>1
  <2>3. /\ ev.rev = next.rev /\ ev.from = state[e].status
        /\ ev.to = next.status /\ state'[e] = next
        /\ next.rev \in Nat /\ state[e].rev \in Nat /\ state[e].rev <= next.rev
    BY <1>1, <1>5 DEF CommitsFrom, CommitsTo, Appended, Computed
  <2>4. \A h \in history : h.id = e => h.rev <= state[e].rev /\ h.rev \in Nat
    BY <1>1 DEF HistoryComplete, CommitsFrom
  <2>5. ~Overtaken(e)
    <3> SUFFICES ASSUME NEW h \in history, NEW i \in DOMAIN chain,
                        h.id = e, h.rev = chain[i].rev + 1,
                        i < n => chain[i + 1].rev # chain[i].rev,
                        h.payload.status # chain[i].to
                 PROVE  FALSE
      BY DEF Overtaken
    <3>1. i \in 1 .. n /\ chain[i].rev \in Nat /\ longer[i] = chain[i]
      BY <1>4, <2>2
    <3>2. h \in history' /\ i \in DOMAIN longer
      BY <1>1, <2>2, <3>1 DEF CommitsTo
    <3>3. i < n + 1 => longer[i + 1].rev # longer[i].rev
      <4>1. CASE i < n
        <5>1. i + 1 \in 1 .. n
          BY <1>3, <3>1, <4>1
        <5>. QED
          BY <2>2, <3>1, <4>1, <5>1
      <4>2. CASE i = n
        <5>1. longer[i + 1].rev = next.rev
          BY <2>2, <2>3, <4>2
        <5>2. chain[i].rev + 1 <= next.rev
          BY <2>3, <2>4
        <5>. QED
          BY <2>3, <3>1, <5>1, <5>2
      <4>. QED
        BY <1>3, <3>1, <4>1, <4>2
    <3>4. Overtaken(e)'
      BY <2>2, <3>1, <3>2, <3>3 DEF Overtaken
    <3>. QED
      BY <1>5, <3>4
  <2>6. ChainOf(e)
    BY <1>3, <2>5, ChainAgreesPerEntity
  <2>. HIDE DEF longer, ev, chain, n
  <2>7. n > 0 => chain[n].to = ev.from /\ chain[n].rev <= ev.rev
    <3>1. n > 0 => chain[n].to = state[e].status /\ chain[n].rev <= state[e].rev
      BY <2>6 DEF ChainOf, chain, n
    <3>2. n > 0 => chain[n].rev \in Nat
      BY <1>3, <1>4
    <3>. QED
      BY <2>3, <3>1, <3>2
  <2>8. \A i \in 2 .. n : /\ chain[i].from = chain[i - 1].to
                          /\ chain[i].rev >= chain[i - 1].rev
    BY <2>6 DEF ChainOf, chain, n
  <2>9. \A i \in 2 .. n + 1 : /\ longer[i].from = longer[i - 1].to
                              /\ longer[i].rev >= longer[i - 1].rev
    <3> SUFFICES ASSUME NEW i \in 2 .. n + 1
                 PROVE  /\ longer[i].from = longer[i - 1].to
                        /\ longer[i].rev >= longer[i - 1].rev
      OBVIOUS
    <3>1. CASE i \in 2 .. n
      <4>1. i \in 1 .. n /\ i - 1 \in 1 .. n
        BY <1>3, <3>1
      <4>. QED
        BY <2>2, <2>8, <3>1, <4>1
    <3>2. CASE i = n + 1
      <4>1. n > 0 /\ n \in 1 .. n /\ i - 1 = n
        BY <1>3, <3>2
      <4>2. longer[i] = ev /\ longer[i - 1] = chain[n]
        BY <2>2, <3>2, <4>1
      <4>3. chain[n].rev \in Nat /\ ev.rev \in Nat
        BY <1>4, <2>3, <4>1
      <4>. QED
        BY <2>7, <4>1, <4>2, <4>3
    <3>. QED
      BY <1>3, <3>1, <3>2
  <2>10. /\ longer[n + 1].to = state'[e].status
         /\ longer[n + 1].rev <= state'[e].rev
    BY <2>2, <2>3
  <2>. QED
    BY <2>2, <2>9, <2>10 DEF ChainOf, longer
<1>6. ASSUME req[r].path = "revision", ~Overtaken(e)'
      PROVE  ChainOf(e)'
  <2>1. /\ events'[e] = chain /\ state'[e] = next
        /\ next.rev = state[e].rev + 1 /\ state[e].rev \in Nat
        /\ history \subseteq history' /\ Row(e, next) \in history'
    BY <1>1, <1>6 DEF CommitsFrom, CommitsTo
  <2>2. ~Overtaken(e)
    BY <1>3, <1>6, <2>1, OvertakenByMore
  <2>3. ChainOf(e)
    BY <1>3, <2>2, ChainAgreesPerEntity
  <2>4. ASSUME n > 0
        PROVE  chain[n].to = next.status /\ chain[n].rev <= next.rev
    <3>1. chain[n].to = state[e].status /\ chain[n].rev <= state[e].rev
      BY <2>3, <2>4 DEF ChainOf
    <3>2. n \in 1 .. n /\ chain[n].rev \in Nat
      BY <1>3, <1>4, <2>4
    <3>3. chain # <<>>
      BY <1>3, <2>4
    <3>4. Kind[r] # "milestone"
      BY <1>1, <1>3, <3>3 DEF Answering, StatusesReached, StatusOf,
         CommitsFrom
    <3>5. next.status = req[r].read.status
      <4>1. Kind[r] \in {"rule", "adr"} => next.status = req[r].read.status
        BY <1>1, <1>6 DEF CommitsFrom, Shape
      <4>2. Kind[r] = "task" => /\ next.status = "planned"
                                /\ req[r].read.status \in {"planned", "ready"}
                                /\ req[r].read.status \in Held(Kind[r])
        BY <1>1, <1>6 DEF CommitsFrom, Shape, Sent
      <4>3. Kind[r] = "task" => req[r].read.status = "planned"
        BY <4>2 DEF Held
      <4>. QED
        BY <1>1, <3>4, <4>1, <4>2, <4>3 DEF CommitsFrom, Kinds
    <3>6. ASSUME state[e].status # next.status
          PROVE  FALSE
      <4>1. chain[n].rev = state[e].rev
        BY <1>1, <3>4, <3>5, <3>6 DEF CommitsFrom, Sent
      <4>2. /\ Row(e, next) \in history' /\ Row(e, next).id = e
            /\ Row(e, next).rev = chain[n].rev + 1
            /\ Row(e, next).payload.status # chain[n].to
        BY <2>1, <3>1, <3>6, <4>1 DEF Row
      <4>3. n \in DOMAIN chain /\ ~(n < n)
        BY <1>3, <3>2
      <4>4. Overtaken(e)'
        BY <2>1, <4>2, <4>3 DEF Overtaken
      <4>. QED
        BY <1>6, <4>4
    <3>. QED
      BY <2>1, <3>1, <3>2, <3>6
  <2>. QED
    BY <2>1, <2>3, <2>4 DEF ChainOf
<1>7. \A d \in Ids : ~Overtaken(d)' => ChainOf(d)'
  BY <1>1, <1>2, <1>5, <1>6 DEF CommitsFrom
<1>. QED
  BY <1>7 DEF ChainAgrees, ChainOf

LEMMA NextChain ==
  ASSUME IInv, IInv', Answering, ChainAgrees, [Next]_vars
  PROVE  ChainAgrees'
<1>1. /\ TypeOK /\ TypeOK' /\ SeededPresent /\ HistoryComplete
      /\ \A r \in Requests : PendingOf(r)
  BY DEF IInv, Pending
<1>2. CASE UNCHANGED store
  BY <1>2 DEF store, ChainAgrees, Overtaken
<1>3. CASE \E r \in Requests : CommitBatch(r)
  BY <1>1, <1>3, CommitChain
<1>4. ASSUME NEW r \in Requests, CreateBatch(r)
      PROVE  ChainAgrees'
  <2> DEFINE e == NewEntity(r)
  <2>1. CreatesFrom(r) /\ CreatesTo(r)
    BY <1>1, <1>4, CreateBatchFacts, CreateBatchWrites
  <2>2. history \subseteq history' /\ events' = events
    BY <2>1 DEF CreatesTo
  <2>3. ASSUME NEW d \in Ids, ~Overtaken(d)'
        PROVE  ChainOf(d)'
    <3>1. ~Overtaken(d)
      BY <1>1, <2>2, <2>3, OvertakenByMore
    <3>2. ChainOf(d)
      BY <3>1, ChainAgreesPerEntity
    <3>3. state'[d] = state[d] \/ events[d] = <<>>
      BY <2>1 DEF CreatesFrom, CreatesTo
    <3>4. events[d] = <<>> => Len(events[d]) = 0
      OBVIOUS
    <3>. QED
      BY <2>2, <3>2, <3>3, <3>4 DEF ChainOf
  <2>. QED
    BY <2>3 DEF ChainAgrees, ChainOf
<1>5. [Next]_vars => \/ UNCHANGED store
                     \/ \E r \in Requests : CommitBatch(r) \/ CreateBatch(r)
  <2>1. ASSUME NEW r \in Requests, Step(r) \/ Cancel(r)
        PROVE  UNCHANGED store \/ CommitBatch(r) \/ CreateBatch(r)
    BY <2>1 DEF Step, Cancel, Begin, Handle, CheckStatus, CheckReuse,
       BatchFails, Recheck, CreateReuse, CreateNumber, CreateFails,
       CreateRecheck
  <2>2. UNCHANGED vars => UNCHANGED store
    BY DEF vars, store
  <2>. QED
    BY <2>1, <2>2 DEF Next
<1>. QED
  BY <1>2, <1>3, <1>4, <1>5

(* The events of an entity form one chain that ends in the status of its   *)
(* row; the only thing that breaks a chain is a content revision whose     *)
(* status was checked before an event and committed after it.              *)
THEOREM ChainsAgree == Spec => []ChainAgrees
<1>1. Init => IInv /\ Answering /\ ChainAgrees
  <2>1. Init => \A e \in Ids : events[e] = <<>> /\ Len(events[e]) = 0
    BY DEF Init
  <2>2. Init => ChainAgrees
    BY <2>1 DEF ChainAgrees
  <2>. QED
    BY <2>2, InitIInv, InitAnswering DEF IInv
<1>2. IInv /\ Answering /\ ChainAgrees /\ [Next]_vars
        => (IInv /\ Answering /\ ChainAgrees)'
  BY NextIInv, NextAnswering, NextChain
<1>. QED
  BY <1>1, <1>2, PTL DEF Spec
=============================================================================
