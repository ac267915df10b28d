------------------------- MODULE MCSharedLifecycle -------------------------
(***************************************************************************)
(* The instance of SharedLifecycle for TLC.  A request is named after its  *)
(* kind, its handler and its edit: ruleTitle1 sets the title of Rule 1 to  *)
(* 1, taskNote2 the note of Task 1 if its revision is 2.                   *)
(***************************************************************************)
EXTENDS SharedLifecycle

Set(f, v) == [field |-> f, value |-> v]

(* One row per request: its kind, its handler, its edit, the status it     *)
(* asks for and the revision its caller expects.                           *)
Call(kind, verb, edit, to, given) ==
  [kind |-> kind, verb |-> verb, edit |-> edit, to |-> to, given |-> given]

Calls ==
  [ruleTitle1a |-> Call("rule", "update", Set("title", 1), "keep", 0),
   ruleTitle1b |-> Call("rule", "update", Set("title", 1), "keep", 0),
   ruleTitle0  |-> Call("rule", "update", Set("title", 0), "keep", 0),
   ruleNote1   |-> Call("rule", "update", Set("note", 1), "keep", 0),
   ruleAccept  |-> Call("rule", "update", Set("note", 1), "accepted", 0),
   ruleArchive |-> Call("rule", "archive", NoEdit, "keep", 0),
   adrAccept   |-> Call("adr", "update", Set("note", 1), "accepted", 0),
   adrSupersede |-> Call("adr", "update", NoEdit, "superseded", 0),
   adrSupersede2 |-> Call("adr", "update", NoEdit, "superseded", 0),
   adrShelve   |-> Call("adr", "update", NoEdit, "archived", 0),
   adrArchive  |-> Call("adr", "archive", NoEdit, "keep", 0),
   taskTitle1  |-> Call("task", "update", Set("title", 1), "keep", 1),
   taskTitle0  |-> Call("task", "update", Set("title", 0), "keep", 1),
   taskNote2   |-> Call("task", "update", Set("note", 1), "keep", 2),
   taskDone1   |-> Call("task", "complete", NoEdit, "keep", 0),
   taskDone2   |-> Call("task", "complete", NoEdit, "keep", 0),
   taskArchive1 |-> Call("task", "archive", NoEdit, "keep", 0),
   taskArchive2 |-> Call("task", "archive", NoEdit, "keep", 0),
   mileNote2   |-> Call("milestone", "update", Set("note", 1), "keep", 2),
   mileTitle2  |-> Call("milestone", "update", Set("title", 0), "keep", 2),
   mileAppend  |-> Call("milestone", "append", Set("title", 1), "keep", 0),
   mileRemove  |-> Call("milestone", "remove", Set("title", 0), "keep", 0),
   mileActivate |-> Call("milestone", "activate", NoEdit, "keep", 0),
   mileComplete |-> Call("milestone", "complete", NoEdit, "keep", 0),
   mileArchive1 |-> Call("milestone", "archive", NoEdit, "keep", 0),
   mileArchive2 |-> Call("milestone", "archive", NoEdit, "keep", 0),
   newRule1a |-> Call("rule", "create", Set("title", 1), "keep", 0),
   newRule1b |-> Call("rule", "create", Set("title", 1), "keep", 0),
   newRule0  |-> Call("rule", "create", Set("title", 0), "keep", 0),
   newRuleNote |-> Call("rule", "create", Set("note", 1), "keep", 0),
   newTask   |-> Call("task", "create", Set("title", 1), "keep", 0)]

MCKind == [r \in Requests |-> Calls[r].kind]
MCVerb == [r \in Requests |-> Calls[r].verb]
MCTarget == [r \in Requests |-> 1]
MCEdit == [r \in Requests |-> Calls[r].edit]
MCTo == [r \in Requests |-> Calls[r].to]
MCGiven == [r \in Requests |-> Calls[r].given]

(* Duplicate, reverted and conflicting edits of a Rule, and edits against  *)
(* its acceptance and archiving; status changes of an ADR; the Task        *)
(* handlers behind their mutex; edits of a Milestone that is activated,    *)
(* completed and archived, two of them by one handler; and creates.        *)
MCWorkloads ==
  {{"ruleTitle1a", "ruleTitle1b", "ruleNote1"},
   {"ruleTitle1a", "ruleTitle0", "ruleTitle1b"},
   {"ruleTitle1a", "ruleAccept", "ruleArchive"},
   {"adrAccept", "adrSupersede", "adrSupersede2", "adrShelve", "adrArchive"},
   {"taskTitle1", "taskTitle0", "taskNote2", "taskDone1", "taskDone2"},
   {"taskTitle1", "taskDone1", "taskArchive1", "taskArchive2"},
   {"mileAppend", "mileRemove", "mileNote2", "mileActivate"},
   {"mileAppend", "mileNote2", "mileTitle2"},
   {"mileActivate", "mileComplete", "mileArchive1", "mileArchive2",
    "mileAppend"},
   {"newRule1a", "newRule1b", "newRule0", "newTask"},
   {"newRule1a", "newRule0", "newRuleNote"}}

MCRequests == UNION MCWorkloads

(* One entity of every kind a workload mutates.                            *)
MCSeeded == {<<Kind[r], 1>> : r \in {q \in Requests : Verb[q] # "create"}}
============================================================================
