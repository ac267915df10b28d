------------------------------ MODULE Planning ------------------------------
(***************************************************************************)
(* Tracks and Milestones: the planning side of the gateway.                *)
(*                                                                         *)
(* A Milestone owns a set of Tasks; a Track is a reviewable slice of one   *)
(* Milestone.  Every handler runs in the goroutine of its MCP request, with*)
(* no lock and no queue around it, in three steps that other requests may  *)
(* interleave with:                                                        *)
(*   prepare - read the entity and whatever else the checks need, refuse   *)
(*             or build the next payload                                   *)
(*   admit   - the store re-reads the entity, validates the change and     *)
(*             looks the operation id up in the outbox                     *)
(*   write   - one SQL batch guarded by a compare-and-swap on the entity   *)
(* Task execution is the environment: its rows move under taskExecutionMu, *)
(* and Dispatch records itself in the Track after its row is persisted.    *)
(*                                                                         *)
(* Titles, summaries, actors, reasons and times are left out; the order of *)
(* a Track's Tasks is abstracted to a set.                                 *)
(***************************************************************************)
EXTENDS Naturals, FiniteSets, Sequences

CONSTANTS
    Task,               \* the Tasks of the project
    Milestone,          \* the Milestone keys
    Request,            \* request slots: how many handlers overlap
    None,               \* "no value"
    SeedMilestones,     \* the Milestones the run starts with
    SeedTracks,         \* the Tracks the run starts with, a sequence
    MaxTracks,          \* bound: Tracks ever created
    MaxRequests,        \* bound: handler calls
    MaxHead,            \* bound: commits on the default branch
    MaxTaskRevision,    \* bound: revisions of a Task contract
    PageRows            \* SharedLifecycleQueryMaxRows

ASSUME PlanningAssumption ==
    /\ MaxTracks \in Nat /\ MaxRequests \in Nat /\ MaxHead \in Nat
    /\ MaxTaskRevision \in Nat \ {0} /\ PageRows \in Nat \ {0}
    /\ Len(SeedTracks) <= MaxTracks
    /\ None \notin Task \cup Milestone \cup Request

VARIABLES
    milestones,   \* shared_milestones: key -> payload, or None
    tracks,       \* shared_tracks: number -> payload, or None
    outbox,       \* operation ids in hub_outbox
    row,          \* Task execution rows: none, running, integrated, done, abandoned
    authored,     \* shared_tasks: status, revision and completion of each Task
    head,         \* the default branch of the project repository
    req,          \* what each request slot is doing
    calls         \* handler calls so far

vars == <<milestones, tracks, outbox, row, authored, head, req, calls>>

TrackNo == 1..MaxTracks

-----------------------------------------------------------------------------
(* The payloads.                                                           *)

TrackStatuses ==
    {"planned", "active", "ready", "review_pending", "accepted", "stale",
     "cancelled", "archived"}

MilestoneStatuses == {"planned", "active", "completed", "archived"}

\* Statuses the open-Track scans treat as nonterminal.
Nonterminal == {"planned", "active", "ready", "review_pending", "stale"}

\* AllowedTransitions of the milestone and track descriptors.
AllowedTransitions(entity, from) ==
    IF entity = "milestone"
    THEN CASE from = "planned" -> {"active"}
           [] from = "active" -> {"completed"}
           [] from = "completed" -> {"archived"}
           [] OTHER -> {}
    ELSE CASE from = "planned" -> {"active", "ready", "review_pending", "cancelled"}
           [] from = "active" -> {"ready", "stale", "review_pending"}
           [] from = "ready" -> {"active", "review_pending", "stale"}
           [] from = "review_pending" -> {"active", "ready", "accepted", "stale"}
           [] from = "accepted" -> {"stale", "review_pending", "archived"}
           [] from = "stale" -> {"active", "ready", "review_pending"}
           [] from = "cancelled" -> {"archived"}
           [] OTHER -> {}

NewTrack(m, tasks) ==
    [milestone |-> m, tasks |-> tasks, dispatched |-> {}, status |-> "planned",
     revision |-> 1, review |-> None]

NewMilestone(tasks) ==
    [tasks |-> tasks, status |-> "planned", revision |-> 1, evidence |-> FALSE]

\* A review snapshot is well formed for the revision it is stored at.
ValidateTrackReview(track) ==
    /\ track.review # None
    /\ track.review.revision = track.revision
    /\ DOMAIN track.review.tasks # {}

\* ValidateTrack: membership, dispatch history and review agree.
ValidateTrack(track) ==
    /\ track.tasks # {}
    /\ track.dispatched \subseteq track.tasks
    /\ track.status \in TrackStatuses
    /\ track.status \in {"review_pending", "accepted", "stale"} =>
        /\ ValidateTrackReview(track)
        /\ DOMAIN track.review.tasks = track.tasks

\* ValidateMilestone: evidence exactly on completed and archived Milestones.
ValidateMilestone(m) ==
    /\ m.status \in MilestoneStatuses
    /\ m.evidence <=> m.status \in {"completed", "archived"}

\* The rows of shared_milestones and shared_tracks.
MilestoneRecord ==
    [tasks : SUBSET Task, status : MilestoneStatuses, revision : Nat, evidence : BOOLEAN]

ReviewRecord ==
    [head : Nat, revision : Nat, tasks : UNION {[tasks -> 1..MaxTaskRevision] : tasks \in SUBSET Task}]

TrackRecord ==
    [milestone : Milestone, tasks : SUBSET Task, dispatched : SUBSET Task, status : TrackStatuses,
     revision : Nat, review : {None} \cup ReviewRecord]

\* The run starts with what was planned before any Task was dispatched.
ASSUME SeedAssumption ==
    /\ None \notin Nat \cup MilestoneRecord \cup TrackRecord
    /\ \A m \in DOMAIN SeedMilestones :
        /\ SeedMilestones[m] \in MilestoneRecord /\ ValidateMilestone(SeedMilestones[m])
        /\ SeedMilestones[m].status \in {"planned", "active"}
    /\ \A i \in 1..Len(SeedTracks) :
        /\ SeedTracks[i] \in TrackRecord /\ ValidateTrack(SeedTracks[i])
        /\ SeedTracks[i].status \in {"planned", "cancelled", "archived"}
        /\ SeedTracks[i].dispatched = {}

-----------------------------------------------------------------------------
(* Derived status.                                                         *)

\* The Tasks of a Track as trackStatusFromTasks sees their execution rows.
trackStatusFromTasks(track) ==
    LET started == {t \in track.tasks : row[t] # "none"}
        landed == {t \in track.tasks : row[t] \in {"integrated", "done"}}
    IN  IF landed = track.tasks THEN "ready"
        ELSE IF started # {} THEN "active"
        ELSE "planned"

trackSnapshot(track) ==
    [head |-> head, revision |-> track.revision,
     tasks |-> [t \in track.tasks |-> authored[t].revision]]

trackReviewIsFresh(track) ==
    track.review # None /\ trackSnapshot(track) = track.review

deriveTrackStatus(track) ==
    CASE track.status \in {"archived", "cancelled", "stale"} -> track.status
      [] track.status \in {"accepted", "review_pending"} ->
            IF trackReviewIsFresh(track) THEN track.status ELSE "stale"
      [] OTHER -> trackStatusFromTasks(track)

\* One page of Tracks in key order: what the open-Track scans look at.
QuerySharedLifecycle == {i \in TrackNo : i <= PageRows /\ tracks[i] # None}

\* The Tracks other than `excluded` that hold task t open.  An accepted Track
\* counts again once its review is stale.
nonterminalTrackForTaskExcluding(t, excluded) ==
    {i \in QuerySharedLifecycle \ {excluded} :
        /\ t \in tracks[i].tasks
        /\ \/ tracks[i].status \in Nonterminal
           \/ tracks[i].status = "accepted" /\ ~trackReviewIsFresh(tracks[i])}

\* The first match in key order is the one that is returned.
nonterminalTrackForTask(t) ==
    LET found == nonterminalTrackForTaskExcluding(t, None)
    IN  IF found = {} THEN None ELSE CHOOSE i \in found : \A j \in found : i <= j

validateTrackTasks(m, tasks) ==
    tasks # {} /\ tasks \subseteq milestones[m].tasks

\* Stored status decides here: an accepted Track stays terminal.
requireMilestoneHasNoNonterminalTracks(m) ==
    ~\E i \in QuerySharedLifecycle :
        /\ tracks[i].milestone = m
        /\ tracks[i].tasks \cap milestones[m].tasks # {}
        /\ tracks[i].status \in Nonterminal

\* Mutant: the Local execution rows are not looked at.
MutantTasksDone(m) ==
    milestones[m].tasks # {} /\ \A t \in milestones[m].tasks : authored[t].status = "done"

requireMilestoneTasksDone(m) ==
    /\ milestones[m].tasks # {}
    /\ \A t \in milestones[m].tasks :
        authored[t].status = "done" /\ row[t] \in {"none", "done"}

-----------------------------------------------------------------------------
(* What the store checks.                                                  *)

\* validateTrackMutation, reached only by changes that keep the status.
validateTrackMutation(previous, next, kind) ==
    /\ previous.status \in {"accepted", "archived", "cancelled"} => kind = "track-archive"
    /\ CASE kind = "track-update" -> previous.status = "planned" /\ next.status = "planned"
         [] kind \in {"track-append-task", "track-remove-task"} ->
                previous.status # "planned" /\ next.status # "planned"
         [] kind = "track-submit" ->
                /\ next.status = "review_pending"
                /\ previous.status \in {"ready", "stale", "review_pending"}
         [] OTHER -> previous.status = next.status
    /\ next.milestone = previous.milestone

\* validateMilestoneMutation: each transition has its own mutation kind.
validateMilestoneMutation(previous, next, kind) ==
    IF previous.status = next.status
    THEN previous.status \notin {"completed", "archived"}
    ELSE \/ previous.status = "planned" /\ next.status = "active" /\ kind = "milestone-activate"
         \/ previous.status = "active" /\ next.status = "completed" /\ kind = "milestone-complete"
         \/ previous.status = "completed" /\ next.status = "archived" /\ kind = "milestone-archive"

\* validateSharedLifecycleStatus: payload validators and the transition table.
validateSharedLifecycleStatus(entity, previous, next) ==
    /\ IF entity = "track" THEN ValidateTrack(next) ELSE ValidateMilestone(next)
    /\ previous.status # next.status =>
        next.status \in AllowedTransitions(entity, previous.status)

\* validateSharedLifecycleEventKind: commitTrack always sends a "status" event,
\* whose target may not be the archive status.
validateSharedLifecycleEventKind(toStatus) == toStatus # "archived"

\* A Track change travels as a lifecycle event when its status changes;
\* Milestones always travel as revisions.
IsEvent(call) == call.entity = "track" /\ call.previous.status # call.next.status

Current(call) ==
    IF call.entity = "track" THEN tracks[call.key] ELSE milestones[call.key]

OperationId(call) == <<call.kind, call.key, call.next.revision>>

-----------------------------------------------------------------------------
(* Requests.                                                               *)

Idle == [phase |-> "idle"]

\* Which role the registered action requires: the Lead submits, the Planner
\* does everything else; reads are open to every workflow role.
TrackAuthority(kind) ==
    IF kind \in {"track-submit", "track-dispatch"} THEN "lead" ELSE "planner"

MilestoneAuthority(kind) == "planner"

\* A handler that passed its checks hands its change to the store.
Prepared(r, entity, kind, key, previous, next) ==
    /\ calls < MaxRequests
    /\ req[r] = Idle
    /\ req' = [req EXCEPT ![r] =
            [phase |-> "prepared", entity |-> entity, kind |-> kind, key |-> key,
             previous |-> previous, next |-> next, expect |-> None,
             role |-> IF entity = "milestone" THEN MilestoneAuthority(kind)
                      ELSE TrackAuthority(kind)]]
    /\ calls' = calls + 1
    /\ UNCHANGED <<milestones, tracks, outbox, row, authored, head>>

\* Bound: room for every create under way.
Room(kind, used, all) ==
    Cardinality(used) + Cardinality({r \in Request :
        req[r].phase # "idle" /\ req[r].kind = kind}) < Cardinality(all)

\* commitTrackContent: every content change is the next revision, validated.
commitTrackContent(r, i, next, kind) ==
    LET bumped == [next EXCEPT !.revision = tracks[i].revision + 1]
    IN  ValidateTrack(bumped) /\ Prepared(r, "track", kind, i, tracks[i], bumped)

\* commitTrackEvent: the caller chose the revision itself.
commitTrackEvent(r, i, next, kind) ==
    ValidateTrack(next) /\ Prepared(r, "track", kind, i, tracks[i], next)

\* The Milestone handlers raise the revision and validate in the same way.
commitMilestone(r, m, next, kind) ==
    LET bumped == [next EXCEPT !.revision = @ + 1]
    IN  ValidateMilestone(bumped) /\ Prepared(r, "milestone", kind, m, milestones[m], bumped)

-----------------------------------------------------------------------------
(* Track handlers: the prepare step.                                       *)

TrackLifecycleCreate(r, m, tasks) ==
    /\ milestones[m] # None
    /\ milestones[m].status \notin {"completed", "archived"}
    /\ validateTrackTasks(m, tasks)
    /\ \A t \in tasks : nonterminalTrackForTaskExcluding(t, None) = {}
    /\ Room("track-create", {i \in TrackNo : tracks[i] # None}, TrackNo)
    /\ ValidateTrack(NewTrack(m, tasks))
    /\ Prepared(r, "create", "track-create", <<m, tasks>>, None, NewTrack(m, tasks))

\* Replacing the Tasks, or (with the same Tasks) only title and summary.
TrackLifecycleUpdate(r, i, tasks) ==
    /\ tracks[i] # None
    /\ deriveTrackStatus(tracks[i]) = "planned"
    /\ validateTrackTasks(tracks[i].milestone, tasks)
    /\ \A t \in tasks : nonterminalTrackForTaskExcluding(t, i) = {}
    /\ commitTrackContent(r, i, [tracks[i] EXCEPT !.tasks = tasks], "track-update")

\* The shared part of append and remove: a started, still open Track.
MembershipOpen(i, tasks) ==
    /\ tracks[i] # None
    /\ deriveTrackStatus(tracks[i]) # "planned"
    /\ tracks[i].status \notin {"accepted", "cancelled", "archived"}
    /\ validateTrackTasks(tracks[i].milestone, tasks)

\* Changing the members drops the review and derives the status again.
mutateTrackMembership(r, i, members, kind) ==
    LET next == [tracks[i] EXCEPT !.tasks = members, !.review = None]
    IN  /\ members # {} /\ members # tracks[i].tasks
        /\ commitTrackContent(r, i,
                [next EXCEPT !.status = trackStatusFromTasks(next)], kind)

TrackLifecycleAppendTasks(r, i, tasks) ==
    /\ MembershipOpen(i, tasks)
    /\ \A t \in tasks \ tracks[i].tasks : nonterminalTrackForTaskExcluding(t, i) = {}
    /\ mutateTrackMembership(r, i, tracks[i].tasks \cup tasks, "track-append-task")

TrackLifecycleRemoveTasks(r, i, tasks) ==
    /\ MembershipOpen(i, tasks)
    /\ tasks \subseteq tracks[i].tasks
    /\ tasks \cap tracks[i].dispatched = {}
    /\ mutateTrackMembership(r, i, tracks[i].tasks \ tasks, "track-remove-task")

TrackLifecycleCancel(r, i) ==
    /\ tracks[i] # None
    /\ deriveTrackStatus(tracks[i]) = "planned"
    /\ commitTrackEvent(r, i,
            [tracks[i] EXCEPT !.status = "cancelled", !.revision = @ + 1], "track-cancel")

\* Mutant: a Track that was started is submitted, ready or not.
MutantSubmitStarted(r, i) ==
    /\ tracks[i] # None
    /\ deriveTrackStatus(tracks[i]) \in {"active", "ready", "stale"}
    /\ LET next == [tracks[i] EXCEPT !.status = "review_pending", !.revision = @ + 1]
       IN  commitTrackEvent(r, i, [next EXCEPT !.review = trackSnapshot(next)], "track-submit")

\* The snapshot is taken of the revision being submitted.
TrackLifecycleSubmit(r, i) ==
    /\ tracks[i] # None
    /\ deriveTrackStatus(tracks[i]) \in {"ready", "stale"}
    /\ LET next == [tracks[i] EXCEPT !.status = "review_pending", !.revision = @ + 1]
       IN  commitTrackEvent(r, i, [next EXCEPT !.review = trackSnapshot(next)], "track-submit")

\* Acceptance keeps the revision: only the status moves.
TrackLifecycleAccept(r, i) ==
    /\ tracks[i] # None
    /\ deriveTrackStatus(tracks[i]) = "review_pending"
    /\ trackReviewIsFresh(tracks[i])
    /\ commitTrackEvent(r, i, [tracks[i] EXCEPT !.status = "accepted"], "track-accept")

TrackLifecycleArchive(r, i) ==
    /\ tracks[i] # None
    /\ deriveTrackStatus(tracks[i]) \in {"accepted", "cancelled"}
    /\ commitTrackEvent(r, i, [tracks[i] EXCEPT !.status = "archived"], "track-archive")

-----------------------------------------------------------------------------
(* Milestone handlers: the prepare step.                                   *)

MilestoneLifecycleCreate(r, tasks) ==
    /\ Room("milestone-create", {m \in Milestone : milestones[m] # None}, Milestone)
    /\ Prepared(r, "create", "milestone-create", tasks, None, NewMilestone(tasks))

MilestoneOpen(m) == milestones[m] # None /\ milestones[m].status \in {"planned", "active"}

\* Metadata only: the payload changes in title and summary, which are left out.
MilestoneLifecycleUpdate(r, m) ==
    /\ MilestoneOpen(m)
    /\ commitMilestone(r, m, milestones[m], "milestone-update")

MilestoneLifecycleAppendTasks(r, m, tasks) ==
    /\ MilestoneOpen(m)
    /\ ~(tasks \subseteq milestones[m].tasks)
    /\ commitMilestone(r, m, [milestones[m] EXCEPT !.tasks = @ \cup tasks], "milestone-append-task")

MilestoneLifecycleRemoveTasks(r, m, tasks) ==
    /\ MilestoneOpen(m)
    /\ tasks \cap milestones[m].tasks # {}
    /\ \A t \in tasks \cap milestones[m].tasks : nonterminalTrackForTask(t) = None
    /\ commitMilestone(r, m, [milestones[m] EXCEPT !.tasks = @ \ tasks], "milestone-remove-task")

MilestoneLifecycleActivate(r, m) ==
    /\ milestones[m] # None /\ milestones[m].status = "planned"
    /\ commitMilestone(r, m, [milestones[m] EXCEPT !.status = "active"], "milestone-activate")

MilestoneLifecycleComplete(r, m) ==
    /\ milestones[m] # None /\ milestones[m].status = "active"
    /\ requireMilestoneHasNoNonterminalTracks(m)
    /\ requireMilestoneTasksDone(m)
    /\ commitMilestone(r, m,
            [milestones[m] EXCEPT !.status = "completed", !.evidence = TRUE], "milestone-complete")

MilestoneLifecycleArchive(r, m) ==
    /\ milestones[m] # None /\ milestones[m].status = "completed"
    /\ requireMilestoneHasNoNonterminalTracks(m)
    /\ commitMilestone(r, m, [milestones[m] EXCEPT !.status = "archived"], "milestone-archive")

-----------------------------------------------------------------------------
(* The store: admit and write.                                             *)

Return(r) == req' = [req EXCEPT ![r] = Idle]

\* The environment and the other variables a store step never touches.
StoreFrame == UNCHANGED <<row, authored, head, calls>>

\* What CommitSharedLifecycleEvent and CommitSharedLifecycleRevision check of
\* the entity as they read it.
Admissible(call, current) ==
    /\ validateSharedLifecycleStatus(call.entity, current, call.next)
    /\ IF IsEvent(call)
       THEN /\ current.status = call.previous.status
            /\ validateSharedLifecycleEventKind(call.next.status)
       ELSE IF call.entity = "track"
       THEN validateTrackMutation(current, call.next, call.kind)
       ELSE validateMilestoneMutation(current, call.next, call.kind)

\* An operation id already in the outbox: reuseSharedMutation answers with the
\* earlier result, whatever this request carried.
reuseSharedMutation(r) ==
    /\ OperationId(req[r]) \in outbox
    /\ Return(r)
    /\ UNCHANGED <<milestones, tracks, outbox>>

StoreAdmits(r) ==
    LET call == req[r] IN
    /\ call.phase = "prepared" /\ call.entity # "create"
    /\ Admissible(call, Current(call))
    /\ \/ reuseSharedMutation(r)
       \/ /\ OperationId(call) \notin outbox
          /\ req' = [req EXCEPT ![r].phase = "admitted", ![r].expect = Current(call)]
          /\ UNCHANGED <<milestones, tracks, outbox>>
    /\ StoreFrame

StoreRefuses(r) ==
    LET call == req[r] IN
    /\ call.phase = "prepared" /\ call.entity # "create"
    /\ ~Admissible(call, Current(call))
    /\ Return(r)
    /\ UNCHANGED <<milestones, tracks, outbox>>
    /\ StoreFrame

\* Mutant: the revision's update matches the row by its key alone.
MutantRevisionCAS(call) == IsEvent(call) => Current(call) = call.expect

\* The UPDATE ... WHERE clause.  An event compares the whole payload it read; a
\* revision only the revision numbers.
stateCAS(call) ==
    /\ call.expect.revision = call.previous.revision
    /\ IF IsEvent(call) THEN Current(call) = call.expect
       ELSE Current(call).revision = call.expect.revision

StoreWrites(r) ==
    LET call == req[r] IN
    /\ call.phase = "admitted"
    /\ stateCAS(call) /\ OperationId(call) \notin outbox
    /\ IF call.entity = "track"
       THEN /\ tracks' = [tracks EXCEPT ![call.key] = call.next]
            /\ UNCHANGED milestones
       ELSE /\ milestones' = [milestones EXCEPT ![call.key] = call.next]
            /\ UNCHANGED tracks
    /\ outbox' = outbox \cup {OperationId(call)}
    /\ Return(r)
    /\ StoreFrame

\* The batch fails as a whole: the earlier result of the same operation id, or
\* an error.
StoreConflicts(r) ==
    /\ req[r].phase = "admitted"
    /\ ~stateCAS(req[r]) \/ OperationId(req[r]) \in outbox
    /\ Return(r)
    /\ UNCHANGED <<milestones, tracks, outbox>>
    /\ StoreFrame

\* CommitSharedLifecycleCreate: the operation id is a digest of the input, so
\* an equal create returns the entity that is there; otherwise the next number
\* is allocated with the insert in one batch.
CommitSharedLifecycleCreate(r) ==
    LET call == req[r]
        op == <<call.kind, call.key, 1>>
        free == {i \in TrackNo : tracks[i] = None}
    IN
    /\ call.phase = "prepared" /\ call.entity = "create"
    /\ IF op \in outbox
       THEN UNCHANGED <<milestones, tracks, outbox>>
       ELSE /\ outbox' = outbox \cup {op}
            /\ \/ /\ call.kind = "track-create"
                  /\ \E i \in free :
                        /\ \A j \in free : i <= j
                        /\ tracks' = [tracks EXCEPT ![i] = call.next]
                  /\ UNCHANGED milestones
               \/ /\ call.kind = "milestone-create"
                  /\ \E m \in Milestone :
                        /\ milestones[m] = None
                        /\ milestones' = [milestones EXCEPT ![m] = call.next]
                  /\ UNCHANGED tracks
    /\ Return(r)
    /\ StoreFrame

-----------------------------------------------------------------------------
(* Dispatch: the one handler that spans execution rows and Tracks.         *)

\* taskExecutionMu is held from before the row is persisted until the Track
\* has been updated.
DispatchPending == \E r \in Request : req[r].phase # "idle" /\ req[r].kind = "track-dispatch"

\* TaskExecutionDispatch up to and including the row.  A repeat for a Task that
\* is already running returns its row and does nothing else.
TaskExecutionDispatch(r, t) ==
    /\ calls < MaxRequests
    /\ req[r] = Idle /\ ~DispatchPending
    /\ authored[t].status = "planned"
    /\ row[t] \in {"none", "abandoned"}
    /\ row' = [row EXCEPT ![t] = "running"]
    /\ req' = [req EXCEPT ![r] = [phase |-> "persisted", kind |-> "track-dispatch", task |-> t]]
    /\ calls' = calls + 1
    /\ UNCHANGED <<milestones, tracks, outbox, authored, head>>

\* recordTrackTaskDispatch: nothing to record, an error, or a Track change.
recordTrackTaskDispatch(r) ==
    LET t == req[r].task
        i == nonterminalTrackForTask(t)
        marked == [tracks[i] EXCEPT !.dispatched = @ \cup {t}, !.review = None,
                                    !.revision = @ + 1]
    IN
    /\ req[r].phase = "persisted"
    /\ IF i = None THEN Return(r)
       ELSE IF tracks[i].status = "accepted" \/ t \in tracks[i].dispatched THEN Return(r)
       ELSE req' = [req EXCEPT ![r] =
                [phase |-> "prepared", entity |-> "track", kind |-> "track-dispatch", key |-> i,
                 previous |-> tracks[i],
                 next |-> [marked EXCEPT !.status = trackStatusFromTasks(marked)],
                 role |-> TrackAuthority("track-dispatch"), expect |-> None]]
    /\ UNCHANGED <<milestones, tracks, outbox>>
    /\ StoreFrame

-----------------------------------------------------------------------------
(* The environment: Task execution, authoring, other commits, crashes.     *)

EnvFrame == UNCHANGED <<milestones, tracks, outbox, req, calls>>

\* An integration lands the Task on the default branch.
TaskLands(t) ==
    /\ ~DispatchPending /\ row[t] = "running" /\ head < MaxHead
    /\ row' = [row EXCEPT ![t] = "integrated"]
    /\ head' = head + 1
    /\ UNCHANGED authored
    /\ EnvFrame

\* The status event of a completion, in the Shared database.
Completed(t) == [authored EXCEPT ![t].status = "done", ![t].completed = TRUE]

\* Completion of a landed Task: its row in Shared, then its execution in Local.
\* When the second write is lost the Task is done and its execution is not,
\* and a repeated request asks for reconciliation.
TaskCompletes(t) ==
    /\ ~DispatchPending /\ authored[t].status = "planned" /\ row[t] = "integrated"
    /\ authored' = Completed(t)
    /\ row' \in {row, [row EXCEPT ![t] = "done"]}
    /\ UNCHANGED head
    /\ EnvFrame

\* The confirmed non_code completion of a Task that never had an execution.
TaskCompletesNonCode(t) ==
    /\ calls < MaxRequests
    /\ ~DispatchPending /\ authored[t].status = "planned" /\ row[t] = "none"
    /\ authored' = Completed(t)
    /\ calls' = calls + 1
    /\ UNCHANGED <<milestones, tracks, outbox, row, head, req>>

\* Archiving takes no lock: that no execution was under way was read before,
\* and only the Task's own row is compared when it is written.
TaskArchives(t) ==
    /\ calls < MaxRequests
    /\ \/ authored[t].status = "planned"
       \/ authored[t].status = "done" /\ row[t] # "integrated"
    /\ authored' = [authored EXCEPT ![t].status = "archived"]
    /\ calls' = calls + 1
    /\ UNCHANGED <<milestones, tracks, outbox, row, head, req>>

TaskResets(t) ==
    /\ ~DispatchPending /\ row[t] = "running"
    /\ row' = [row EXCEPT ![t] = "abandoned"]
    /\ UNCHANGED <<authored, head>>
    /\ EnvFrame

\* A Task contract can be revised only while no execution is under way.
TaskRevised(t) ==
    /\ calls < MaxRequests
    /\ ~DispatchPending /\ row[t] \in {"none", "abandoned"}
    /\ authored[t].status = "planned" /\ authored[t].revision < MaxTaskRevision
    /\ authored' = [authored EXCEPT ![t].revision = @ + 1]
    /\ calls' = calls + 1
    /\ UNCHANGED <<milestones, tracks, outbox, row, head, req>>

\* Work of others reaches the default branch.
BranchMoves ==
    /\ head < MaxHead
    /\ head' = head + 1
    /\ UNCHANGED <<row, authored>>
    /\ EnvFrame

\* The gateway dies: requests are gone, the databases stay.
Crash ==
    /\ \E r \in Request : req[r] # Idle
    /\ req' = [r \in Request |-> Idle]
    /\ UNCHANGED <<milestones, tracks, outbox, row, authored, head, calls>>

-----------------------------------------------------------------------------
Init ==
    /\ milestones = [m \in Milestone |->
            IF m \in DOMAIN SeedMilestones THEN SeedMilestones[m] ELSE None]
    /\ tracks = [i \in TrackNo |-> IF i <= Len(SeedTracks) THEN SeedTracks[i] ELSE None]
    /\ outbox = {}
    /\ row = [t \in Task |-> "none"]
    /\ authored = [t \in Task |-> [status |-> "planned", revision |-> 1, completed |-> FALSE]]
    /\ head = 0
    /\ req = [r \in Request |-> Idle]
    /\ calls = 0

TrackRequest(r, i) ==
    \/ \E tasks \in SUBSET Task : TrackLifecycleUpdate(r, i, tasks)
    \/ \E tasks \in SUBSET Task : TrackLifecycleAppendTasks(r, i, tasks)
    \/ \E tasks \in SUBSET Task : TrackLifecycleRemoveTasks(r, i, tasks)
    \/ TrackLifecycleCancel(r, i)
    \/ TrackLifecycleSubmit(r, i)
    \/ TrackLifecycleAccept(r, i)
    \/ TrackLifecycleArchive(r, i)

MilestoneRequest(r, m) ==
    \/ MilestoneLifecycleUpdate(r, m)
    \/ \E tasks \in SUBSET Task : MilestoneLifecycleAppendTasks(r, m, tasks)
    \/ \E tasks \in SUBSET Task : MilestoneLifecycleRemoveTasks(r, m, tasks)
    \/ MilestoneLifecycleActivate(r, m)
    \/ MilestoneLifecycleComplete(r, m)
    \/ MilestoneLifecycleArchive(r, m)

StoreStep(r) ==
    \/ StoreAdmits(r)
    \/ StoreRefuses(r)
    \/ StoreWrites(r)
    \/ StoreConflicts(r)
    \/ CommitSharedLifecycleCreate(r)
    \/ recordTrackTaskDispatch(r)

TaskStep(t) ==
    \/ TaskLands(t)
    \/ TaskCompletes(t)
    \/ TaskCompletesNonCode(t)
    \/ TaskArchives(t)
    \/ TaskResets(t)
    \/ TaskRevised(t)

Next ==
    \/ \E r \in Request, m \in Milestone, tasks \in SUBSET Task : TrackLifecycleCreate(r, m, tasks)
    \/ \E r \in Request, i \in TrackNo : TrackRequest(r, i)
    \/ \E r \in Request, tasks \in SUBSET Task : MilestoneLifecycleCreate(r, tasks)
    \/ \E r \in Request, m \in Milestone : MilestoneRequest(r, m)
    \/ \E r \in Request, t \in Task : TaskExecutionDispatch(r, t)
    \/ \E r \in Request : StoreStep(r)
    \/ \E t \in Task : TaskStep(t)
    \/ BranchMoves
    \/ Crash

Spec == Init /\ [][Next]_vars
-----------------------------------------------------------------------------
(* Properties.                                                             *)

\* The payloads are well formed and every request is in one of its phases.
TypeOK ==
    /\ \A m \in Milestone : milestones[m] # None =>
        milestones[m].tasks \subseteq Task /\ ValidateMilestone(milestones[m])
    /\ \A i \in TrackNo : tracks[i] # None =>
        /\ tracks[i].milestone \in Milestone /\ tracks[i].tasks \subseteq Task
        /\ ValidateTrack(tracks[i])
        /\ tracks[i].review # None =>
            tracks[i].review.head <= head /\ DOMAIN tracks[i].review.tasks = tracks[i].tasks
    /\ row \in [Task -> {"none", "running", "integrated", "done", "abandoned"}]
    /\ authored \in [Task -> [status : {"planned", "done", "archived"},
                            revision : 1..MaxTaskRevision, completed : BOOLEAN]]
    /\ \A r \in Request : req[r].phase \in {"idle", "persisted", "prepared", "admitted"}
    /\ head \in 0..MaxHead /\ calls \in 0..MaxRequests

\* An accepted Track covers exactly Tasks that have landed, at the contract
\* revisions its review recorded.  Readiness is derived when the review is
\* submitted and never again: a resubmission of a stale Track, an append that
\* races the acceptance, or a dispatch of a member would break it.
AcceptedIsProven ==
    \A i \in TrackNo : (tracks[i] # None /\ tracks[i].status = "accepted") =>
        \A t \in tracks[i].tasks :
            /\ row[t] \in {"integrated", "done"}
            /\ tracks[i].review.tasks[t] = authored[t].revision

\* A recorded dispatch is never lost: an update, append or submission prepared
\* before it cannot be written over it.
DispatchHistoryKept ==
    [][\A i \in TrackNo : tracks[i] # None =>
        tracks[i].dispatched \subseteq tracks'[i].dispatched]_vars

\* Cancel is for Tracks nothing was started in, and it is the end of them: no
\* dispatch that was recording itself meanwhile reopens one.
CancelledNeverStarted ==
    [][\A i \in TrackNo : tracks[i] # None =>
        /\ tracks'[i].status = "cancelled" => tracks'[i].dispatched = {}
        /\ tracks[i].status = "cancelled" => tracks'[i] = tracks[i]]_vars

\* What has been started stays on record, and what never was can be given up
\* for good, whatever was prepared meanwhile (stateCAS).
DispatchesKept == DispatchHistoryKept /\ CancelledNeverStarted

\* A completed Milestone holds only Tasks that were completed, and none whose
\* execution is still open: each was executed to the end or never executed at
\* all (non_code), whatever membership change, dispatch or archiving was in
\* flight when the Milestone completed.
CompletionProven ==
    \A m \in Milestone :
        (milestones[m] # None /\ milestones[m].status \in {"completed", "archived"}) =>
            /\ milestones[m].tasks # {}
            /\ \A t \in milestones[m].tasks : authored[t].completed /\ row[t] \in {"none", "done"}
=============================================================================
