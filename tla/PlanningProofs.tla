--------------------------- MODULE PlanningProofs ---------------------------
(***************************************************************************)
(* Proofs about Tracks and Milestones, for any number of Tasks, Tracks,    *)
(* Milestones and overlapping requests.                                    *)
(***************************************************************************)
EXTENDS Planning, NaturalsInduction, WellFoundedInduction, TLAPS

-----------------------------------------------------------------------------
(* What a request slot holds.                                              *)

TrackKinds ==
    {"track-update", "track-append-task", "track-remove-task", "track-cancel", "track-submit",
     "track-accept", "track-archive", "track-dispatch"}
MilestoneKinds ==
    {"milestone-update", "milestone-append-task", "milestone-remove-task", "milestone-activate",
     "milestone-complete", "milestone-archive"}
RequestRoles == {"lead", "planner"}

Waiting == [phase : {"idle"}]
Persisted == [phase : {"persisted"}, kind : {"track-dispatch"}, task : Task]
TrackCalls ==
    [phase : {"prepared", "admitted"}, entity : {"track"}, kind : TrackKinds, key : TrackNo,
     previous : TrackRecord, next : TrackRecord, expect : {None} \cup TrackRecord,
     role : RequestRoles]
MilestoneCalls ==
    [phase : {"prepared", "admitted"}, entity : {"milestone"}, kind : MilestoneKinds,
     key : Milestone, previous : MilestoneRecord, next : MilestoneRecord,
     expect : {None} \cup MilestoneRecord, role : RequestRoles]
TrackCreates ==
    [phase : {"prepared"}, entity : {"create"}, kind : {"track-create"},
     key : Milestone \X SUBSET Task, previous : {None}, next : TrackRecord, expect : {None},
     role : RequestRoles]
MilestoneCreates ==
    [phase : {"prepared"}, entity : {"create"}, kind : {"milestone-create"}, key : SUBSET Task,
     previous : {None}, next : MilestoneRecord, expect : {None}, role : RequestRoles]

Slots ==
    Waiting \cup Persisted \cup TrackCalls \cup MilestoneCalls \cup TrackCreates
    \cup MilestoneCreates

IsTrackCall(c) == c.phase \in {"prepared", "admitted"} /\ c.entity = "track"
IsMilestoneCall(c) == c.phase \in {"prepared", "admitted"} /\ c.entity = "milestone"
IsCreate(c) == c.phase = "prepared" /\ c.entity = "create"

LEMMA SlotShape ==
    ASSUME NEW c \in Slots
    PROVE  /\ c.phase \in {"idle", "persisted", "prepared", "admitted"}
           /\ c.phase = "persisted" => c \in Persisted
           /\ IsTrackCall(c) => c \in TrackCalls
           /\ IsMilestoneCall(c) => c \in MilestoneCalls
           /\ IsCreate(c) /\ c.kind = "track-create" => c \in TrackCreates
           /\ IsCreate(c) /\ c.kind = "milestone-create" => c \in MilestoneCreates
           /\ IsCreate(c) => c.kind \in {"track-create", "milestone-create"}
           /\ c.phase = "admitted" => IsTrackCall(c) \/ IsMilestoneCall(c)
           /\ c.phase = "prepared" => IsTrackCall(c) \/ IsMilestoneCall(c) \/ IsCreate(c)
BY DEF Slots, Waiting, Persisted, TrackCalls, MilestoneCalls, TrackCreates, MilestoneCreates,
       IsTrackCall, IsMilestoneCall, IsCreate

-----------------------------------------------------------------------------
(* The inductive invariant.                                                *)

Landed == {"integrated", "done"}
Rows == {"none", "running", "integrated", "done", "abandoned"}

TypeEnvironment ==
    /\ row \in [Task -> Rows]
    /\ authored \in [Task -> [status : {"planned", "done", "archived"},
                            revision : 1..MaxTaskRevision, completed : BOOLEAN]]
    /\ head \in Nat
TypeEntities ==
    /\ milestones \in [Milestone -> {None} \cup MilestoneRecord]
    /\ tracks \in [TrackNo -> {None} \cup TrackRecord]
TypeRequests == req \in [Request -> Slots]

\* A done Task was completed, and a completed one is not planned again: nothing
\* dispatches it any more.
CompletionHeld ==
    \A t \in Task :
        /\ authored[t].status = "done" => authored[t].completed
        /\ authored[t].completed => authored[t].status # "planned"

\* A Track that has dispatched a Task, or is under or past review, says so of
\* Tasks that really were started, or have landed as the review recorded them
\* (rows and contracts are what row and authored hold).
Sound(track, rows, contracts) ==
    /\ track.dispatched \subseteq track.tasks
    /\ \A t \in track.dispatched : rows[t] # "none"
    /\ track.status # "stale"
    /\ track.status = "cancelled" => track.dispatched = {}
    /\ track.status \in {"review_pending", "accepted"} =>
        \A t \in track.tasks :
            rows[t] \in Landed /\ track.review.tasks[t] = contracts[t].revision

\* A Milestone past completion holds only completed Tasks, none of them with an
\* open execution.
Proven(m, rows, contracts) ==
    m.status \in {"completed", "archived"} =>
        /\ m.tasks # {}
        /\ \A t \in m.tasks : contracts[t].completed /\ rows[t] \in {"none", "done"}

\* A Track change that a handler made of the row it read.
ChangeOf(previous, next) ==
    /\ \/ next.revision = previous.revision + 1
       \/ previous.status = "review_pending" /\ next = [previous EXCEPT !.status = "accepted"]
       \/ next.status = "archived"
    /\ next.status = "archived" => previous.status # "archived"
    /\ previous.dispatched \subseteq next.dispatched
    /\ previous.status = "cancelled" => next.status = "archived"

\* A revision number names one payload, up to its acceptance.
Since(previous, current) ==
    /\ previous.revision <= current.revision
    /\ previous.revision = current.revision =>
        \/ current = previous
        \/ /\ previous.status = "review_pending"
           /\ current = [previous EXCEPT !.status = "accepted"]

\* What holds of a slot while it waits for the store.
TrackCallOK(c, stored) ==
    IsTrackCall(c) =>
        /\ stored[c.key] # None /\ Since(c.previous, stored[c.key])
        /\ ChangeOf(c.previous, c.next)
        /\ c.phase = "admitted" => c.expect \in TrackRecord /\ Admissible(c, c.expect)

ContentOK(c, rows, contracts) ==
    /\ IsTrackCall(c) => Sound(c.next, rows, contracts)
    /\ IsMilestoneCall(c) => Proven(c.next, rows, contracts)
    /\ IsCreate(c) /\ c.kind = "track-create" => Sound(c.next, rows, contracts)
    /\ IsCreate(c) /\ c.kind = "milestone-create" => Proven(c.next, rows, contracts)
    /\ c.phase = "persisted" => rows[c.task] # "none"

EntitiesOK ==
    /\ \A i \in TrackNo : tracks[i] # None => Sound(tracks[i], row, authored)
    /\ \A m \in Milestone : milestones[m] # None => Proven(milestones[m], row, authored)
RequestsOK ==
    \A r \in Request : TrackCallOK(req[r], tracks) /\ ContentOK(req[r], row, authored)

Typed == TypeEnvironment /\ TypeEntities /\ TypeRequests
Planned == Typed /\ CompletionHeld /\ EntitiesOK /\ RequestsOK

LEMMA Constants ==
    /\ None \notin Nat /\ None \notin MilestoneRecord /\ None \notin TrackRecord
    /\ MaxTracks \in Nat /\ MaxTaskRevision \in Nat \ {0}
BY PlanningAssumption, SeedAssumption

LEMMA IdleFits ==
    /\ Idle \in Slots /\ Idle.phase = "idle"
    /\ \A stored : TrackCallOK(Idle, stored)
    /\ \A rows, contracts : ContentOK(Idle, rows, contracts)
<1>1. Idle \in Slots /\ Idle.phase = "idle"
  BY DEF Idle, Slots, Waiting
<1>2. ~IsTrackCall(Idle) /\ ~IsMilestoneCall(Idle) /\ ~IsCreate(Idle) /\ Idle.phase # "persisted"
  BY <1>1 DEF IsTrackCall, IsMilestoneCall, IsCreate
<1>3. \A stored : TrackCallOK(Idle, stored)
  BY <1>2 DEF TrackCallOK
<1>4. \A rows, contracts : ContentOK(Idle, rows, contracts)
  BY <1>2 DEF ContentOK
<1> QED BY <1>1, <1>3, <1>4

LEMMA InitPlanned == Init => Planned
<1> SUFFICES ASSUME Init PROVE Planned
  OBVIOUS
<1> USE DEF Init
<1>1. TypeEnvironment
  BY Constants DEF TypeEnvironment, Rows
<1>2. ASSUME NEW i \in TrackNo
      PROVE  tracks[i] = None \/ (tracks[i] \in TrackRecord /\ Sound(tracks[i], row, authored))
  <2>1. CASE i <= Len(SeedTracks)
    <3>1. i \in 1..Len(SeedTracks)
      BY <2>1 DEF TrackNo
    <3>2. tracks[i] = SeedTracks[i]
      BY <2>1
    <3>3. /\ SeedTracks[i] \in TrackRecord /\ SeedTracks[i].dispatched = {}
          /\ SeedTracks[i].status \in {"planned", "cancelled", "archived"}
      BY <3>1, SeedAssumption
    <3> QED BY <3>2, <3>3 DEF Sound
  <2>2. CASE ~(i <= Len(SeedTracks))
    BY <2>2
  <2> QED BY <2>1, <2>2
<1>3. ASSUME NEW m \in Milestone
      PROVE  \/ milestones[m] = None
             \/ milestones[m] \in MilestoneRecord /\ Proven(milestones[m], row, authored)
  BY SeedAssumption DEF Proven
<1>4. TypeEntities /\ EntitiesOK
  BY <1>2, <1>3 DEF TypeEntities, EntitiesOK
<1>5. TypeRequests /\ RequestsOK
  BY IdleFits DEF TypeRequests, RequestsOK
<1>6. CompletionHeld
  BY DEF CompletionHeld
<1> QED BY <1>1, <1>4, <1>5, <1>6 DEF Planned, Typed

-----------------------------------------------------------------------------
(* Executions move forward.                                                *)

Forward(rows, contracts, rows2, contracts2) ==
    \A t \in Task :
        /\ rows[t] # "none" => rows2[t] # "none"
        /\ rows[t] \in Landed => rows2[t] \in Landed /\ contracts2[t].revision = contracts[t].revision
        /\ rows[t] = "done" => rows2[t] = "done"
        /\ contracts[t].completed => contracts2[t].completed
        /\ contracts[t].completed /\ rows[t] = "none" => rows2[t] = "none"

LEMMA ContentForward ==
    ASSUME NEW rows, NEW contracts, NEW rows2, NEW contracts2,
           Forward(rows, contracts, rows2, contracts2)
    PROVE  /\ \A track \in TrackRecord : Sound(track, rows, contracts) => Sound(track, rows2, contracts2)
           /\ \A m \in MilestoneRecord : Proven(m, rows, contracts) => Proven(m, rows2, contracts2)
           /\ \A c \in Slots : ContentOK(c, rows, contracts) => ContentOK(c, rows2, contracts2)
<1>1. \A track \in TrackRecord : Sound(track, rows, contracts) => Sound(track, rows2, contracts2)
  BY DEF Forward, Sound, TrackRecord
<1>2. \A m \in MilestoneRecord : Proven(m, rows, contracts) => Proven(m, rows2, contracts2)
  BY DEF Forward, Proven, MilestoneRecord
<1>3. ASSUME NEW c \in Slots, ContentOK(c, rows, contracts) PROVE ContentOK(c, rows2, contracts2)
  <2>1. IsTrackCall(c) => Sound(c.next, rows2, contracts2)
    BY <1>1, <1>3, SlotShape DEF ContentOK, TrackCalls
  <2>2. IsMilestoneCall(c) => Proven(c.next, rows2, contracts2)
    BY <1>2, <1>3, SlotShape DEF ContentOK, MilestoneCalls
  <2>3. IsCreate(c) /\ c.kind = "track-create" => Sound(c.next, rows2, contracts2)
    BY <1>1, <1>3, SlotShape DEF ContentOK, TrackCreates
  <2>4. IsCreate(c) /\ c.kind = "milestone-create" => Proven(c.next, rows2, contracts2)
    BY <1>2, <1>3, SlotShape DEF ContentOK, MilestoneCreates
  <2>5. c.phase = "persisted" => rows2[c.task] # "none"
    BY <1>3, SlotShape DEF ContentOK, Persisted, Forward
  <2> QED BY <2>1, <2>2, <2>3, <2>4, <2>5 DEF ContentOK
<1> QED BY <1>1, <1>2, <1>3

\* A step of Task execution that no request takes part in.
LEMMA ForwardPlanned ==
    ASSUME Planned, TypeEnvironment', CompletionHeld', Forward(row, authored, row', authored'),
           UNCHANGED <<milestones, tracks, req>>
    PROVE  Planned'
<1>1. TypeEntities' /\ TypeRequests'
  BY DEF Planned, Typed, TypeEntities, TypeRequests
<1>2. EntitiesOK'
  BY ContentForward DEF EntitiesOK, Planned, Typed, TypeEntities
<1>3. RequestsOK'
  BY ContentForward DEF RequestsOK, Planned, Typed, TypeRequests
<1> QED BY <1>1, <1>2, <1>3 DEF Planned, Typed

LEMMA EnvironmentPlanned ==
    ASSUME Planned,
           (\E t \in Task : TaskStep(t)) \/ BranchMoves
    PROVE  Planned'
<1>1. UNCHANGED <<milestones, tracks, req>>
  BY DEF TaskStep, TaskLands, TaskCompletes, TaskCompletesNonCode, TaskArchives, TaskResets,
         TaskRevised, BranchMoves, EnvFrame
<1>2. TypeEnvironment' /\ CompletionHeld' /\ Forward(row, authored, row', authored')
  <2> USE DEF Planned, Typed, TypeEnvironment, Rows, CompletionHeld, Forward, Landed
  <2>1. ASSUME NEW t \in Task, TaskLands(t)
        PROVE  TypeEnvironment' /\ CompletionHeld' /\ Forward(row, authored, row', authored')
    BY <2>1 DEF TaskLands
  <2>2. ASSUME NEW t \in Task, TaskCompletes(t)
        PROVE  TypeEnvironment' /\ CompletionHeld' /\ Forward(row, authored, row', authored')
    BY <2>2 DEF TaskCompletes, Completed
  <2>3. ASSUME NEW t \in Task, TaskResets(t)
        PROVE  TypeEnvironment' /\ CompletionHeld' /\ Forward(row, authored, row', authored')
    BY <2>3 DEF TaskResets
  <2>4. ASSUME NEW t \in Task, TaskRevised(t)
        PROVE  TypeEnvironment' /\ CompletionHeld' /\ Forward(row, authored, row', authored')
    BY <2>4, Constants DEF TaskRevised
  <2>5. ASSUME NEW t \in Task, TaskCompletesNonCode(t)
        PROVE  TypeEnvironment' /\ CompletionHeld' /\ Forward(row, authored, row', authored')
    BY <2>5 DEF TaskCompletesNonCode, Completed
  <2>6. ASSUME NEW t \in Task, TaskArchives(t)
        PROVE  TypeEnvironment' /\ CompletionHeld' /\ Forward(row, authored, row', authored')
    BY <2>6 DEF TaskArchives
  <2>7. CASE BranchMoves
    BY <2>7 DEF BranchMoves
  <2> QED BY <2>1, <2>2, <2>3, <2>4, <2>5, <2>6, <2>7 DEF TaskStep
<1> QED BY <1>1, <1>2, ForwardPlanned

-----------------------------------------------------------------------------
(* Handlers prepare their changes.                                         *)

LEMMA SlotPlanned ==
    ASSUME Planned, NEW r \in Request, NEW c \in Slots, TrackCallOK(c, tracks),
           ContentOK(c, row, authored), req' = [req EXCEPT ![r] = c],
           UNCHANGED <<milestones, tracks, row, authored, head>>
    PROVE  Planned'
<1>1. TypeEnvironment' /\ TypeEntities' /\ TypeRequests'
  BY DEF Planned, Typed, TypeEnvironment, TypeEntities, TypeRequests
<1>2. EntitiesOK' /\ CompletionHeld'
  BY DEF Planned, EntitiesOK, CompletionHeld
<1>3. RequestsOK'
  BY DEF Planned, Typed, TypeRequests, RequestsOK
<1> QED BY <1>1, <1>2, <1>3 DEF Planned, Typed

LEMMA TrackPrepared ==
    ASSUME Planned, NEW r \in Request, NEW i \in TrackNo, NEW kind \in TrackKinds,
           NEW next \in TrackRecord, tracks[i] # None, ChangeOf(tracks[i], next),
           Sound(next, row, authored), Prepared(r, "track", kind, i, tracks[i], next)
    PROVE  Planned'
<1> DEFINE c == [phase |-> "prepared", entity |-> "track", kind |-> kind, key |-> i,
                 previous |-> tracks[i], next |-> next, expect |-> None,
                 role |-> TrackAuthority(kind)]
<1>1. req' = [req EXCEPT ![r] = c] /\ UNCHANGED <<milestones, tracks, row, authored, head>>
  BY DEF Prepared
<1>2. tracks[i] \in TrackRecord
  BY DEF Planned, Typed, TypeEntities
<1>3. c \in Slots
  BY <1>2 DEF Slots, TrackCalls, TrackAuthority, RequestRoles
<1>4. Since(tracks[i], tracks[i])
  BY <1>2 DEF Since, TrackRecord
<1>5. TrackCallOK(c, tracks) /\ ContentOK(c, row, authored)
  BY <1>4 DEF TrackCallOK, ContentOK, IsTrackCall, IsMilestoneCall, IsCreate
<1> HIDE DEF c
<1> QED BY <1>1, <1>3, <1>5, SlotPlanned

LEMMA MilestonePrepared ==
    ASSUME Planned, NEW r \in Request, NEW m \in Milestone, NEW kind \in MilestoneKinds,
           NEW next \in MilestoneRecord, milestones[m] # None, Proven(next, row, authored),
           Prepared(r, "milestone", kind, m, milestones[m], next)
    PROVE  Planned'
<1> DEFINE c == [phase |-> "prepared", entity |-> "milestone", kind |-> kind, key |-> m,
                 previous |-> milestones[m], next |-> next, expect |-> None,
                 role |-> MilestoneAuthority(kind)]
<1>1. req' = [req EXCEPT ![r] = c] /\ UNCHANGED <<milestones, tracks, row, authored, head>>
  BY DEF Prepared
<1>2. milestones[m] \in MilestoneRecord
  BY DEF Planned, Typed, TypeEntities
<1>3. c \in Slots
  BY <1>2 DEF Slots, MilestoneCalls, MilestoneAuthority, RequestRoles
<1>4. TrackCallOK(c, tracks) /\ ContentOK(c, row, authored)
  BY DEF TrackCallOK, ContentOK, IsTrackCall, IsMilestoneCall, IsCreate
<1> HIDE DEF c
<1> QED BY <1>1, <1>3, <1>4, SlotPlanned

\* The status derived from the execution rows.
LEMMA FromTasks ==
    ASSUME NEW track
    PROVE  /\ trackStatusFromTasks(track) \in {"planned", "active", "ready"}
           /\ trackStatusFromTasks(track) = "ready" => \A t \in track.tasks : row[t] \in Landed
           /\ trackStatusFromTasks(track) = "planned" => \A t \in track.tasks : row[t] = "none"
BY DEF trackStatusFromTasks, Landed

LEMMA Derived ==
    ASSUME NEW track, track.status # "stale", track.status \in TrackStatuses
    PROVE  /\ deriveTrackStatus(track) = "planned" =>
                /\ track.status \in {"planned", "active", "ready"}
                /\ \A t \in track.tasks : row[t] = "none"
           /\ deriveTrackStatus(track) \in {"ready", "stale"} =>
                /\ track.status \notin {"archived", "cancelled"}
                /\ \/ \A t \in track.tasks : row[t] \in Landed
                   \/ track.status \in {"review_pending", "accepted"}
           /\ deriveTrackStatus(track) \in {"accepted", "cancelled", "review_pending"} =>
                track.status = deriveTrackStatus(track)
<1>1. CASE track.status \in {"archived", "cancelled"}
  BY <1>1 DEF deriveTrackStatus
<1>2. CASE track.status \in {"accepted", "review_pending"}
  BY <1>2 DEF deriveTrackStatus
<1>3. CASE track.status \in {"planned", "active", "ready"}
  <2>1. deriveTrackStatus(track) = trackStatusFromTasks(track)
    BY <1>3 DEF deriveTrackStatus
  <2> QED BY <1>3, <2>1, FromTasks
<1> QED BY <1>1, <1>2, <1>3 DEF TrackStatuses

LEMMA StoredTrack ==
    ASSUME Planned, NEW i \in TrackNo, tracks[i] # None
    PROVE  /\ tracks[i] \in TrackRecord /\ Sound(tracks[i], row, authored)
           /\ tracks[i].status # "stale" /\ tracks[i].status \in TrackStatuses
           /\ tracks[i].revision \in Nat
BY DEF Planned, Typed, TypeEntities, EntitiesOK, Sound, TrackRecord

\* A content change: the revision is raised, the status is one of an open
\* Track, and no dispatch is forgotten.
LEMMA ContentChange ==
    ASSUME Planned, NEW i \in TrackNo, tracks[i] # None, NEW next \in TrackRecord,
           NEW kind \in TrackKinds, NEW r \in Request,
           next.status \in {"planned", "active", "ready"},
           tracks[i].status \in {"planned", "active", "ready", "review_pending"},
           next.dispatched = tracks[i].dispatched,
           commitTrackContent(r, i, next, kind)
    PROVE  Planned'
<1> DEFINE bumped == [next EXCEPT !.revision = tracks[i].revision + 1]
<1>1. /\ ValidateTrack(bumped) /\ Prepared(r, "track", kind, i, tracks[i], bumped)
  BY DEF commitTrackContent
<1>2. /\ bumped \in TrackRecord /\ bumped.status = next.status /\ bumped.tasks = next.tasks
      /\ bumped.dispatched = tracks[i].dispatched /\ bumped.revision = tracks[i].revision + 1
  BY StoredTrack DEF TrackRecord
<1> HIDE DEF bumped
<1>3. ChangeOf(tracks[i], bumped)
  BY <1>2 DEF ChangeOf
<1>4. Sound(bumped, row, authored)
  <2>1. \A t \in tracks[i].dispatched : row[t] # "none"
    BY StoredTrack DEF Sound
  <2> QED BY <1>1, <1>2, <2>1 DEF Sound, ValidateTrack
<1> QED BY <1>1, <1>2, <1>3, <1>4, TrackPrepared

LEMMA MembershipPlanned ==
    ASSUME Planned, NEW r \in Request, NEW i \in TrackNo, NEW tasks \in SUBSET Task,
           NEW members \in SUBSET Task, NEW kind \in TrackKinds, MembershipOpen(i, tasks),
           mutateTrackMembership(r, i, members, kind)
    PROVE  Planned'
<1> DEFINE open == [tracks[i] EXCEPT !.tasks = members, !.review = None]
           next == [open EXCEPT !.status = trackStatusFromTasks(open)]
<1>1. tracks[i] # None /\ tracks[i].status \notin {"accepted", "cancelled", "archived"}
  BY DEF MembershipOpen
<1>2. tracks[i] \in TrackRecord /\ tracks[i].status \in {"planned", "active", "ready", "review_pending"}
  BY <1>1, StoredTrack DEF TrackStatuses
<1>3. open \in TrackRecord /\ open.dispatched = tracks[i].dispatched
  BY <1>2 DEF TrackRecord
<1>4. commitTrackContent(r, i, next, kind)
  BY DEF mutateTrackMembership
<1> HIDE DEF open
<1>5. trackStatusFromTasks(open) \in {"planned", "active", "ready"}
  BY FromTasks
<1>6. /\ next \in TrackRecord /\ next.status \in {"planned", "active", "ready"}
      /\ next.dispatched = open.dispatched
  BY <1>3, <1>5 DEF TrackRecord, TrackStatuses
<1> HIDE DEF next
<1> QED BY <1>1, <1>2, <1>3, <1>4, <1>6, ContentChange

LEMMA TrackRequestPlanned ==
    ASSUME Planned, NEW r \in Request, NEW i \in TrackNo, TrackRequest(r, i)
    PROVE  Planned'
<1>1. ASSUME NEW tasks \in SUBSET Task, TrackLifecycleUpdate(r, i, tasks) PROVE Planned'
  <2> DEFINE next == [tracks[i] EXCEPT !.tasks = tasks]
  <2>1. tracks[i] # None /\ deriveTrackStatus(tracks[i]) = "planned"
        /\ commitTrackContent(r, i, next, "track-update")
    BY <1>1 DEF TrackLifecycleUpdate
  <2>2. tracks[i] \in TrackRecord /\ tracks[i].status \in {"planned", "active", "ready"}
    BY <2>1, StoredTrack, Derived
  <2>3. next \in TrackRecord /\ next.status = tracks[i].status /\ next.dispatched = tracks[i].dispatched
    BY <2>2 DEF TrackRecord
  <2> HIDE DEF next
  <2> QED BY <2>1, <2>2, <2>3, ContentChange DEF TrackKinds
<1>2. ASSUME NEW tasks \in SUBSET Task, TrackLifecycleAppendTasks(r, i, tasks) PROVE Planned'
  <2>1. MembershipOpen(i, tasks)
        /\ mutateTrackMembership(r, i, tracks[i].tasks \cup tasks, "track-append-task")
    BY <1>2 DEF TrackLifecycleAppendTasks
  <2>2. tracks[i].tasks \cup tasks \in SUBSET Task
    BY <2>1, StoredTrack DEF MembershipOpen, TrackRecord
  <2> QED BY <2>1, <2>2, MembershipPlanned DEF TrackKinds
<1>3. ASSUME NEW tasks \in SUBSET Task, TrackLifecycleRemoveTasks(r, i, tasks) PROVE Planned'
  <2>1. MembershipOpen(i, tasks)
        /\ mutateTrackMembership(r, i, tracks[i].tasks \ tasks, "track-remove-task")
    BY <1>3 DEF TrackLifecycleRemoveTasks
  <2>2. tracks[i].tasks \ tasks \in SUBSET Task
    BY <2>1, StoredTrack DEF MembershipOpen, TrackRecord
  <2> QED BY <2>1, <2>2, MembershipPlanned DEF TrackKinds
<1>4. CASE TrackLifecycleCancel(r, i)
  <2> DEFINE next == [tracks[i] EXCEPT !.status = "cancelled", !.revision = @ + 1]
  <2>1. /\ tracks[i] # None /\ deriveTrackStatus(tracks[i]) = "planned"
        /\ Prepared(r, "track", "track-cancel", i, tracks[i], next)
    BY <1>4 DEF TrackLifecycleCancel, commitTrackEvent
  <2>2. tracks[i] \in TrackRecord /\ Sound(tracks[i], row, authored)
    BY <2>1, StoredTrack
  <2>3. /\ tracks[i].status \in {"planned", "active", "ready"}
        /\ \A t \in tracks[i].tasks : row[t] = "none"
    BY <2>1, StoredTrack, Derived
  <2>4. tracks[i].dispatched = {}
    BY <2>2, <2>3 DEF Sound
  <2>5. /\ next \in TrackRecord /\ next.status = "cancelled" /\ next.dispatched = {}
        /\ next.revision = tracks[i].revision + 1
    <3>1. tracks[i].revision + 1 \in Nat
      BY <2>1, StoredTrack
    <3> QED BY <2>2, <2>4, <3>1 DEF TrackRecord, TrackStatuses
  <2> HIDE DEF next
  <2>6. ChangeOf(tracks[i], next) /\ Sound(next, row, authored)
    BY <2>3, <2>4, <2>5 DEF ChangeOf, Sound
  <2> QED BY <2>1, <2>5, <2>6, TrackPrepared DEF TrackKinds
<1>5. CASE TrackLifecycleSubmit(r, i)
  <2> DEFINE open == [tracks[i] EXCEPT !.status = "review_pending", !.revision = @ + 1]
             next == [open EXCEPT !.review = trackSnapshot(open)]
  <2>1. /\ tracks[i] # None /\ deriveTrackStatus(tracks[i]) \in {"ready", "stale"}
        /\ Prepared(r, "track", "track-submit", i, tracks[i], next)
    BY <1>5 DEF TrackLifecycleSubmit, commitTrackEvent
  <2>2. tracks[i] \in TrackRecord /\ Sound(tracks[i], row, authored)
    BY <2>1, StoredTrack
  <2>3. /\ tracks[i].status \notin {"archived", "cancelled"}
        /\ \A t \in tracks[i].tasks : row[t] \in Landed
    BY <2>1, <2>2, StoredTrack, Derived DEF Sound
  <2>4. /\ open \in TrackRecord /\ open.tasks = tracks[i].tasks /\ open.status = "review_pending"
        /\ open.dispatched = tracks[i].dispatched /\ open.revision = tracks[i].revision + 1
    <3>1. tracks[i].revision + 1 \in Nat
      BY <2>1, StoredTrack
    <3> QED BY <2>2, <3>1 DEF TrackRecord, TrackStatuses
  <2> HIDE DEF open
  <2>5. trackSnapshot(open) \in ReviewRecord
        /\ \A t \in open.tasks : trackSnapshot(open).tasks[t] = authored[t].revision
    <3>1. open.tasks \in SUBSET Task /\ open.revision \in Nat
      BY <2>4 DEF TrackRecord
    <3>2. [t \in open.tasks |-> authored[t].revision] \in [open.tasks -> 1..MaxTaskRevision]
      BY <3>1 DEF Planned, Typed, TypeEnvironment
    <3>3. head \in Nat
      BY DEF Planned, Typed, TypeEnvironment
    <3> QED BY <3>1, <3>2, <3>3 DEF trackSnapshot, ReviewRecord
  <2>6. /\ next \in TrackRecord /\ next.tasks = open.tasks /\ next.status = open.status
        /\ next.dispatched = open.dispatched /\ next.revision = open.revision
        /\ next.review = trackSnapshot(open)
    BY <2>4, <2>5 DEF TrackRecord
  <2> HIDE DEF next
  <2>7. ChangeOf(tracks[i], next)
    BY <2>3, <2>4, <2>6 DEF ChangeOf
  <2>8. Sound(next, row, authored)
    BY <2>2, <2>3, <2>4, <2>5, <2>6 DEF Sound
  <2> QED BY <2>1, <2>6, <2>7, <2>8, TrackPrepared DEF TrackKinds
<1>6. CASE TrackLifecycleAccept(r, i)
  <2> DEFINE next == [tracks[i] EXCEPT !.status = "accepted"]
  <2>1. /\ tracks[i] # None /\ deriveTrackStatus(tracks[i]) = "review_pending"
        /\ Prepared(r, "track", "track-accept", i, tracks[i], next)
    BY <1>6 DEF TrackLifecycleAccept, commitTrackEvent
  <2>2. tracks[i] \in TrackRecord /\ Sound(tracks[i], row, authored) /\ tracks[i].status = "review_pending"
    BY <2>1, StoredTrack, Derived
  <2>3. /\ next \in TrackRecord /\ next.tasks = tracks[i].tasks /\ next.status = "accepted"
        /\ next.dispatched = tracks[i].dispatched /\ next.review = tracks[i].review
    BY <2>2 DEF TrackRecord, TrackStatuses
  <2>4. ChangeOf(tracks[i], next)
    BY <2>2, <2>3 DEF ChangeOf
  <2> HIDE DEF next
  <2>5. Sound(next, row, authored)
    BY <2>2, <2>3 DEF Sound
  <2> QED BY <2>1, <2>3, <2>4, <2>5, TrackPrepared DEF TrackKinds
<1>7. CASE TrackLifecycleArchive(r, i)
  <2> DEFINE next == [tracks[i] EXCEPT !.status = "archived"]
  <2>1. /\ tracks[i] # None /\ deriveTrackStatus(tracks[i]) \in {"accepted", "cancelled"}
        /\ Prepared(r, "track", "track-archive", i, tracks[i], next)
    BY <1>7 DEF TrackLifecycleArchive, commitTrackEvent
  <2>2. tracks[i] \in TrackRecord /\ Sound(tracks[i], row, authored)
        /\ tracks[i].status \in {"accepted", "cancelled"}
    BY <2>1, StoredTrack, Derived
  <2>3. /\ next \in TrackRecord /\ next.tasks = tracks[i].tasks /\ next.status = "archived"
        /\ next.dispatched = tracks[i].dispatched
    BY <2>2 DEF TrackRecord, TrackStatuses
  <2> HIDE DEF next
  <2>4. ChangeOf(tracks[i], next) /\ Sound(next, row, authored)
    BY <2>2, <2>3 DEF ChangeOf, Sound
  <2> QED BY <2>1, <2>3, <2>4, TrackPrepared DEF TrackKinds
<1> QED BY <1>1, <1>2, <1>3, <1>4, <1>5, <1>6, <1>7 DEF TrackRequest

\* A Milestone change that leaves the status of an open Milestone, or proves
\* what a completed one needs.
LEMMA MilestoneChange ==
    ASSUME Planned, NEW r \in Request, NEW m \in Milestone, NEW kind \in MilestoneKinds,
           milestones[m] # None, NEW next \in MilestoneRecord, Proven(next, row, authored),
           commitMilestone(r, m, next, kind)
    PROVE  Planned'
<1> DEFINE bumped == [next EXCEPT !.revision = @ + 1]
<1>1. Prepared(r, "milestone", kind, m, milestones[m], bumped)
  BY DEF commitMilestone
<1>2. bumped \in MilestoneRecord /\ bumped.status = next.status /\ bumped.tasks = next.tasks
  BY DEF MilestoneRecord
<1> HIDE DEF bumped
<1>3. Proven(bumped, row, authored)
  BY <1>2 DEF Proven
<1> QED BY <1>1, <1>2, <1>3, MilestonePrepared

LEMMA MilestoneRequestPlanned ==
    ASSUME Planned, NEW r \in Request, NEW m \in Milestone, MilestoneRequest(r, m)
    PROVE  Planned'
<1>0. milestones[m] # None
  BY DEF MilestoneRequest, MilestoneLifecycleUpdate, MilestoneLifecycleAppendTasks,
         MilestoneLifecycleRemoveTasks, MilestoneLifecycleActivate, MilestoneLifecycleComplete,
         MilestoneLifecycleArchive, MilestoneOpen
<1>1. milestones[m] \in MilestoneRecord /\ Proven(milestones[m], row, authored)
  BY <1>0 DEF Planned, Typed, TypeEntities, EntitiesOK
<1> USE DEF MilestoneKinds
<1>2. CASE MilestoneLifecycleUpdate(r, m)
  BY <1>0, <1>1, <1>2, MilestoneChange DEF MilestoneLifecycleUpdate
<1>3. ASSUME NEW tasks \in SUBSET Task, MilestoneLifecycleAppendTasks(r, m, tasks) PROVE Planned'
  <2> DEFINE next == [milestones[m] EXCEPT !.tasks = @ \cup tasks]
  <2>1. next \in MilestoneRecord /\ next.status \in {"planned", "active"}
    BY <1>1, <1>3 DEF MilestoneLifecycleAppendTasks, MilestoneOpen, MilestoneRecord
  <2>2. commitMilestone(r, m, next, "milestone-append-task")
    BY <1>3 DEF MilestoneLifecycleAppendTasks
  <2> HIDE DEF next
  <2> QED BY <1>0, <2>1, <2>2, MilestoneChange DEF Proven
<1>4. ASSUME NEW tasks \in SUBSET Task, MilestoneLifecycleRemoveTasks(r, m, tasks) PROVE Planned'
  <2> DEFINE next == [milestones[m] EXCEPT !.tasks = @ \ tasks]
  <2>1. next \in MilestoneRecord /\ next.status \in {"planned", "active"}
    BY <1>1, <1>4 DEF MilestoneLifecycleRemoveTasks, MilestoneOpen, MilestoneRecord
  <2>2. commitMilestone(r, m, next, "milestone-remove-task")
    BY <1>4 DEF MilestoneLifecycleRemoveTasks
  <2> HIDE DEF next
  <2> QED BY <1>0, <2>1, <2>2, MilestoneChange DEF Proven
<1>5. CASE MilestoneLifecycleActivate(r, m)
  <2> DEFINE next == [milestones[m] EXCEPT !.status = "active"]
  <2>1. next \in MilestoneRecord /\ next.status = "active"
    BY <1>1 DEF MilestoneRecord, MilestoneStatuses
  <2>2. commitMilestone(r, m, next, "milestone-activate")
    BY <1>5 DEF MilestoneLifecycleActivate
  <2> HIDE DEF next
  <2> QED BY <1>0, <2>1, <2>2, MilestoneChange DEF Proven
<1>6. CASE MilestoneLifecycleComplete(r, m)
  <2> DEFINE next == [milestones[m] EXCEPT !.status = "completed", !.evidence = TRUE]
  <2>1. next \in MilestoneRecord /\ next.tasks = milestones[m].tasks
    BY <1>1 DEF MilestoneRecord, MilestoneStatuses
  <2>2. commitMilestone(r, m, next, "milestone-complete") /\ requireMilestoneTasksDone(m)
    BY <1>6 DEF MilestoneLifecycleComplete
  <2>3. milestones[m].tasks \subseteq Task
    BY <1>1 DEF MilestoneRecord
  <2> HIDE DEF next
  <2>4. Proven(next, row, authored)
    BY <2>1, <2>2, <2>3 DEF Proven, requireMilestoneTasksDone, Planned, CompletionHeld
  <2> QED BY <1>0, <2>1, <2>2, <2>4, MilestoneChange
<1>7. CASE MilestoneLifecycleArchive(r, m)
  <2> DEFINE next == [milestones[m] EXCEPT !.status = "archived"]
  <2>1. next \in MilestoneRecord /\ next.tasks = milestones[m].tasks
    BY <1>1 DEF MilestoneRecord, MilestoneStatuses
  <2>2. commitMilestone(r, m, next, "milestone-archive") /\ milestones[m].status = "completed"
    BY <1>7 DEF MilestoneLifecycleArchive
  <2> HIDE DEF next
  <2>3. Proven(next, row, authored)
    BY <1>1, <2>1, <2>2 DEF Proven
  <2> QED BY <1>0, <2>1, <2>2, <2>3, MilestoneChange
<1> QED BY <1>2, <1>3, <1>4, <1>5, <1>6, <1>7 DEF MilestoneRequest

LEMMA CreatePrepared ==
    ASSUME Planned, NEW r \in Request, NEW tasks \in SUBSET Task,
           \/ \E m \in Milestone : TrackLifecycleCreate(r, m, tasks)
           \/ MilestoneLifecycleCreate(r, tasks)
    PROVE  Planned'
<1> USE DEF TrackCallOK, ContentOK, IsTrackCall, IsMilestoneCall, IsCreate
<1>1. ASSUME NEW m \in Milestone, TrackLifecycleCreate(r, m, tasks) PROVE Planned'
  <2> DEFINE c == [phase |-> "prepared", entity |-> "create", kind |-> "track-create",
                   key |-> <<m, tasks>>, previous |-> None, next |-> NewTrack(m, tasks),
                   expect |-> None, role |-> TrackAuthority("track-create")]
  <2>1. req' = [req EXCEPT ![r] = c] /\ UNCHANGED <<milestones, tracks, row, authored, head>>
    BY <1>1 DEF TrackLifecycleCreate, Prepared
  <2>2. NewTrack(m, tasks) \in TrackRecord /\ Sound(NewTrack(m, tasks), row, authored)
    BY DEF NewTrack, TrackRecord, TrackStatuses, Sound
  <2>3. c \in Slots
    BY <2>2 DEF Slots, TrackCreates, TrackAuthority, RequestRoles
  <2>4. TrackCallOK(c, tracks) /\ ContentOK(c, row, authored)
    BY <2>2
  <2> HIDE DEF c, TrackCallOK, ContentOK
  <2> QED BY <2>1, <2>3, <2>4, SlotPlanned
<1>2. CASE MilestoneLifecycleCreate(r, tasks)
  <2> DEFINE c == [phase |-> "prepared", entity |-> "create", kind |-> "milestone-create",
                   key |-> tasks, previous |-> None, next |-> NewMilestone(tasks),
                   expect |-> None, role |-> TrackAuthority("milestone-create")]
  <2>1. req' = [req EXCEPT ![r] = c] /\ UNCHANGED <<milestones, tracks, row, authored, head>>
    BY <1>2 DEF MilestoneLifecycleCreate, Prepared
  <2>2. NewMilestone(tasks) \in MilestoneRecord /\ Proven(NewMilestone(tasks), row, authored)
    BY DEF NewMilestone, MilestoneRecord, MilestoneStatuses, Proven
  <2>3. c \in Slots
    BY <2>2 DEF Slots, MilestoneCreates, TrackAuthority, RequestRoles
  <2>4. TrackCallOK(c, tracks) /\ ContentOK(c, row, authored)
    BY <2>2
  <2> HIDE DEF c, TrackCallOK, ContentOK
  <2> QED BY <2>1, <2>3, <2>4, SlotPlanned
<1> QED BY <1>1, <1>2

-----------------------------------------------------------------------------
(* Dispatch.                                                               *)

\* A set of numbers that is not empty has a least element.
LEMMA Least == ASSUME NEW S \in SUBSET Nat, S # {} PROVE \E i \in S : \A j \in S : i <= j
<1> DEFINE R == {ss \in Nat \X Nat : ss[1] < ss[2]}
<1>1. IsWellFoundedOn(R, Nat)
  BY NatLessThanWellFounded DEF OpToRel
<1>2. \A i, j \in Nat : <<j, i>> \notin R => i <= j
  OBVIOUS
<1> HIDE DEF R
<1>3. PICK i \in S : \A j \in S : <<j, i>> \notin R
  BY <1>1, WFMin, Zenon
<1>4. \A j \in S : i <= j
  BY <1>2, <1>3
<1> QED BY <1>4

\* The Track a dispatch records itself in holds the Task and is not ended.
LEMMA FoundTrack ==
    ASSUME NEW t, nonterminalTrackForTask(t) # None
    PROVE  LET i == nonterminalTrackForTask(t)
           IN  /\ i \in TrackNo /\ tracks[i] # None /\ t \in tracks[i].tasks
               /\ tracks[i].status \in Nonterminal \cup {"accepted"}
<1> DEFINE found == nonterminalTrackForTaskExcluding(t, None)
<1>1. found \in SUBSET Nat
  BY Constants DEF nonterminalTrackForTaskExcluding, QuerySharedLifecycle, TrackNo
<1>2. found # {}
  BY DEF nonterminalTrackForTask
<1>3. \E i \in found : \A j \in found : i <= j
  BY <1>1, <1>2, Least
<1>4. nonterminalTrackForTask(t) \in found
  BY <1>2, <1>3 DEF nonterminalTrackForTask
<1> QED BY <1>4 DEF nonterminalTrackForTaskExcluding, QuerySharedLifecycle

LEMMA DispatchPlanned ==
    ASSUME Planned, NEW r \in Request, NEW t \in Task, TaskExecutionDispatch(r, t)
    PROVE  Planned'
<1> DEFINE c == [phase |-> "persisted", kind |-> "track-dispatch", task |-> t]
<1>1. /\ row[t] \in {"none", "abandoned"} /\ row' = [row EXCEPT ![t] = "running"]
      /\ authored[t].status = "planned"
      /\ req' = [req EXCEPT ![r] = c] /\ UNCHANGED <<milestones, tracks, authored, head>>
  BY DEF TaskExecutionDispatch
<1>2. TypeEnvironment' /\ CompletionHeld' /\ Forward(row, authored, row', authored')
  BY <1>1 DEF Planned, Typed, TypeEnvironment, Rows, CompletionHeld, Forward, Landed
<1>3. TypeEntities'
  BY <1>1 DEF Planned, Typed, TypeEntities
<1>4. EntitiesOK'
  BY <1>1, <1>2, ContentForward DEF EntitiesOK, Planned, Typed, TypeEntities
<1>5. c \in Slots /\ TrackCallOK(c, tracks) /\ ContentOK(c, row', authored')
  <2>1. row'[t] = "running"
    BY <1>1 DEF Planned, Typed, TypeEnvironment
  <2> QED BY <2>1 DEF Slots, Persisted, TrackCallOK, ContentOK, IsTrackCall, IsMilestoneCall, IsCreate
<1> HIDE DEF c
<1>6. TypeRequests'
  BY <1>1, <1>5 DEF TypeRequests, Planned, Typed
<1>7. RequestsOK'
  <2> SUFFICES ASSUME NEW q \in Request
               PROVE  TrackCallOK(req'[q], tracks') /\ ContentOK(req'[q], row', authored')
    BY DEF RequestsOK
  <2>1. CASE q = r
    BY <1>1, <1>5, <2>1 DEF Planned, Typed, TypeRequests
  <2>2. CASE q # r
    <3>1. req'[q] = req[q] /\ req[q] \in Slots
      BY <1>1, <2>2 DEF Planned, Typed, TypeRequests
    <3>2. TrackCallOK(req[q], tracks) /\ ContentOK(req[q], row, authored)
      BY DEF Planned, RequestsOK
    <3> QED BY <1>1, <1>2, <3>1, <3>2, ContentForward
  <2> QED BY <2>1, <2>2
<1> QED BY <1>2, <1>3, <1>4, <1>6, <1>7 DEF Planned, Typed

LEMMA ReturnPlanned ==
    ASSUME Planned, NEW r \in Request, Return(r),
           UNCHANGED <<milestones, tracks, row, authored, head>>
    PROVE  Planned'
BY SlotPlanned, IdleFits DEF Return

LEMMA RecordPlanned ==
    ASSUME Planned, NEW r \in Request, recordTrackTaskDispatch(r)
    PROVE  Planned'
<1> DEFINE t == req[r].task
           i == nonterminalTrackForTask(t)
           marked == [tracks[i] EXCEPT !.dispatched = @ \cup {t}, !.review = None, !.revision = @ + 1]
           next == [marked EXCEPT !.status = trackStatusFromTasks(marked)]
           c == [phase |-> "prepared", entity |-> "track", kind |-> "track-dispatch", key |-> i,
                 previous |-> tracks[i], next |-> next, role |-> TrackAuthority("track-dispatch"),
                 expect |-> None]
<1>1. UNCHANGED <<milestones, tracks, row, authored, head>> /\ req[r].phase = "persisted"
  BY DEF recordTrackTaskDispatch, StoreFrame
<1>2. CASE Return(r)
  BY <1>1, <1>2, ReturnPlanned
<1>3. CASE ~Return(r)
  <2>1. /\ i # None /\ tracks[i].status # "accepted" /\ req' = [req EXCEPT ![r] = c]
    BY <1>3 DEF recordTrackTaskDispatch
  <2>2. t \in Task /\ row[t] # "none"
    BY <1>1, SlotShape DEF Planned, Typed, TypeRequests, RequestsOK, ContentOK, Persisted
  <2>3. /\ i \in TrackNo /\ tracks[i] # None /\ t \in tracks[i].tasks
        /\ tracks[i].status \in Nonterminal
    BY <2>1, FoundTrack
  <2> HIDE DEF i, t
  <2>4. tracks[i] \in TrackRecord /\ Sound(tracks[i], row, authored) /\ tracks[i].revision + 1 \in Nat
    BY <2>3, StoredTrack
  <2>5. /\ marked \in TrackRecord /\ marked.tasks = tracks[i].tasks
        /\ marked.dispatched = tracks[i].dispatched \cup {t}
        /\ marked.revision = tracks[i].revision + 1
    BY <2>2, <2>4 DEF TrackRecord
  <2> HIDE DEF marked
  <2>6. trackStatusFromTasks(marked) \in {"planned", "active", "ready"}
    BY FromTasks
  <2>7. /\ next \in TrackRecord /\ next.tasks = tracks[i].tasks
        /\ next.dispatched = tracks[i].dispatched \cup {t}
        /\ next.revision = tracks[i].revision + 1
        /\ next.status \in {"planned", "active", "ready"}
    BY <2>5, <2>6 DEF TrackRecord, TrackStatuses
  <2> HIDE DEF next
  <2>8. ChangeOf(tracks[i], next)
    BY <2>3, <2>7 DEF ChangeOf, Nonterminal
  <2>9. Sound(next, row, authored)
    BY <2>2, <2>3, <2>4, <2>7 DEF Sound
  <2>10. Since(tracks[i], tracks[i])
    BY <2>4 DEF Since, TrackRecord
  <2>11. c \in Slots
    BY <2>3, <2>4, <2>7 DEF Slots, TrackCalls, TrackKinds, TrackAuthority, RequestRoles
  <2>12. TrackCallOK(c, tracks) /\ ContentOK(c, row, authored)
    BY <2>3, <2>8, <2>9, <2>10 DEF TrackCallOK, ContentOK, IsTrackCall, IsMilestoneCall, IsCreate
  <2> HIDE DEF c
  <2> QED BY <1>1, <2>1, <2>11, <2>12, SlotPlanned
<1> QED BY <1>2, <1>3

-----------------------------------------------------------------------------
(* The store.                                                              *)

\* One write of a Track, as the guarded UPDATE makes it.
Successor(current, next) ==
    /\ \/ next.revision = current.revision + 1
       \/ current.status = "review_pending" /\ next = [current EXCEPT !.status = "accepted"]
    /\ current.dispatched \subseteq next.dispatched
    /\ current.status # "cancelled"

\* stateCAS lets a Track change through only over the row it was made from, up
\* to an acceptance of that row.
LEMMA WriteSucceeds ==
    ASSUME Planned, NEW r \in Request, StoreWrites(r), IsTrackCall(req[r])
    PROVE  /\ req[r] \in TrackCalls /\ tracks[req[r].key] \in TrackRecord
           /\ Successor(tracks[req[r].key], req[r].next)
<1> DEFINE c == req[r]
           current == tracks[c.key]
<1>1. c \in TrackCalls /\ TrackCallOK(c, tracks) /\ c.phase = "admitted" /\ stateCAS(c)
  BY SlotShape DEF StoreWrites, Planned, Typed, TypeRequests, RequestsOK
<1>2. /\ c.previous \in TrackRecord /\ c.next \in TrackRecord /\ c.entity = "track" /\ c.key \in TrackNo
      /\ c.expect \in TrackRecord
  BY <1>1 DEF TrackCalls, TrackCallOK
<1>3. /\ current # None /\ Since(c.previous, current) /\ ChangeOf(c.previous, c.next)
      /\ Admissible(c, c.expect)
  BY <1>1 DEF TrackCallOK
<1>4. current \in TrackRecord
  BY <1>2, <1>3 DEF Planned, Typed, TypeEntities
<1>5. /\ current.revision = c.previous.revision
      /\ c.previous.status # c.next.status => current = c.expect
  <2>1. Current(c) = current
    BY <1>2 DEF Current
  <2>2. CASE IsEvent(c)
    BY <1>1, <2>1, <2>2 DEF stateCAS
  <2>3. CASE ~IsEvent(c)
    BY <1>1, <1>2, <2>1, <2>3 DEF stateCAS, IsEvent
  <2> QED BY <2>2, <2>3
<1>6. c.previous.status # c.next.status
        => c.expect.status = c.previous.status /\ c.next.status # "archived"
  BY <1>2, <1>3 DEF Admissible, IsEvent, validateSharedLifecycleEventKind
<1> HIDE DEF c, current
<1>7. \/ current = c.previous
      \/ c.previous.status = "review_pending" /\ current = [c.previous EXCEPT !.status = "accepted"]
  BY <1>3, <1>5 DEF Since
<1>8. current.dispatched = c.previous.dispatched
  BY <1>2, <1>7 DEF TrackRecord
<1>9. c.next.status # "archived"
  BY <1>3, <1>6 DEF ChangeOf
<1>10. current.status # "cancelled"
  BY <1>2, <1>3, <1>7, <1>9 DEF ChangeOf, TrackRecord
<1>11. \/ c.next.revision = current.revision + 1
       \/ current.status = "review_pending" /\ c.next = [current EXCEPT !.status = "accepted"]
  <2>1. CASE c.next.revision = c.previous.revision + 1
    BY <1>5, <2>1
  <2>2. CASE c.previous.status = "review_pending" /\ c.next = [c.previous EXCEPT !.status = "accepted"]
    <3>1. c.next.status = "accepted"
      BY <1>2, <2>2 DEF TrackRecord
    <3>2. current.status = "review_pending"
      BY <1>5, <1>6, <2>2, <3>1
    <3>3. current = c.previous
      BY <1>2, <1>7, <3>2 DEF TrackRecord
    <3> QED BY <2>2, <3>2, <3>3
  <2> QED BY <1>3, <1>9, <2>1, <2>2 DEF ChangeOf
<1>12. Successor(current, c.next)
  BY <1>3, <1>8, <1>10, <1>11 DEF Successor, ChangeOf
<1> QED BY <1>1, <1>4, <1>12 DEF c, current

LEMMA SinceSuccessor ==
    ASSUME NEW previous \in TrackRecord, NEW current \in TrackRecord, NEW next \in TrackRecord,
           Since(previous, current), Successor(current, next)
    PROVE  Since(previous, next)
<1>0. previous.revision \in Nat /\ current.revision \in Nat /\ next.revision \in Nat
  BY DEF TrackRecord
<1>1. CASE next.revision = current.revision + 1
  BY <1>0, <1>1 DEF Since
<1>2. CASE current.status = "review_pending" /\ next = [current EXCEPT !.status = "accepted"]
  <2>1. next.revision = current.revision
    BY <1>2 DEF TrackRecord
  <2>2. ASSUME previous.revision = current.revision PROVE previous = current
    BY <1>2, <2>2 DEF Since, TrackRecord
  <2> QED BY <1>0, <1>2, <2>1, <2>2 DEF Since
<1> QED BY <1>1, <1>2 DEF Successor

LEMMA TrackWritten ==
    ASSUME Planned, NEW r \in Request, NEW i \in TrackNo, NEW next \in TrackRecord,
           Sound(next, row, authored), tracks' = [tracks EXCEPT ![i] = next], Return(r),
           tracks[i] # None => Successor(tracks[i], next),
           UNCHANGED <<milestones, row, authored, head>>
    PROVE  Planned'
<1>1. TypeEnvironment' /\ CompletionHeld' /\ TypeEntities'
  BY DEF Planned, Typed, TypeEnvironment, TypeEntities, CompletionHeld
<1>2. TypeRequests'
  BY IdleFits DEF Planned, Typed, TypeRequests, Return
<1>3. EntitiesOK'
  BY DEF Planned, EntitiesOK, Typed, TypeEntities
<1>4. RequestsOK'
  <2> SUFFICES ASSUME NEW q \in Request
               PROVE  TrackCallOK(req'[q], tracks') /\ ContentOK(req'[q], row', authored')
    BY DEF RequestsOK
  <2>1. CASE q = r
    BY <2>1, IdleFits DEF Return, Planned, Typed, TypeRequests
  <2>2. CASE q # r
    <3>1. req'[q] = req[q] /\ req[q] \in Slots
      BY <2>2 DEF Return, Planned, Typed, TypeRequests
    <3>2. TrackCallOK(req[q], tracks) /\ ContentOK(req[q], row, authored)
      BY DEF Planned, RequestsOK
    <3>3. ASSUME IsTrackCall(req[q])
          PROVE  tracks'[req[q].key] # None /\ Since(req[q].previous, tracks'[req[q].key])
      <4>1. req[q].key \in TrackNo /\ req[q].previous \in TrackRecord
        BY <3>1, <3>3, SlotShape DEF TrackCalls
      <4>2. tracks[req[q].key] # None /\ Since(req[q].previous, tracks[req[q].key])
        BY <3>2, <3>3 DEF TrackCallOK
      <4>3. CASE req[q].key = i
        <5>1. tracks[i] \in TrackRecord /\ tracks'[i] = next
          BY <4>2, <4>3 DEF Planned, Typed, TypeEntities
        <5> QED BY <4>1, <4>2, <4>3, <5>1, SinceSuccessor, Constants
      <4>4. CASE req[q].key # i
        BY <4>1, <4>2, <4>4 DEF Planned, Typed, TypeEntities
      <4> QED BY <4>3, <4>4
    <3>4. TrackCallOK(req[q], tracks')
      BY <3>2, <3>3 DEF TrackCallOK
    <3> QED BY <3>1, <3>2, <3>4
  <2> QED BY <2>1, <2>2
<1> QED BY <1>1, <1>2, <1>3, <1>4 DEF Planned, Typed

LEMMA MilestoneWritten ==
    ASSUME Planned, NEW r \in Request, NEW m \in Milestone, NEW next \in MilestoneRecord,
           Proven(next, row, authored), milestones' = [milestones EXCEPT ![m] = next], Return(r),
           UNCHANGED <<tracks, row, authored, head>>
    PROVE  Planned'
<1>1. TypeEnvironment' /\ CompletionHeld' /\ TypeEntities'
  BY DEF Planned, Typed, TypeEnvironment, TypeEntities, CompletionHeld
<1>2. TypeRequests'
  BY IdleFits DEF Planned, Typed, TypeRequests, Return
<1>3. EntitiesOK'
  BY DEF Planned, EntitiesOK, Typed, TypeEntities
<1>4. RequestsOK'
  BY IdleFits DEF Planned, RequestsOK, Typed, TypeRequests, Return
<1> QED BY <1>1, <1>2, <1>3, <1>4 DEF Planned, Typed

LEMMA StorePlanned ==
    ASSUME Planned, NEW r \in Request, StoreStep(r) PROVE Planned'
<1>0. req[r] \in Slots /\ TrackCallOK(req[r], tracks) /\ ContentOK(req[r], row, authored)
  BY DEF Planned, Typed, TypeRequests, RequestsOK
<1>1. CASE StoreRefuses(r) \/ StoreConflicts(r)
  BY <1>1, ReturnPlanned DEF StoreRefuses, StoreConflicts, StoreFrame
<1>2. CASE StoreAdmits(r)
  <2> DEFINE call == req[r]
             c == [req[r] EXCEPT !.phase = "admitted", !.expect = Current(req[r])]
  <2>1. /\ call.phase = "prepared" /\ call.entity # "create" /\ Admissible(call, Current(call))
        /\ UNCHANGED <<milestones, tracks, row, authored, head>>
    BY <1>2 DEF StoreAdmits, StoreFrame, reuseSharedMutation
  <2>2. CASE Return(r)
    BY <2>1, <2>2, ReturnPlanned
  <2>3. CASE ~Return(r)
    <3>1. req' = [req EXCEPT ![r] = c]
      BY <1>2, <2>3 DEF StoreAdmits, reuseSharedMutation, Planned, Typed, TypeRequests
    <3>2. IsTrackCall(call) \/ IsMilestoneCall(call)
      BY <1>0, <2>1, SlotShape DEF IsCreate
    <3>3. CASE IsTrackCall(call)
      <4>1. call \in TrackCalls
        BY <1>0, <3>3, SlotShape
      <4>2. Current(call) \in TrackRecord
        BY <1>0, <3>3, <4>1 DEF Current, TrackCallOK, TrackCalls, Planned, Typed, TypeEntities
      <4>3. c \in TrackCalls
        BY <4>1, <4>2 DEF TrackCalls
      <4>4. /\ c.next = call.next /\ c.previous = call.previous /\ c.key = call.key
            /\ c.entity = "track" /\ c.kind = call.kind /\ c.phase = "admitted"
            /\ c.expect = Current(call) /\ call.entity = "track"
        BY <4>1 DEF TrackCalls
      <4> HIDE DEF c
      <4>5. Admissible(c, c.expect)
        BY <2>1, <4>4 DEF Admissible, IsEvent
      <4>6. TrackCallOK(c, tracks) /\ ContentOK(c, row, authored)
        BY <1>0, <3>3, <4>2, <4>4, <4>5
           DEF TrackCallOK, ContentOK, IsTrackCall, IsMilestoneCall, IsCreate
      <4> QED BY <2>1, <3>1, <4>3, <4>6, SlotPlanned DEF Slots
    <3>4. CASE IsMilestoneCall(call)
      <4>1. call \in MilestoneCalls
        BY <1>0, <3>4, SlotShape
      <4>2. Current(call) \in {None} \cup MilestoneRecord
        BY <4>1 DEF Current, MilestoneCalls, Planned, Typed, TypeEntities
      <4>3. c \in MilestoneCalls
        BY <4>1, <4>2 DEF MilestoneCalls
      <4>4. c.next = call.next /\ c.entity = "milestone" /\ c.phase = "admitted"
        BY <4>1 DEF MilestoneCalls
      <4> HIDE DEF c
      <4>5. TrackCallOK(c, tracks) /\ ContentOK(c, row, authored)
        BY <1>0, <3>4, <4>4 DEF TrackCallOK, ContentOK, IsTrackCall, IsMilestoneCall, IsCreate
      <4> QED BY <2>1, <3>1, <4>3, <4>5, SlotPlanned DEF Slots
    <3> QED BY <3>2, <3>3, <3>4
  <2> QED BY <2>2, <2>3
<1>3. CASE StoreWrites(r)
  <2>0. IsTrackCall(req[r]) \/ IsMilestoneCall(req[r])
    BY <1>0, <1>3, SlotShape DEF StoreWrites
  <2>1. CASE IsTrackCall(req[r])
    <3>1. /\ req[r].key \in TrackNo /\ req[r].next \in TrackRecord /\ req[r].entity = "track"
          /\ Successor(tracks[req[r].key], req[r].next)
      BY <1>3, <2>1, WriteSucceeds DEF TrackCalls
    <3>2. /\ tracks' = [tracks EXCEPT ![req[r].key] = req[r].next] /\ Return(r)
          /\ UNCHANGED <<milestones, row, authored, head>>
      BY <1>3, <3>1 DEF StoreWrites, StoreFrame
    <3>3. Sound(req[r].next, row, authored)
      BY <1>0, <2>1 DEF ContentOK
    <3> QED BY <3>1, <3>2, <3>3, TrackWritten
  <2>2. CASE IsMilestoneCall(req[r])
    <3>1. /\ req[r].key \in Milestone /\ req[r].next \in MilestoneRecord
          /\ req[r].entity = "milestone"
      BY <1>0, <2>2, SlotShape DEF MilestoneCalls
    <3>2. /\ milestones' = [milestones EXCEPT ![req[r].key] = req[r].next] /\ Return(r)
          /\ UNCHANGED <<tracks, row, authored, head>>
      BY <1>3, <3>1 DEF StoreWrites, StoreFrame
    <3>3. Proven(req[r].next, row, authored)
      BY <1>0, <2>2 DEF ContentOK
    <3> QED BY <3>1, <3>2, <3>3, MilestoneWritten
  <2> QED BY <2>0, <2>1, <2>2
<1>4. CASE CommitSharedLifecycleCreate(r)
  <2>1. /\ IsCreate(req[r]) /\ Return(r) /\ UNCHANGED <<row, authored, head>>
    BY <1>4 DEF CommitSharedLifecycleCreate, IsCreate, StoreFrame
  <2>2. CASE UNCHANGED <<milestones, tracks>>
    BY <2>1, <2>2, ReturnPlanned
  <2>3. ASSUME req[r].kind = "track-create", NEW i \in TrackNo, tracks[i] = None,
               tracks' = [tracks EXCEPT ![i] = req[r].next], UNCHANGED milestones
        PROVE  Planned'
    <3>1. req[r].next \in TrackRecord /\ Sound(req[r].next, row, authored)
      BY <1>0, <2>1, <2>3, SlotShape DEF ContentOK, TrackCreates
    <3> QED BY <2>1, <2>3, <3>1, TrackWritten
  <2>4. ASSUME req[r].kind = "milestone-create", NEW m \in Milestone,
               milestones' = [milestones EXCEPT ![m] = req[r].next], UNCHANGED tracks
        PROVE  Planned'
    <3>1. req[r].next \in MilestoneRecord /\ Proven(req[r].next, row, authored)
      BY <1>0, <2>1, <2>4, SlotShape DEF ContentOK, MilestoneCreates
    <3> QED BY <2>1, <2>4, <3>1, MilestoneWritten
  <2> QED BY <1>4, <2>2, <2>3, <2>4 DEF CommitSharedLifecycleCreate
<1>5. CASE recordTrackTaskDispatch(r)
  BY <1>5, RecordPlanned
<1> QED BY <1>1, <1>2, <1>3, <1>4, <1>5 DEF StoreStep

LEMMA CrashPlanned == ASSUME Planned, Crash \/ UNCHANGED vars PROVE Planned'
<1>1. UNCHANGED <<milestones, tracks, row, authored, head>>
  BY DEF Crash, vars
<1>2. TypeEnvironment' /\ CompletionHeld' /\ TypeEntities' /\ EntitiesOK'
  BY <1>1 DEF Planned, Typed, TypeEnvironment, TypeEntities, CompletionHeld, EntitiesOK
<1>3. TypeRequests' /\ RequestsOK'
  BY <1>1, IdleFits DEF Crash, vars, Planned, Typed, TypeRequests, RequestsOK
<1> QED BY <1>2, <1>3 DEF Planned, Typed

LEMMA NextPlanned == Planned /\ [Next]_vars => Planned'
BY CreatePrepared, TrackRequestPlanned, MilestoneRequestPlanned, DispatchPlanned, StorePlanned,
   EnvironmentPlanned, CrashPlanned DEF Next

-----------------------------------------------------------------------------
(* Theorems.                                                               *)

\* An accepted Track covers exactly Tasks that have landed, at the contract
\* revisions its review recorded, however submissions, acceptances, membership
\* changes and dispatches interleave and whenever the gateway dies.
THEOREM AcceptanceIsProven == Spec => []AcceptedIsProven
<1>1. Planned => AcceptedIsProven
  BY DEF Planned, EntitiesOK, Sound, Landed, AcceptedIsProven
<1> QED BY <1>1, InitPlanned, NextPlanned, PTL DEF Spec

\* A completed or archived Milestone holds Tasks, all of them completed, each
\* executed to the end or never executed (non_code), whatever membership change,
\* dispatch or archiving was under way when it completed.
THEOREM CompletionIsProven == Spec => []CompletionProven
<1>1. Planned => CompletionProven
  BY DEF Planned, EntitiesOK, Proven, CompletionProven
<1> QED BY <1>1, InitPlanned, NextPlanned, PTL DEF Spec

LEMMA CommitFrame ==
    ASSUME NEW r, NEW key, NEW next, NEW kind,
           \/ commitTrackContent(r, key, next, kind) \/ commitTrackEvent(r, key, next, kind)
           \/ commitMilestone(r, key, next, kind)
    PROVE  tracks' = tracks
BY DEF commitTrackContent, commitTrackEvent, commitMilestone, Prepared

\* A stored Track changes only by a write that succeeds it.
LEMMA TracksStep ==
    ASSUME Planned, [Next]_vars, NEW i \in TrackNo, tracks[i] # None
    PROVE  tracks'[i] = tracks[i] \/ (tracks'[i] \in TrackRecord /\ Successor(tracks[i], tracks'[i]))
<1>1. ASSUME NEW r \in Request, StoreStep(r)
      PROVE  tracks'[i] = tracks[i] \/ (tracks'[i] \in TrackRecord /\ Successor(tracks[i], tracks'[i]))
  <2>1. CASE StoreWrites(r)
    <3>0. IsTrackCall(req[r]) \/ IsMilestoneCall(req[r])
      BY <2>1, SlotShape DEF StoreWrites, Planned, Typed, TypeRequests
    <3>1. CASE IsMilestoneCall(req[r])
      BY <2>1, <3>1 DEF StoreWrites, IsMilestoneCall
    <3>2. CASE IsTrackCall(req[r])
      <4>1. /\ tracks' = [tracks EXCEPT ![req[r].key] = req[r].next]
            /\ req[r].next \in TrackRecord /\ Successor(tracks[req[r].key], req[r].next)
        BY <2>1, <3>2, WriteSucceeds DEF StoreWrites, IsTrackCall, TrackCalls
      <4> QED BY <4>1 DEF Planned, Typed, TypeEntities
    <3> QED BY <3>0, <3>1, <3>2
  <2>2. CASE CommitSharedLifecycleCreate(r)
    BY <2>2 DEF CommitSharedLifecycleCreate, Planned, Typed, TypeEntities
  <2>3. CASE StoreRefuses(r) \/ StoreConflicts(r) \/ StoreAdmits(r) \/ recordTrackTaskDispatch(r)
    BY <2>3 DEF StoreRefuses, StoreConflicts, StoreAdmits, reuseSharedMutation, recordTrackTaskDispatch
  <2> QED BY <1>1, <2>1, <2>2, <2>3 DEF StoreStep
<1>2. CASE \E r \in Request, m \in Milestone, tasks \in SUBSET Task : TrackLifecycleCreate(r, m, tasks)
  BY <1>2 DEF TrackLifecycleCreate, Prepared
<1>3. ASSUME NEW r \in Request, NEW j \in TrackNo, TrackRequest(r, j) PROVE tracks' = tracks
  <2>1. ASSUME NEW tasks \in SUBSET Task,
               \/ TrackLifecycleUpdate(r, j, tasks) \/ TrackLifecycleAppendTasks(r, j, tasks)
               \/ TrackLifecycleRemoveTasks(r, j, tasks)
        PROVE  tracks' = tracks
    BY <2>1, CommitFrame DEF TrackLifecycleUpdate, TrackLifecycleAppendTasks,
       TrackLifecycleRemoveTasks, mutateTrackMembership
  <2>2. CASE \/ TrackLifecycleCancel(r, j) \/ TrackLifecycleSubmit(r, j)
             \/ TrackLifecycleAccept(r, j) \/ TrackLifecycleArchive(r, j)
    BY <2>2, CommitFrame DEF TrackLifecycleCancel, TrackLifecycleSubmit, TrackLifecycleAccept,
       TrackLifecycleArchive
  <2> QED BY <1>3, <2>1, <2>2 DEF TrackRequest
<1>4. CASE \E r \in Request, tasks \in SUBSET Task : MilestoneLifecycleCreate(r, tasks)
  BY <1>4 DEF MilestoneLifecycleCreate, Prepared
<1>5. ASSUME NEW r \in Request, NEW m \in Milestone, MilestoneRequest(r, m) PROVE tracks' = tracks
  BY <1>5, CommitFrame DEF MilestoneRequest, MilestoneLifecycleUpdate,
     MilestoneLifecycleAppendTasks, MilestoneLifecycleRemoveTasks, MilestoneLifecycleActivate,
     MilestoneLifecycleComplete, MilestoneLifecycleArchive
<1>6. CASE \/ \E r \in Request, t \in Task : TaskExecutionDispatch(r, t)
           \/ \E t \in Task : TaskStep(t)
           \/ BranchMoves \/ Crash \/ UNCHANGED vars
  BY <1>6 DEF TaskExecutionDispatch, TaskStep, TaskLands, TaskCompletes, TaskCompletesNonCode,
     TaskArchives, TaskResets, TaskRevised, BranchMoves, EnvFrame, Crash, vars
<1> QED BY <1>1, <1>2, <1>3, <1>4, <1>5, <1>6 DEF Next

\* A recorded dispatch is never lost, a Track is cancelled only when nothing in
\* it was started, and nothing prepared meanwhile reopens a cancelled Track:
\* stateCAS compares revisions, and a revision names one payload.
THEOREM DispatchesAreKept == Spec => DispatchesKept
<1>1. ASSUME Planned, Planned', [Next]_vars, NEW i \in TrackNo, tracks[i] # None
      PROVE  /\ tracks[i].dispatched \subseteq tracks'[i].dispatched
             /\ tracks'[i].status = "cancelled" => tracks'[i].dispatched = {}
             /\ tracks[i].status = "cancelled" => tracks'[i] = tracks[i]
  <2>1. tracks'[i] = tracks[i] \/ (tracks'[i] \in TrackRecord /\ Successor(tracks[i], tracks'[i]))
    BY <1>1, TracksStep
  <2>2. tracks'[i] # None
    BY <1>1, <2>1, Constants
  <2>3. Sound(tracks'[i], row', authored')
    BY <1>1, <2>2 DEF Planned, EntitiesOK
  <2> QED BY <2>1, <2>3 DEF Successor, Sound
<1>2. Planned /\ Planned' /\ [Next]_vars =>
        /\ [\A i \in TrackNo : tracks[i] # None =>
              tracks[i].dispatched \subseteq tracks'[i].dispatched]_vars
        /\ [\A i \in TrackNo : tracks[i] # None =>
              /\ tracks'[i].status = "cancelled" => tracks'[i].dispatched = {}
              /\ tracks[i].status = "cancelled" => tracks'[i] = tracks[i]]_vars
  BY <1>1
<1> QED BY <1>2, InitPlanned, NextPlanned, PTL
        DEF Spec, DispatchesKept, DispatchHistoryKept, CancelledNeverStarted

=============================================================================
