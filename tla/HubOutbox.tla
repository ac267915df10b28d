------------------------------ MODULE HubOutbox ------------------------------
(***************************************************************************)
(* Publication of the Shared store to the Hub.                             *)
(*                                                                         *)
(* Every Shared mutation leaves a row in hub_outbox.  One worker polls the *)
(* rows that are due and publishes them to the Hub, a Git branch that      *)
(* other Gateways push to as well; a second goroutine publishes project    *)
(* retirements.  A publication is up to three Hub transactions: the        *)
(* evidence of the revision, the evidence of the lifecycle events, and the *)
(* current file of the entity.  A transaction takes the Hub lock without   *)
(* waiting for it, fetches, computes the new tree, pushes (refused unless  *)
(* it is a fast-forward) and asks the remote whether the push is there.    *)
(*                                                                         *)
(* Abstractions.  The payload of an entity is the number of the commit     *)
(* that wrote it (which orders updated_at) and its revision; the wall      *)
(* clock does not go back.  There is one project.  A commit of the Hub is  *)
(* a number.  Other Gateways push to other paths only.  "rule" stands for  *)
(* the publishers of Rules, ADRs and Milestones, which have one body.      *)
(* Payload validation, path checks and the migration of legacy Hub         *)
(* configurations are left out, and so is the one-off reconciliation of    *)
(* Track GTW-TRK1.                                                         *)
(***************************************************************************)
EXTENDS Naturals, Sequences, FiniteSets

CONSTANTS
  Entities,       \* the Shared entities of the project
  Kind,           \* entity -> its kind
  Rev,            \* entity -> the revision its n-th commit leaves
  StatusChanges,  \* entity -> the commits that append a lifecycle event
  Workloads,      \* what is mutated in one behaviour
  Batch,          \* rows read by one poll (32)
  MaxSyncs,       \* bound on the synchronizations of the retirement
  MaxFaults,      \* bound on errors and crashes
  MaxForeign      \* bound on the pushes of other Gateways

Kinds == {"task", "track", "rule", "configuration"}

(* The kinds with revision history and lifecycle events.                   *)
Versioned == {"task", "track", "rule"}

ASSUME EntityAssumption ==
  /\ Kind \in [Entities -> Kinds]
  /\ Rev \in [Entities -> Seq(Nat \ {0})]
  /\ StatusChanges \in [Entities -> SUBSET Nat]
  /\ {"project", "retirement"} \cap Entities = {}
  /\ Workloads \subseteq SUBSET (Entities \cup {"project"})
  /\ \A e \in Entities : \A n \in DOMAIN Rev[e] :
       \A m \in 1 .. n : Rev[e][m] <= Rev[e][n]

ASSUME BoundAssumption ==
  /\ Batch \in Nat \ {0}
  /\ MaxSyncs \in Nat
  /\ MaxFaults \in Nat
  /\ MaxForeign \in Nat

(* An outbox row is named by the entity and the commit it publishes; the   *)
(* retirement of the project is published by a row of its own.             *)
Retirement == <<"retirement", 1>>

RowIds == (Entities \X (Nat \ {0})) \cup {Retirement}

Hubs ==
  [file : [Entities -> Nat], revs : SUBSET (Entities \X Nat),
   events : SUBSET (Entities \X Nat), marker : BOOLEAN]

EmptyHub ==
  [file |-> [e \in Entities |-> 0], revs |-> {}, events |-> {},
   marker |-> FALSE]

Procs == {"worker", "sync"}

Stages == {"revision", "events", "file"}

Outcomes == {"published", "cancelled", "retry"}

Local ==
  [pc : {"idle", "stage", "mutate", "push", "verify", "mark"},
   cur : RowIds, rest : SUBSET RowIds, stage : Stages,
   evs : SUBSET (Entities \X Nat), base : Nat, tree : Hubs, out : Outcomes]

Resting ==
  [pc |-> "idle", cur |-> Retirement, rest |-> {}, stage |-> "file",
   evs |-> {}, base |-> 0, tree |-> EmptyHub, out |-> "retry"]

VARIABLES
  active,    \* the entities of this behaviour; "project" may be retired
  shared,    \* Shared store: entity -> number of commits
  retired,   \* the row of shared_project_retirements
  created,   \* hub_outbox: row -> its place in the order of created_at
  row,       \* hub_outbox: row -> "pending", "published", "cancelled"
  due,       \* the rows whose next_attempt_at has passed
  hub,       \* the tree of the Hub branch
  head,      \* the commit of the Hub branch
  lock,      \* holder of the Hub lock, or "free"
  proc,      \* the worker and the retirement synchronization
  syncs,     \* synchronizations so far
  faults,    \* errors and crashes so far
  foreign    \* pushes of other Gateways so far

store == <<shared, retired, created, row, due>>
remote == <<hub, head>>
bounds == <<syncs, faults, foreign>>
vars == <<active, store, remote, lock, proc, bounds>>

Init ==
  /\ active \in Workloads
  /\ shared = [e \in Entities |-> 0]
  /\ retired = FALSE
  /\ created = << >>
  /\ row = << >>
  /\ due = {}
  /\ hub = EmptyHub
  /\ head = 0
  /\ lock = "free"
  /\ proc = [p \in Procs |-> Resting]
  /\ syncs = 0
  /\ faults = 0
  /\ foreign = 0

Pending(r) == r \in DOMAIN row /\ row[r] = "pending"

----------------------------------------------------------------------------
(* The Shared store.                                                       *)

(* A new row is the newest.                                                *)
Timed(r) ==
  [x \in DOMAIN row \cup {r} |->
     IF x = r THEN Cardinality(DOMAIN row) + 1 ELSE created[x]]

(* A mutation commits the entity and its outbox row in one batch; a        *)
(* configuration only while there is no retirement.                        *)
Commit(e) ==
  LET r == <<e, shared[e] + 1>>
  IN /\ e \in active
     /\ shared[e] < Len(Rev[e])
     /\ Kind[e] = "configuration" => ~retired
     /\ shared' = [shared EXCEPT ![e] = @ + 1]
     /\ created' = Timed(r)
     /\ row' = [x \in DOMAIN row \cup {r} |->
                  IF x = r THEN "pending" ELSE row[x]]
     /\ due' = due \cup {r}
     /\ UNCHANGED <<active, retired, remote, lock, proc, bounds>>

IsConfiguration(r) == r # Retirement /\ Kind[r[1]] = "configuration"

(* retireSharedProject: one batch records the retirement, cancels the      *)
(* pending configurations and adds the outbox row.                         *)
Retire ==
  /\ "project" \in active /\ ~retired
  /\ retired' = TRUE
  /\ created' = Timed(Retirement)
  /\ row' = [x \in DOMAIN row \cup {Retirement} |->
               IF x = Retirement THEN "pending"
               ELSE IF IsConfiguration(x) /\ row[x] = "pending"
                    THEN "cancelled" ELSE row[x]]
  /\ due' = due \cup {Retirement}
  /\ UNCHANGED <<active, shared, remote, lock, proc, bounds>>

(* The time of the next attempt comes.                                     *)
BecomesDue(r) ==
  /\ Pending(r)
  /\ r \notin due
  /\ due' = due \cup {r}
  /\ UNCHANGED <<active, shared, retired, created, row, remote, lock, proc,
                 bounds>>

----------------------------------------------------------------------------
(* Processes.                                                              *)

At(p, pc) == proc[p].pc = pc

Entry(p) == proc[p].cur

DueRows == {r \in due : Pending(r)}

(* Pending rows that are due, the oldest Batch of them.                    *)
PendingOutbox ==
  {r \in DueRows :
     Cardinality({q \in DueRows : created[q] <= created[r]}) <= Batch}

(* Evidence is published for the versioned kinds only.                     *)
FirstStage(r) ==
  IF r # Retirement /\ Kind[r[1]] \in Versioned THEN "revision" ELSE "file"

(* The oldest row of a batch is delivered next.  A configuration of a      *)
(* retired project is cancelled before anything is sent.                   *)
Deliver(p, batch) ==
  \/ batch = {} /\ proc' = [proc EXCEPT ![p] = Resting]
  \/ \E r \in batch :
       /\ \A q \in batch : created[r] <= created[q]
       /\ proc' = [proc EXCEPT ![p] =
            [Resting EXCEPT
               !.cur = r, !.rest = batch \ {r}, !.stage = FirstStage(r),
               !.pc = IF IsConfiguration(r) /\ retired THEN "mark"
                      ELSE "stage",
               !.out = IF IsConfiguration(r) /\ retired THEN "cancelled"
                       ELSE "retry"]]

(* The worker reads a batch, which it then delivers whatever becomes of    *)
(* the rows meanwhile.                                                     *)
Poll ==
  /\ At("worker", "idle")
  /\ PendingOutbox # {}
  /\ Deliver("worker", PendingOutbox)
  /\ UNCHANGED <<active, store, remote, lock, bounds>>

(* DebugRetireProject and PublishSyncedProjectRetirements publish the      *)
(* retirement themselves, whether its row is published or not.             *)
Sync ==
  /\ At("sync", "idle")
  /\ retired
  /\ syncs < MaxSyncs
  /\ syncs' = syncs + 1
  /\ Deliver("sync", {Retirement})
  /\ UNCHANGED <<active, store, remote, lock, faults, foreign>>

Ends(p, out) ==
  proc' = [proc EXCEPT ![p] =
             [Resting EXCEPT !.pc = "mark", !.out = out,
                             !.cur = proc[p].cur, !.rest = proc[p].rest]]

Release(p) == lock' = IF lock = p THEN "free" ELSE lock

Configurations == {e \in Entities : Kind[e] = "configuration"}

(* What the Hub looks like once the retirement is published.               *)
RetirementApplied(tree) ==
  tree.marker /\ \A e \in Configurations : tree.file[e] = 0

(* An error of a transaction.  The publication of a retirement then reads  *)
(* the Hub to find out whether it is there all the same.                   *)
Fails(p) ==
  /\ \/ Ends(p, "retry")
     \/ Entry(p) = Retirement /\ RetirementApplied(hub) /\ Ends(p, "published")
  /\ Release(p)

(* The Hub lock is not waited for.                                         *)
LockBusy(p) ==
  /\ At(p, "stage")
  /\ lock # "free"
  /\ Fails(p)
  /\ UNCHANGED <<active, store, remote, bounds>>

(* Take the lock, fetch, add a worktree at the fetched commit.             *)
Fetch(p) ==
  /\ At(p, "stage")
  /\ lock = "free"
  /\ lock' = p
  /\ proc' = [proc EXCEPT ![p].pc = "mutate", ![p].base = head,
                          ![p].tree = hub]
  /\ UNCHANGED <<active, store, remote, bounds>>

----------------------------------------------------------------------------
(* The publishers.                                                         *)

Payload(e, n) == [rev |-> Rev[e][n], at |-> n]

(* Mutant: the Task publisher compares nothing but the payload.            *)
MutantTaskNoop(l, q) == l = q

TaskNoop(l, q) ==
  \/ l.rev > q.rev
  \/ l.rev = q.rev /\ l.at >= q.at

(* The current file is kept: it is the payload, or a later one of a kind   *)
(* whose publisher looks at the order.                                     *)
Noop(e, l, q) ==
  \/ Kind[e] = "task" /\ TaskNoop(l, q)
  \/ Kind[e] = "track" /\ (l.rev > q.rev \/ l = q)
  \/ Kind[e] = "rule" /\ l = q
  \/ Kind[e] = "configuration" /\ l = q

(* The publication is refused, now and on every retry.                     *)
Conflicts(e, l, q) ==
  \/ Kind[e] = "track" /\ l.rev = q.rev /\ l # q
  \/ Kind[e] = "configuration" /\ l.rev >= q.rev /\ l # q

(* The lifecycle events the Shared store holds for the entity.             *)
EventsOf(e) == {<<e, n>> : n \in StatusChanges[e] \cap (1 .. shared[e])}

(* The tree a stage of the publication of r makes of tree.                 *)
Written(r, stage, evs, tree) ==
  IF r = Retirement
  THEN [tree EXCEPT !.marker = TRUE,
                    !.file = [e \in Entities |->
                      IF e \in Configurations THEN 0 ELSE tree.file[e]]]
  ELSE CASE stage = "revision" ->
              [tree EXCEPT !.revs = @ \cup {<<r[1], Rev[r[1]][r[2]]>>}]
         [] stage = "events" -> [tree EXCEPT !.events = @ \cup evs]
         [] stage = "file" -> [tree EXCEPT !.file[r[1]] = r[2]]

(* The file of the entity is in the tree already.                          *)
Present(r, stage, tree) ==
  r # Retirement /\ stage = "file" /\ tree.file[r[1]] > 0

Refused(r, stage, tree) ==
  /\ Present(r, stage, tree)
  /\ Conflicts(r[1], Payload(r[1], tree.file[r[1]]), Payload(r[1], r[2]))

Current(r, stage, evs, tree) ==
  \/ Written(r, stage, evs, tree) = tree
  \/ /\ Present(r, stage, tree)
     /\ Noop(r[1], Payload(r[1], tree.file[r[1]]), Payload(r[1], r[2]))

(* Mutant: the retirement is not looked up again inside the transaction.   *)
MutantCancelled(r) == FALSE

(* The retirement is looked up once more inside the transaction.           *)
Cancelled(r) == IsConfiguration(r) /\ retired

(* Mutant: the current file is published before the lifecycle events.      *)
MutantNextStage(p) == "file"

(* The revision evidence is followed by the lifecycle events, if there are *)
(* any, and those by the current file.                                     *)
NextStage(p) ==
  IF proc[p].stage = "revision" /\ EventsOf(Entry(p)[1]) # {}
  THEN "events" ELSE "file"

(* A transaction is over: the next stage, or the publication is done.      *)
StageDone(p) ==
  /\ \/ /\ proc[p].stage # "file"
        /\ proc' = [proc EXCEPT ![p] =
             [Resting EXCEPT !.pc = "stage", !.stage = NextStage(p),
                             !.cur = proc[p].cur, !.rest = proc[p].rest,
                             !.evs = EventsOf(Entry(p)[1])]]
     \/ proc[p].stage = "file" /\ Ends(p, "published")
  /\ Release(p)

(* The mutator of the transaction decides on the fetched tree.             *)
Mutate(p) ==
  LET r == Entry(p)
      stage == proc[p].stage
      evs == proc[p].evs
      tree == proc[p].tree
  IN /\ At(p, "mutate")
     /\ \/ Cancelled(r) /\ Ends(p, "cancelled") /\ Release(p)
        \/ ~Cancelled(r) /\ Refused(r, stage, tree) /\ Fails(p)
        \/ /\ ~Cancelled(r) /\ ~Refused(r, stage, tree)
           /\ Current(r, stage, evs, tree)
           /\ StageDone(p)
        \/ /\ ~Cancelled(r) /\ ~Refused(r, stage, tree)
           /\ ~Current(r, stage, evs, tree)
           /\ proc' = [proc EXCEPT ![p].pc = "push",
                         ![p].tree = Written(r, stage, evs, tree)]
           /\ UNCHANGED lock
     /\ UNCHANGED <<active, store, remote, bounds>>

(* Mutant: a refused push is not noticed.                                  *)
MutantPush(p) ==
  /\ At(p, "push")
  /\ hub' = IF head = proc[p].base THEN proc[p].tree ELSE hub
  /\ head' = IF head = proc[p].base THEN head + 1 ELSE head
  /\ proc' = [proc EXCEPT ![p].pc = "verify"]
  /\ UNCHANGED <<active, store, lock, bounds>>

(* The push of the commit, refused when the branch has moved.              *)
Push(p) ==
  /\ At(p, "push")
  /\ \/ /\ head = proc[p].base
        /\ hub' = proc[p].tree
        /\ head' = head + 1
        /\ proc' = [proc EXCEPT ![p].pc = "verify"]
        /\ UNCHANGED lock
     \/ /\ head # proc[p].base
        /\ Fails(p)
        /\ UNCHANGED remote
  /\ UNCHANGED <<active, store, bounds>>

(* ls-remote: the branch must still be at the pushed commit.               *)
Verify(p) ==
  /\ At(p, "verify")
  /\ \/ head = proc[p].base + 1 /\ StageDone(p)
     \/ head # proc[p].base + 1 /\ Fails(p)
  /\ UNCHANGED <<active, store, remote, bounds>>

(* Mutant: a publication that failed is not tried again.                   *)
MutantSettle(r, out) ==
  IF ~Pending(r) THEN UNCHANGED <<row, due>>
  ELSE /\ row' = [row EXCEPT ![r] = IF out = "retry" THEN "cancelled" ELSE out]
       /\ UNCHANGED due

(* Record what became of the delivered row; a row that was published or    *)
(* cancelled meanwhile stays so.                                           *)
Settle(r, out) ==
  IF ~Pending(r) THEN UNCHANGED <<row, due>>
  ELSE IF out = "retry" THEN due' = due \ {r} /\ UNCHANGED row
       ELSE row' = [row EXCEPT ![r] = out] /\ UNCHANGED due

(* The worker marks the row and goes on with its batch.                    *)
WorkerMark ==
  /\ At("worker", "mark")
  /\ Settle(Entry("worker"), proc["worker"].out)
  /\ Deliver("worker", proc["worker"].rest)
  /\ UNCHANGED <<active, shared, retired, created, remote, lock, bounds>>

(* The synchronization marks a published retirement and gives up on an     *)
(* error.                                                                  *)
SyncMark ==
  /\ At("sync", "mark")
  /\ IF proc["sync"].out = "published"
     THEN Settle(Retirement, "published") ELSE UNCHANGED <<row, due>>
  /\ proc' = [proc EXCEPT !["sync"] = Resting]
  /\ UNCHANGED <<active, shared, retired, created, remote, lock, bounds>>

----------------------------------------------------------------------------
(* Faults.                                                                 *)

MayFault == faults < MaxFaults /\ faults' = faults + 1

(* A Git command fails or times out, before or after its effect.           *)
Fault(p) ==
  /\ proc[p].pc \in {"stage", "mutate", "push", "verify"}
  /\ MayFault
  /\ Fails(p)
  /\ UNCHANGED <<active, store, remote, syncs, foreign>>

(* The process dies and starts again.                                      *)
Crash ==
  /\ \E p \in Procs : ~At(p, "idle")
  /\ MayFault
  /\ proc' = [p \in Procs |-> Resting]
  /\ lock' = "free"
  /\ UNCHANGED <<active, store, remote, syncs, foreign>>

(* Another Gateway pushes.                                                 *)
ForeignPush ==
  /\ foreign < MaxForeign
  /\ foreign' = foreign + 1
  /\ head' = head + 1
  /\ UNCHANGED <<active, store, hub, lock, proc, syncs, faults>>

Transaction(p) ==
  LockBusy(p) \/ Fetch(p) \/ Mutate(p) \/ Push(p) \/ Verify(p)

Worker == Poll \/ Transaction("worker") \/ WorkerMark

Synchronization == Transaction("sync") \/ SyncMark

Next ==
  \/ \E e \in Entities : Commit(e)
  \/ Retire
  \/ \E r \in DOMAIN row : BecomesDue(r)
  \/ Worker
  \/ Sync
  \/ Synchronization
  \/ \E p \in Procs : Fault(p)
  \/ Crash
  \/ ForeignPush

Spec == Init /\ [][Next]_vars

(* The worker loops, a synchronization that started runs to its end, and   *)
(* time passes for every row.                                              *)
FairSpec ==
  /\ Spec
  /\ WF_vars(Worker)
  /\ WF_vars(Synchronization)
  /\ \A e \in Entities : \A n \in DOMAIN Rev[e] :
       WF_vars(<<e, n>> \in DOMAIN row /\ BecomesDue(<<e, n>>))
  /\ WF_vars(Retirement \in DOMAIN row /\ BecomesDue(Retirement))

----------------------------------------------------------------------------
(* Properties.                                                             *)

TypeOK ==
  /\ active \in Workloads
  /\ shared \in [Entities -> Nat]
  /\ \A e \in Entities : shared[e] <= Len(Rev[e])
  /\ retired \in BOOLEAN
  /\ DOMAIN row \subseteq RowIds
  /\ DOMAIN created = DOMAIN row
  /\ \A r \in DOMAIN row : created[r] \in Nat
  /\ \A r \in DOMAIN row : row[r] \in {"pending", "published", "cancelled"}
  /\ due \subseteq DOMAIN row
  /\ hub \in Hubs
  /\ head \in Nat
  /\ lock \in Procs \cup {"free"}
  /\ proc \in [Procs -> Local]
  /\ syncs \in Nat
  /\ faults \in Nat
  /\ foreign \in Nat

(* Whoever restores from the Hub finds, for every current file, the        *)
(* evidence of its revision and of every lifecycle event up to it, between *)
(* any two transactions and after any crash.                               *)
EvidenceFirst ==
  \A e \in Entities :
    Kind[e] \in Versioned /\ hub.file[e] > 0 =>
      /\ <<e, Rev[e][hub.file[e]]>> \in hub.revs
      /\ \A n \in StatusChanges[e] \cap (1 .. hub.file[e]) :
           <<e, n>> \in hub.events

(* The Hub file of a Task or a Track never goes back to an earlier commit, *)
(* although retried rows are delivered out of order.                       *)
NeverRegresses ==
  [][\A e \in Entities :
       Kind[e] \in {"task", "track"} => hub'.file[e] >= hub.file[e]]_vars

(* A row is marked published only when the Hub has what it stands for, or  *)
(* a later commit, or the project is retired.  Nothing is claimed of Rules *)
(* here: their publisher may overwrite a later commit.                     *)
PublishedIsOnHub ==
  \A r \in DOMAIN row :
    row[r] = "published" =>
      \/ r = Retirement /\ hub.marker
      \/ r # Retirement /\ Kind[r[1]] = "rule"
      \/ r # Retirement /\ hub.file[r[1]] >= r[2]
      \/ IsConfiguration(r) /\ retired

(* Once the Hub says the project is retired it has no configuration, now   *)
(* or ever after, although a configuration may be under way in the worker  *)
(* while the retirement is committed and published.                        *)
RetiredStaysGone == hub.marker => RetirementApplied(hub)

(* When errors and foreign pushes stop, the Hub file of every Task becomes *)
(* its newest commit, although other rows may never be accepted.           *)
TasksConverge ==
  \A e \in Entities :
    Kind[e] = "task" => <>[](hub.file[e] = shared[e])

(* A retirement reaches the Hub and its outbox row is settled.             *)
RetirementConverges ==
  retired ~> [](RetirementApplied(hub) /\ row[Retirement] = "published")

(* When errors and foreign pushes stop, what the worker and the retirement *)
(* synchronization publish gets to the Hub (sharedOutboxWorker).           *)
Converges == TasksConverge /\ RetirementConverges
=============================================================================
