----------------------------- MODULE Migrations -----------------------------
(***************************************************************************)
(* How the gateway opens its two databases (internal/sqlitestore,          *)
(* openWithConfig and applyMigrations) and brings whatever an earlier      *)
(* release left in them to the current schema: versioned migrations with a *)
(* marker each (migrate.Apply commits a migration and its marker together) *)
(* and, after them, resumable rewrites guarded by a marker of their own:   *)
(* Task executions from Shared to Local, ProjectConfigurations to schema   *)
(* v3 and the delivery Procedures, the legacy sequences, the relations     *)
(* that must reach the Hub.  Every batch is one step, the process may      *)
(* crash between any two, and the next start runs applyMigrations again    *)
(* from the top.  Once the daemon serves, the configuration migration runs *)
(* again beside ordinary edits, and the operator may run JournalMigrate.   *)
(*                                                                         *)
(* A row is abstracted to what the migrations look at: a Task or an ADR to *)
(* its revision, whether it has a summary, and its priority; a legacy      *)
(* configuration to the retired fields it carries.  A batch of the code    *)
(* (128 rows) holds one row here.                                          *)
(***************************************************************************)
EXTENDS Naturals, Sequences, FiniteSets, FiniteSetsExt, SequencesExt

CONSTANTS None,
          Mixes,       \* the databases an earlier release may have left
          MaxCrashes,  \* process crashes in one behaviour
          MaxEdits     \* configuration edits after the daemon serves

VARIABLES mix,      \* the databases as the first start finds them
          sh,       \* the Shared database
          lo,       \* the Local database
          pc,       \* where the opening process is; "closed" between starts
          live,     \* the daemon serves requests
          work,     \* what the running step has read, and what is left of it
          jr,       \* what is left of a running JournalMigrate; <<>> when idle
          crashes, edits

vars == <<mix, sh, lo, pc, live, work, jr, crashes, edits>>

GTW == "gtw"
Projects == {GTW, "p"}
Delivery == {"preflight", "activate", "release"}
Procedures == Delivery \cup {"e2e"}

-----------------------------------------------------------------------------
(* The versioned migrations, in the order of their version numbers.         *)

Released == <<"baseline", "summary", "sequence", "execution", "phases",
              "verification", "lifecycle", "adrSummary", "events">>
CutOver == <<"hardCut", "relations", "ruleSeed", "priority", "milestone",
             "track", "upgrade", "relationOutbox", "relationBlob",
             "retirement">>
LocalBase == <<"baseline", "tokens", "operations">>
LocalRest == <<"admission", "localRelations", "bootstrap", "messages",
               "cancellation", "localExecution", "workHook", "localRetirement">>

ExecTables == {"execution", "phases", "verification"}

Pending(list, marks) == SelectSeq(list, LAMBDA m : m \notin marks)

\* applyActiveMigrations accepts a history that starts with the baseline and
\* holds no marker this release does not know.
HistoryAccepted(list, db) ==
    IF db.marks = {} THEN ~db.objects
                     ELSE "baseline" \in db.marks /\ db.marks \subseteq ToSet(list)

-----------------------------------------------------------------------------
(* Rewriting one authored row: the old content is kept in history, the new *)
(* revision is written, recorded and queued for the Hub.                   *)

Entry(id, rev, content) == [id |-> id, rev |-> rev, content |-> content]

\* The history a migration finds at the current revision is absent or exact.
HistoryExact(db, id) ==
    \A h \in db.hist : h.id = id /\ h.rev = db.rows[id].rev
                         => h.content = db.rows[id].content

Rewrite(id, row, content) == [id |-> id, from |-> row.rev, old |-> row.content,
                              new |-> content]

TaskIds(db) == {i \in DOMAIN db.rows : db.rows[i].kind = "task"}
ADRIds(db) == {i \in DOMAIN db.rows : db.rows[i].kind = "adr"}

sharedTaskSummaryMigration(db) ==
    {Rewrite(i, db.rows[i], [db.rows[i].content EXCEPT !.summary = TRUE]) :
        i \in {t \in TaskIds(db) : ~db.rows[t].content.summary}}

\* A Task whose objective has no complete sentence has no bounded summary.
boundedTaskSummary(row) == row.sentence

SummaryRefused(db) ==
    \E i \in TaskIds(db) : /\ ~db.rows[i].content.summary
                           /\ ~boundedTaskSummary(db.rows[i]) \/ ~HistoryExact(db, i)

sharedADRSummaryMigration(db) ==
    {Rewrite(i, db.rows[i], [db.rows[i].content EXCEPT !.summary = TRUE]) :
        i \in {a \in ADRIds(db) : ~db.rows[a].content.summary}}

ADRSummaryRefused(db) ==
    \E i \in ADRIds(db) : ~db.rows[i].content.summary /\ ~HistoryExact(db, i)

Audited(db) == {t \in TaskIds(db) : /\ ~db.rows[t].closed
                                    /\ db.rows[t].content.prio # "P"}

sharedTaskPriorityMigration(db) ==
    {Rewrite(i, db.rows[i], [db.rows[i].content EXCEPT !.prio = "P"]) :
        i \in Audited(db)}

PriorityRefused(db) ==
    \E i \in Audited(db) : \/ db.rows[i].content.prio # "legacy"
                           \/ ~HistoryExact(db, i)

\* The next Task number is raised above every retained Task.
sharedTaskSequenceMigration(db) ==
    IF TaskIds(db) = {} THEN db.seqs["task"]
    ELSE Max({db.seqs["task"]} \cup {db.rows[i].number + 1 : i \in TaskIds(db)})

\* Mutant: the guard on the revision the plan was built from is dropped.
RowsAffectedUnguarded(db, plan) == TRUE

\* RequireRowsAffected: every row is still at the revision the plan was built
\* from; otherwise the whole migration, marker included, is rolled back.
RowsAffected(db, plan) == \A w \in plan : db.rows[w.id].rev = w.from

ApplyRewrites(db, plan) ==
    [db EXCEPT
        !.rows = [i \in DOMAIN db.rows |->
                     IF \E w \in plan : w.id = i
                     THEN LET w == CHOOSE w \in plan : w.id = i
                          IN [db.rows[i] EXCEPT !.rev = w.from + 1,
                                                !.content = w.new]
                     ELSE db.rows[i]],
        !.hist = @ \cup {Entry(w.id, w.from, w.old) : w \in plan}
                   \cup {Entry(w.id, w.from + 1, w.new) : w \in plan},
        !.out = @ \cup {Entry(w.id, w.from + 1, w.new) : w \in plan}]

-----------------------------------------------------------------------------
(* The Task lifecycle hard cut: events move into the shared event table.    *)

\* Every chain is continuous, ends where the Task stands, and has no event in
\* the destination yet.
validateRetainedTaskLifecycleChains(db) ==
    LET chain(t) == SelectSeq(db.old, LAMBDA e : e.task = t)
    IN \A t \in {e.task : e \in ToSet(db.old)} :
          /\ \A k \in 2 .. Len(chain(t)) : chain(t)[k].from = chain(t)[k - 1].to
          /\ t \in TaskIds(db)
          /\ Last(chain(t)).rev <= db.rows[t].rev
          /\ Last(chain(t)).to = db.rows[t].status

validateRetainedTaskLifecycleDestination(db) ==
    \A e \in ToSet(db.old) : \A n \in db.events : n.id # e.id /\ n.task # e.task

validateRetainedSharedLifecycleEvents(db) ==
    ~db.wide /\ \A n \in db.events : n.task \in ADRIds(db)

\* The six workflow Rules exist for every configured project.
sharedRuleSeedMigration(db) ==
    \A p \in Projects : db.conf[p] # None => p \in db.rules

\* One versioned Shared migration with its marker.
SharedStep(db, m, plan) ==
    LET marked == [db EXCEPT !.marks = @ \cup {m}]
    IN CASE m = "baseline" -> [marked EXCEPT !.objects = TRUE]
         [] m \in {"summary", "adrSummary", "priority"} ->
                ApplyRewrites(marked, plan[m])
         [] m = "sequence" -> [marked EXCEPT !.seqs["task"] = plan[m]]
         [] m \in ExecTables -> [marked EXCEPT !.tables = @ \cup {m}]
         [] m = "hardCut" ->
                [marked EXCEPT !.events = @ \cup ToSet(db.old),
                               !.old = <<>>, !.wide = TRUE]
         [] OTHER -> marked

SharedRowsOK(db, m, plan) ==
    m \in {"summary", "adrSummary", "priority"} => RowsAffected(db, plan[m])

-----------------------------------------------------------------------------
(* The schema-v3 form of a legacy ProjectConfiguration.                     *)

\* A copy of a configuration carries the fields the migration tells apart.
Retired0 == [authority |-> FALSE, callbacks |-> "none", profile |-> "none",
             workflow |-> "none", argv |-> FALSE]

ProjectConfigurationPayloadRequiresWorkflowPolicy(c) ==
    c.ver # 3 /\ c.retired.workflow # "none"

\* migrateLegacyWorkflow: the legacy workflow agrees with the Rules, and only
\* the gateway's own project has gates that map to a Procedure.
migrateLegacyWorkflow(p, c) ==
    \/ c.retired.workflow = "agrees"
    \/ c.retired.workflow = "gates" /\ p = GTW

\* The payload has a canonical form: nothing that still has authority is
\* dropped, what is mapped is mapped exactly.
PayloadAccepted(p, c, rules) ==
    IF c.ver = 3 THEN c.retired = Retired0
    ELSE /\ ~c.retired.authority
         /\ c.retired.callbacks # "unmapped"
         /\ c.retired.profile # "none" => p = GTW /\ c.retired.profile = "default"
         /\ ProjectConfigurationPayloadRequiresWorkflowPolicy(c)
              => p \in rules /\ migrateLegacyWorkflow(p, c)
         /\ c.retired.argv => p = GTW

\* installGTWTaskVerificationProcedure keeps the gates as a Procedure.
MigrateProjectConfigurationPayloadWithPolicy(c) ==
    [c EXCEPT !.ver = 3, !.retired = Retired0,
              !.verify = @ \/ c.retired.workflow = "gates"]

\* DecodeCanonicalProjectConfigurationPayload
Canonical(c) == c.ver = 3 /\ c.retired = Retired0

\* The copies the migration rewrites: the current row, the pending
\* publications and the history of every project that is not retired.
ConfCopies(db) ==
    {[at |-> "row", p |-> p, c |-> db.conf[p]] :
        p \in {q \in Projects \ db.retired : db.conf[q] # None}}
    \cup {[at |-> "out", p |-> x.p, c |-> x.c] :
        x \in {y \in db.confOut : y.p \notin db.retired}}
    \cup {[at |-> "hist", p |-> x.p, c |-> x.c] :
        x \in {y \in db.confHist : y.p \notin db.retired}}

Replace(set, p, c) ==
    {IF x.p = p /\ x.c.rev = c.rev THEN [p |-> p, c |-> c] ELSE x : x \in set}

\* The rewrite of one copy: the current row only at the revision it was read.
RewriteCopy(db, x) ==
    LET c == MigrateProjectConfigurationPayloadWithPolicy(x.c)
    IN CASE x.at = "row" -> IF db.conf[x.p] # None /\ db.conf[x.p].rev = c.rev
                            THEN [db EXCEPT !.conf[x.p] = c] ELSE db
         [] x.at = "out" -> [db EXCEPT !.confOut = Replace(@, x.p, c)]
         [] x.at = "hist" -> [db EXCEPT !.confHist = Replace(@, x.p, c)]

\* A configuration revision: row, history and publication in one batch.
PutConfiguration(db, p, c) ==
    [db EXCEPT !.conf[p] = c, !.confHist = @ \cup {[p |-> p, c |-> c]},
               !.confOut = @ \cup {[p |-> p, c |-> c]}]

\* The delivery Procedures in the order they are installed; the last marker
\* converges the schemas of those already installed.
DeliverySteps == <<"preflight", "activate", "release", "e2e", "e2eV2", "schemas">>
Installs(m) == IF m = "e2eV2" THEN {"e2e"}
               ELSE IF m = "schemas" THEN {} ELSE {m}

\* What marker m still has to write into configuration c, and whether a
\* foreign Procedure stands under a canonical name.
Drifted(m, c) ==
    IF m = "schemas" THEN {d \in Delivery : c.procs[d] = "drifted"}
                     ELSE {d \in Installs(m) : c.procs[d] # "canonical"}
Foreign(m, c) ==
    \E d \in (IF m = "schemas" THEN Delivery ELSE Installs(m)) :
        c.procs[d] = "foreign"

\* The new revision stays ahead of history and of every publication.
NextRevision(db, c) ==
    1 + Max({c.rev} \cup {x.c.rev : x \in {y \in db.confHist \cup db.confOut :
                                              y.p = GTW}})

Install(db, m, c) ==
    [c EXCEPT !.rev = NextRevision(db, c),
              !.procs = [d \in Procedures |->
                            IF d \in Drifted(m, c) THEN "canonical" ELSE c.procs[d]]]

-----------------------------------------------------------------------------
(* Init and the opening of the databases.                                   *)

Idle == [left |-> <<>>, plan |-> None]

Init == /\ mix \in Mixes
        /\ sh = mix.sh /\ lo = mix.lo
        /\ pc = "closed" /\ live = FALSE
        /\ work = Idle /\ jr = <<>>
        /\ crashes = 0 /\ edits = 0

At(label) == pc = label
Goto(label) == pc' = label /\ UNCHANGED live
Keep == UNCHANGED <<mix, jr, crashes, edits>>
Rest(v) == Keep /\ UNCHANGED v

\* An error ends the start; in the serving daemon it is reported and the
\* post-ready attempt is over.
Fail == /\ pc' = IF live THEN "ready" ELSE "closed"
        /\ work' = Idle
        /\ Rest(<<sh, lo, live>>)

Open == /\ At("closed") /\ Goto("shared") /\ work' = Idle
        /\ Rest(<<sh, lo>>)

\* applySharedMigrations reads the markers and builds the statements of the
\* migrations that depend on rows, before any of them runs.
PlanFrom(db) ==
    [summary |-> sharedTaskSummaryMigration(db),
     adrSummary |-> sharedADRSummaryMigration(db),
     priority |-> sharedTaskPriorityMigration(db),
     sequence |-> sharedTaskSequenceMigration(db)]

PlanRefused(db) ==
    \/ "summary" \notin db.marks /\ SummaryRefused(db)
    \/ "adrSummary" \notin db.marks /\ ADRSummaryRefused(db)
    \/ "priority" \notin db.marks /\ PriorityRefused(db)

applySharedMigrations ==
    /\ At("shared")
    /\ IF sh.marks = {}
       THEN IF HistoryAccepted(<<"baseline">>, sh)
            THEN /\ sh' = SharedStep(sh, "baseline", None)
                 /\ Goto("shared") /\ UNCHANGED <<work, lo>> /\ Keep
            ELSE Fail
       ELSE LET cut == "hardCut" \in sh.marks
                list == IF cut THEN Released \o CutOver ELSE Released
            IN IF \/ PlanRefused(sh) \/ ~HistoryAccepted(list, sh)
                  \/ cut /\ "ruleSeed" \notin sh.marks /\ ~sharedRuleSeedMigration(sh)
               THEN Fail
               ELSE /\ work' = [left |-> Pending(list, sh.marks),
                                plan |-> PlanFrom(sh)]
                    /\ Goto(IF cut THEN "sharedRest" ELSE "released")
                    /\ Rest(<<sh, lo>>)

\* One pending Shared migration of migrate.Apply.
ApplyShared ==
    /\ pc \in {"released", "sharedRest"} /\ work.left # <<>>
    /\ IF SharedRowsOK(sh, Head(work.left), work.plan)
       THEN /\ sh' = SharedStep(sh, Head(work.left), work.plan)
            /\ work' = [work EXCEPT !.left = Tail(@)]
            /\ Rest(<<lo, pc, live>>)
       ELSE Fail

sharedTaskLifecycleHardCutMigration ==
    /\ At("released") /\ work.left = <<>>
    /\ IF /\ validateRetainedSharedLifecycleEvents(sh)
          /\ validateRetainedTaskLifecycleChains(sh)
          /\ validateRetainedTaskLifecycleDestination(sh)
          /\ "ruleSeed" \in sh.marks \/ sharedRuleSeedMigration(sh)
          /\ HistoryAccepted(Released \o CutOver, sh)
       THEN /\ work' = [work EXCEPT !.left = Pending(CutOver, sh.marks)]
            /\ Goto("sharedRest") /\ Rest(<<sh, lo>>)
       ELSE Fail

applyLocalMigrations ==
    /\ At("sharedRest") /\ work.left = <<>>
    /\ LET admitted == "admission" \in lo.marks
           list == IF admitted THEN LocalBase \o LocalRest ELSE LocalBase
       IN IF ~HistoryAccepted(list, lo) THEN Fail
          ELSE /\ work' = [left |-> Pending(list, lo.marks), plan |-> None]
               /\ Goto(IF admitted THEN "localRest" ELSE "localBase")
               /\ Rest(<<sh, lo>>)

\* The admission columns an older local_operations table lacks.
localOperationAdmissionMigration ==
    /\ At("localBase") /\ work.left = <<>>
    /\ work' = [left |-> Pending(LocalRest, lo.marks),
                plan |-> {"session", "input"} \ lo.columns]
    /\ Goto("localRest") /\ Rest(<<sh, lo>>)

ApplyLocal ==
    /\ pc \in {"localBase", "localRest"} /\ work.left # <<>>
    /\ LET m == Head(work.left)
           marked == [lo EXCEPT !.marks = @ \cup {m}, !.objects = TRUE]
       IN lo' = CASE m = "operations" ->
                       [marked EXCEPT !.columns = IF lo.operations THEN @
                                                  ELSE {"session", "input"},
                                      !.operations = TRUE]
                  [] m = "admission" -> [marked EXCEPT !.columns = @ \cup work.plan]
                  [] OTHER -> marked
    /\ work' = [work EXCEPT !.left = Tail(@)]
    /\ Rest(<<sh, pc, live>>)

-----------------------------------------------------------------------------
(* Local Sessions.                                                          *)

\* Rows whose identifier is not canonical go, unless an operation still runs.
MigrateNoncanonicalLocalSessions ==
    /\ At("localRest") /\ work.left = <<>>
    /\ work' = [left |-> SetToSeq({s \in DOMAIN lo.sessions :
                                      ~lo.sessions[s].canonical}),
                plan |-> FALSE]
    /\ lo' = [lo EXCEPT !.up["sessions"] = "in_progress"]
    /\ Goto("sessions") /\ Rest(<<sh>>)

DeleteNoncanonical ==
    /\ At("sessions") /\ work.left # <<>>
    /\ LET s == Head(work.left) busy == lo.sessions[s].busy
       IN /\ lo' = IF busy THEN lo
                   ELSE [lo EXCEPT !.sessions =
                            [r \in DOMAIN lo.sessions \ {s} |-> lo.sessions[r]]]
          /\ work' = [left |-> Tail(work.left), plan |-> work.plan \/ busy]
    /\ Rest(<<sh, pc, live>>)

FinishSessions ==
    /\ At("sessions") /\ work.left = <<>>
    /\ lo' = [lo EXCEPT !.up["sessions"] =
                 IF work.plan THEN "in_progress" ELSE "complete"]
    /\ work' = Idle /\ Goto("coordinates") /\ Rest(<<sh>>)

MigrateLocalSessionProjectCoordinates ==
    /\ At("coordinates")
    /\ lo' = [lo EXCEPT !.sessions =
                 [s \in DOMAIN lo.sessions |->
                     [lo.sessions[s] EXCEPT !.coords = @ \/ lo.sessions[s].active]]]
    /\ Goto("locality") /\ Rest(<<sh, work>>)

-----------------------------------------------------------------------------
(* Task executions move from Shared to Local.                               *)

\* Mutant: only a finished migration explains a missing source.
SourceFinished(db) == db.up["locality"] = "complete"

\* The marker says that the missing source tables were copied.
SourceCopied(db) == db.up["locality"] \in {"copied", "complete"}

\* The tables exist together or not at all; a missing source needs the marker
\* that says it was copied, a finished copy needs an empty source.
MigrateTaskExecutionStateToLocal ==
    /\ At("locality")
    /\ CASE sh.tables \notin {{}, ExecTables} -> Fail
         [] sh.tables = {} ->
              IF SourceCopied(sh)
              THEN Goto("finishDrop") /\ Rest(<<sh, lo, work>>)
              ELSE Fail
         [] OTHER ->
              IF "complete" \in {lo.up["locality"], sh.up["locality"]}
              THEN IF \A t \in ExecTables : sh.exec[t] = {}
                   THEN /\ sh' = [sh EXCEPT !.tables = {}]
                        /\ Goto("config") /\ Rest(<<lo, work>>)
                   ELSE Fail
              ELSE /\ work' = [left |-> SetToSeq(ExecTables), plan |-> None]
                   /\ Goto("copy") /\ Rest(<<sh, lo>>)

RowIds(rows) == {r.id : r \in rows}

\* One batch of copyTaskExecutionTable: INSERT OR IGNORE.
CopyRow ==
    /\ At("copy") /\ work.left # <<>>
    /\ LET t == Head(work.left)
           missing == {r \in sh.exec[t] : r.id \notin RowIds(lo.exec[t])}
       IN /\ missing # {}
          /\ lo' = [lo EXCEPT !.exec[t] = @ \cup {CHOOSE r \in missing : TRUE}]
    /\ Rest(<<sh, work, pc, live>>)

\* copyTaskExecutionTable compares the whole Local table with its source.
CompareTable ==
    /\ At("copy") /\ work.left # <<>>
    /\ RowIds(sh.exec[Head(work.left)]) \subseteq RowIds(lo.exec[Head(work.left)])
    /\ IF sh.exec[Head(work.left)] = lo.exec[Head(work.left)]
       THEN work' = [work EXCEPT !.left = Tail(@)] /\ Rest(<<sh, lo, pc, live>>)
       ELSE Fail

MarkLocalCopied ==
    /\ At("copy") /\ work.left = <<>>
    /\ lo' = [lo EXCEPT !.up["locality"] = "copied"]
    /\ Goto("markShared") /\ Rest(<<sh, work>>)

MarkSharedCopied ==
    /\ At("markShared") /\ sh' = [sh EXCEPT !.up["locality"] = "copied"]
    /\ Goto("drop") /\ Rest(<<lo, work>>)

dropSharedTaskExecutionTables ==
    /\ pc \in {"drop", "finishDrop"}
    /\ sh' = [sh EXCEPT !.tables = {}, !.exec = [t \in ExecTables |-> {}]]
    /\ Goto(IF pc = "drop" THEN "finishDrop" ELSE "finishShared")
    /\ Rest(<<lo, work>>)

finishTaskExecutionLocalityMigration ==
    \/ /\ At("finishShared") /\ sh' = [sh EXCEPT !.up["locality"] = "complete"]
       /\ Goto("finishLocal") /\ Rest(<<lo, work>>)
    \/ /\ At("finishLocal") /\ lo' = [lo EXCEPT !.up["locality"] = "complete"]
       /\ Goto("config") /\ Rest(<<sh, work>>)

-----------------------------------------------------------------------------
(* Project configurations and the delivery Procedures.                      *)

ConfigDone == IF live THEN "ready" ELSE "sequences"

\* Only a debug daemon defers this migration at start.
MigrateProjectConfigurationToCanonical ==
    /\ At("config")
    /\ IF mix.debug /\ ~live
       THEN Goto("sequences") /\ Rest(<<sh, lo, work>>)
       ELSE IF sh.up["config"] = "complete"
            THEN /\ work' = [left |-> DeliverySteps, plan |-> None]
                 /\ Goto("procRead") /\ Rest(<<sh, lo>>)
            ELSE /\ sh' = [sh EXCEPT !.up["config"] = "in_progress"]
                 /\ Goto("confRead") /\ Rest(<<lo, work>>)

\* The payloads of every copy are migrated before the first is written.
ReadConfigurations ==
    /\ At("confRead")
    /\ IF \A x \in ConfCopies(sh) : PayloadAccepted(x.p, x.c, sh.rules)
       THEN /\ work' = [left |-> SetToSeq(ConfCopies(sh)), plan |-> None]
            /\ Goto("confWrite") /\ Rest(<<sh, lo>>)
       ELSE Fail

WriteConfiguration ==
    /\ At("confWrite") /\ work.left # <<>>
    /\ sh' = RewriteCopy(sh, Head(work.left))
    /\ work' = [work EXCEPT !.left = Tail(@)] /\ Rest(<<lo, pc, live>>)

CompleteConfigurations ==
    /\ At("confWrite") /\ work.left = <<>>
    /\ sh' = [sh EXCEPT !.up["config"] = "complete"]
    /\ work' = [left |-> DeliverySteps, plan |-> None]
    /\ Goto("procRead") /\ Rest(<<lo>>)

\* migrateGTWDeliveryProcedures: each Procedure under its own marker.
migrateGTWDeliveryProcedures ==
    /\ At("procRead") /\ work.left = <<>>
    /\ work' = Idle /\ Goto(ConfigDone) /\ Rest(<<sh, lo>>)

\* The configuration is read before the marker is set.
ProcedureRead(m) ==
    /\ At("procRead")
    /\ IF sh.up[m] = "complete" \/ sh.conf[GTW] = None
       THEN work' = [work EXCEPT !.left = Tail(@)] /\ Rest(<<sh, lo, pc, live>>)
       ELSE /\ work' = [work EXCEPT !.plan = sh.conf[GTW]]
            /\ Goto("procMark") /\ Rest(<<sh, lo>>)

ProcedureMark(m) ==
    /\ At("procMark")
    /\ sh' = [sh EXCEPT !.up[m] = "in_progress"]
    /\ Goto("procWrite") /\ Rest(<<lo, work>>)

\* A foreign definition is refused; the Procedure is written only at the
\* revision that was read.
ProcedureWrite(m) ==
    /\ At("procWrite")
    /\ LET c == work.plan
       IN CASE ~Canonical(c) \/ Foreign(m, c) -> Fail
            [] Drifted(m, c) = {} -> Goto("procDone") /\ Rest(<<sh, lo, work>>)
            [] OTHER ->
                 IF sh.conf[GTW].rev = c.rev
                 THEN /\ sh' = PutConfiguration(sh, GTW, Install(sh, m, c))
                      /\ Goto("procDone") /\ Rest(<<lo, work>>)
                 ELSE Fail

ProcedureDone(m) ==
    /\ At("procDone")
    /\ sh' = [sh EXCEPT !.up[m] = "complete"]
    /\ work' = [left |-> Tail(work.left), plan |-> None]
    /\ Goto("procRead") /\ Rest(<<lo>>)

Procedure(m) ==
    /\ pc \in {"procRead", "procMark", "procWrite", "procDone"}
    /\ work.left # <<>> /\ Head(work.left) = m
    /\ ProcedureRead(m) \/ ProcedureMark(m) \/ ProcedureWrite(m) \/ ProcedureDone(m)

MigrateGTWActivationPreflightProcedure == Procedure("preflight")
MigrateGTWActivateLocalProcedure == Procedure("activate")
MigrateGTWReleaseProdProcedure == Procedure("release")
MigrateGTWE2EProcedure == Procedure("e2e") \/ Procedure("e2eV2")
MigrateGTWProcedureSchemas == Procedure("schemas")

-----------------------------------------------------------------------------
(* Legacy sequences and relations.                                          *)

\* sharedUpgradeMigrationState reads no other state than these.
Readable(state) == state \in {None, "copied", "complete"}

\* The counters of the legacy tables and of the identifier columns.
MigrateLegacySharedSequences ==
    /\ At("sequences")
    /\ CASE ~Readable(sh.up["sequences"]) -> Fail
         [] sh.up["sequences"] = "complete" ->
              Goto("relations") /\ Rest(<<sh, lo, work>>)
         [] OTHER ->
              /\ sh' = [sh EXCEPT !.up["sequences"] = "in_progress"]
              /\ work' = [left |-> SetToSeq(sh.oldSeqs \cup sh.idSeqs), plan |-> None]
              /\ Goto("upsert") /\ Rest(<<lo>>)

UpsertSequence ==
    /\ At("upsert") /\ work.left # <<>>
    /\ sh' = [sh EXCEPT !.seqs[Head(work.left).kind] = Max({@, Head(work.left).next})]
    /\ work' = [work EXCEPT !.left = Tail(@)] /\ Rest(<<lo, pc, live>>)

DropLegacySequences ==
    /\ At("upsert") /\ work.left = <<>>
    /\ sh' = [sh EXCEPT !.oldSeqs = {}]
    /\ Goto("rebuild") /\ Rest(<<lo, work>>)

rebuildSharedProjectIdentifiers ==
    /\ At("rebuild") /\ sh' = [sh EXCEPT !.idSeqs = {}]
    /\ Goto("seqDone") /\ Rest(<<lo, work>>)

CompleteSequences ==
    /\ At("seqDone") /\ sh' = [sh EXCEPT !.up["sequences"] = "complete"]
    /\ Goto("relations") /\ Rest(<<lo, work>>)

MigrateSharedRelationsToHubOutbox ==
    /\ At("relations")
    /\ CASE ~Readable(sh.up["relations"]) -> Fail
         [] sh.up["relations"] = "complete" ->
              Goto("identity") /\ Rest(<<sh, lo, work>>)
         [] OTHER ->
              /\ sh' = [sh EXCEPT !.up["relations"] = "in_progress"]
              /\ work' = [left |-> SetToSeq(sh.rels), plan |-> None]
              /\ Goto("publish") /\ Rest(<<lo>>)

PublishRelation ==
    /\ At("publish") /\ work.left # <<>>
    /\ sh' = [sh EXCEPT !.relOut = @ \cup {Head(work.left)}]
    /\ work' = [work EXCEPT !.left = Tail(@)] /\ Rest(<<lo, pc, live>>)

CompleteRelations ==
    /\ At("publish") /\ work.left = <<>>
    /\ sh' = [sh EXCEPT !.up["relations"] = "complete"]
    /\ Goto("identity") /\ Rest(<<lo, work>>)

-----------------------------------------------------------------------------
(* The Worker Agent's identity, and the serving daemon.                     *)

\* MigrateLocalAgentIdentity: the row is renamed; two rows are a collision.
MigrateLocalAgentIdentity ==
    /\ At("identity")
    /\ CASE "legacy" \notin lo.agents -> Goto("execIdentity") /\ Rest(<<sh, lo, work>>)
         [] "worker" \in lo.agents -> Fail
         [] OTHER -> /\ lo' = [lo EXCEPT !.agents = (@ \ {"legacy"}) \cup {"worker"}]
                     /\ Goto("execIdentity") /\ Rest(<<sh, work>>)

\* Nonterminal executions follow the renamed Agent; then the daemon serves.
MigrateTaskExecutionAgentIdentity ==
    /\ At("execIdentity")
    /\ lo' = [lo EXCEPT !.exec["execution"] =
                 {IF r.agent = "legacy" /\ ~r.closed
                  THEN [r EXCEPT !.agent = "worker"] ELSE r : r \in @}]
    /\ pc' = "ready" /\ live' = TRUE
    /\ Rest(<<sh, work>>)

\* After it serves, the daemon runs the configuration migration again; a debug
\* daemon runs it when the operator asks (DebugMigrateProjectConfigurations).
PostReady == /\ At("ready") /\ Goto("config") /\ work' = Idle
             /\ \/ sh.up["config"] # "complete"
                \/ sh.conf[GTW] # None /\ \E m \in ToSet(DeliverySteps) :
                                             sh.up[m] # "complete"
             /\ Rest(<<sh, lo>>)

\* A configuration revision written by an ordinary request.
EditConfiguration ==
    /\ live /\ edits < MaxEdits
    /\ sh.conf[GTW] # None /\ Canonical(sh.conf[GTW])
    /\ sh' = PutConfiguration(sh, GTW, [sh.conf[GTW] EXCEPT !.rev = @ + 1,
                                                           !.edits = @ + 1])
    /\ edits' = edits + 1
    /\ UNCHANGED <<mix, lo, pc, live, work, jr, crashes>>

\* JournalMigrate validates everything first, then creates one entry after
\* another under an operation id made of its source, then archives the inbox.
JournalMigrate ==
    /\ live /\ jr = <<>> /\ ~sh.archived /\ mix.lessons # {}
    /\ jr' = SetToSeq(mix.lessons) \o <<"archive">>
    /\ UNCHANGED <<mix, sh, lo, pc, live, work, crashes, edits>>

journalMigrateCreate ==
    /\ jr # <<>>
    /\ sh' = IF Head(jr) = "archive" THEN [sh EXCEPT !.archived = TRUE]
             ELSE [sh EXCEPT !.journal = @ \cup {Head(jr)}]
    /\ jr' = Tail(jr)
    /\ UNCHANGED <<mix, lo, pc, live, work, crashes, edits>>

Crash == /\ pc # "closed" /\ crashes < MaxCrashes
         /\ pc' = "closed" /\ live' = FALSE /\ work' = Idle /\ jr' = <<>>
         /\ crashes' = crashes + 1
         /\ UNCHANGED <<mix, sh, lo, edits>>

Step ==
    \/ applySharedMigrations \/ ApplyShared \/ sharedTaskLifecycleHardCutMigration
    \/ applyLocalMigrations \/ localOperationAdmissionMigration \/ ApplyLocal
    \/ MigrateNoncanonicalLocalSessions \/ DeleteNoncanonical \/ FinishSessions
    \/ MigrateLocalSessionProjectCoordinates
    \/ MigrateTaskExecutionStateToLocal \/ CopyRow \/ CompareTable
    \/ MarkLocalCopied \/ MarkSharedCopied \/ dropSharedTaskExecutionTables
    \/ finishTaskExecutionLocalityMigration
    \/ MigrateProjectConfigurationToCanonical \/ ReadConfigurations
    \/ WriteConfiguration \/ CompleteConfigurations
    \/ MigrateGTWActivationPreflightProcedure \/ MigrateGTWActivateLocalProcedure
    \/ MigrateGTWReleaseProdProcedure \/ MigrateGTWE2EProcedure
    \/ MigrateGTWProcedureSchemas \/ migrateGTWDeliveryProcedures
    \/ MigrateLegacySharedSequences \/ UpsertSequence \/ DropLegacySequences
    \/ rebuildSharedProjectIdentifiers \/ CompleteSequences
    \/ MigrateSharedRelationsToHubOutbox \/ PublishRelation \/ CompleteRelations
    \/ MigrateLocalAgentIdentity \/ MigrateTaskExecutionAgentIdentity

Next == Open \/ Step \/ PostReady \/ EditConfiguration
        \/ JournalMigrate \/ journalMigrateCreate \/ Crash

\* The service manager starts the daemon again, and a running start goes on.
Spec == Init /\ [][Next]_vars /\ WF_vars(Open) /\ WF_vars(Step)

-----------------------------------------------------------------------------
(* Properties.                                                              *)

UpStates == {None, "copied", "in_progress", "complete"}

\* The markers, tables and positions stay in the vocabulary of the code: a
\* marker table holds only the states its writers use, the source tables of
\* the locality migration exist together or not at all, and only a serving
\* daemon is at "ready".
TypeOK ==
    /\ \A m \in DOMAIN sh.up : sh.up[m] \in UpStates
    /\ \A m \in DOMAIN lo.up : lo.up[m] \in UpStates
    /\ pc = "ready" => live
    /\ sh.tables \subseteq ExecTables
    /\ crashes <= MaxCrashes /\ edits <= MaxEdits

\* Counters kept anywhere for a kind of entity.
Counters(db, k) == {db.seqs[k]} \cup {x.next : x \in {y \in db.oldSeqs \cup db.idSeqs :
                                                        y.kind = k}}

\* No start, crash or restart loses a durable row: an execution is whole in
\* Shared until it is whole in Local, a lifecycle event is in exactly one of
\* the two tables, a relation is queued once its migration is complete, the
\* highest counter of every sequence survives, and an inbox is archived only
\* when its lessons are entries.
RowsSurvive ==
    /\ \A t \in ExecTables : \A r \in mix.sh.exec[t] :
          \/ r \in sh.exec[t]
          \/ \E q \in lo.exec[t] : q.id = r.id /\ q.val = r.val
    /\ \A e \in ToSet(mix.sh.old) : e \in sh.events <=> e \notin ToSet(sh.old)
    /\ sh.up["relations"] = "complete" => mix.sh.rels \subseteq sh.relOut
    /\ \A k \in DOMAIN sh.seqs : Max(Counters(sh, k)) >= Max(Counters(mix.sh, k))
    /\ sh.archived /\ ~mix.sh.archived => mix.lessons \subseteq sh.journal

\* Rewrites compose: a Task or ADR never loses a summary or a priority another
\* migration gave it, although every statement is built from rows read before
\* the first of them ran, and every revision it passes is in history and queued
\* for the Hub; a configuration keeps every edit made while its Procedures are
\* being installed, and no revision number is used for two contents.
RewritesCompose ==
    /\ \A i \in DOMAIN sh.rows :
          /\ "summary" \in sh.marks /\ sh.rows[i].kind = "task"
               => sh.rows[i].content.summary
          /\ sh.rows[i].rev > mix.sh.rows[i].rev
               => \A v \in mix.sh.rows[i].rev .. sh.rows[i].rev :
                     \E h \in sh.hist : h.id = i /\ h.rev = v
          /\ HistoryExact(sh, i)
    /\ sh.conf[GTW] # None => sh.conf[GTW].edits = edits
    /\ \A x, y \in sh.confOut : x.p = y.p /\ x.c.rev = y.c.rev => x = y

\* A configuration reaches schema v3 only with nothing of its authority lost:
\* what had no canonical form stops the migration, gates become the
\* verification Procedure, and once the marker is complete every copy of every
\* live project, queued and historical ones included, is canonical.
AuthorityKept ==
    /\ \A p \in Projects : mix.sh.conf[p] # None /\ sh.conf[p].ver = 3 =>
          LET old == mix.sh.conf[p]
          IN /\ ~old.retired.authority /\ old.retired.callbacks # "unmapped"
             /\ old.retired.workflow # "conflict"
             /\ old.retired.workflow = "gates" => sh.conf[p].verify
    /\ sh.up["config"] = "complete" => \A x \in ConfCopies(sh) : Canonical(x.c)

\* Whatever interrupts an upgrade, and however often it starts again, nothing
\* durable is lost (OpenWithConfig and the migrations it runs).
UpgradeLosesNothing == RowsSurvive /\ RewritesCompose /\ AuthorityKept

\* The marker of a migration that was interrupted half way.
Interrupted == \E m \in {"sequences", "relations"} : sh.up[m] = "in_progress"

\* Databases with nothing the migrations refuse are eventually open for good,
\* whatever crashes interrupt the starts, except when a crash leaves a marker
\* in_progress that the next start cannot read.
SoundOpens == mix.sound => <>[](live \/ Interrupted)

\* The same without the exception.
SoundAlwaysOpens == mix.sound => <>[]live
=============================================================================
