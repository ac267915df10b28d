---------------------------- MODULE MCMigrations ----------------------------
(***************************************************************************)
(* The databases of releases of different age, some of them in a state the *)
(* migrations must refuse.                                                 *)
(***************************************************************************)
EXTENDS Migrations

Content(summary, prio) == [summary |-> summary, prio |-> prio]
Row(kind, rev, content, status, number) ==
    [kind |-> kind, rev |-> rev, content |-> content, sentence |-> TRUE,
     closed |-> FALSE, number |-> number, status |-> status]
NoRows == [i \in {} |-> None]

Conf(ver, retired) == [rev |-> 1, ver |-> ver, retired |-> retired, verify |-> FALSE,
                       procs |-> [d \in Procedures |-> "none"], edits |-> 0]
Exec(id, agent) == [id |-> id, val |-> "kept", agent |-> agent, closed |-> FALSE]
NoExec == [t \in ExecTables |-> {}]
Executions == [NoExec EXCEPT !["execution"] = {Exec("e1", "legacy"), Exec("e2", "other")},
                             !["phases"] = {Exec("e1", "other")}]

SharedUp == {"locality", "config", "sequences", "relations"} \cup ToSet(DeliverySteps)

EmptyShared ==
    [marks |-> {}, objects |-> FALSE, rows |-> NoRows, hist |-> {}, out |-> {},
     seqs |-> [k \in {"task", "adr"} |-> 1], old |-> <<>>, events |-> {}, wide |-> FALSE,
     conf |-> [p \in Projects |-> None], confHist |-> {}, confOut |-> {}, retired |-> {},
     rules |-> {}, tables |-> {}, exec |-> NoExec, up |-> [m \in SharedUp |-> None],
     oldSeqs |-> {}, idSeqs |-> {}, rels |-> {}, relOut |-> {}, archived |-> FALSE,
     journal |-> {}]
EmptyLocal ==
    [marks |-> {}, objects |-> FALSE, operations |-> FALSE, columns |-> {},
     sessions |-> NoRows, up |-> [m \in {"sessions", "locality"} |-> None],
     exec |-> NoExec, agents |-> {}]

Fresh == [sh |-> EmptyShared, lo |-> EmptyLocal, debug |-> FALSE, lessons |-> {}, sound |-> TRUE]

\* The first release: a Task without summary and with a word for a priority,
\* an ADR without summary, a Task counter below the Task's own number, an
\* operation table without admission columns.
Old == [Fresh EXCEPT
    !.sh.marks = {"baseline"}, !.sh.objects = TRUE,
    !.sh.rows = [i \in {"t1", "a1"} |->
        IF i = "t1" THEN Row("task", 1, Content(FALSE, "legacy"), "open", 3)
                    ELSE Row("adr", 1, Content(FALSE, "P"), "open", 1)],
    !.sh.hist = {[id |-> "t1", rev |-> 1, content |-> Content(FALSE, "legacy")]},
    !.lo.marks = {"baseline"}, !.lo.objects = TRUE, !.lo.operations = TRUE]

Event(id, rev, from, to) == [id |-> id, task |-> "t1", rev |-> rev, from |-> from, to |-> to]
Chain == <<Event("v1", 1, "new", "open"), Event("v2", 2, "open", "done")>>

\* The last release before the hard cut: lifecycle events in the old table,
\* executions in Shared.
Mid == [Fresh EXCEPT
    !.sh.marks = ToSet(Released), !.sh.objects = TRUE,
    !.sh.rows = [i \in {"t1"} |-> Row("task", 2, Content(TRUE, "legacy"), "done", 1)],
    !.sh.seqs["task"] = 2, !.sh.old = Chain, !.sh.tables = ExecTables, !.sh.exec = Executions,
    !.lo.marks = ToSet(LocalBase), !.lo.objects = TRUE, !.lo.operations = TRUE,
    !.lo.agents = {"legacy"}]

\* Every versioned migration done: legacy configurations with queued and
\* historical copies, two families of counters, relations, odd Sessions.
Gates == [Retired0 EXCEPT !.workflow = "gates", !.profile = "default", !.argv = TRUE]
Agrees == [Retired0 EXCEPT !.workflow = "agrees", !.callbacks = "mapped"]
Session(canonical, busy) == [canonical |-> canonical, busy |-> busy, active |-> TRUE, coords |-> FALSE]
Late == [Fresh EXCEPT
    !.sh.marks = ToSet(Released \o CutOver), !.sh.objects = TRUE, !.sh.wide = TRUE,
    !.sh.rules = Projects,
    !.sh.conf = [p \in Projects |-> IF p = GTW THEN Conf(2, Gates) ELSE Conf(1, Agrees)],
    !.sh.confOut = {[p |-> GTW, c |-> Conf(2, Gates)]},
    !.sh.confHist = {[p |-> GTW, c |-> Conf(2, Gates)], [p |-> "p", c |-> Conf(1, Agrees)]},
    !.sh.tables = {}, !.sh.up["locality"] = "complete",
    !.sh.seqs = [k \in {"task", "adr"} |-> 4],
    !.sh.oldSeqs = {[kind |-> "task", next |-> 3], [kind |-> "adr", next |-> 5]},
    !.sh.idSeqs = {[kind |-> "adr", next |-> 2]},
    !.sh.rels = {"r1", "r2"}, !.lessons = {"l1", "l2"},
    !.lo.marks = ToSet(LocalBase \o LocalRest), !.lo.objects = TRUE, !.lo.operations = TRUE,
    !.lo.columns = {"session", "input"},
    !.lo.sessions = [s \in {"s1", "s2", "s3"} |->
        Session(s = "s1", s = "s2")],
    !.lo.up["locality"] = "complete", !.lo.agents = {"legacy"}]

\* A debug daemon: the configuration is migrated while requests edit it, and
\* one Procedure is installed with an older schema.
LateDebug == [Late EXCEPT
    !.debug = TRUE, !.sh.rels = {}, !.sh.oldSeqs = {}, !.sh.idSeqs = {}, !.lessons = {},
    !.sh.up["sequences"] = "complete", !.sh.up["relations"] = "complete",
    !.sh.up["preflight"] = "complete", !.sh.up["config"] = "complete",
    !.sh.conf = [p \in Projects |-> IF p = GTW
        THEN [Conf(3, Retired0) EXCEPT !.procs["preflight"] = "drifted"] ELSE None],
    !.sh.confOut = {}, !.sh.confHist = {}, !.lo.sessions = NoRows]

\* What the migrations refuse.
Refused == [Mid EXCEPT !.sound = FALSE]
Conflict == [Refused EXCEPT !.lo.exec["execution"] =
    {[Exec("e2", "other") EXCEPT !.val = "another"]}]
Broken == [Refused EXCEPT !.sh.old = <<Chain[1], [Chain[2] EXCEPT !.from = "closed"]>>]
Authority == [Late EXCEPT !.sound = FALSE, !.sh.conf["p"].retired.authority = TRUE]
Gone == [Late EXCEPT !.sh.conf["p"].retired.authority = TRUE, !.sh.retired = {"p"}]
Unmapped == [Late EXCEPT !.sound = FALSE, !.sh.conf["p"].retired.callbacks = "unmapped"]
Foreigner == [LateDebug EXCEPT !.sound = FALSE, !.sh.conf[GTW].procs["release"] = "foreign"]
Newer == [Late EXCEPT !.sound = FALSE, !.sh.marks = @ \cup {"tomorrow"}]
TwoWorkers == [Late EXCEPT !.sound = FALSE, !.lo.agents = {"legacy", "worker"}]

MCMixes == {Fresh, Old, Mid, Late, LateDebug, Conflict, Broken, Authority, Gone, Unmapped,
            Foreigner, Newer, TwoWorkers}
=============================================================================
