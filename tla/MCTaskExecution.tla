--------------------------- MODULE MCTaskExecution ---------------------------
(***************************************************************************)
(* Workloads of TaskExecution.  rev bounds a Task's execution revision, so *)
(* it decides how many review and verification rounds fit; work bounds the *)
(* commits of a lane; moves, hands, profiles, crashes and faults bound     *)
(* what the world does.                                                    *)
(***************************************************************************)
EXTENDS TaskExecution, TLC

CONSTANTS t1, t2, a1, o1, o2

Load(tasks, rev, work, moves, hands, notes, profiles, crashes, faults, calls) ==
  [tasks |-> tasks, rev |-> rev, work |-> work, moves |-> moves,
   hands |-> hands, notes |-> notes, profiles |-> profiles, crashes |-> crashes,
   faults |-> faults, calls |-> calls]

OneEach == (o1 :> t1) @@ (o2 :> t2)

(* One Task lands while the branch moves, and everything fails once.       *)
Landing1 == Load({t1}, 10, 1, 1, 0, 0, 0, 1, 2, {})
Gate1 == Load({t1}, 9, 1, 0, 0, 2, 1, 1, 1, {"track"})
(* Rework, review and the stages while the Worker keeps committing.        *)
Rework1 == Load({t1}, 8, 2, 0, 0, 0, 0, 0, 0, {"rework"})
(* Parking, refreshing, resetting and dispatching again.                   *)
Park1 == Load({t1}, 7, 1, 1, 0, 0, 0, 1, 1, {"block", "refresh", "reset"})
(* Landed by hand, completed without code.                                 *)
Hand1 == Load({t1}, 7, 1, 0, 1, 2, 0, 0, 0, {"block", "non_code"})
(* Taken back to its code stage after a controlled rebase has failed.      *)
Stray1 == Load({t1}, 8, 1, 1, 0, 0, 0, 0, 0, {"rework"})
(* Two Tasks of one Worker.                                                *)
Pair == Load({t1, t2}, 4, 1, 1, 0, 0, 0, 0, 0, {})

AllLoads == {Landing1, Gate1, Rework1, Park1, Hand1, Stray1, Pair}
==============================================================================
