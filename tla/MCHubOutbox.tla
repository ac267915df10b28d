----------------------------- MODULE MCHubOutbox -----------------------------
(***************************************************************************)
(* The instance: a Task with two revisions and a status change,            *)
(* a Task that is only created, a Track that is created, submitted and     *)
(* accepted (acceptance keeps the revision), a Rule with two revisions and *)
(* a configuration with two.                                               *)
(***************************************************************************)
EXTENDS HubOutbox

MCEntities == {"tsk", "one", "trk", "rul", "cfg"}

MCKind ==
  [tsk |-> "task", one |-> "task", trk |-> "track", rul |-> "rule",
   cfg |-> "configuration"]

MCRev ==
  [tsk |-> <<1, 2, 2>>, one |-> <<1>>, trk |-> <<1, 2, 2>>, rul |-> <<1, 2>>,
   cfg |-> <<1, 2>>]

MCStatusChanges ==
  [tsk |-> {3}, one |-> {}, trk |-> {2, 3}, rul |-> {}, cfg |-> {}]

All == {{"tsk"}, {"trk"}, {"rul"}, {"cfg", "project"}, {"one", "trk"}}
=============================================================================
