----------------------------- MODULE MCDeployment -----------------------------
(* Deployment with a debug activation, a Task activation, an install, one      *)
(* recovery, one upgrade and one operator, taking part two at a time.         *)
EXTENDS Deployment

MCTarget == [j \in {"d2", "i2", "s3", "u4"} |->
               CASE j \in {"d2", "i2"} -> 2 [] j = "s3" -> 3 [] OTHER -> 4]

\* The third binary (gpt-tunnel) is treated exactly like gpt-tunnelctl.
MCBinaryNames == <<"gatewayd", "ctl">>

Plan(procs, n) == [procs |-> procs, faults |-> n]
MCPlans ==
  {Plan({"d2"}, 2), Plan({"s3", "r1"}, 1), Plan({"o1", "s3"}, 1),
   Plan({"i2", "s3"}, 0), Plan({"u4", "r1"}, 0)}
===============================================================================
