------------------------------ MODULE MCPlanning ------------------------------
(***************************************************************************)
(* Small planning instances: an active Milestone with two Tasks and one    *)
(* planned Track, two requests at a time.                                  *)
(***************************************************************************)
EXTENDS Planning, TLC

CONSTANTS t1, t2, m1, m2, r1, r2

MCMilestones ==
    [m \in {m1} |-> [tasks |-> {t1}, status |-> "active", revision |-> 2, evidence |-> FALSE]]

MCTracks == << [milestone |-> m1, tasks |-> {t1}, dispatched |-> {}, status |-> "planned",
               revision |-> 1, review |-> None] >>

\* Request slots are interchangeable.
Slots == Permutations({r1, r2})
=============================================================================
