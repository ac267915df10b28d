--------------------------- MODULE CanonicalBranch ---------------------------
(***************************************************************************)
(* What task/test, task/integrate and task/complete promise together,      *)
(* whatever crashes, retries and foreign pushes do in between: the default *)
(* branch only grows; a commit the gateway lands is a candidate that was   *)
(* reviewed and verified on exactly the commit it lands on; a Task is      *)
(* recorded as integrated once, with a commit of its own that is on the    *)
(* branch, and closed only after that.                                     *)
(***************************************************************************)
EXTENDS Naturals, Sequences

CONSTANTS Tasks, None

VARIABLES
  branch,     \* what was landed: [task, cand, own]
  proven,     \* [task, cand, base] reviewed and verified together
  recorded,   \* Task -> None or the position of its integration
  closed      \* the Tasks completed after an integration

bvars == <<branch, proven, recorded, closed>>

BInit ==
  /\ branch = <<>>
  /\ proven = {}
  /\ recorded = [t \in Tasks |-> None]
  /\ closed = {}

(* Reviews and verification runs add what they cover, and take nothing     *)
(* away: on which commit a candidate was verified stays on record.         *)
Prove ==
  /\ proven \subseteq proven'
  /\ \A x \in proven' : x.task \in Tasks /\ x.base <= Len(branch)
  /\ UNCHANGED <<branch, recorded, closed>>

Land(x) ==
  /\ x.base = Len(branch)
  /\ branch' = Append(branch, [task |-> x.task, cand |-> x.cand,
                               own |-> TRUE])
  /\ UNCHANGED <<proven, recorded, closed>>

(* A push by somebody else, of a Task's candidate or of anything.          *)
LandOutside ==
  /\ Len(branch') = Len(branch) + 1
  /\ SubSeq(branch', 1, Len(branch)) = branch
  /\ ~branch'[Len(branch')].own
  /\ UNCHANGED <<proven, recorded, closed>>

Record(t, i) ==
  /\ recorded[t] = None
  /\ branch[i].task = t
  /\ recorded' = [recorded EXCEPT ![t] = i]
  /\ UNCHANGED <<branch, proven, closed>>

Close(t) ==
  /\ recorded[t] # None
  /\ closed' = closed \cup {t}
  /\ UNCHANGED <<branch, proven, recorded>>

BNext ==
  \/ \E x \in proven : Land(x)
  \/ Prove \/ LandOutside
  \/ \E t \in Tasks : Close(t) \/ \E i \in DOMAIN branch : Record(t, i)

BSpec == BInit /\ [][BNext]_bvars
==============================================================================
