------------------------- MODULE MCDurableMutation -------------------------
(***************************************************************************)
(* The instance of DurableMutation for TLC.  The names of the requests say *)
(* which admission function they go through; test2 and test3 are           *)
(* verifications of one Task with different captured identities.           *)
(***************************************************************************)
EXTENDS DurableMutation

MCPolicy ==
  [integrate |-> "reuse", prompt |-> "repeatable", test1 |-> "verify",
   test2 |-> "verify", test3 |-> "verify", again |-> "verify", check |-> "verify",
   script |-> "procedure"]

MCCoord ==
  [integrate |-> "integrate", prompt |-> "prompt", test1 |-> "hooked",
   test2 |-> "test", test3 |-> "test", again |-> "again", check |-> "check",
   script |-> "script"]

MCHooks ==
  [integrate |-> {"before", "after"}, prompt |-> {}, test1 |-> {"before"},
   test2 |-> {}, test3 |-> {}, again |-> {}, check |-> {},
   script |-> {}]

(* Bounds per request: Operations, crashes, failed row updates, workers.   *)
(* test2 and test3 have Operations enough for a retry past an attempt of   *)
(* the other identity, again for more retries than the bound allows.       *)
MCLimits ==
  LET most(n, c, f, w) == [ops |-> n, crashes |-> c, faults |-> f, workers |-> w]
      one == {"w1"}
  IN [integrate |-> most(1, 1, 1, Workers), prompt |-> most(3, 1, 0, one),
      script |-> most(2, 1, 1, Workers), test1 |-> most(2, 1, 0, one),
      test2 |-> most(4, 0, 0, one), test3 |-> most(3, 0, 0, one),
      again |-> most(5, 0, 0, one), check |-> most(2, 1, 0, one)]

(* Each coordinate alone, and a Procedure and a verification together.     *)
MCWorkloads ==
  {{"integrate"}, {"prompt"}, {"script"}, {"test1"}, {"test2", "test3"},
   {"again"}, {"script", "check"}}
============================================================================
