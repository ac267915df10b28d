-------------------------- MODULE MCLocalAuthority --------------------------
(***************************************************************************)
(* A project with a Lead Agent on its relay, a second Agent that is        *)
(* unknown or predates workflow roles, a Planner and an attached Lead      *)
(* Session, and two handlers at a time.                                    *)
(***************************************************************************)
EXTENDS LocalAuthority

CONSTANTS a1, a2, r1, r2

Lead == [enabled |-> TRUE, wrole |-> "lead", reasoning |-> 0, stamp |-> 0]

Registered(second) == [a \in Agent |-> IF a = a1 THEN Lead ELSE second]
Legacy == [Lead EXCEPT !.wrole = None]

MCBindings == [a \in Agent |-> IF a = a1 THEN r1 ELSE None]

MCSession(role, ref) ==
    [role |-> role, ref |-> ref, status |-> "active", created |-> 0, started |-> 0,
     updated |-> 0, ended |-> None, label |-> 0, rules |-> None]

MCSessions == <<MCSession("planner", None), MCSession("lead", r1)>>

Mix(ops, calls0, agents0, sessions0) ==
    [ops |-> ops, calls |-> calls0, agents |-> agents0, sessions |-> sessions0]

MCMixes ==
    {Mix({"start", "close"}, 3, Registered(None), <<>>),
     Mix({"change", "close"}, 3, Registered(None), MCSessions),
     Mix({"start", "agents"}, 2, Registered(Legacy), MCSessions),
     Mix({"start", "agents"}, 3, Registered(None), <<>>),
     Mix({"messages"}, 3, Registered(None), MCSessions),
     Mix(Operations, 2, Registered(Legacy), MCSessions)}
=============================================================================
