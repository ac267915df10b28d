---------------------------- MODULE MCAgentTurns ----------------------------
(***************************************************************************)
(* Two Agents on two relays, two Operations and two epochs; restarts,      *)
(* failures and configuration changes are spread over the mixes.           *)
(***************************************************************************)
EXTENDS AgentTurns

CONSTANTS a1, a2, r1, r2

MCRank == [a \in Agent |-> IF a = a1 THEN 1 ELSE 2]

MCAgents == [a \in Agent |-> IF a = a1 THEN [enabled |-> TRUE, level |-> "high", key |-> r1]
                                       ELSE [enabled |-> TRUE, level |-> "low", key |-> r2]]
OneAgent == [MCAgents EXCEPT ![a2].enabled = FALSE]

Mix(kinds, count, agents0, hooks, crashes, faults, changes, tail) ==
    [kinds |-> kinds, count |-> count, agents |-> agents0, hooks |-> hooks, tail |-> tail,
     relays |-> IF "prompt" \in kinds \/ tail THEN {"idle"} ELSE {"running"},
     left |-> [crashes |-> crashes, faults |-> faults, changes |-> changes]]

MCMixes ==
    {Mix({"prompt"}, 1, OneAgent, {"bound"}, 1, 1, 0, FALSE),
     Mix({"prompt"}, 1, OneAgent, {"bound", "unbound", "missing"}, 0, 0, 1, FALSE),
     Mix({"prompt"}, 2, OneAgent, {"bound"}, 0, 0, 0, FALSE),
     Mix({"interrupt", "replace"}, 1, OneAgent, {"unbound"}, 1, 1, 0, FALSE),
     Mix({"prompt", "replace"}, 2, OneAgent, {"unreadable"}, 0, 0, 0, FALSE),
     Mix({"replace"}, 1, OneAgent, {"unbound"}, 1, 0, 1, FALSE),
     Mix({"prompt", "interrupt"}, 2, MCAgents, {"unreadable"}, 0, 0, 0, FALSE),
     Mix({}, 0, OneAgent, {"unbound"}, 0, 0, 0, TRUE)}
=============================================================================
