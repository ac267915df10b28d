--------------------------- MODULE LocalAuthority ---------------------------
(***************************************************************************)
(* The gateway's local authority for one project: durable Sessions, the    *)
(* bootstrap grant, registered Agents and their relay bindings, PLAW       *)
(* messages, and the local retirement marker that closes all of them.      *)
(*                                                                         *)
(* Every handler runs in its own HTTP or MCP goroutine and takes no lock:  *)
(* it reads rows, checks them and writes with one guarded SQL statement or *)
(* batch.  A request slot holds what a handler read; each database access  *)
(* is a step other requests may interleave with.  The binding file is read *)
(* and rewritten whole.  The wall clock may step back between two steps.   *)
(*                                                                         *)
(* Left out: tokens, digests, labels' text, message bodies, the relay     *)
(* prompt that announces a message, and the Advisor role, which the code   *)
(* treats exactly as the Lead.                                             *)
(***************************************************************************)
EXTENDS Naturals, Sequences, FiniteSets

CONSTANTS
    Agent,              \* logical Agent ids of the project
    Relay,              \* relay (Airelay session) keys
    Request,            \* request slots: how many handlers overlap
    None,               \* "no value"
    SeedBindings,       \* the binding file the run starts with
    MaxSessions,        \* bound: Session identities
    MaxMessages,        \* bound: messages
    Mixes,              \* bound: the operation mixes explored, [ops, calls, agents, sessions]: the
                        \* operations admitted, how many calls, and the store's start
    MaxClock,           \* bound: instants of the wall clock
    maxCreateAttempts,  \* Session identity attempts
    MessageAttempts     \* attempts of CreatePLAWMessage

\* The families of operations a mix may admit.
Operations == {"start", "change", "close", "agents", "messages"}

ASSUME LocalAuthorityAssumption ==
    /\ MaxSessions \in Nat /\ MaxMessages \in Nat
    /\ \A m \in Mixes : m.ops \subseteq Operations /\ m.calls \in Nat
    /\ MaxClock \in Nat
    /\ maxCreateAttempts \in Nat \ {0} /\ MessageAttempts \in Nat \ {0}
    /\ None \notin Agent \cup Relay \cup Request \cup Nat

VARIABLES
    sessions,   \* local_sessions: identity -> payload, or None
    agents,     \* local_agents: id -> payload, or None
    bindings,   \* project_agent_bindings of the configuration file
    grant,      \* a bootstrap grant exists
    projectRetired, \* local_project_retirements holds the project
    openWork,   \* an unfinished local operation, execution or epoch exists
    messages,   \* plaw_messages: number -> row, or None
    next,       \* plaw_message_sequences.next_number
    rules,      \* effective rule digest of the project
    clock,      \* the wall clock
    req,        \* what each request slot is doing
    mix,        \* the mix of operations callers send
    calls,      \* handler calls so far
    acked       \* ghost: effects a handler has reported as done

localVars == <<sessions, agents, bindings, grant, projectRetired, openWork, messages, next, rules,
          clock, req, mix, calls, acked>>

Sid == 1..MaxSessions
Mid == 1..MaxMessages

-----------------------------------------------------------------------------
(* Roles, records and their validation.                                    *)

ManagedRoles == {"lead", "worker"}
WorkflowRoles == {"planner"} \cup ManagedRoles

RequiresRef(role) == role \in ManagedRoles

NewRecord(role, ref) ==
    [role |-> role, ref |-> ref, status |-> "active", created |-> clock, started |-> clock,
     updated |-> clock, ended |-> None, label |-> 0, rules |-> None]

NewAgent(wrole, stamp) ==
    [enabled |-> TRUE, wrole |-> wrole, reasoning |-> 0, stamp |-> stamp]

validateSessionTimestamps(rec) ==
    /\ rec.started >= rec.created /\ rec.updated >= rec.created
    /\ rec.status = "active" => rec.ended = None
    /\ rec.status = "ended" => rec.ended # None /\ rec.ended >= rec.started

validateRecordShape(rec) ==
    /\ validateSessionTimestamps(rec)
    /\ RequiresRef(rec.role) => rec.ref # None

Validate(rec) ==
    /\ validateRecordShape(rec)
    /\ rec.role = "admin" => rec.ref = None
    /\ rec.role \in WorkflowRoles \cup {"admin"}

\* The rows of local_sessions, local_agents and plaw_messages after at most
\* `most` calls.
SessionRecords(most) ==
    [role : WorkflowRoles \cup {"admin"}, ref : Relay \cup {None}, status : {"active", "ended"},
     created : 0..MaxClock, started : 0..MaxClock, updated : 0..MaxClock,
     ended : 0..MaxClock \cup {None}, label : 0..most, rules : {None, 0, 1}]

AgentRecords(most) ==
    [enabled : BOOLEAN, wrole : ManagedRoles \cup {None}, reasoning : 0..most, stamp : 0..most]

MessageRecord ==
    [from : Sid, to : WorkflowRoles, by : Sid \cup {None}, state : {"unread", "read", "cancelled"}]

\* What an earlier run of the gateway left behind is well formed.
ASSUME StoreAssumption ==
    /\ IsFiniteSet(Request) /\ MaxClock >= 1 /\ None \notin MessageRecord
    /\ SeedBindings \in [Agent -> Relay \cup {None}]
    /\ \A m \in Mixes :
          /\ None \notin SessionRecords(m.calls)
          /\ m.agents \in [Agent -> {None} \cup AgentRecords(0)]
          /\ \A n \in 1..Len(m.sessions) : m.sessions[n] \in SessionRecords(0) /\ Validate(m.sessions[n])

\* The wall clock, never earlier than what the record already says.
durableSessionNow(rec) ==
    IF clock < rec.updated THEN rec.updated ELSE clock

Ended(rec) ==
    LET now == durableSessionNow(rec)
    IN  [rec EXCEPT !.status = "ended", !.ended = now, !.updated = now]

\* ReadLocalSession hides the Sessions of a retired project; Admin Sessions
\* belong to no project.
Get(n) ==
    IF sessions[n] # None /\ (projectRetired => sessions[n].role = "admin")
    THEN sessions[n] ELSE None

Active(n) == Get(n) # None /\ Get(n).status = "active"

\* List returns the workflow Sessions only.
List == {n \in Sid : Get(n) # None /\ Get(n).role \in WorkflowRoles}

activeSession(n) == Active(n)

\* Admin Sessions act on admin paths only, and nobody else does.
authenticateSession(n, admin) ==
    activeSession(n) /\ (sessions[n].role = "admin") = admin

\* A Session whose rules acknowledgement went stale is refused project work.
validateSessionRules(n) ==
    sessions[n].rules # None => sessions[n].rules = rules

\* The Session's project must still be active and configured.
resolveSessionAuthority(n) == sessions[n].role \in WorkflowRoles /\ ~projectRetired

requireSessionProjectScope(by, n) ==
    by # None => activeSession(by) /\ activeSession(n)

-----------------------------------------------------------------------------
(* Agents and routing.                                                     *)

AgentRead(a) == IF projectRetired THEN None ELSE agents[a]

EnabledAgents == {a \in Agent : AgentRead(a) # None /\ agents[a].enabled}

agentBinding(a) == bindings[a]

\* Enabled Agents other than a that share its relay.
validateManagedRuntimeBindingAgainst(a) ==
    {b \in EnabledAgents \ {a} : agentBinding(b) # None /\ agentBinding(b) = agentBinding(a)}

validateManagedRuntimeBindingCollision(a, enabled) ==
    enabled /\ agentBinding(a) # None => validateManagedRuntimeBindingAgainst(a) = {}

\* The single enabled Agent that owns a relay, or None.
resolveManagedAgentForRuntime(relay) ==
    LET owners == {a \in EnabledAgents : agentBinding(a) = relay}
    IN  IF Cardinality(owners) = 1 THEN CHOOSE a \in owners : TRUE ELSE None

resolveRuntimeRoleSessionForAgentSelector(a, role) ==
    LET matches == {n \in List : Active(n) /\ sessions[n].ref = agentBinding(a)
                                 /\ sessions[n].role = role}
    IN  IF Cardinality(matches) = 1 THEN CHOOSE n \in matches : TRUE ELSE None

ResolveRuntimeRoleSession(relay, role) ==
    LET a == resolveManagedAgentForRuntime(relay)
    IN  IF a = None THEN None ELSE resolveRuntimeRoleSessionForAgentSelector(a, role)

\* The one attached role Session of the project: exactly one enabled Agent has
\* a matching Session, and it has exactly one.
resolveProjectRoleSession(role) ==
    LET matching(a) == {n \in List : /\ Active(n) /\ sessions[n].role = role
                                     /\ agentBinding(a) # None
                                     /\ sessions[n].ref = agentBinding(a)}
        attached == {a \in EnabledAgents : matching(a) # {}}
    IN  IF Cardinality(attached) = 1
           /\ \A a \in attached : Cardinality(matching(a)) = 1
        THEN CHOOSE n \in Sid : \E a \in attached : n \in matching(a)
        ELSE None

\* A Session claims a role; the relay it names must lead back to it.
resolveRoleSession(n, role) ==
    /\ Active(n) /\ sessions[n].role = role /\ sessions[n].ref # None
    /\ ResolveRuntimeRoleSession(sessions[n].ref, role) = n

-----------------------------------------------------------------------------
(* Request slots.                                                          *)

IdleSlot == [pc |-> "idle"]

Fresh(r) == req[r] = IdleSlot /\ calls < mix.calls

Admit(r, slot) ==
    /\ req' = [req EXCEPT ![r] = slot]
    /\ calls' = calls + 1 /\ UNCHANGED mix

Goto(r, slot) == req' = [req EXCEPT ![r] = slot] /\ UNCHANGED <<mix, calls>>

\* The handler returns; `effect` is what it tells its caller it did.
Return(r, effect) ==
    /\ Goto(r, IdleSlot)
    /\ acked' = acked \cup effect

UnchangedStore == UNCHANGED <<sessions, agents, bindings, grant, projectRetired, openWork,
                              messages, next, rules>>

-----------------------------------------------------------------------------
(* Sessions.                                                               *)

\* sessionStartPublic: a Planner presents the bootstrap token.
sessionStartPublic(r) ==
    /\ Fresh(r) /\ grant /\ ~projectRetired
    /\ Admit(r, [pc |-> "create", role |-> "planner", ref |-> None, attempt |-> 1])
    /\ UnchangedStore /\ UNCHANGED <<clock, acked>>

\* The session tool starts a managed role on the relay bound to an Agent.
SessionStart(r, role, a) ==
    /\ Fresh(r) /\ role \in ManagedRoles /\ agentBinding(a) # None /\ ~projectRetired
    /\ Admit(r, [pc |-> "create", role |-> role, ref |-> agentBinding(a), attempt |-> 1])
    /\ UnchangedStore /\ UNCHANGED <<clock, acked>>

AdminSessionMint(r) ==
    /\ Fresh(r)
    /\ Admit(r, [pc |-> "create", role |-> "admin", ref |-> None, attempt |-> 1])
    /\ UnchangedStore /\ UNCHANGED <<clock, acked>>

\* SessionAttach up to the listing of the Sessions.
SessionAttach(r, role, a) ==
    /\ Fresh(r) /\ role \in ManagedRoles /\ ~projectRetired
    /\ AgentRead(a) # None /\ agents[a].enabled /\ agents[a].wrole = role
    /\ agentBinding(a) # None
    /\ Admit(r, [pc |-> "attach", role |-> role, ref |-> agentBinding(a)])
    /\ UnchangedStore /\ UNCHANGED <<clock, acked>>

\* ... the listing: reuse the exact attachment, refuse a conflict, or create.
AttachList(r) ==
    LET slot == req[r]
        active == {n \in List : Active(n) /\ sessions[n].role = slot.role}
        exact == Cardinality(active) = 1 /\ \A n \in active : sessions[n].ref = slot.ref
    IN  /\ slot.pc = "attach"
        /\ IF active = {}
           THEN Goto(r, [pc |-> "create", role |-> slot.role, ref |-> slot.ref, attempt |-> 1])
                /\ UNCHANGED acked
           ELSE Return(r, IF exact THEN {<<"attached", slot.role>>} ELSE {})
        /\ UnchangedStore /\ UNCHANGED clock

\* Mutant: the insert does not look at the retirement marker.
MutantCreate(role) == TRUE

\* The guard of the insert into local_sessions.
CreateLocalSessions(role) == role = "admin" \/ ~projectRetired

\* Store.create: draw an identity, insert, draw again when it is taken.
Create(r, n) ==
    LET slot == req[r]
        record == NewRecord(slot.role, slot.ref)
    IN  /\ slot.pc = "create"
        /\ \/ /\ sessions[n] = None /\ Validate(record) /\ CreateLocalSessions(slot.role)
              /\ sessions' = [sessions EXCEPT ![n] = record]
              /\ Return(r, {})
           \/ /\ sessions[n] = None /\ ~CreateLocalSessions(slot.role)
              /\ Return(r, {}) /\ UNCHANGED sessions
           \/ /\ sessions[n] # None /\ UNCHANGED <<sessions, acked>>
              /\ IF slot.attempt < maxCreateAttempts /\ CreateLocalSessions(slot.role)
                 THEN Goto(r, [slot EXCEPT !.attempt = @ + 1])
                 ELSE Goto(r, IdleSlot)
        /\ UNCHANGED <<agents, bindings, grant, projectRetired, openWork, messages, next, rules, clock>>

\* What an update asks for: the fields its caller names, and their values.
SessionAsks(most) ==
    [fields : SUBSET {"label", "ref", "rules", "status"}, label : 0..most,
     ref : Relay \cup {None}, rules : {None, 0, 1}]

Ask(fields, label, ref, digest) ==
    [fields |-> fields, label |-> label, ref |-> ref, rules |-> digest]

\* SessionUpdate: a new label, a new relay for a managed role, or both in one
\* request; an update that names neither is refused (validateUpdateInput).
SessionUpdate(r, by, n, fields, a) ==
    /\ Fresh(r) /\ requireSessionProjectScope(by, n)
    /\ Active(n) /\ sessions[n].role \in WorkflowRoles
    /\ fields # {}
    /\ "ref" \in fields => RequiresRef(sessions[n].role) /\ agentBinding(a) # None
    /\ Admit(r, [pc |-> "cas", session |-> n, old |-> sessions[n],
                 ask |-> Ask(fields, IF "label" \in fields THEN calls + 1 ELSE 0,
                             IF "ref" \in fields THEN agentBinding(a) ELSE None, None)])
    /\ UnchangedStore /\ UNCHANGED <<clock, acked>>

\* rule/effective reads the digest, then acknowledges it for the Session.
ruleEffectiveAction(r, n) ==
    /\ Fresh(r) /\ authenticateSession(n, FALSE)
    /\ Admit(r, [pc |-> "ack", session |-> n, value |-> rules])
    /\ UnchangedStore /\ UNCHANGED <<clock, acked>>

AcknowledgeRules(r) ==
    LET slot == req[r]
    IN  /\ slot.pc = "ack"
        /\ Goto(r, IF Active(slot.session)
                   THEN [pc |-> "cas", session |-> slot.session, old |-> sessions[slot.session],
                         ask |-> Ask({"rules"}, 0, None, slot.value)]
                   ELSE IdleSlot)
        /\ UnchangedStore /\ UNCHANGED <<clock, acked>>

\* What an update makes of the record it read.
Changed(old, ask) ==
    LET rec == IF "status" \in ask.fields THEN Ended(old)
               ELSE [old EXCEPT !.updated = durableSessionNow(old)]
    IN  [rec EXCEPT !.label = IF "label" \in ask.fields THEN ask.label ELSE old.label,
                    !.ref = IF "ref" \in ask.fields THEN ask.ref ELSE old.ref,
                    !.rules = IF "rules" \in ask.fields THEN ask.rules ELSE old.rules]

\* Mutant: the update matches the row by identity alone.
MutantUpdate(n, old, new) == sessions[n] # None /\ sessions[n].status = "active"

\* Does UPDATE local_sessions match a row?  The old payload is part of the
\* predicate; only ending is allowed once the project is retired.
UpdateLocalSession(n, old, new) ==
    /\ sessions[n] = old /\ old.status = "active"
    /\ new.status = "active" /\ new.role # "admin" => ~projectRetired

\* End: nothing to do when the Session is ended already.
EndRequest(r, n) ==
    /\ Fresh(r)
    /\ IF sessions[n].status = "ended"
       THEN Admit(r, IdleSlot) /\ acked' = acked \cup {<<"ended", n>>}
       ELSE /\ Admit(r, [pc |-> "cas", session |-> n, old |-> sessions[n],
                         ask |-> Ask({"status"}, 0, None, None)])
            /\ UNCHANGED acked
    /\ UnchangedStore /\ UNCHANGED clock

SessionEnd(r, by, n) ==
    /\ requireSessionProjectScope(by, n) /\ Get(n) # None /\ sessions[n].role \in WorkflowRoles
    /\ EndRequest(r, n)

AdminSessionRevoke(r, n) ==
    Get(n) # None /\ sessions[n].role = "admin" /\ EndRequest(r, n)

\* End lost its update: it still succeeded when the Session is ended now.
EndLost(n) == Get(n) # None /\ sessions[n].status = "ended"

updateLocal(r) ==
    LET slot == req[r]
        n == slot.session
        new == Changed(slot.old, slot.ask)
        done == IF "status" \in slot.ask.fields THEN {<<"ended", n>>} ELSE {}
    IN  /\ slot.pc = "cas"
        /\ IF Validate(new) /\ UpdateLocalSession(n, slot.old, new)
           THEN sessions' = [sessions EXCEPT ![n] = new] /\ Return(r, done)
           ELSE /\ UNCHANGED sessions
                /\ Return(r, IF Validate(new) /\ EndLost(n) THEN done ELSE {})
        /\ UNCHANGED <<agents, bindings, grant, projectRetired, openWork, messages, next, rules, clock>>

-----------------------------------------------------------------------------
(* The bootstrap grant and local retirement.                               *)

\* ProjectToken and onboarding make sure a grant exists.
EnsureProjectSessionBootstrapGrant(r) ==
    /\ Fresh(r) /\ ~projectRetired
    /\ Admit(r, IF grant THEN IdleSlot ELSE [pc |-> "grant"])
    /\ UnchangedStore /\ UNCHANGED <<clock, acked>>

\* The guard of the insert into local_session_bootstrap_grants.
EnsureSessionBootstrapGrant == ~projectRetired

GrantInsert(r) ==
    /\ req[r].pc = "grant"
    /\ grant' = (grant \/ EnsureSessionBootstrapGrant)
    /\ Return(r, {})
    /\ UNCHANGED <<sessions, agents, bindings, projectRetired, openWork, messages, next, rules, clock>>

\* Nothing of the project may still be live: no active Session, no unfinished
\* operation, execution or callback epoch.
localProjectRetirementBlocked ==
    \/ openWork
    \/ \E n \in Sid : sessions[n] # None /\ sessions[n].status = "active"
                      /\ sessions[n].role # "admin"

\* One batch: the guarded marker and the removal of the grant.
beginLocalProjectRetirement ==
    /\ ~projectRetired /\ ~localProjectRetirementBlocked
    /\ projectRetired' = TRUE /\ grant' = FALSE
    /\ UNCHANGED <<sessions, agents, bindings, openWork, messages, next, rules, clock, req,
                   mix, calls, acked>>

\* genericCall: a workflow Session starts work in the project; a Lead's
\* dispatch needs the attached Worker.
genericCall(r, n) ==
    /\ Fresh(r) /\ authenticateSession(n, FALSE)
    /\ validateSessionRules(n) /\ resolveSessionAuthority(n)
    /\ sessions[n].role = "planner" \/ resolveProjectRoleSession("worker") # None
    /\ sessions[n].role = "lead" => resolveRoleSession(n, "lead")
    /\ Admit(r, [pc |-> "work"])
    /\ UnchangedStore /\ UNCHANGED <<clock, acked>>

\* ... and its local row is inserted, guarded by the retirement marker.
AdmitWork(r) ==
    /\ req[r].pc = "work"
    /\ openWork' = (openWork \/ ~projectRetired)
    /\ Return(r, {})
    /\ UNCHANGED <<sessions, agents, bindings, grant, projectRetired, messages, next, rules, clock>>

\* A Worker submits from its relay and the work is finished.
agentCLISubmit(relay) ==
    /\ openWork /\ ResolveRuntimeRoleSession(relay, "worker") # None
    /\ openWork' = FALSE
    /\ UNCHANGED <<sessions, agents, bindings, grant, projectRetired, messages, next, rules, clock,
                   req, mix, calls, acked>>

\* The effective rule set changes.
RulesChange ==
    /\ rules < 1 /\ ~projectRetired
    /\ rules' = rules + 1
    /\ UNCHANGED <<sessions, agents, bindings, grant, projectRetired, openWork, messages, next, clock,
                   req, mix, calls, acked>>

\* The host clock is stepped, in either direction.
ClockStep ==
    /\ \E t \in 0..MaxClock : clock' = t /\ t # clock
    /\ UNCHANGED <<sessions, agents, bindings, grant, projectRetired, openWork, messages, next, rules,
                   req, mix, calls, acked>>

-----------------------------------------------------------------------------
(* Agents.                                                                 *)

\* AgentBootstrap up to the read of the Agent.
AgentBootstrap(r, a, role, relay) ==
    LET slot == [pc |-> "register", agent |-> a, role |-> role, relay |-> relay]
        old == agents[a]
        conflict == {n \in List : Active(n) /\ sessions[n].ref = relay
                                  /\ sessions[n].role # role}
    IN  /\ Fresh(r) /\ ~projectRetired /\ role \in ManagedRoles
        /\ agentBinding(a) # None => agentBinding(a) = relay
        /\ \/ old = None /\ Admit(r, slot)
           \/ old # None /\ old.enabled /\ old.wrole = role /\ Admit(r, [slot EXCEPT !.pc = "bind"])
           \/ /\ old # None /\ old.enabled /\ old.wrole = None /\ conflict = {}
              /\ Admit(r, [pc |-> "reread", agent |-> a, relay |-> relay,
                           new |-> [old EXCEPT !.wrole = role, !.stamp = calls + 1]])
        /\ UnchangedStore /\ UNCHANGED <<clock, acked>>

\* AgentRegister: the second look, the collision check and the insert.
AgentRegister(r) ==
    LET slot == req[r]
        a == slot.agent
    IN  /\ slot.pc = "register"
        /\ IF /\ agents[a] = None /\ ~projectRetired
              /\ validateManagedRuntimeBindingCollision(a, TRUE)
           THEN /\ agents' = [agents EXCEPT ![a] = NewAgent(slot.role, calls)]
                /\ Goto(r, [slot EXCEPT !.pc = "bind"])
           ELSE UNCHANGED agents /\ Goto(r, IdleSlot)
        /\ UNCHANGED <<sessions, bindings, grant, projectRetired, openWork, messages, next, rules,
                       clock, acked>>

\* AgentUpdate and AgentDisable up to the collision check.
AgentUpdate(r, a, field, value) ==
    LET new == [agents[a] EXCEPT ![field] = value, !.stamp = calls + 1]
    IN  /\ Fresh(r) /\ AgentRead(a) # None
        /\ validateManagedRuntimeBindingCollision(a, new.enabled)
        /\ Admit(r, [pc |-> "reread", agent |-> a, relay |-> None, new |-> new])
        /\ UnchangedStore /\ UNCHANGED <<clock, acked>>

\* The payload the update will be compared with is read a second time, after
\* the new payload was made from the first reading.
ReadLocalAgent(r) ==
    /\ req[r].pc = "reread"
    /\ Goto(r, IF AgentRead(req[r].agent) = None THEN IdleSlot
               ELSE [pc |-> "agentcas", agent |-> req[r].agent, relay |-> req[r].relay,
                     new |-> req[r].new, old |-> agents[req[r].agent]])
    /\ UnchangedStore /\ UNCHANGED <<clock, acked>>

\* AgentUpdate returns; ensurePortableAgentWorkflowRole goes on to bind.
UpdateLocalAgent(r) ==
    LET slot == req[r]
        a == slot.agent
        hit == agents[a] = slot.old /\ ~projectRetired
    IN  /\ slot.pc = "agentcas"
        /\ agents' = IF hit THEN [agents EXCEPT ![a] = slot.new] ELSE agents
        /\ Goto(r, IF hit /\ slot.relay # None
                   THEN [pc |-> "bind", agent |-> a, role |-> slot.new.wrole,
                         relay |-> slot.relay]
                   ELSE IdleSlot)
        /\ UNCHANGED <<sessions, bindings, grant, projectRetired, openWork, messages, next, rules,
                       clock, acked>>

\* UpdateAgentBinding reads the whole file ...
UpdateAgentBinding(r) ==
    LET slot == req[r]
    IN  /\ slot.pc = "bind"
        /\ Goto(r, IF bindings[slot.agent] # None /\ bindings[slot.agent] # slot.relay
                   THEN IdleSlot
                   ELSE [pc |-> "writefile", agent |-> slot.agent, original |-> bindings,
                         relay |-> slot.relay])
        /\ UnchangedStore /\ UNCHANGED <<clock, acked>>

\* ... writes it back whole ...
WriteBinding(r) ==
    LET slot == req[r]
    IN  /\ slot.pc = "writefile"
        /\ bindings' = [slot.original EXCEPT ![slot.agent] = slot.relay]
        /\ Goto(r, [slot EXCEPT !.pc = "refresh"])
        /\ UNCHANGED <<sessions, agents, grant, projectRetired, openWork, messages, next, rules,
                       clock, acked>>

\* ... and, when the refresh fails, puts the bytes it had read back.
persistAgentBindingWithRefresh(r) ==
    LET slot == req[r]
    IN  /\ slot.pc = "refresh"
        /\ \/ UNCHANGED bindings
           \/ bindings' = slot.original
        /\ Return(r, {})
        /\ UNCHANGED <<sessions, agents, grant, projectRetired, openWork, messages, next, rules, clock>>

-----------------------------------------------------------------------------
(* PLAW messages.  They are not guarded by the retirement marker.          *)

messageActor(n) == Active(n) /\ sessions[n].role \in WorkflowRoles

Numbering == {r \in Request : req[r].pc \in {"number", "insert"}}

\* MessageCreate up to the allocation of the number.
MessageCreate(r, n, to) ==
    /\ Fresh(r) /\ messageActor(n)
    /\ next - 1 + Cardinality(Numbering) < MaxMessages
    /\ Admit(r, [pc |-> "number", from |-> n, to |-> to, attempt |-> 1])
    /\ UnchangedStore /\ UNCHANGED <<clock, acked>>

nextPLAWMessageNumber(r) ==
    /\ req[r].pc = "number"
    /\ Goto(r, [pc |-> "insert", from |-> req[r].from, to |-> req[r].to,
                attempt |-> req[r].attempt, number |-> next])
    /\ UnchangedStore /\ UNCHANGED <<clock, acked>>

\* Mutant: a lost race keeps the stale number.
MutantRenumber(slot) == slot

\* The next attempt draws the number again.
Renumber(slot) ==
    [pc |-> "number", from |-> slot.from, to |-> slot.to, attempt |-> slot.attempt + 1]

\* One batch: advance the sequence if it still is where it was, and insert.
CreatePLAWMessage(r) ==
    LET slot == req[r]
    IN  /\ slot.pc = "insert"
        /\ IF next = slot.number
           THEN /\ messages' = [messages EXCEPT ![next] =
                       [from |-> slot.from, to |-> slot.to, state |-> "unread", by |-> None]]
                /\ next' = next + 1
                /\ Return(r, {<<"created", slot.number>>})
           ELSE /\ UNCHANGED <<messages, next, acked>>
                /\ Goto(r, IF slot.attempt < MessageAttempts THEN Renumber(slot)
                           ELSE IdleSlot)
        /\ UNCHANGED <<sessions, agents, bindings, grant, projectRetired, openWork, rules, clock>>

\* MessageRead up to the update; reading a read message succeeds at once.
MessageRead(r, n, m) ==
    /\ Fresh(r) /\ messageActor(n) /\ messages[m] # None
    /\ messages[m].to = sessions[n].role /\ messages[m].state # "cancelled"
    /\ IF messages[m].state = "read"
       THEN Admit(r, IdleSlot) /\ acked' = acked \cup {<<"read", m>>}
       ELSE Admit(r, [pc |-> "markread", from |-> n, message |-> m]) /\ UNCHANGED acked
    /\ UnchangedStore /\ UNCHANGED clock

\* Mutant: the update does not look at the state it found unread.
MutantStillUnread(m) == TRUE

\* The state predicate of both updates.
StillUnread(m) == messages[m].state = "unread"

MarkPLAWMessageRead(r) ==
    LET slot == req[r]
        m == slot.message
        hit == StillUnread(m)
    IN  /\ slot.pc = "markread"
        /\ messages' = IF hit
                       THEN [messages EXCEPT ![m].state = "read", ![m].by = slot.from]
                       ELSE messages
        /\ Return(r, IF hit \/ messages[m].state = "read" THEN {<<"read", m>>} ELSE {})
        /\ UNCHANGED <<sessions, agents, bindings, grant, projectRetired, openWork, next, rules, clock>>

MessageCancel(r, n, m) ==
    /\ Fresh(r) /\ messageActor(n) /\ messages[m] # None /\ messages[m].state = "unread"
    /\ Admit(r, [pc |-> "cancel", from |-> n, role |-> sessions[n].role, message |-> m])
    /\ UnchangedStore /\ UNCHANGED <<clock, acked>>

\* Only the sender or a Planner cancels.
CancelPLAWMessage(r) ==
    LET slot == req[r]
        m == slot.message
        hit == StillUnread(m) /\ (messages[m].from = slot.from \/ slot.role = "planner")
    IN  /\ slot.pc = "cancel"
        /\ messages' = IF hit
                       THEN [messages EXCEPT ![m].state = "cancelled", ![m].by = slot.from]
                       ELSE messages
        /\ Return(r, IF hit THEN {<<"cancelled", m>>} ELSE {})
        /\ UNCHANGED <<sessions, agents, bindings, grant, projectRetired, openWork, next, rules, clock>>

-----------------------------------------------------------------------------
(* Specification.                                                          *)

LocalInit ==
    /\ mix \in Mixes
    /\ sessions = [n \in Sid |-> IF n <= Len(mix.sessions) THEN mix.sessions[n] ELSE None]
    /\ agents = mix.agents /\ bindings = SeedBindings
    /\ grant \in {TRUE, mix.sessions # <<>>}   \* a new project may have none
    /\ projectRetired = FALSE /\ openWork = FALSE
    /\ messages = [m \in Mid |-> None] /\ next = 1
    /\ rules = 0 /\ clock = 1
    /\ req = [r \in Request |-> IdleSlot] /\ calls = 0 /\ acked = {}

\* A caller's request arrives.
ArriveStart(r) ==
    \/ sessionStartPublic(r) \/ AdminSessionMint(r)
    \/ \E a \in Agent, role \in ManagedRoles : SessionStart(r, role, a) \/ SessionAttach(r, role, a)

ArriveChange(r) ==
    \/ \E n \in Sid, by \in Sid \cup {None} : SessionEnd(r, by, n)
    \/ \E n \in Sid, by \in Sid \cup {None}, fields \in SUBSET {"label", "ref"}, a \in Agent :
          SessionUpdate(r, by, n, fields, a)
    \/ \E n \in Sid : ruleEffectiveAction(r, n) \/ AdminSessionRevoke(r, n)

ArriveAgents(r) ==
    \/ \E a \in Agent, role \in ManagedRoles, relay \in Relay : AgentBootstrap(r, a, role, relay)
    \/ \E a \in Agent : AgentUpdate(r, a, "enabled", TRUE) \/ AgentUpdate(r, a, "enabled", FALSE)
                        \/ AgentUpdate(r, a, "reasoning", calls + 1)

ArriveMessages(r) ==
    \/ \E n \in Sid, to \in WorkflowRoles : MessageCreate(r, n, to)
    \/ \E n \in Sid, m \in Mid : MessageRead(r, n, m) \/ MessageCancel(r, n, m)

Arrive(r) ==
    \/ "start" \in mix.ops /\ ArriveStart(r)
    \/ "change" \in mix.ops /\ ArriveChange(r)
    \/ "close" \in mix.ops /\ (\/ EnsureProjectSessionBootstrapGrant(r)
                               \/ \E n \in Sid : genericCall(r, n))
    \/ "agents" \in mix.ops /\ ArriveAgents(r)
    \/ "messages" \in mix.ops /\ ArriveMessages(r)

\* The handler's own next step.
Step(r) ==
    \/ AttachList(r) \/ (\E n \in Sid : Create(r, n))
    \/ AcknowledgeRules(r) \/ updateLocal(r) \/ GrantInsert(r) \/ AdmitWork(r)
    \/ AgentRegister(r) \/ ReadLocalAgent(r) \/ UpdateLocalAgent(r)
    \/ UpdateAgentBinding(r) \/ WriteBinding(r) \/ persistAgentBindingWithRefresh(r)
    \/ nextPLAWMessageNumber(r) \/ CreatePLAWMessage(r) \/ MarkPLAWMessageRead(r)
    \/ CancelPLAWMessage(r)

LocalNext ==
    \/ \E r \in Request : Arrive(r) \/ Step(r)
    \/ "close" \in mix.ops /\ (beginLocalProjectRetirement
                               \/ \E relay \in Relay : agentCLISubmit(relay))
    \/ "change" \in mix.ops /\ (RulesChange \/ ClockStep)

\* A handler that was called runs to its end; nobody has to call one.
LocalSpec == LocalInit /\ [][LocalNext]_localVars /\ \A r \in Request : WF_localVars(Step(r))

-----------------------------------------------------------------------------
(* Properties.                                                             *)

SessionRecord == SessionRecords(mix.calls)
AgentRecord == AgentRecords(mix.calls)

\* Every row has its shape, and every stored Session passes Validate.
LocalTypeOK ==
    /\ \A n \in Sid : sessions[n] # None => sessions[n] \in SessionRecord /\ Validate(sessions[n])
    /\ agents \in [Agent -> {None} \cup AgentRecord]
    /\ bindings \in [Agent -> Relay \cup {None}]
    /\ {grant, projectRetired, openWork} \subseteq BOOLEAN
    /\ messages \in [Mid -> {None} \cup MessageRecord]
    /\ next \in 1..(MaxMessages + 1) /\ rules \in 0..1 /\ clock \in 0..MaxClock
    /\ DOMAIN req = Request /\ mix \in Mixes /\ calls \in 0..mix.calls

\* A retired project stays closed: no workflow Session is active, no bootstrap
\* grant can start one and no local work is open, although the handlers that
\* would create them checked the project before it was retired.
RetiredIsQuiet ==
    projectRetired => /\ ~grant /\ ~openWork
                      /\ \A n \in Sid : sessions[n] # None /\ sessions[n].role # "admin"
                                        => sessions[n].status = "ended"

\* What a caller was told holds for good: an ended Session stays ended, a read
\* message was not cancelled, a cancelled one was not read, a created one is
\* there, and no other message has its number.
AckedHolds ==
    \A e \in acked :
        /\ e[1] = "ended" => sessions[e[2]].status = "ended"
        /\ e[1] = "read" => messages[e[2]].state = "read"
        /\ e[1] = "cancelled" => messages[e[2]].state = "cancelled"
        /\ e[1] = "created" => messages[e[2]] # None /\ e[2] < next

Fields(old, new) == {f \in {"role", "ref", "label", "rules", "status"} : old[f] # new[f]}

\* A write of a Session changes only what its own request named: it never
\* undoes a label, relay or rules update committed between its read and its
\* write, never revives an ended Session, and never moves updated_at back
\* although the clock may.
SessionWritesCompose ==
    [][\A n \in Sid :
        sessions[n] # None /\ sessions'[n] # sessions[n]
        => /\ sessions[n].status = "active" /\ sessions'[n].updated >= sessions[n].updated
           /\ \E r \in Request :
                 /\ req[r].pc = "cas" /\ req[r].session = n /\ req'[r] # req[r]
                 /\ Fields(sessions[n], sessions'[n]) \subseteq req[r].ask.fields]_localVars

\* Every handler returns: its retries over identities and message numbers are
\* bounded, whatever the other handlers do.
RequestsReturn == \A r \in Request : req[r] # IdleSlot ~> req[r] = IdleSlot

=============================================================================
