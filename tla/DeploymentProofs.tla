--------------------------- MODULE DeploymentProofs ---------------------------
(***************************************************************************)
(* Proofs about activation, recovery, upgrade and the operator's commands, *)
(* for any number of each, any builds, binaries and plans, and any kills   *)
(* and exits between the steps.                                            *)
(***************************************************************************)
EXTENDS Deployment, SequenceTheorems, TLAPS

-----------------------------------------------------------------------------
(* Where a process can be, and what it holds there.                        *)

CutoverSites ==
    (DOMAIN ActivateGateway \ {"a_lock"}) \cup DOMAIN Rollback \cup DOMAIN RecoverGatewayForward
RecoverySites == DOMAIN RestartGatewayRecovery \cup {"r_ok", "r_failed"}
ReplacedSites == DOMAIN UpgradeRun \cup DOMAIN UpgradeRollback \cup {"u_phase", "v_failed"}
ProvenSites == {"u_clean", "u_complete", "v_clean", "v_complete"}
OperatorSites ==
    DOMAIN Start \cup DOMAIN Stop \cup DOMAIN Restart \cup DOMAIN StartGatewayOnly
    \cup DOMAIN StopGatewayOnly \cup DOMAIN RestartGatewayOnly

\* The sites of a process of each kind.
SitesOf(j) ==
    IF j \in Activations
    THEN {"idle", "ended", "crashed", "d_run", "p_prepare", "a_lock"} \cup CutoverSites \cup EndSites
    ELSE IF j \in Recoveries THEN {"idle", "r_lock"} \cup RecoverySites
    ELSE IF j \in Upgrades
    THEN {"idle", "ended", "crashed", "u_lock", "u_backup"} \cup ReplacedSites \cup ProvenSites
    ELSE {"idle"} \cup OperatorSites

Stands == \A j \in Jobs : job[j].pc \in SitesOf(j)

\* Whoever is at a site of the controller's scope holds controller.lock.
Held == \A j \in Jobs : job[j].pc \in ControllerSites => lock = j

-----------------------------------------------------------------------------
(* Receipts.                                                               *)

\* A debug activation with record r at site pc, w workers scheduled, that has
\* come as far as c: no receipt invites a retry of one that has begun.
DebugFits(r, pc, w, c) ==
    /\ r.outcome = None \/ r.retryable \/ w > 0 => pc = "idle" /\ c = "none"
    /\ w > 0 \/ pc = "d_run" => r.outcome = "accepted" /\ ~r.retryable
    /\ pc \notin {"idle", "d_run", "crashed"} => r.outcome = "in_progress"
    /\ pc # "ended"
    /\ r.outcome = None => r.attempt = 0

\* A recovery that has the lock has said so.
RecoveryFits(r, pc, b) ==
    /\ pc \in RecoverySites => r.outcome = "in_progress" /\ b # None

-----------------------------------------------------------------------------
(* The way back.                                                           *)

Untouched == {"d_run", "p_prepare", "a_lock", "a_check", "a_stop", "a_end"}
Matching == {"b_record", "b_ready", "b_verify"}

\* What an activation at pc that has come as far as c keeps: f is what it found,
\* s its snapshot, w says that no artifact was written beside it.
Keeps(pc, c, f, s, w) ==
    /\ pc \in Untouched => c = "none"
    /\ pc \in {"a_done", "x_previous"} => c = "settled"
    /\ pc \in CutoverSites \cup {"a_lock"} => s # None
    /\ pc \in CutoverSites => f # None
    /\ c \in {"open", "ran"} => f # None /\ s # None
    /\ w /\ (pc \in CutoverSites \ {"a_check"} \/ c \in {"open", "ran"}) => s.prev = f.set
    /\ \/ pc \in {"a_replace", "a_spawn", "a_record", "a_ready", "a_verify", "c_stop", "c_state"}
       \/ c = "ran"
       => s.db # None /\ \A d \in Databases : s.db[d] \in {f.db[d], f.ran}

\* What its host looks like: the installed set, the databases, the Gateway and
\* its record.
Faces(pc, i, f, w, set, dbs, g, p) ==
    /\ w /\ pc = "a_check" => set = f.set
    /\ pc \in {"a_check", "a_stop", "a_capture", "a_replace", "a_spawn", "b_stop", "b_restore", "b_spawn"} =>
         \A d \in Databases : dbs[d] \in {f.db[d], f.ran}
    /\ pc \in {"a_check", "a_stop", "a_capture", "a_replace", "a_spawn",
               "c_state", "b_stop", "b_restore", "b_spawn"} =>
         (g # None => g.ver = f.ran)
    /\ pc \in {"a_ready", "a_verify", "c_stop"} => (g # None => p \/ g.ver = f.ran)
    /\ pc = "c_state" /\ i > 1 => dbs["shared"] \in {f.db["shared"], f.ran}
    /\ w /\ pc = "b_spawn" => set = f.set
    /\ w /\ pc \in Matching =>
         /\ g # None => g.ver = f.set["gatewayd"]
         /\ \A d \in Databases : dbs[d] \in {f.db[d], f.ran, f.set["gatewayd"]}

\* An upgrade's transaction t.
Backed(pc, c, t) ==
    /\ pc \in {"idle", "u_lock", "u_backup"} => c = "none"
    /\ pc \in ProvenSites => c = "settled"
    /\ pc \in ReplacedSites \/ c = "open" => t.backup # None /\ t.available

\* What the invariant says of process j.
Own(j) ==
    /\ j \in Debugs => DebugFits(receipt[j], job[j].pc, pend[j], cut[j])
    /\ j \in Recoveries => RecoveryFits(receipt[j], job[j].pc, job[j].before)
    /\ j \in Activations =>
         /\ Keeps(job[j].pc, cut[j], job[j].found, snap[j], ~overlap)
         /\ Faces(job[j].pc, job[j].i, job[j].found, ~overlap, installed, db, gw, pid)
         /\ j \notin Debugs /\ job[j].pc = "idle" => cut[j] = "none"
    /\ j \in Upgrades => Backed(job[j].pc, cut[j], tx[j])

IInv == TypeOK /\ Stands /\ Held /\ \A j \in Jobs : Own(j)

-----------------------------------------------------------------------------
(* The table of calls.                                                     *)

LEMMA TableDomains ==
    /\ DOMAIN ActivateGateway =
         {"a_lock", "a_check", "a_stop", "a_capture", "a_replace", "a_spawn", "a_record", "a_ready",
          "a_verify"}
    /\ DOMAIN Rollback =
         {"c_stop", "c_state", "b_stop", "b_restore", "b_spawn", "b_record", "b_ready", "b_verify",
          "b_undo"}
    /\ DOMAIN RecoverGatewayForward =
         {"f_replace", "f_spawn", "f_record", "f_ready", "f_verify", "f_stop"}
    /\ DOMAIN RestartGatewayRecovery =
         {"r_stop", "r_spawn", "r_record", "r_wait", "r_undo", "r_copy", "r_spawn2", "r_record2",
          "r_wait2"}
    /\ DOMAIN UpgradeRun =
         {"u_replace", "u_lock2", "u_stop", "u_spawn", "u_record", "u_ready", "u_verify"}
    /\ DOMAIN UpgradeRollback =
         {"v_restore", "v_stop", "v_lock2", "v_stop2", "v_spawn", "v_record", "v_ready", "v_verify"}
    /\ DOMAIN Start = {"s_lock", "s_spawn", "s_record", "s_ready", "s_tunnel", "s_undo"}
    /\ DOMAIN Stop = {"t_lock", "t_tunnel", "t_stop"}
    /\ DOMAIN Restart = {"q_lock", "q_tunnel", "q_stop"}
    /\ DOMAIN StartGatewayOnly = {"g_lock", "g_spawn", "g_record", "g_wait", "g_undo"}
    /\ DOMAIN StopGatewayOnly = {"h_lock", "h_stop"}
    /\ DOMAIN RestartGatewayOnly = {"k_lock", "k_stop", "k_spawn", "k_record", "k_ready"}
BY DEF ActivateGateway, Rollback, RecoverGatewayForward, RestartGatewayRecovery, UpgradeRun,
       UpgradeRollback, Start, Stop, Restart, StartGatewayOnly, StopGatewayOnly, RestartGatewayOnly

LEMMA FlowRows ==
    /\ \A s \in DOMAIN ActivateGateway : s \in DOMAIN Flow /\ Flow[s] = ActivateGateway[s]
    /\ \A s \in DOMAIN Rollback : s \in DOMAIN Flow /\ Flow[s] = Rollback[s]
    /\ \A s \in DOMAIN RecoverGatewayForward :
         s \in DOMAIN Flow /\ Flow[s] = RecoverGatewayForward[s]
    /\ \A s \in DOMAIN RestartGatewayRecovery :
         s \in DOMAIN Flow /\ Flow[s] = RestartGatewayRecovery[s]
    /\ \A s \in DOMAIN UpgradeRun : s \in DOMAIN Flow /\ Flow[s] = UpgradeRun[s]
    /\ \A s \in DOMAIN UpgradeRollback : s \in DOMAIN Flow /\ Flow[s] = UpgradeRollback[s]
    /\ \A s \in DOMAIN Start : s \in DOMAIN Flow /\ Flow[s] = Start[s]
    /\ \A s \in DOMAIN Stop : s \in DOMAIN Flow /\ Flow[s] = Stop[s]
    /\ \A s \in DOMAIN Restart : s \in DOMAIN Flow /\ Flow[s] = Restart[s]
    /\ \A s \in DOMAIN StartGatewayOnly : s \in DOMAIN Flow /\ Flow[s] = StartGatewayOnly[s]
    /\ \A s \in DOMAIN StopGatewayOnly : s \in DOMAIN Flow /\ Flow[s] = StopGatewayOnly[s]
    /\ \A s \in DOMAIN RestartGatewayOnly :
         s \in DOMAIN Flow /\ Flow[s] = RestartGatewayOnly[s]
BY TableDomains DEF Flow

LEMMA FlowDomain ==
    DOMAIN Flow =
      UNION {DOMAIN ActivateGateway, DOMAIN Rollback, DOMAIN RecoverGatewayForward,
             DOMAIN RestartGatewayRecovery, DOMAIN UpgradeRun, DOMAIN UpgradeRollback,
             DOMAIN Start, DOMAIN Stop, DOMAIN Restart, DOMAIN StartGatewayOnly,
             DOMAIN StopGatewayOnly, DOMAIN RestartGatewayOnly}
BY DEF Flow

\* The call at site s: what it is and where its caller goes on.
Calls(s, at, ok, no) == s = at /\ Flow[s].ok = ok /\ Flow[s].no = no

ActivationFlow == DOMAIN ActivateGateway \cup DOMAIN Rollback \cup DOMAIN RecoverGatewayForward
UpgradeFlow == DOMAIN UpgradeRun \cup DOMAIN UpgradeRollback

LEMMA ActivateRows ==
    ASSUME NEW s \in DOMAIN ActivateGateway
    PROVE  /\ Flow[s].op = "acquire" => Calls(s, "a_lock", "a_check", "a_end")
           /\ Flow[s].op = "validate" => Calls(s, "a_check", "a_stop", "a_end")
           /\ Flow[s].op = "stop" => Calls(s, "a_stop", "a_capture", "a_end")
           /\ Flow[s].op = "capture" => Calls(s, "a_capture", "a_replace", "b_stop")
           /\ Flow[s].op = "replace" => Calls(s, "a_replace", "a_spawn", "b_stop")
           /\ Flow[s].op = "spawn" => Calls(s, "a_spawn", "a_record", "c_stop")
           /\ Flow[s].op = "record" => Calls(s, "a_record", "a_ready", "c_stop")
           /\ Flow[s].op = "ready" => Calls(s, "a_ready", "a_verify", "c_stop")
           /\ Flow[s].op = "verify" => Calls(s, "a_verify", "a_done", "c_stop")
           /\ Flow[s].op \in {"acquire", "validate", "stop", "capture", "replace", "spawn", "record",
                              "ready", "verify"}
<1>1. Flow[s] = ActivateGateway[s]
  BY FlowRows
<1>2. s \in {"a_lock", "a_check", "a_stop", "a_capture", "a_replace", "a_spawn", "a_record",
             "a_ready", "a_verify"}
  BY TableDomains
<1> QED BY <1>1, <1>2 DEF ActivateGateway, Row, Calls

LEMMA RollbackRows ==
    ASSUME NEW s \in DOMAIN Rollback
    PROVE  /\ Flow[s].op = "stop" => \/ Calls(s, "c_stop", "c_state", "x_required")
                                     \/ Calls(s, "b_stop", "b_restore", "x_required")
                                     \/ Calls(s, "b_undo", "f_replace", "x_required")
           /\ Flow[s].op = "revert" => Calls(s, "c_state", "b_restore", "f_replace")
           /\ Flow[s].op = "restore" => Calls(s, "b_restore", "b_spawn", "f_replace")
           /\ Flow[s].op = "spawn" => Calls(s, "b_spawn", "b_record", "b_undo")
           /\ Flow[s].op = "record" => Calls(s, "b_record", "b_ready", "b_undo")
           /\ Flow[s].op = "ready" => Calls(s, "b_ready", "b_verify", "b_undo")
           /\ Flow[s].op = "proveold" => Calls(s, "b_verify", "x_previous", "b_undo")
           /\ Flow[s].op \in {"stop", "revert", "restore", "spawn", "record", "ready", "proveold"}
<1>1. Flow[s] = Rollback[s]
  BY FlowRows
<1>2. s \in {"c_stop", "c_state", "b_stop", "b_restore", "b_spawn", "b_record", "b_ready",
             "b_verify", "b_undo"}
  BY TableDomains
<1> QED BY <1>1, <1>2 DEF Rollback, Row, Calls

LEMMA ForwardRows ==
    ASSUME NEW s \in DOMAIN RecoverGatewayForward
    PROVE  /\ Flow[s].op = "replace" => Calls(s, "f_replace", "f_spawn", "x_required")
           /\ Flow[s].op = "spawn" => Calls(s, "f_spawn", "f_record", "f_stop")
           /\ Flow[s].op = "record" => Calls(s, "f_record", "f_ready", "f_stop")
           /\ Flow[s].op = "ready" => Calls(s, "f_ready", "f_verify", "f_stop")
           /\ Flow[s].op = "verify" => Calls(s, "f_verify", "x_serving", "f_stop")
           /\ Flow[s].op = "stop" => Calls(s, "f_stop", "x_required", "x_required")
           /\ Flow[s].op \in {"replace", "spawn", "record", "ready", "verify", "stop"}
<1>1. Flow[s] = RecoverGatewayForward[s]
  BY FlowRows
<1>2. s \in {"f_replace", "f_spawn", "f_record", "f_ready", "f_verify", "f_stop"}
  BY TableDomains
<1> QED BY <1>1, <1>2 DEF RecoverGatewayForward, Row, Calls

\* The recovery's, the upgrade's and the operator's calls stay among their
\* sites; only those that change artifacts, databases or proofs matter.
LEMMA RecoveryRows ==
    ASSUME NEW s \in DOMAIN RestartGatewayRecovery
    PROVE  /\ Flow[s].ok \in RecoverySites /\ Flow[s].no \in RecoverySites
           /\ Flow[s].op \in {"stop", "spawn", "record", "wait", "copy"}
<1>1. Flow[s] = RestartGatewayRecovery[s]
  BY FlowRows
<1>2. s \in {"r_stop", "r_spawn", "r_record", "r_wait", "r_undo", "r_copy", "r_spawn2", "r_record2",
             "r_wait2"}
  BY TableDomains
<1>3. {"r_stop", "r_spawn", "r_record", "r_wait", "r_undo", "r_copy", "r_spawn2", "r_record2",
       "r_wait2", "r_ok", "r_failed"} \subseteq RecoverySites
  BY TableDomains DEF RecoverySites
<1> QED BY <1>1, <1>2, <1>3 DEF RestartGatewayRecovery, Row

LEMMA UpgradeRows ==
    ASSUME NEW s \in UpgradeFlow
    PROVE  /\ Flow[s].no \in ReplacedSites
           /\ Flow[s].op \notin {"verify", "proveold"} => Flow[s].ok \in ReplacedSites
           /\ Flow[s].op \in {"verify", "proveold"} => Flow[s].ok \in ProvenSites
           /\ Flow[s].op \in {"replace", "restore", "acquire", "stop", "spawn", "record", "ready",
                              "verify", "proveold"}
<1>1. {"u_replace", "u_lock2", "u_stop", "u_spawn", "u_record", "u_ready", "u_verify", "u_phase",
       "v_restore", "v_stop", "v_lock2", "v_stop2", "v_spawn", "v_record", "v_ready", "v_verify",
       "v_failed"} \subseteq ReplacedSites
  BY TableDomains DEF ReplacedSites
<1>2. CASE s \in DOMAIN UpgradeRun
  <2>1. Flow[s] = UpgradeRun[s]
    BY <1>2, FlowRows
  <2>2. s \in {"u_replace", "u_lock2", "u_stop", "u_spawn", "u_record", "u_ready", "u_verify"}
    BY <1>2, TableDomains
  <2> QED BY <1>1, <2>1, <2>2 DEF UpgradeRun, Row, ProvenSites
<1>3. CASE s \in DOMAIN UpgradeRollback
  <2>1. Flow[s] = UpgradeRollback[s]
    BY <1>3, FlowRows
  <2>2. s \in {"v_restore", "v_stop", "v_lock2", "v_stop2", "v_spawn", "v_record", "v_ready", "v_verify"}
    BY <1>3, TableDomains
  <2> QED BY <1>1, <2>1, <2>2 DEF UpgradeRollback, Row, ProvenSites
<1> QED BY <1>2, <1>3 DEF UpgradeFlow

LEMMA OperatorRows ==
    ASSUME NEW s \in OperatorSites
    PROVE  /\ s \in DOMAIN Flow
           /\ Flow[s].ok \in {"idle"} \cup OperatorSites /\ Flow[s].no \in {"idle"} \cup OperatorSites
           /\ Flow[s].op \in {"acquire", "spawn", "record", "ready", "wait", "stop", "tunnelup",
                              "tunneldown"}
<1>1. {"s_lock", "s_spawn", "s_record", "s_ready", "s_tunnel", "s_undo", "t_lock", "t_tunnel",
       "t_stop", "q_lock", "q_tunnel", "q_stop", "g_lock", "g_spawn", "g_record", "g_wait", "g_undo",
       "h_lock", "h_stop", "k_lock", "k_stop", "k_spawn", "k_record", "k_ready"} = OperatorSites
  BY TableDomains DEF OperatorSites
<1>2. CASE s \in DOMAIN Start
  <2>1. Flow[s] = Start[s] /\ s \in DOMAIN Flow
    BY <1>2, FlowRows
  <2>2. s \in {"s_lock", "s_spawn", "s_record", "s_ready", "s_tunnel", "s_undo"}
    BY <1>2, TableDomains
  <2> QED BY <1>1, <2>1, <2>2 DEF Start, Row
<1>3. CASE s \in DOMAIN Stop
  <2>1. Flow[s] = Stop[s] /\ s \in DOMAIN Flow
    BY <1>3, FlowRows
  <2>2. s \in {"t_lock", "t_tunnel", "t_stop"}
    BY <1>3, TableDomains
  <2> QED BY <1>1, <2>1, <2>2 DEF Stop, Row
<1>4. CASE s \in DOMAIN Restart
  <2>1. Flow[s] = Restart[s] /\ s \in DOMAIN Flow
    BY <1>4, FlowRows
  <2>2. s \in {"q_lock", "q_tunnel", "q_stop"}
    BY <1>4, TableDomains
  <2> QED BY <1>1, <2>1, <2>2 DEF Restart, Row
<1>5. CASE s \in DOMAIN StartGatewayOnly
  <2>1. Flow[s] = StartGatewayOnly[s] /\ s \in DOMAIN Flow
    BY <1>5, FlowRows
  <2>2. s \in {"g_lock", "g_spawn", "g_record", "g_wait", "g_undo"}
    BY <1>5, TableDomains
  <2> QED BY <1>1, <2>1, <2>2 DEF StartGatewayOnly, Row
<1>6. CASE s \in DOMAIN StopGatewayOnly
  <2>1. Flow[s] = StopGatewayOnly[s] /\ s \in DOMAIN Flow
    BY <1>6, FlowRows
  <2>2. s \in {"h_lock", "h_stop"}
    BY <1>6, TableDomains
  <2> QED BY <1>1, <2>1, <2>2 DEF StopGatewayOnly, Row
<1>7. CASE s \in DOMAIN RestartGatewayOnly
  <2>1. Flow[s] = RestartGatewayOnly[s] /\ s \in DOMAIN Flow
    BY <1>7, FlowRows
  <2>2. s \in {"k_lock", "k_stop", "k_spawn", "k_record", "k_ready"}
    BY <1>7, TableDomains
  <2> QED BY <1>1, <2>1, <2>2 DEF RestartGatewayOnly, Row
<1> QED BY <1>2, <1>3, <1>4, <1>5, <1>6, <1>7 DEF OperatorSites

LEMMA Kinds ==
    ASSUME NEW j \in Jobs, NEW s \in SitesOf(j), s \in DOMAIN Flow
    PROVE  \/ j \in Activations /\ s \in ActivationFlow
           \/ j \in Recoveries /\ j \notin Activations /\ s \in DOMAIN RestartGatewayRecovery
           \/ j \in Upgrades /\ j \notin Activations \cup Recoveries /\ s \in UpgradeFlow
           \/ j \in Operators /\ j \notin Activations \cup Recoveries \cup Upgrades /\ s \in OperatorSites
<1>1. DOMAIN Flow = ActivationFlow \cup DOMAIN RestartGatewayRecovery \cup UpgradeFlow \cup OperatorSites
  BY FlowDomain DEF ActivationFlow, UpgradeFlow, OperatorSites
<1>2. CASE j \in Activations
  BY <1>1, <1>2, TableDomains DEF SitesOf, ActivationFlow, UpgradeFlow, OperatorSites, CutoverSites, EndSites
<1>3. CASE j \in Recoveries /\ j \notin Activations
  BY <1>1, <1>3, TableDomains
     DEF SitesOf, ActivationFlow, UpgradeFlow, OperatorSites, RecoverySites
<1>4. CASE j \in Upgrades /\ j \notin Activations \cup Recoveries
  BY <1>1, <1>4, TableDomains
     DEF SitesOf, ActivationFlow, UpgradeFlow, OperatorSites, ReplacedSites, ProvenSites
<1>5. CASE j \notin Activations \cup Recoveries \cup Upgrades
  BY <1>1, <1>5, TableDomains
     DEF SitesOf, ActivationFlow, UpgradeFlow, OperatorSites, Jobs
<1> QED BY <1>2, <1>3, <1>4, <1>5

LEMMA ControllerScope ==
    /\ ControllerSites =
         CutoverSites \cup RecoverySites
         \cup {"u_stop", "u_spawn", "u_record", "u_ready", "v_stop2", "v_spawn", "v_record", "v_ready"}
         \cup (OperatorSites \ {"s_lock", "t_lock", "q_lock", "g_lock", "h_lock", "k_lock"})
    /\ CutoverSites \cap EndSites = {}
    /\ \A s \in {"idle", "ended", "crashed", "d_run", "p_prepare", "a_lock", "r_lock", "u_lock",
                 "u_backup", "u_phase", "v_failed", "u_replace", "v_restore", "s_lock", "t_lock",
                 "q_lock", "g_lock", "h_lock", "k_lock"} \cup EndSites \cup ProvenSites : s \notin ControllerSites
<1>1. ControllerSites =
         CutoverSites \cup RecoverySites
         \cup {"u_stop", "u_spawn", "u_record", "u_ready", "v_stop2", "v_spawn", "v_record", "v_ready"}
         \cup (OperatorSites \ {"s_lock", "t_lock", "q_lock", "g_lock", "h_lock", "k_lock"})
  BY TableDomains DEF ControllerSites, CutoverSites, RecoverySites, OperatorSites
<1>2. CutoverSites \cap EndSites = {}
  BY TableDomains DEF CutoverSites, EndSites
<1>3. \A s \in {"idle", "ended", "crashed", "d_run", "p_prepare", "a_lock", "r_lock", "u_lock",
                "u_backup", "u_phase", "v_failed", "u_replace", "v_restore", "s_lock", "t_lock",
                "q_lock", "g_lock", "h_lock", "k_lock"} \cup EndSites \cup ProvenSites :
         s \notin CutoverSites \cup RecoverySites
  BY TableDomains DEF CutoverSites, RecoverySites, EndSites, ProvenSites
<1>4. \A s \in {"idle", "ended", "crashed", "d_run", "p_prepare", "a_lock", "r_lock", "u_lock",
                "u_backup", "u_phase", "v_failed", "u_replace", "v_restore"} \cup EndSites \cup ProvenSites :
         s \notin OperatorSites
  BY TableDomains DEF OperatorSites, EndSites, ProvenSites
<1>5. \A s \in {"idle", "ended", "crashed", "d_run", "p_prepare", "a_lock", "r_lock", "u_lock",
                "u_backup", "u_phase", "v_failed", "u_replace", "v_restore", "s_lock", "t_lock",
                "q_lock", "g_lock", "h_lock", "k_lock"} \cup EndSites \cup ProvenSites :
         s \notin ControllerSites
  BY <1>1, <1>3, <1>4 DEF EndSites, ProvenSites
<1> QED BY <1>1, <1>2, <1>5

\* Only an acquisition enters the scope of controller.lock, and whatever starts
\* a Gateway or writes a database is within it.
LEMMA Scope ==
    ASSUME NEW s \in DOMAIN Flow
    PROVE  /\ Flow[s].op # "acquire" /\ Flow[s].ok \in ControllerSites => s \in ControllerSites
           /\ Flow[s].no \in ControllerSites => s \in ControllerSites
           /\ Flow[s].op \in {"spawn", "record", "revert", "copy"} => s \in ControllerSites
<1>1. CASE s \in ActivationFlow
  <2>1. s # "a_lock" => s \in ControllerSites
    BY <1>1, ControllerScope, TableDomains DEF ActivationFlow, CutoverSites
  <2>2. s = "a_lock" => Flow[s].op = "acquire" /\ Flow[s].no = "a_end"
    <3>1. SUFFICES ASSUME s = "a_lock" PROVE Flow[s].op = "acquire" /\ Flow[s].no = "a_end"
      OBVIOUS
    <3>2. s \in DOMAIN ActivateGateway
      BY <3>1, TableDomains
    <3> QED BY <3>1, <3>2, ActivateRows DEF Calls
  <2>3. "a_end" \notin ControllerSites
    BY ControllerScope DEF EndSites
  <2> QED BY <2>1, <2>2, <2>3
<1>2. CASE s \in DOMAIN RestartGatewayRecovery
  BY <1>2, ControllerScope, TableDomains DEF RecoverySites
<1>3. CASE s \in DOMAIN UpgradeRun
  <2>1. s \in {"u_replace", "u_lock2", "u_stop", "u_spawn", "u_record", "u_ready", "u_verify"}
    BY <1>3, TableDomains
  <2>2. Flow[s] = UpgradeRun[s]
    BY <1>3, FlowRows
  <2>3. \A t \in {"u_phase", "v_restore", "u_clean"} : t \notin ControllerSites
    BY ControllerScope DEF ProvenSites
  <2> QED BY <2>1, <2>2, <2>3, ControllerScope DEF UpgradeRun, Row
<1>4. CASE s \in DOMAIN UpgradeRollback
  <2>1. s \in {"v_restore", "v_stop", "v_lock2", "v_stop2", "v_spawn", "v_record", "v_ready", "v_verify"}
    BY <1>4, TableDomains
  <2>2. Flow[s] = UpgradeRollback[s]
    BY <1>4, FlowRows
  <2>3. \A t \in {"v_stop", "v_lock2", "v_verify", "v_clean", "v_failed"} : t \notin ControllerSites
    <3>1. \A t \in {"v_stop", "v_lock2", "v_verify"} :
            t \notin CutoverSites \cup RecoverySites \cup OperatorSites
      BY TableDomains DEF CutoverSites, RecoverySites, OperatorSites
    <3> QED BY <3>1, ControllerScope DEF ProvenSites
  <2> QED BY <2>1, <2>2, <2>3, ControllerScope DEF UpgradeRollback, Row
<1>5. CASE s \in OperatorSites
  <2>1. s \notin {"s_lock", "t_lock", "q_lock", "g_lock", "h_lock", "k_lock"} => s \in ControllerSites
    BY <1>5, ControllerScope
  <2>2. s \in {"s_lock", "t_lock", "q_lock", "g_lock", "h_lock", "k_lock"} =>
           Flow[s].op = "acquire" /\ Flow[s].no = "idle"
    <3>1. /\ Flow["s_lock"] = Start["s_lock"] /\ Flow["t_lock"] = Stop["t_lock"]
          /\ Flow["q_lock"] = Restart["q_lock"] /\ Flow["g_lock"] = StartGatewayOnly["g_lock"]
          /\ Flow["h_lock"] = StopGatewayOnly["h_lock"]
          /\ Flow["k_lock"] = RestartGatewayOnly["k_lock"]
      BY FlowRows, TableDomains
    <3> QED BY <3>1 DEF Start, Stop, Restart, StartGatewayOnly, StopGatewayOnly,
                       RestartGatewayOnly, Row
  <2>3. "idle" \notin ControllerSites
    BY ControllerScope
  <2> QED BY <2>1, <2>2, <2>3
<1> QED
  BY <1>1, <1>2, <1>3, <1>4, <1>5, FlowDomain DEF ActivationFlow, OperatorSites

LEMMA GoesOn ==
    ASSUME NEW j \in Jobs, NEW s \in SitesOf(j), s \in DOMAIN Flow
    PROVE  Flow[s].ok \in SitesOf(j) /\ Flow[s].no \in SitesOf(j)
<1>1. CASE j \in Activations /\ s \in ActivationFlow
  <2>1. {"a_end", "a_done", "x_required", "x_previous", "x_serving", "a_check", "a_stop", "a_capture",
         "a_replace", "a_spawn", "a_record", "a_ready", "a_verify"} \cup DOMAIN Rollback
         \cup DOMAIN RecoverGatewayForward \subseteq SitesOf(j)
    BY <1>1, TableDomains DEF SitesOf, CutoverSites, EndSites
  <2>2. CASE s \in DOMAIN ActivateGateway
    BY <2>1, <2>2, ActivateRows, TableDomains DEF Calls
  <2>3. CASE s \in DOMAIN Rollback
    BY <2>1, <2>3, RollbackRows, TableDomains DEF Calls
  <2>4. CASE s \in DOMAIN RecoverGatewayForward
    BY <2>1, <2>4, ForwardRows, TableDomains DEF Calls
  <2> QED BY <1>1, <2>2, <2>3, <2>4 DEF ActivationFlow
<1>2. CASE j \in Recoveries /\ j \notin Activations /\ s \in DOMAIN RestartGatewayRecovery
  BY <1>2, RecoveryRows DEF SitesOf
<1>3. CASE j \in Upgrades /\ j \notin Activations \cup Recoveries /\ s \in UpgradeFlow
  BY <1>3, UpgradeRows DEF SitesOf
<1>4. CASE j \in Operators /\ j \notin Activations \cup Recoveries \cup Upgrades /\ s \in OperatorSites
  BY <1>4, OperatorRows DEF SitesOf
<1> QED BY <1>1, <1>2, <1>3, <1>4, Kinds

-----------------------------------------------------------------------------
(* Steps that move one process.                                            *)

LEMMA ConstantFacts ==
    /\ "gatewayd" \in Binaries /\ "ctl" \in Binaries
    /\ Len(BinaryNames) \in Nat /\ Len(BinaryNames) > 1
    /\ \A i \in 1..Len(BinaryNames) : BinaryNames[i] \in Binaries
    /\ 1 \in Builds /\ \A j \in Activations \cup Upgrades : Target[j] \in Builds
    /\ Builds \subseteq Nat
<1>1. /\ BinaryNames \in Seq(STRING) /\ {"gatewayd", "ctl"} \subseteq Range(BinaryNames)
      /\ Target \in [Activations \cup Upgrades -> Nat]
  BY TargetsAreLater
<1>2. Len(BinaryNames) \in Nat /\ DOMAIN BinaryNames = 1..Len(BinaryNames)
  BY <1>1
<1>3. PICK a \in 1..Len(BinaryNames) : BinaryNames[a] = "gatewayd"
  BY <1>1, <1>2 DEF Range
<1>4. PICK b \in 1..Len(BinaryNames) : BinaryNames[b] = "ctl"
  BY <1>1, <1>2 DEF Range
<1>5. a # b
  BY <1>3, <1>4
<1>6. Len(BinaryNames) > 1
  BY <1>2, <1>5
<1> QED BY <1>1, <1>2, <1>6 DEF Binaries, Range, Builds

LEMMA SitesTyped == \A j \in Jobs : SitesOf(j) \subseteq Sites
<1>1. /\ ActivationFlow \subseteq Sites /\ DOMAIN RestartGatewayRecovery \subseteq Sites
      /\ UpgradeFlow \subseteq Sites /\ OperatorSites \subseteq Sites
  BY FlowDomain DEF Sites, ActivationFlow, UpgradeFlow, OperatorSites
<1>2. CutoverSites \subseteq Sites
  BY <1>1 DEF CutoverSites, ActivationFlow
<1>3. {"idle", "ended", "crashed", "d_run", "p_prepare", "a_lock", "r_lock", "u_lock", "u_backup"}
      \cup EndSites \subseteq Sites
  BY <1>1, TableDomains DEF Sites, ActivationFlow, UpgradeSites
<1>4. RecoverySites \subseteq Sites
  <2>1. {"r_ok", "r_failed"} \subseteq Sites
    BY DEF Sites, ControllerSites
  <2> QED BY <1>1, <2>1 DEF RecoverySites
<1>5. ReplacedSites \cup ProvenSites \subseteq Sites
  <2>1. {"u_phase", "v_failed"} \cup ProvenSites \subseteq Sites
    BY DEF Sites, UpgradeSites, ProvenSites
  <2> QED BY <1>1, <2>1 DEF ReplacedSites, UpgradeFlow
<1> QED BY <1>1, <1>2, <1>3, <1>4, <1>5 DEF SitesOf

LEMMA KindFacts ==
    /\ Activations \subseteq Jobs /\ Recoveries \subseteq Jobs /\ Upgrades \subseteq Jobs
    /\ Operators \subseteq Jobs /\ Debugs \subseteq Activations
    /\ \A j \in Activations : j \notin Recoveries /\ j \notin Upgrades /\ j \notin Operators
    /\ \A j \in Recoveries : j \notin Upgrades /\ j \notin Operators
    /\ \A j \in Upgrades : j \notin Operators
BY JobsAreDistinct DEF Activations, Jobs

\* Process j has come to site s, and no other has moved.
Arrived(j, s) ==
    /\ TypeProcesses' /\ Stands' /\ Held'
    /\ job'[j].pc = s /\ job'[j].found = job[j].found /\ job'[j].before = job[j].before
    /\ job'[j].i = 1
    /\ \A k \in Jobs \ {j} : job'[k] = job[k]

LEMMA Moves ==
    ASSUME TypeProcesses, Stands, Held, NEW j \in Jobs, NEW s \in SitesOf(j), Go(j, s),
           s \in ControllerSites => job[j].pc \in ControllerSites
    PROVE  Arrived(j, s)
<1>1. job \in [Jobs -> JobRecord] /\ s \in Sites
  BY SitesTyped DEF TypeProcesses
<1>2. 1 \in 1..Len(BinaryNames)
  BY ConstantFacts
<1>3. [job[j] EXCEPT !.pc = s, !.i = 1, !.bad = FALSE] \in JobRecord
  BY <1>1, <1>2 DEF JobRecord
<1>4. job' = [job EXCEPT ![j] = [job[j] EXCEPT !.pc = s, !.i = 1, !.bad = FALSE]]
  BY DEF Go
<1>5. job' \in [Jobs -> JobRecord]
  BY <1>1, <1>3, <1>4
<1>6. job[j] \in JobRecord
  BY <1>1
<1>7. /\ job'[j].pc = s /\ job'[j].found = job[j].found /\ job'[j].before = job[j].before
      /\ job'[j].i = 1
  BY <1>1, <1>4, <1>6 DEF JobRecord
<1>8. \A k \in Jobs \ {j} : job'[k] = job[k]
  BY <1>1, <1>4
<1>9. {lock', dlock', ulock'} \subseteq Jobs \cup {None}
  BY DEF Go, TypeProcesses
<1>10. Stands'
  BY <1>7, <1>8 DEF Stands
<1>11. Held'
  <2> SUFFICES ASSUME NEW k \in Jobs, job'[k].pc \in ControllerSites PROVE lock' = k
    BY DEF Held
  <2>1. CASE k = j
    BY <1>7, <2>1 DEF Held, Go
  <2>2. CASE k # j
    BY <1>8, <2>2 DEF Held, Go
  <2> QED BY <2>1, <2>2
<1> QED BY <1>5, <1>7, <1>8, <1>9, <1>10, <1>11 DEF Arrived, TypeProcesses

LEMMA MovesOn ==
    ASSUME TypeProcesses, Stands, Held, NEW j \in Jobs, NEW op, At(j, op), op # "acquire"
    PROVE  /\ Ok(j) => Arrived(j, Flow[job[j].pc].ok)
           /\ No(j) => Arrived(j, Flow[job[j].pc].no)
<1>1. job[j].pc \in SitesOf(j) /\ job[j].pc \in DOMAIN Flow /\ Flow[job[j].pc].op = op
  BY DEF Stands, At
<1>2. Flow[job[j].pc].ok \in SitesOf(j) /\ Flow[job[j].pc].no \in SitesOf(j)
  BY <1>1, GoesOn
<1> QED BY <1>1, <1>2, Scope, Moves DEF Ok, No

-----------------------------------------------------------------------------
(* What a step of one process leaves of the others.                        *)

\* The step leaves what is process k's.
Stays(k) ==
    /\ job'[k] = job[k]
    /\ k \in Activations \cup Upgrades => cut'[k] = cut[k]
    /\ k \in Activations => snap'[k] = snap[k]
    /\ k \in Debugs \cup Recoveries => receipt'[k] = receipt[k] /\ pend'[k] \in {pend[k], 0}
    /\ k \in Upgrades => tx'[k] = tx[k]

\* What the host may do to whoever holds controller.lock.
Calm ==
    /\ installed' = installed \/ overlap'
    /\ \A d \in Databases : db'[d] = db[d] \/ (gw # None /\ db'[d] = gw.ver)
    /\ gw' # None => gw # None /\ gw'.ver = gw.ver /\ (pid => pid')

LEMMA StaysOwn ==
    ASSUME TypeOK, NEW k \in Jobs, Own(k), Stays(k), overlap => overlap',
           Calm \/ job[k].pc \notin CutoverSites
    PROVE  Own(k)'
<1>1. k \in Debugs => DebugFits(receipt'[k], job'[k].pc, pend'[k], cut'[k])
  <2> SUFFICES ASSUME k \in Debugs PROVE DebugFits(receipt'[k], job'[k].pc, pend'[k], cut'[k])
    OBVIOUS
  <2>1. k \in Activations
    BY DEF Activations
  <2>2. DebugFits(receipt[k], job[k].pc, pend[k], cut[k])
    BY DEF Own
  <2>3. pend'[k] > 0 => pend[k] > 0
    BY DEF Stays, TypeOK, TypeBooks
  <2> QED BY <2>1, <2>2, <2>3 DEF Stays, DebugFits
<1>2. k \in Recoveries => RecoveryFits(receipt'[k], job'[k].pc, job'[k].before)
  BY DEF Own, Stays
<1>3. k \in Activations => Keeps(job'[k].pc, cut'[k], job'[k].found, snap'[k], ~overlap')
  BY DEF Own, Stays, Keeps
<1>4. k \in Activations =>
        Faces(job'[k].pc, job'[k].i, job'[k].found, ~overlap', installed', db', gw', pid')
  <2> SUFFICES ASSUME k \in Activations
               PROVE  Faces(job[k].pc, job[k].i, job[k].found, ~overlap', installed', db', gw', pid')
    BY DEF Stays
  <2>1. Faces(job[k].pc, job[k].i, job[k].found, ~overlap, installed, db, gw, pid)
    BY DEF Own
  <2>2. CASE job[k].pc \notin CutoverSites
    BY <2>2, TableDomains DEF Faces, CutoverSites, Matching
  <2>3. CASE Calm
    BY <2>1, <2>3 DEF Faces, Calm, Databases
  <2> QED BY <2>2, <2>3
<1>5. k \in Upgrades => Backed(job'[k].pc, cut'[k], tx'[k])
  BY DEF Own, Stays
<1>6. k \in Activations /\ k \notin Debugs /\ job'[k].pc = "idle" => cut'[k] = "none"
  BY DEF Own, Stays
<1> QED BY <1>1, <1>2, <1>3, <1>4, <1>5, <1>6 DEF Own

\* Nobody is in a cutover beside the holder of controller.lock.
LEMMA Alone ==
    ASSUME Held, NEW j \in Jobs, lock = j, NEW k \in Jobs \ {j}
    PROVE  job[k].pc \notin ControllerSites /\ job[k].pc \notin CutoverSites
BY ControllerScope DEF Held

LEMMA Assemble ==
    ASSUME IInv, TypeOK', Stands', Held', NEW j \in Jobs, \A k \in Jobs \ {j} : Stays(k),
           overlap => overlap', Calm \/ job[j].pc \in ControllerSites \/ lock \in {None, j},
           Own(j)'
    PROVE  IInv'
<1>1. ASSUME NEW k \in Jobs \ {j} PROVE Own(k)'
  <2>1. Own(k) /\ TypeOK /\ Held
    BY DEF IInv
  <2>2. Calm \/ job[k].pc \notin CutoverSites
    BY <2>1, Alone, ControllerScope, NoneAssumption DEF Held
  <2> QED BY <2>1, <2>2, StaysOwn
<1> QED BY <1>1 DEF IInv

\* A step of no process.
LEMMA AssembleAll ==
    ASSUME IInv, TypeOK', UNCHANGED <<job, lock>>, \A k \in Jobs : Stays(k), overlap => overlap', Calm
    PROVE  IInv'
<1>1. ASSUME NEW k \in Jobs PROVE Own(k)'
  <2>1. Own(k) /\ TypeOK
    BY DEF IInv
  <2> QED BY <2>1, StaysOwn
<1>2. Stands' /\ Held'
  BY DEF IInv, Stands, Held
<1> QED BY <1>1, <1>2 DEF IInv

-----------------------------------------------------------------------------
(* What a process keeps of its own.                                        *)

LEMMA CutoverNames ==
    CutoverSites =
      {"a_check", "a_stop", "a_capture", "a_replace", "a_spawn", "a_record", "a_ready", "a_verify",
       "c_stop", "c_state", "b_stop", "b_restore", "b_spawn", "b_record", "b_ready", "b_verify",
       "b_undo", "f_replace", "f_spawn", "f_record", "f_ready", "f_verify", "f_stop"}
BY TableDomains DEF CutoverSites

LEMMA OwnElse ==
    ASSUME IInv, NEW j \in Jobs \ Activations, job[j].pc \in DOMAIN Flow,
           NEW s \in {Flow[job[j].pc].ok, Flow[job[j].pc].no}, Arrived(j, s),
           j \in Recoveries => receipt'[j] = receipt[j],
           j \in Upgrades => tx'[j] = tx[j] /\ (s \in ProvenSites => cut'[j] = "settled")
    PROVE  Own(j)'
<1>1. j \notin Debugs /\ job[j].pc \in SitesOf(j) /\ Own(j)
  BY KindFacts DEF IInv, Stands
<1>2. CASE j \in Recoveries
  <2>1. job[j].pc \in DOMAIN RestartGatewayRecovery /\ j \notin Upgrades
    BY <1>1, <1>2, Kinds, KindFacts
  <2>2. job[j].pc \in RecoverySites
    BY <2>1 DEF RecoverySites
  <2> QED BY <1>1, <1>2, <2>1, <2>2 DEF Own, RecoveryFits, Arrived
<1>3. CASE j \in Upgrades
  <2>1. job[j].pc \in UpgradeFlow /\ j \notin Recoveries
    BY <1>1, <1>3, Kinds, KindFacts
  <2>2. job[j].pc \in ReplacedSites
    BY <2>1 DEF ReplacedSites, UpgradeFlow
  <2>3. s \in ReplacedSites \cup ProvenSites
    BY <2>1, UpgradeRows
  <2>4. s \notin {"idle", "u_lock", "u_backup"}
    BY <2>3, TableDomains DEF ReplacedSites, ProvenSites
  <2>5. Backed(job[j].pc, cut[j], tx[j])
    BY <1>1, <1>3 DEF Own
  <2>6. job'[j].pc = s /\ tx'[j] = tx[j]
    BY <1>3 DEF Arrived
  <2>7. Backed(s, cut'[j], tx[j])
    BY <1>3, <2>2, <2>3, <2>4, <2>5 DEF Backed
  <2> QED BY <1>1, <2>1, <2>6, <2>7 DEF Own
<1>4. CASE j \notin Recoveries \cup Upgrades
  BY <1>1, <1>4 DEF Own
<1> QED BY <1>2, <1>3, <1>4

LEMMA OwnActivation ==
    ASSUME IInv, NEW j \in Activations, job[j].pc \in ActivationFlow,
           NEW s \in CutoverSites \cup EndSites, job'[j].pc = s, job'[j].found = job[j].found,
           j \in Debugs => receipt'[j] = receipt[j] /\ pend'[j] \in {pend[j], 0},
           Keeps(s, cut'[j], job[j].found, snap'[j], ~overlap'),
           Faces(s, job'[j].i, job[j].found, ~overlap', installed', db', gw', pid')
    PROVE  Own(j)'
<1>1. j \notin Recoveries /\ j \notin Upgrades /\ j \in Jobs
  BY KindFacts
<1>2. s \notin {"idle", "d_run", "crashed", "ended"}
  BY CutoverNames DEF EndSites
<1>3. job[j].pc \notin {"idle", "d_run", "crashed"}
  BY TableDomains DEF ActivationFlow
<1>4. j \in Debugs => DebugFits(receipt'[j], s, pend'[j], cut'[j])
  <2> SUFFICES ASSUME j \in Debugs PROVE DebugFits(receipt'[j], s, pend'[j], cut'[j])
    OBVIOUS
  <2>1. DebugFits(receipt[j], job[j].pc, pend[j], cut[j])
    BY <1>1 DEF IInv, Own
  <2>2. pend'[j] > 0 => pend[j] > 0
    BY <1>1 DEF IInv, TypeOK, TypeBooks
  <2> QED BY <1>2, <1>3, <2>1, <2>2 DEF DebugFits
<1> QED BY <1>1, <1>2, <1>4 DEF Own

\* What is known before a step of the calls at op.
LEMMA Before ==
    ASSUME IInv, NEW j \in Jobs, NEW op, At(j, op)
    PROVE  /\ TypeHost /\ TypeProcesses /\ TypeBooks /\ TypeGhosts /\ Stands /\ Held /\ Own(j)
           /\ job[j].pc \in SitesOf(j) /\ job[j].pc \in DOMAIN Flow /\ Flow[job[j].pc].op = op
           /\ job[j] \in JobRecord
           /\ j \in Activations =>
                /\ job[j].pc \in ActivationFlow
                /\ Keeps(job[j].pc, cut[j], job[j].found, snap[j], ~overlap)
                /\ Faces(job[j].pc, job[j].i, job[j].found, ~overlap, installed, db, gw, pid)
<1>1. /\ TypeHost /\ TypeProcesses /\ TypeBooks /\ TypeGhosts /\ Stands /\ Held /\ Own(j)
      /\ job[j].pc \in SitesOf(j) /\ job[j].pc \in DOMAIN Flow /\ Flow[job[j].pc].op = op
  BY DEF IInv, TypeOK, Stands, At
<1>2. j \in Activations => job[j].pc \in ActivationFlow
  BY <1>1, Kinds
<1> QED BY <1>1, <1>2 DEF Own, TypeProcesses

LEMMA ActivationGoesOn ==
    ASSUME NEW s \in ActivationFlow
    PROVE  /\ Flow[s].ok \in CutoverSites \cup EndSites /\ Flow[s].no \in CutoverSites \cup EndSites
           /\ s # "a_lock" => s \in CutoverSites
<1>1. s # "a_lock" => s \in CutoverSites
  BY DEF ActivationFlow, CutoverSites
<1>2. {"a_end", "a_done", "x_required", "x_previous", "x_serving"} \subseteq EndSites
  BY DEF EndSites
<1>3. CASE s \in DOMAIN ActivateGateway
  BY <1>2, <1>3, ActivateRows, CutoverNames DEF Calls
<1>4. CASE s \in DOMAIN Rollback
  BY <1>2, <1>4, RollbackRows, CutoverNames DEF Calls
<1>5. CASE s \in DOMAIN RecoverGatewayForward
  BY <1>2, <1>5, ForwardRows, CutoverNames DEF Calls
<1> QED BY <1>1, <1>3, <1>4, <1>5 DEF ActivationFlow

\* The durable books of the others are left alone, and receipts and
\* transactions are none of a call's business.
Booked(j) ==
    /\ snap' \in [Activations -> {None} \cup SnapRecord]
    /\ \A k \in Activations \ {j} : snap'[k] = snap[k]
    /\ cut' \in [Activations \cup Upgrades -> {"none", "open", "ran", "settled"}]
    /\ \A k \in (Activations \cup Upgrades) \ {j} : cut'[k] = cut[k]
    /\ receipt' = receipt /\ tx' = tx /\ plan' = plan /\ faults' = faults
    /\ pend' = pend \/ pend' = [k \in DOMAIN pend |-> 0]
    /\ overlap' \in BOOLEAN /\ (overlap => overlap')

LEMMA BookedTyped ==
    ASSUME TypeBooks, TypeGhosts, NEW j \in Jobs, Booked(j)
    PROVE  /\ TypeBooks' /\ TypeGhosts'
           /\ \A k \in Debugs \cup Recoveries : pend'[k] \in {pend[k], 0}
<1>1. /\ pend' \in [Debugs \cup Recoveries -> 0..1]
      /\ \A k \in Debugs \cup Recoveries : pend'[k] \in {pend[k], 0}
  BY DEF TypeBooks, Booked
<1> QED BY <1>1 DEF TypeBooks, TypeGhosts, Booked

LEMMA CallStep ==
    ASSUME IInv, NEW j \in Jobs, NEW op, op # "acquire", At(j, op),
           NEW s \in {Flow[job[j].pc].ok, Flow[job[j].pc].no}, Arrived(j, s), TypeHost', Booked(j),
           Calm \/ job[j].pc \in ControllerSites \/ lock \in {None, j},
           j \in Upgrades /\ s \in ProvenSites => cut'[j] = "settled",
           j \in Activations =>
             /\ Keeps(s, cut'[j], job[j].found, snap'[j], ~overlap')
             /\ Faces(s, 1, job[j].found, ~overlap', installed', db', gw', pid')
    PROVE  IInv'
<1>1. /\ TypeBooks /\ TypeGhosts /\ job[j].pc \in DOMAIN Flow
      /\ j \in Activations => job[j].pc \in ActivationFlow
  BY Before
<1>2. /\ TypeBooks' /\ TypeGhosts'
      /\ \A k \in Debugs \cup Recoveries : pend'[k] \in {pend[k], 0}
  BY <1>1, BookedTyped
<1>3. TypeOK' /\ Stands' /\ Held'
  BY <1>2 DEF Arrived, TypeOK
<1>4. \A k \in Jobs \ {j} : Stays(k)
  BY <1>2 DEF Stays, Arrived, Booked
<1>5. Own(j)'
  <2>1. CASE j \notin Activations
    BY <1>1, <2>1, OwnElse DEF Booked
  <2>2. CASE j \in Activations
    <3>1. s \in CutoverSites \cup EndSites
      BY <1>1, <2>2, ActivationGoesOn
    <3> QED BY <1>1, <1>2, <2>2, <3>1, OwnActivation DEF Arrived, Booked
  <2> QED BY <2>1, <2>2
<1> QED BY <1>3, <1>4, <1>5, Assemble DEF Booked

\* A call of an upgrade that proves nothing.
LEMMA NotProven ==
    ASSUME NEW j \in Upgrades, NEW s \in SitesOf(j), s \in DOMAIN Flow
    PROVE  /\ Flow[s].no \notin ProvenSites
           /\ Flow[s].op \notin {"verify", "proveold"} => Flow[s].ok \notin ProvenSites
<1>1. j \in Jobs /\ s \in UpgradeFlow
  BY Kinds, KindFacts
<1>2. ReplacedSites \cap ProvenSites = {}
  BY TableDomains DEF ReplacedSites, ProvenSites
<1> QED BY <1>1, <1>2, UpgradeRows

-----------------------------------------------------------------------------
(* The calls, one after the other.                                         *)

LEMMA StopStep == ASSUME IInv, NEW j \in Jobs, StopProcess(j) PROVE IInv'
<1> DEFINE pc == job[j].pc
           f == job[j].found
           ok == Flow[pc].ok
           no == Flow[pc].no
<1>1. At(j, "stop") /\ (Ok(j) \/ No(j))
  BY DEF StopProcess
<1>2. /\ TypeHost /\ TypeProcesses /\ TypeBooks /\ TypeGhosts /\ Stands /\ Held
      /\ pc \in SitesOf(j) /\ pc \in DOMAIN Flow /\ Flow[pc].op = "stop"
  BY <1>1, Before
<1>3. (Ok(j) => Arrived(j, ok)) /\ (No(j) => Arrived(j, no))
  BY <1>1, <1>2, MovesOn
<1>4. PICK s \in {ok, no} : Arrived(j, s) /\ (s # no => ~No(j))
  BY <1>1, <1>3
<1>5. /\ (gw' = gw /\ pend' = pend) \/ Gone
      /\ pid' = pid \/ gw' = None
      /\ pid' \in BOOLEAN
      /\ installed' = installed /\ db' = db /\ tunnel' = tunnel /\ snap' = snap
      /\ receipt' = receipt /\ tx' = tx /\ plan' = plan /\ overlap' = overlap /\ faults' = faults
      /\ cut' = IF pc = "a_stop" /\ s = "a_capture" THEN [cut EXCEPT ![j] = "open"] ELSE cut
  BY <1>2, <1>4 DEF StopProcess, Gone, TypeHost, Arrived
<1>6. TypeHost'
  BY <1>2, <1>5 DEF TypeHost, Gone
<1>7. Booked(j)
  BY <1>2, <1>5 DEF Booked, TypeBooks, TypeGhosts, Gone
<1>8. Calm
  BY <1>5 DEF Calm, Gone
<1>9. j \in Upgrades => s \notin ProvenSites
  BY <1>2, NotProven
<1>10. ASSUME j \in Activations
       PROVE  /\ Keeps(s, cut'[j], f, snap'[j], ~overlap')
              /\ Faces(s, 1, f, ~overlap', installed', db', gw', pid')
  <2>1. pc \in ActivationFlow /\ Keeps(pc, cut[j], f, snap[j], ~overlap)
        /\ Faces(pc, job[j].i, f, ~overlap, installed, db, gw, pid)
    BY <1>1, <1>10, Before
  <2>2. \/ Calls(pc, "a_stop", "a_capture", "a_end") \/ Calls(pc, "f_stop", "x_required", "x_required")
        \/ Calls(pc, "c_stop", "c_state", "x_required") \/ Calls(pc, "b_stop", "b_restore", "x_required")
        \/ Calls(pc, "b_undo", "f_replace", "x_required")
    BY <1>2, <2>1, ActivateRows, RollbackRows, ForwardRows DEF ActivationFlow
  <2>3. cut'[j] = IF pc = "a_stop" /\ s = "a_capture" THEN "open" ELSE cut[j]
    BY <1>2, <1>5, <1>10 DEF TypeGhosts
  <2>4. Keeps(s, cut'[j], f, snap'[j], ~overlap')
    <3>1. snap' = snap /\ overlap' = overlap /\ Keeps(pc, cut[j], f, snap[j], ~overlap)
      BY <1>5, <2>1
    <3> HIDE DEF f
    <3>2. CASE pc = "a_stop"
      BY <2>2, <2>3, <3>1, <3>2, CutoverNames DEF Calls, Keeps, Untouched
    <3>3. CASE pc \in {"c_stop", "b_stop"}
      BY <2>2, <2>3, <3>1, <3>3, CutoverNames DEF Calls, Keeps, Untouched
    <3>4. CASE pc \in {"f_stop", "b_undo"}
      BY <2>2, <2>3, <3>1, <3>4, CutoverNames DEF Calls, Keeps, Untouched
    <3> QED BY <2>2, <3>2, <3>3, <3>4 DEF Calls
  <2>5. s = "c_state" /\ gw' # None => gw'.ver = f.ran
    <3> SUFFICES ASSUME s = "c_state", gw' # None PROVE gw'.ver = f.ran
      OBVIOUS
    <3>1. pc = "c_stop" /\ ~No(j)
      BY <1>4, <2>2 DEF Calls
    <3>2. ~pid /\ gw' = gw
      BY <3>1 DEF StopProcess, Gone
    <3> QED BY <2>1, <3>1, <3>2 DEF Faces
  <2>6. Faces(s, 1, f, ~overlap', installed', db', gw', pid')
    BY <1>5, <2>1, <2>2, <2>5, SMTT(30) DEF Calls, Faces, Matching, Gone
  <2> QED BY <2>4, <2>6
<1> QED BY <1>1, <1>4, <1>6, <1>7, <1>8, <1>9, <1>10, CallStep

LEMMA SpawnStep == ASSUME IInv, NEW j \in Jobs, Spawn(j) PROVE IInv'
<1> DEFINE pc == job[j].pc
           f == job[j].found
           ok == Flow[pc].ok
           no == Flow[pc].no
           new == [ver |-> installed["gatewayd"], linked |-> TRUE, ready |-> FALSE]
<1>1. At(j, "spawn") /\ (Ok(j) \/ No(j))
  BY DEF Spawn
<1>2. /\ TypeHost /\ TypeProcesses /\ TypeBooks /\ TypeGhosts /\ Stands /\ Held
      /\ pc \in SitesOf(j) /\ pc \in DOMAIN Flow /\ Flow[pc].op = "spawn"
  BY <1>1, Before
<1>3. (Ok(j) => Arrived(j, ok)) /\ (No(j) => Arrived(j, no))
  BY <1>1, <1>2, MovesOn
<1>4. PICK s \in {ok, no} : Arrived(j, s) /\ (s # no => ~No(j)) /\ (s # ok => ~Ok(j))
  BY <1>1, <1>3 DEF Arrived
<1>5. /\ \/ gw' = gw /\ pend' = pend
         \/ Gone
         \/ gw' = new /\ pend' = [k \in DOMAIN pend |-> 0] /\ Ok(j)
      /\ pid' = (gw # None /\ pid)
      /\ installed' = installed /\ db' = db /\ tunnel' = tunnel /\ snap' = snap
      /\ receipt' = receipt /\ tx' = tx /\ plan' = plan /\ overlap' = overlap /\ faults' = faults
      /\ cut' = IF pc = "a_spawn" THEN [cut EXCEPT ![j] = "ran"] ELSE cut
  BY DEF Spawn, Gone, Looked, Tracked
<1>6. TypeHost'
  <2>1. new \in GatewayRecord
    BY <1>2, ConstantFacts DEF TypeHost, ArtifactSet, GatewayRecord
  <2> QED BY <1>2, <1>5, <2>1 DEF TypeHost, Gone
<1>7. Booked(j)
  BY <1>2, <1>5 DEF Booked, TypeBooks, TypeGhosts, Gone
<1>8. pc \in ControllerSites
  BY <1>2, Scope
<1>9. j \in Upgrades => s \notin ProvenSites
  BY <1>2, NotProven
<1>10. ASSUME j \in Activations
       PROVE  /\ Keeps(s, cut'[j], f, snap'[j], ~overlap')
              /\ Faces(s, 1, f, ~overlap', installed', db', gw', pid')
  <2>1. pc \in ActivationFlow /\ Keeps(pc, cut[j], f, snap[j], ~overlap)
        /\ Faces(pc, job[j].i, f, ~overlap, installed, db, gw, pid)
    BY <1>1, <1>10, Before
  <2>2. \/ Calls(pc, "a_spawn", "a_record", "c_stop") \/ Calls(pc, "b_spawn", "b_record", "b_undo")
        \/ Calls(pc, "f_spawn", "f_record", "f_stop")
    BY <1>2, <2>1, ActivateRows, RollbackRows, ForwardRows DEF ActivationFlow
  <2>3. cut'[j] = IF pc = "a_spawn" THEN "ran" ELSE cut[j]
    BY <1>2, <1>5, <1>10 DEF TypeGhosts
  <2>4. Keeps(s, cut'[j], f, snap'[j], ~overlap')
    BY <1>5, <2>1, <2>2, <2>3, CutoverNames DEF Calls, Keeps, Untouched
  <2>5. ASSUME s = "c_stop", gw' # None PROVE gw'.ver = f.ran
    <3>1. pc = "a_spawn" /\ ~Ok(j)
      BY <1>4, <2>2, <2>5 DEF Calls
    <3>2. gw' = gw
      BY <1>5, <2>5, <3>1 DEF Gone
    <3> QED BY <2>1, <2>5, <3>1, <3>2 DEF Faces
  <2>6. ASSUME s = "b_record", ~overlap'
        PROVE  /\ gw' # None => gw'.ver = f.set["gatewayd"]
               /\ \A d \in Databases : db'[d] \in {f.db[d], f.ran, f.set["gatewayd"]}
    <3>1. pc = "b_spawn" /\ ~No(j)
      BY <1>4, <2>2, <2>6 DEF Calls
    <3>2. gw' = new /\ db' = db /\ installed = f.set
      <4>1. gw' = new
        BY <3>1 DEF Spawn, Gone
      <4> QED BY <1>5, <2>1, <2>6, <3>1, <4>1 DEF Faces
    <3> QED BY <2>1, <3>1, <3>2 DEF Faces
  <2>7. Faces(s, 1, f, ~overlap', installed', db', gw', pid')
    BY <1>5, <2>1, <2>2, <2>5, <2>6 DEF Calls, Faces, Matching
  <2> QED BY <2>4, <2>7
<1> QED BY <1>1, <1>4, <1>6, <1>7, <1>8, <1>9, <1>10, CallStep

LEMMA RecordStep == ASSUME IInv, NEW j \in Jobs, RecordPID(j) PROVE IInv'
<1> DEFINE pc == job[j].pc
           f == job[j].found
           ok == Flow[pc].ok
           no == Flow[pc].no
<1>1. At(j, "record") /\ (Ok(j) \/ No(j))
  BY DEF RecordPID
<1>2. /\ TypeHost /\ TypeProcesses /\ TypeBooks /\ TypeGhosts /\ Stands /\ Held
      /\ pc \in SitesOf(j) /\ pc \in DOMAIN Flow /\ Flow[pc].op = "record"
  BY <1>1, Before
<1>3. (Ok(j) => Arrived(j, ok)) /\ (No(j) => Arrived(j, no))
  BY <1>1, <1>2, MovesOn
<1>4. PICK s \in {ok, no} : Arrived(j, s) /\ (s # no => ~No(j)) /\ (s # ok => ~Ok(j))
  BY <1>1, <1>3 DEF Arrived
<1>5. /\ \/ gw' = gw /\ pend' = pend /\ pid' = TRUE /\ Ok(j)
         \/ Gone /\ pid' = pid /\ No(j)
      /\ installed' = installed /\ db' = db /\ tunnel' = tunnel /\ snap' = snap
      /\ receipt' = receipt /\ tx' = tx /\ plan' = plan /\ overlap' = overlap /\ faults' = faults
      /\ cut' = cut
  BY DEF RecordPID, ghosts
<1>6. TypeHost'
  BY <1>2, <1>5 DEF TypeHost, Gone
<1>7. Booked(j)
  BY <1>2, <1>5 DEF Booked, TypeBooks, TypeGhosts, Gone
<1>8. pc \in ControllerSites
  BY <1>2, Scope
<1>9. j \in Upgrades => s \notin ProvenSites
  BY <1>2, NotProven
<1>10. ASSUME j \in Activations
       PROVE  /\ Keeps(s, cut'[j], f, snap'[j], ~overlap')
              /\ Faces(s, 1, f, ~overlap', installed', db', gw', pid')
  <2>1. pc \in ActivationFlow /\ Keeps(pc, cut[j], f, snap[j], ~overlap)
        /\ Faces(pc, job[j].i, f, ~overlap, installed, db, gw, pid)
    BY <1>1, <1>10, Before
  <2>2. \/ Calls(pc, "a_record", "a_ready", "c_stop") \/ Calls(pc, "b_record", "b_ready", "b_undo")
        \/ Calls(pc, "f_record", "f_ready", "f_stop")
    BY <1>2, <2>1, ActivateRows, RollbackRows, ForwardRows DEF ActivationFlow
  <2>3. Keeps(s, cut'[j], f, snap'[j], ~overlap')
    BY <1>5, <2>1, <2>2, CutoverNames DEF Calls, Keeps, Untouched
  <2>4. s \in {"a_ready", "c_stop"} => (gw' # None => pid')
    BY <1>4, <1>5, <2>2 DEF Calls, Gone
  <2>5. Faces(s, 1, f, ~overlap', installed', db', gw', pid')
    BY <1>5, <2>1, <2>2, <2>4 DEF Calls, Faces, Matching, Gone
  <2> QED BY <2>3, <2>5
<1> QED BY <1>1, <1>4, <1>6, <1>7, <1>8, <1>9, <1>10, CallStep

\* A look at the host deletes a dead record at most.
LEMMA LookStep ==
    ASSUME IInv, NEW j \in Jobs, NEW op, op \in {"ready", "wait"}, At(j, op), Ok(j) \/ No(j),
           pid' = pid \/ Looked,
           UNCHANGED <<installed, db, gw, tunnel, books, ghosts>>
    PROVE  IInv'
<1> DEFINE pc == job[j].pc
           f == job[j].found
           ok == Flow[pc].ok
           no == Flow[pc].no
<1>2. /\ TypeHost /\ TypeProcesses /\ TypeBooks /\ TypeGhosts /\ Stands /\ Held
      /\ pc \in SitesOf(j) /\ pc \in DOMAIN Flow /\ Flow[pc].op = op
  BY Before
<1>3. (Ok(j) => Arrived(j, ok)) /\ (No(j) => Arrived(j, no))
  BY <1>2, MovesOn
<1>4. PICK s \in {ok, no} : Arrived(j, s)
  BY <1>3
<1>5. /\ gw' = gw /\ pend' = pend /\ pid' \in {pid, (gw # None /\ pid)}
      /\ installed' = installed /\ db' = db /\ tunnel' = tunnel /\ snap' = snap
      /\ receipt' = receipt /\ tx' = tx /\ plan' = plan /\ overlap' = overlap /\ faults' = faults
      /\ cut' = cut
  BY DEF books, ghosts, Looked, Tracked
<1>6. TypeHost'
  BY <1>2, <1>5 DEF TypeHost
<1>7. Booked(j)
  BY <1>2, <1>5 DEF Booked, TypeBooks, TypeGhosts
<1>8. Calm
  BY <1>2, <1>5 DEF Calm, TypeHost
<1>9. j \in Upgrades => s \notin ProvenSites
  BY <1>2, NotProven
<1>10. ASSUME j \in Activations
       PROVE  /\ Keeps(s, cut'[j], f, snap'[j], ~overlap')
              /\ Faces(s, 1, f, ~overlap', installed', db', gw', pid')
  <2>1. pc \in ActivationFlow /\ Keeps(pc, cut[j], f, snap[j], ~overlap)
        /\ Faces(pc, job[j].i, f, ~overlap, installed, db, gw, pid)
    BY <1>10, Before
  <2>2. \/ Calls(pc, "a_ready", "a_verify", "c_stop") \/ Calls(pc, "b_ready", "b_verify", "b_undo")
        \/ Calls(pc, "f_ready", "f_verify", "f_stop")
    BY <1>2, <2>1, ActivateRows, RollbackRows, ForwardRows DEF ActivationFlow
  <2>3. Keeps(s, cut'[j], f, snap'[j], ~overlap')
    BY <1>5, <2>1, <2>2, CutoverNames DEF Calls, Keeps, Untouched
  <2>4. gw' # None /\ pid => pid'
    BY <1>2, <1>5 DEF TypeHost
  <2>5. Faces(s, 1, f, ~overlap', installed', db', gw', pid')
    BY <1>5, <2>1, <2>2, <2>4 DEF Calls, Faces, Matching
  <2> QED BY <2>3, <2>5
<1> QED BY <1>4, <1>6, <1>7, <1>8, <1>9, <1>10, CallStep

LEMMA AwaitStep == ASSUME IInv, NEW j \in Jobs, AwaitReady(j) \/ WaitURL(j) PROVE IInv'
<1>1. CASE AwaitReady(j)
  <2>1. /\ At(j, "ready") /\ (Ok(j) \/ No(j)) /\ Looked
        /\ UNCHANGED <<installed, db, gw, tunnel, books, ghosts>>
    BY <1>1 DEF AwaitReady
  <2> QED BY <2>1, LookStep
<1>2. CASE WaitURL(j)
  <2>1. /\ At(j, "wait") /\ (Ok(j) \/ No(j)) /\ pid' = pid
        /\ UNCHANGED <<installed, db, gw, tunnel, books, ghosts>>
    BY <1>2 DEF WaitURL, host
  <2> QED BY <2>1, LookStep
<1> QED BY <1>1, <1>2

\* A step that stays at its call.
LEMMA AgainStep ==
    ASSUME IInv, NEW j \in Jobs, NEW op, At(j, op), NEW n \in 1..Len(BinaryNames), NEW b \in BOOLEAN,
           job' = [job EXCEPT ![j].i = n, ![j].bad = b], UNCHANGED locks,
           TypeHost', Booked(j), Calm \/ job[j].pc \in ControllerSites \/ lock \in {None, j},
           j \in Activations =>
             /\ job[j].pc # "a_lock"
             /\ Keeps(job[j].pc, cut'[j], job[j].found, snap'[j], ~overlap')
             /\ Faces(job[j].pc, n, job[j].found, ~overlap', installed', db', gw', pid')
    PROVE  IInv'
<1> DEFINE pc == job[j].pc
<1>1. /\ TypeBooks /\ TypeGhosts /\ pc \in DOMAIN Flow /\ TypeProcesses /\ Stands /\ Held /\ Own(j)
      /\ job[j] \in JobRecord /\ pc \in SitesOf(j)
      /\ j \in Activations => pc \in ActivationFlow
  BY Before
<1>2. /\ TypeBooks' /\ TypeGhosts'
      /\ \A k \in Debugs \cup Recoveries : pend'[k] \in {pend[k], 0}
  BY <1>1, BookedTyped
<1>3. [job[j] EXCEPT !.i = n, !.bad = b] \in JobRecord
  BY <1>1 DEF JobRecord
<1>4. /\ job' \in [Jobs -> JobRecord]
      /\ job'[j] = [job[j] EXCEPT !.i = n, !.bad = b]
      /\ \A k \in Jobs \ {j} : job'[k] = job[k]
  BY <1>1, <1>3 DEF TypeProcesses
<1>5. /\ job'[j].pc = pc /\ job'[j].found = job[j].found /\ job'[j].before = job[j].before
      /\ job'[j].i = n
  BY <1>1, <1>4 DEF JobRecord
<1>6. TypeProcesses' /\ Stands' /\ Held'
  BY <1>1, <1>4, <1>5 DEF TypeProcesses, locks, Stands, Held
<1>7. TypeOK'
  BY <1>2, <1>6 DEF TypeOK
<1>8. \A k \in Jobs \ {j} : Stays(k)
  BY <1>2, <1>4 DEF Stays, Booked
<1>9. Own(j)'
  <2>1. CASE j \in Activations
    <3>1. pc \in CutoverSites \cup EndSites
      BY <1>1, <2>1, ActivationGoesOn
    <3> QED BY <1>1, <1>2, <1>5, <2>1, <3>1, OwnActivation DEF Booked
  <2>2. CASE j \in Recoveries
    <3>1. j \notin Activations /\ j \notin Upgrades
      BY <2>2, KindFacts
    <3>2. j \notin Debugs
      BY <3>1, KindFacts
    <3> QED BY <1>1, <1>5, <2>2, <3>1, <3>2 DEF Own, Booked
  <2>3. CASE j \in Upgrades
    <3>1. pc \in UpgradeFlow /\ j \notin Activations /\ j \notin Recoveries
      BY <1>1, <2>3, Kinds, KindFacts
    <3>2. pc \in ReplacedSites /\ pc \notin ProvenSites /\ pc \notin {"idle", "u_lock", "u_backup"}
      BY <3>1, TableDomains DEF UpgradeFlow, ReplacedSites, ProvenSites
    <3>3. Backed(pc, cut'[j], tx[j])
      BY <1>1, <2>3, <3>2 DEF Own, Backed
    <3>4. j \notin Debugs
      BY <3>1, KindFacts
    <3> QED BY <1>5, <3>1, <3>3, <3>4 DEF Own, Booked
  <2>4. CASE j \notin Activations \cup Recoveries \cup Upgrades
    BY <2>4, KindFacts DEF Own
  <2> QED BY <2>1, <2>2, <2>3, <2>4
<1> QED BY <1>6, <1>7, <1>8, <1>9, Assemble DEF Booked

\* What replaced artifacts do to the host.
LEMMA WrittenHost ==
    ASSUME TypeHost, NEW j \in Jobs, NEW set \in ArtifactSet, Written(j, set), Unlink \/ gw' = gw,
           UNCHANGED <<db, pid, tunnel>>, overlap \in BOOLEAN
    PROVE  /\ TypeHost' /\ overlap' \in BOOLEAN /\ (overlap => overlap')
           /\ gw' # None => gw # None /\ gw'.ver = gw.ver
           /\ Calm \/ lock \in {None, j}
<1>1. gw' \in {None} \cup GatewayRecord /\ (gw' # None => gw # None /\ gw'.ver = gw.ver)
  BY DEF TypeHost, Unlink, GatewayRecord
<1>2. Calm \/ lock \in {None, j}
  BY <1>1 DEF Calm, Written
<1> QED BY <1>1, <1>2 DEF TypeHost, Written

LEMMA OldTyped ==
    ASSUME IInv, NEW j \in Jobs, NEW op, At(j, op), op \in {"replace", "restore", "proveold"}
    PROVE  /\ j \in Activations \/ j \in Upgrades
           /\ Old(j) \in ArtifactSet
           /\ j \in Activations => Old(j) = snap[j].prev /\ job[j].pc # "a_lock"
<1>1. /\ TypeBooks /\ Own(j) /\ job[j].pc \in SitesOf(j) /\ job[j].pc \in DOMAIN Flow
      /\ Flow[job[j].pc].op = op
  BY Before
<1>2. j \in Activations \/ j \in Upgrades
  BY <1>1, Kinds, RecoveryRows, OperatorRows
<1>3. CASE j \in Activations
  <2>1. job[j].pc \in ActivationFlow /\ job[j].pc # "a_lock"
    BY <1>1, <1>3, Before, ActivateRows, TableDomains DEF Calls
  <2>2. job[j].pc \in CutoverSites
    BY <2>1, ActivationGoesOn
  <2>3. snap[j] # None
    BY <1>1, <1>3, <2>2 DEF Own, Keeps
  <2> QED BY <1>1, <1>2, <1>3, <2>1, <2>3, KindFacts DEF Old, TypeBooks, SnapRecord
<1>4. CASE j \in Upgrades
  <2>1. job[j].pc \in UpgradeFlow
    BY <1>1, <1>4, Kinds, KindFacts
  <2>2. job[j].pc \in ReplacedSites
    BY <2>1 DEF ReplacedSites, UpgradeFlow
  <2>3. tx[j].backup # None
    BY <1>1, <1>4, <2>2 DEF Own, Backed
  <2> QED BY <1>1, <1>2, <1>4, <2>3, KindFacts DEF Old, TypeBooks, TxRecord
<1> QED BY <1>2, <1>3, <1>4

\* An activation whose artifacts are being written.
LEMMA ReplaceFaces ==
    ASSUME IInv, NEW j \in Activations, At(j, "replace"),
           NEW s \in {job[j].pc, Flow[job[j].pc].ok, Flow[job[j].pc].no}, NEW n,
           UNCHANGED <<db, pid, snap, cut>>, overlap => overlap',
           gw' # None => gw # None /\ gw'.ver = gw.ver
    PROVE  /\ Keeps(s, cut'[j], job[j].found, snap'[j], ~overlap')
           /\ Faces(s, n, job[j].found, ~overlap', installed', db', gw', pid')
<1> DEFINE pc == job[j].pc
           f == job[j].found
<1>1. /\ pc \in ActivationFlow /\ Keeps(pc, cut[j], f, snap[j], ~overlap)
      /\ Faces(pc, job[j].i, f, ~overlap, installed, db, gw, pid) /\ Flow[pc].op = "replace"
  BY Before, KindFacts
<1>2. \/ Calls(pc, "a_replace", "a_spawn", "b_stop") \/ Calls(pc, "f_replace", "f_spawn", "x_required")
  BY <1>1, ActivateRows, RollbackRows, ForwardRows DEF ActivationFlow
<1>3. Keeps(s, cut'[j], f, snap'[j], ~overlap')
  BY <1>1, <1>2, CutoverNames DEF Calls, Keeps, Untouched
<1>4. Faces(s, n, f, ~overlap', installed', db', gw', pid')
  BY <1>1, <1>2 DEF Calls, Faces, Matching
<1> QED BY <1>3, <1>4

LEMMA ReplaceStep == ASSUME IInv, NEW j \in Jobs, ReplaceOne(j) PROVE IInv'
<1> DEFINE pc == job[j].pc
           ok == Flow[pc].ok
           no == Flow[pc].no
           b == BinaryNames[job[j].i]
           set == [installed EXCEPT ![b] = Target[j]]
<1>1. At(j, "replace")
  BY DEF ReplaceOne
<1>2. /\ TypeHost /\ TypeProcesses /\ TypeBooks /\ TypeGhosts /\ Stands /\ Held
      /\ pc \in SitesOf(j) /\ pc \in DOMAIN Flow /\ Flow[pc].op = "replace"
      /\ job[j] \in JobRecord
  BY <1>1, Before
<1>3. (Ok(j) => Arrived(j, ok)) /\ (No(j) => Arrived(j, no))
  BY <1>1, <1>2, MovesOn
<1>4. /\ Written(j, set) /\ (Unlink \/ gw' = gw)
      /\ UNCHANGED <<db, pid, tunnel, snap, receipt, pend, tx, plan, faults>>
      /\ cut' = IF j \in Upgrades THEN [cut EXCEPT ![j] = "open"] ELSE cut
  BY DEF ReplaceOne, books
<1>5. set \in ArtifactSet
  <2>1. j \in Activations \/ j \in Upgrades
    BY <1>1, OldTyped
  <2> QED BY <1>2, <2>1, ConstantFacts DEF JobRecord, TypeHost, ArtifactSet
<1>6. /\ TypeHost' /\ overlap' \in BOOLEAN /\ (overlap => overlap')
      /\ gw' # None => gw # None /\ gw'.ver = gw.ver
      /\ Calm \/ lock \in {None, j}
  BY <1>2, <1>4, <1>5, WrittenHost DEF TypeGhosts
<1>7. Booked(j)
  BY <1>2, <1>4, <1>6 DEF Booked, TypeBooks, TypeGhosts
<1>8. j \in Upgrades => ok \notin ProvenSites /\ no \notin ProvenSites
  BY <1>2, NotProven
<1>9. ASSUME j \in Activations, NEW s \in {pc, ok, no}, NEW n
      PROVE  /\ Keeps(s, cut'[j], job[j].found, snap'[j], ~overlap')
             /\ Faces(s, n, job[j].found, ~overlap', installed', db', gw', pid')
  <2>1. cut' = cut
    BY <1>4, <1>9, KindFacts
  <2> QED BY <1>1, <1>4, <1>6, <1>9, <2>1, ReplaceFaces
<1>10. CASE job[j].i < Len(BinaryNames)
  <2>1. job' = [job EXCEPT ![j].i = @ + 1] /\ UNCHANGED locks
    BY <1>10 DEF ReplaceOne
  <2>2. job[j].i + 1 \in 1..Len(BinaryNames) /\ job[j].bad \in BOOLEAN
    BY <1>2, <1>10, ConstantFacts DEF JobRecord
  <2>3. job' = [job EXCEPT ![j].i = job[j].i + 1, ![j].bad = job[j].bad]
    <3>1. [job[j] EXCEPT !.i = @ + 1] = [job[j] EXCEPT !.i = job[j].i + 1, !.bad = job[j].bad]
      BY <1>2 DEF JobRecord
    <3> QED BY <1>2, <2>1, <3>1 DEF TypeProcesses
  <2>4. j \in Activations => pc # "a_lock"
    BY <1>1, OldTyped
  <2> HIDE DEF pc, ok, no
  <2>5. j \in Activations =>
          /\ pc # "a_lock"
          /\ Keeps(pc, cut'[j], job[j].found, snap'[j], ~overlap')
          /\ Faces(pc, job[j].i + 1, job[j].found, ~overlap', installed', db', gw', pid')
    BY <1>9, <2>4
  <2> QED BY <1>1, <1>6, <1>7, <2>1, <2>2, <2>3, <2>5, AgainStep DEF pc
<1>11. CASE ~(job[j].i < Len(BinaryNames))
  <2>1. Ok(j) \/ No(j)
    BY <1>11 DEF ReplaceOne
  <2>2. PICK s \in {ok, no} : Arrived(j, s)
    BY <1>3, <2>1
  <2> QED BY <1>1, <1>6, <1>7, <1>8, <1>9, <2>2, CallStep
<1> QED BY <1>10, <1>11

LEMMA ReplaceFailsStep == ASSUME IInv, NEW j \in Jobs, ReplaceFails(j) PROVE IInv'
<1> DEFINE pc == job[j].pc
           ok == Flow[pc].ok
           no == Flow[pc].no
<1>1. At(j, "replace") /\ No(j)
  BY DEF ReplaceFails
<1>2. /\ TypeHost /\ TypeProcesses /\ TypeBooks /\ TypeGhosts /\ Stands /\ Held
      /\ pc \in SitesOf(j) /\ pc \in DOMAIN Flow /\ Flow[pc].op = "replace"
  BY <1>1, Before
<1>3. Arrived(j, no)
  BY <1>1, <1>2, MovesOn
<1>4. UNCHANGED <<db, pid, tunnel, snap, receipt, pend, tx, plan, cut, faults>>
  BY DEF ReplaceFails, books
<1>5. /\ TypeHost' /\ overlap' \in BOOLEAN /\ (overlap => overlap')
      /\ gw' # None => gw # None /\ gw'.ver = gw.ver
      /\ Calm \/ lock \in {None, j}
  <2>1. CASE UNCHANGED <<installed, gw, overlap>>
    BY <1>2, <1>4, <2>1 DEF TypeHost, TypeGhosts, Calm
  <2>2. CASE ~UNCHANGED <<installed, gw, overlap>>
    <3>1. PICK back \in SUBSET Binaries :
            /\ Written(j, [b \in Binaries |-> IF b \in back THEN Old(j)[b] ELSE installed[b]])
            /\ Unlink \/ gw' = gw
      BY <2>2 DEF ReplaceFails
    <3>2. [b \in Binaries |-> IF b \in back THEN Old(j)[b] ELSE installed[b]] \in ArtifactSet
      BY <1>1, <1>2, OldTyped DEF TypeHost, ArtifactSet
    <3> QED BY <1>2, <1>4, <3>1, <3>2, WrittenHost DEF TypeGhosts
  <2> QED BY <2>1, <2>2
<1>6. Booked(j)
  BY <1>2, <1>4, <1>5 DEF Booked, TypeBooks, TypeGhosts
<1>7. j \in Upgrades => no \notin ProvenSites
  BY <1>2, NotProven
<1>8. j \in Activations =>
        /\ Keeps(no, cut'[j], job[j].found, snap'[j], ~overlap')
        /\ Faces(no, 1, job[j].found, ~overlap', installed', db', gw', pid')
  BY <1>1, <1>4, <1>5, ReplaceFaces
<1> QED BY <1>1, <1>3, <1>5, <1>6, <1>7, <1>8, CallStep

LEMMA RestoreStep == ASSUME IInv, NEW j \in Jobs, RestoreOne(j) PROVE IInv'
<1> DEFINE pc == job[j].pc
           f == job[j].found
           ok == Flow[pc].ok
           no == Flow[pc].no
           b == BinaryNames[job[j].i]
           set == [installed EXCEPT ![b] = Old(j)[b]]
           last == job[j].i = Len(BinaryNames)
           again(bad) == job' = [job EXCEPT ![j].i = job[j].i + 1, ![j].bad = bad] /\ UNCHANGED locks
<1>1. At(j, "restore")
  BY DEF RestoreOne
<1>2. /\ TypeHost /\ TypeProcesses /\ TypeBooks /\ TypeGhosts /\ Stands /\ Held
      /\ pc \in SitesOf(j) /\ pc \in DOMAIN Flow /\ Flow[pc].op = "restore"
      /\ job[j] \in JobRecord
  BY <1>1, Before
<1>3. (Ok(j) => Arrived(j, ok)) /\ (No(j) => Arrived(j, no))
  BY <1>1, <1>2, MovesOn
<1>4. /\ j \in Activations \/ j \in Upgrades
      /\ Old(j) \in ArtifactSet
      /\ j \in Activations => Old(j) = snap[j].prev /\ pc # "a_lock"
  BY <1>1, OldTyped
<1>5. /\ UNCHANGED <<db, pid, tunnel, snap, receipt, pend, tx, plan, cut, faults>>
      /\ \/ UNCHANGED <<installed, gw, overlap>>
         \/ Written(j, set) /\ (Unlink \/ gw' = gw)
  BY DEF RestoreOne, books
<1>6. set \in ArtifactSet
  BY <1>2, <1>4, ConstantFacts DEF JobRecord, TypeHost, ArtifactSet
<1>7. /\ TypeHost' /\ overlap' \in BOOLEAN /\ (overlap => overlap')
      /\ gw' # None => gw # None /\ gw'.ver = gw.ver
      /\ Calm \/ lock \in {None, j}
  <2>1. CASE UNCHANGED <<installed, gw, overlap>>
    BY <1>2, <1>5, <2>1 DEF TypeHost, TypeGhosts, Calm
  <2>2. CASE Written(j, set) /\ (Unlink \/ gw' = gw)
    BY <1>2, <1>5, <1>6, <2>2, WrittenHost DEF TypeGhosts
  <2> QED BY <1>5, <2>1, <2>2
<1>8. Booked(j)
  BY <1>2, <1>5, <1>7 DEF Booked, TypeBooks, TypeGhosts
<1>9. j \in Upgrades => ok \notin ProvenSites /\ no \notin ProvenSites
  BY <1>2, NotProven
<1>10. ASSUME j \in Activations, NEW s \in {pc, ok, no}, NEW n,
              s = ok => installed' = Old(j)
       PROVE  /\ Keeps(s, cut'[j], f, snap'[j], ~overlap')
              /\ Faces(s, n, f, ~overlap', installed', db', gw', pid')
  <2>1. pc \in ActivationFlow /\ Keeps(pc, cut[j], f, snap[j], ~overlap)
        /\ Faces(pc, job[j].i, f, ~overlap, installed, db, gw, pid)
    BY <1>1, <1>10, Before
  <2>2. Calls(pc, "b_restore", "b_spawn", "f_replace")
    BY <1>2, <2>1, ActivateRows, RollbackRows, ForwardRows DEF ActivationFlow
  <2>3. Keeps(s, cut'[j], f, snap'[j], ~overlap')
    BY <1>5, <1>7, <1>10, <2>1, <2>2, CutoverNames DEF Calls, Keeps, Untouched
  <2>4. s = "b_spawn" /\ ~overlap' => installed' = f.set
    BY <1>4, <1>7, <1>10, <2>1, <2>2, CutoverNames DEF Calls, Keeps
  <2>5. Faces(s, n, f, ~overlap', installed', db', gw', pid')
    BY <1>5, <1>7, <1>10, <2>1, <2>2, <2>4 DEF Calls, Faces, Matching
  <2> QED BY <2>3, <2>5
<1>11. \/ \E bad \in BOOLEAN : ~last /\ again(bad)
       \/ Ok(j) /\ installed' = Old(j)
       \/ No(j)
  <2>1. job[j].bad \in BOOLEAN /\ job \in [Jobs -> JobRecord]
    BY <1>2 DEF JobRecord, TypeProcesses
  <2>2. ASSUME job' = [job EXCEPT ![j].i = @ + 1], UNCHANGED locks PROVE again(job[j].bad)
    <3>1. [job[j] EXCEPT !.i = @ + 1] = [job[j] EXCEPT !.i = job[j].i + 1, !.bad = job[j].bad]
      BY <1>2 DEF JobRecord
    <3> QED BY <2>1, <2>2, <3>1
  <2>3. ASSUME job' = [job EXCEPT ![j].i = @ + 1, ![j].bad = TRUE], UNCHANGED locks PROVE again(TRUE)
    BY <2>1, <2>3
  <2> HIDE DEF again
  <2> QED BY <2>1, <2>2, <2>3 DEF RestoreOne
<1>12. ASSUME NEW bad \in BOOLEAN, ~last, again(bad) PROVE IInv'
  <2>1. job[j].i + 1 \in 1..Len(BinaryNames)
    BY <1>2, <1>12, ConstantFacts DEF JobRecord
  <2>2. j \in Activations =>
          /\ pc # "a_lock"
          /\ Keeps(pc, cut'[j], f, snap'[j], ~overlap')
          /\ Faces(pc, job[j].i + 1, f, ~overlap', installed', db', gw', pid')
    <3> SUFFICES ASSUME j \in Activations
                 PROVE  /\ Keeps(pc, cut'[j], f, snap'[j], ~overlap')
                        /\ Faces(pc, job[j].i + 1, f, ~overlap', installed', db', gw', pid')
      BY <1>4
    <3>1. pc # ok
      <4>1. pc \in ActivationFlow
        BY <1>1, Before
      <4> QED BY <1>2, <4>1, ActivateRows, RollbackRows, ForwardRows DEF ActivationFlow, Calls
    <3> HIDE DEF pc, ok, no
    <3> QED BY <1>10, <3>1
  <2> QED BY <1>1, <1>7, <1>8, <1>12, <2>1, <2>2, AgainStep
<1>13. ASSUME Ok(j), installed' = Old(j) PROVE IInv'
  <2>1. j \in Activations =>
          /\ Keeps(ok, cut'[j], f, snap'[j], ~overlap')
          /\ Faces(ok, 1, f, ~overlap', installed', db', gw', pid')
    BY <1>10, <1>13
  <2> QED BY <1>1, <1>3, <1>7, <1>8, <1>9, <1>13, <2>1, CallStep
<1>14. ASSUME No(j) PROVE IInv'
  <2>1. ASSUME j \in Activations PROVE no # ok
    <3>1. pc \in ActivationFlow
      BY <1>1, <2>1, Before
    <3> QED BY <1>2, <3>1, ActivateRows, RollbackRows, ForwardRows DEF ActivationFlow, Calls
  <2>2. j \in Activations =>
          /\ Keeps(no, cut'[j], f, snap'[j], ~overlap')
          /\ Faces(no, 1, f, ~overlap', installed', db', gw', pid')
    BY <1>10, <2>1
  <2> QED BY <1>1, <1>3, <1>7, <1>8, <1>9, <1>14, <2>2, CallStep
<1> QED BY <1>11, <1>12, <1>13, <1>14

LEMMA CaptureStep == ASSUME IInv, NEW j \in Jobs, CaptureDurableState(j) PROVE IInv'
<1> DEFINE pc == job[j].pc
           f == job[j].found
           ok == Flow[pc].ok
           no == Flow[pc].no
<1>1. At(j, "capture") /\ (Ok(j) \/ No(j))
  BY DEF CaptureDurableState
<1>2. /\ TypeHost /\ TypeProcesses /\ TypeBooks /\ TypeGhosts /\ Stands /\ Held
      /\ pc \in SitesOf(j) /\ pc \in DOMAIN Flow /\ Flow[pc].op = "capture" /\ Own(j)
  BY <1>1, Before
<1>3. (Ok(j) => Arrived(j, ok)) /\ (No(j) => Arrived(j, no))
  BY <1>1, <1>2, MovesOn
<1>4. PICK s \in {ok, no} : Arrived(j, s) /\ (s # no => ~No(j)) /\ (s # ok => ~Ok(j))
  BY <1>1, <1>3 DEF Arrived
<1>5. /\ UNCHANGED <<installed, db, gw, pid, tunnel, receipt, pend, tx, plan, cut, overlap, faults>>
      /\ (snap' = [snap EXCEPT ![j].db = db] /\ Ok(j)) \/ (snap' = snap /\ No(j))
  BY DEF CaptureDurableState, host, ghosts
<1>6. j \in Activations
  BY <1>2, Kinds, RecoveryRows, UpgradeRows, OperatorRows
<1>7. pc \in ActivationFlow /\ Keeps(pc, cut[j], f, snap[j], ~overlap)
      /\ Faces(pc, job[j].i, f, ~overlap, installed, db, gw, pid)
  BY <1>1, <1>6, Before
<1>8. Calls(pc, "a_capture", "a_replace", "b_stop")
  BY <1>2, <1>7, ActivateRows, RollbackRows, ForwardRows DEF ActivationFlow
<1>9. snap[j] \in SnapRecord /\ snap \in [Activations -> {None} \cup SnapRecord]
  BY <1>2, <1>6, <1>7, <1>8, CutoverNames DEF Keeps, Calls, TypeBooks
<1>10. ASSUME snap' = [snap EXCEPT ![j].db = db]
       PROVE  /\ snap' \in [Activations -> {None} \cup SnapRecord]
              /\ snap'[j].prev = snap[j].prev /\ snap'[j].db = db /\ snap'[j] \in SnapRecord
              /\ \A k \in Activations \ {j} : snap'[k] = snap[k]
  <2>1. [snap[j] EXCEPT !.db = db] \in SnapRecord
    BY <1>2, <1>9 DEF SnapRecord, TypeHost
  <2> QED BY <1>6, <1>9, <1>10, <2>1 DEF SnapRecord
<1>11. Booked(j)
  BY <1>2, <1>5, <1>9, <1>10 DEF Booked, TypeBooks, TypeGhosts
<1>12. TypeHost' /\ Calm
  BY <1>2, <1>5 DEF TypeHost, Calm
<1>13. Keeps(s, cut'[j], f, snap'[j], ~overlap')
  <2>1. CASE snap' = snap /\ No(j)
    BY <1>4, <1>5, <1>7, <1>8, <2>1, CutoverNames DEF Calls, Keeps, Untouched
  <2>2. CASE snap' = [snap EXCEPT ![j].db = db] /\ Ok(j)
    <3>1. s = "a_replace"
      BY <1>4, <1>8, <2>2 DEF Calls
    <3>2. snap'[j].db # None /\ snap'[j] # None /\ snap'[j].prev = snap[j].prev /\ snap'[j].db = db
      BY <1>2, <1>10, <2>2, NoneAssumption DEF TypeHost
    <3>3. \A d \in Databases : db[d] \in {f.db[d], f.ran}
      BY <1>7, <1>8 DEF Calls, Faces
    <3>4. cut'[j] = cut[j] /\ overlap' = overlap /\ pc = "a_capture"
      BY <1>5, <1>8 DEF Calls
    <3> QED BY <1>7, <3>1, <3>2, <3>3, <3>4, CutoverNames DEF Keeps, Untouched
  <2> QED BY <1>5, <2>1, <2>2
<1>14. Faces(s, 1, f, ~overlap', installed', db', gw', pid')
  BY <1>5, <1>7, <1>8 DEF Calls, Faces, Matching
<1> QED BY <1>1, <1>4, <1>6, <1>11, <1>12, <1>13, <1>14, CallStep, KindFacts

LEMMA RevertStep == ASSUME IInv, NEW j \in Jobs, RestoreOneDatabase(j) PROVE IInv'
<1> DEFINE pc == job[j].pc
           f == job[j].found
           ok == Flow[pc].ok
           no == Flow[pc].no
           d == <<"shared", "local">>[job[j].i]
           set == [db EXCEPT ![d] = snap[j].db[d]]
<1>1. At(j, "revert")
  BY DEF RestoreOneDatabase
<1>2. /\ TypeHost /\ TypeProcesses /\ TypeBooks /\ TypeGhosts /\ Stands /\ Held
      /\ pc \in SitesOf(j) /\ pc \in DOMAIN Flow /\ Flow[pc].op = "revert" /\ Own(j)
      /\ job[j] \in JobRecord
  BY <1>1, Before
<1>3. (Ok(j) => Arrived(j, ok)) /\ (No(j) => Arrived(j, no))
  BY <1>1, <1>2, MovesOn
<1>4. UNCHANGED <<installed, gw, pid, tunnel, snap, receipt, pend, tx, plan, cut, overlap, faults>>
  BY DEF RestoreOneDatabase, books, ghosts
<1>5. j \in Activations /\ pc \in ControllerSites
  BY <1>2, Kinds, RecoveryRows, UpgradeRows, OperatorRows, Scope
<1>6. pc \in ActivationFlow /\ Keeps(pc, cut[j], f, snap[j], ~overlap)
      /\ Faces(pc, job[j].i, f, ~overlap, installed, db, gw, pid)
  BY <1>1, <1>5, Before
<1>7. Calls(pc, "c_state", "b_restore", "f_replace")
  BY <1>2, <1>6, ActivateRows, RollbackRows, ForwardRows DEF ActivationFlow
<1>8. Booked(j)
  BY <1>2, <1>4 DEF Booked, TypeBooks, TypeGhosts
<1>9. ASSUME NEW s \in {pc, ok, no} PROVE Keeps(s, cut'[j], f, snap'[j], ~overlap')
  BY <1>4, <1>6, <1>7, <1>9, CutoverNames DEF Calls, Keeps, Untouched
<1>10. CASE No(j) /\ UNCHANGED db
  <2>1. TypeHost' /\ Arrived(j, no)
    BY <1>2, <1>3, <1>4, <1>10 DEF TypeHost
  <2>2. Keeps(no, cut'[j], f, snap'[j], ~overlap')
    BY <1>9
  <2>3. Faces(no, 1, f, ~overlap', installed', db', gw', pid')
    BY <1>7 DEF Calls, Faces, Matching
  <2>4. j \in Jobs \ Upgrades
    BY <1>5, KindFacts
  <2> QED BY <1>1, <1>5, <1>8, <2>1, <2>2, <2>3, <2>4, CallStep
<1>11. CASE /\ snap[j].db # None /\ db' = set
            /\ IF d = "local" THEN Ok(j) ELSE job' = [job EXCEPT ![j].i = 2] /\ UNCHANGED locks
  <2>1. /\ snap[j].db \in DatabaseSet
        /\ \A e \in Databases : snap[j].db[e] \in {f.db[e], f.ran}
    <3>1. snap[j] \in SnapRecord /\ \A e \in Databases : snap[j].db[e] \in {f.db[e], f.ran}
      BY <1>2, <1>5, <1>6, <1>7, CutoverNames DEF Keeps, Calls, TypeBooks
    <3> QED BY <1>11, <3>1 DEF SnapRecord
  <2>2. CASE d = "local"
    <3>1. Ok(j) /\ Arrived(j, ok)
      BY <1>3, <1>11, <2>2
    <3>2. job[j].i > 1
      BY <1>2, <2>2 DEF JobRecord
    <3>3. \A e \in Databases : db'[e] \in {f.db[e], f.ran}
      <4>1. db["shared"] \in {f.db["shared"], f.ran}
        BY <1>6, <1>7, <3>2 DEF Faces, Calls
      <4>2. db'["local"] = snap[j].db["local"] /\ db'["shared"] = db["shared"]
        BY <1>2, <1>11, <2>2 DEF TypeHost, DatabaseSet, Databases
      <4> QED BY <2>1, <4>1, <4>2 DEF Databases
    <3>4. TypeHost'
      <4>1. set \in DatabaseSet
        BY <1>2, <2>1, <2>2 DEF TypeHost, DatabaseSet, Databases
      <4> QED BY <1>2, <1>4, <1>11, <4>1 DEF TypeHost
    <3>5. Faces(ok, 1, f, ~overlap', installed', db', gw', pid')
      BY <1>4, <1>6, <1>7, <3>3 DEF Calls, Faces, Matching
    <3>6. Keeps(ok, cut'[j], f, snap'[j], ~overlap')
      BY <1>9
    <3>7. j \in Jobs \ Upgrades
      BY <1>5, KindFacts
    <3> QED BY <1>1, <1>5, <1>8, <3>1, <3>4, <3>5, <3>6, <3>7, CallStep
  <2>3. CASE d # "local"
    <3>1. job' = [job EXCEPT ![j].i = 2] /\ UNCHANGED locks
      BY <1>11, <2>3
    <3>2. 2 \in 1..Len(BinaryNames) /\ job[j].bad \in BOOLEAN
      BY <1>2, ConstantFacts DEF JobRecord
    <3>3. job' = [job EXCEPT ![j].i = 2, ![j].bad = job[j].bad]
      <4>1. [job[j] EXCEPT !.i = 2] = [job[j] EXCEPT !.i = 2, !.bad = job[j].bad]
        BY <1>2 DEF JobRecord
      <4> QED BY <1>2, <3>1, <4>1 DEF TypeProcesses
    <3>4. db' \in DatabaseSet /\ db'["shared"] \in {f.db["shared"], f.ran}
      <4>1. CASE job[j].i = 1
        <5>1. d = "shared"
          BY <4>1
        <5> QED BY <1>2, <1>11, <2>1, <5>1 DEF TypeHost, DatabaseSet, Databases
      <4>2. CASE job[j].i # 1
        <5>1. db["shared"] \in {f.db["shared"], f.ran}
          BY <1>2, <1>6, <1>7, <4>2 DEF Faces, Calls, JobRecord
        <5>2. d \in Databases \/ d \notin Databases
          OBVIOUS
        <5> QED BY <1>2, <1>11, <2>1, <5>1 DEF TypeHost, DatabaseSet, Databases
      <4> QED BY <4>1, <4>2
    <3>5. TypeHost'
      BY <1>2, <1>4, <3>4 DEF TypeHost
    <3>6. Faces(pc, 2, f, ~overlap', installed', db', gw', pid') /\ pc # "a_lock"
      BY <1>4, <1>6, <1>7, <3>4 DEF Calls, Faces, Matching
    <3>7. Keeps(pc, cut'[j], f, snap'[j], ~overlap')
      BY <1>9
    <3> QED BY <1>1, <1>5, <1>8, <3>1, <3>2, <3>3, <3>5, <3>6, <3>7, AgainStep
  <2> QED BY <2>2, <2>3
<1> QED BY <1>10, <1>11 DEF RestoreOneDatabase

LEMMA ValidateStep == ASSUME IInv, NEW j \in Jobs, ValidateBeforeStop(j) PROVE IInv'
<1> DEFINE pc == job[j].pc
           f == job[j].found
           ok == Flow[pc].ok
           no == Flow[pc].no
<1>1. At(j, "validate") /\ (Ok(j) \/ No(j))
  BY DEF ValidateBeforeStop
<1>2. /\ TypeHost /\ TypeProcesses /\ TypeBooks /\ TypeGhosts /\ Stands /\ Held
      /\ pc \in SitesOf(j) /\ pc \in DOMAIN Flow /\ Flow[pc].op = "validate"
  BY <1>1, Before
<1>3. (Ok(j) => Arrived(j, ok)) /\ (No(j) => Arrived(j, no))
  BY <1>1, <1>2, MovesOn
<1>4. PICK s \in {ok, no} : Arrived(j, s) /\ (s # no => ~No(j)) /\ (s # ok => ~Ok(j))
  BY <1>1, <1>3 DEF Arrived
<1>5. /\ UNCHANGED <<installed, db, gw, tunnel, snap, receipt, pend, tx, plan, cut, overlap, faults>>
      /\ pid' = (gw # None /\ pid)
      /\ (Ok(j) /\ installed = snap[j].prev) \/ No(j)
  BY DEF ValidateBeforeStop, books, ghosts, Looked, Tracked
<1>6. j \in Activations
  BY <1>2, Kinds, RecoveryRows, UpgradeRows, OperatorRows
<1>7. pc \in ActivationFlow /\ Keeps(pc, cut[j], f, snap[j], ~overlap)
      /\ Faces(pc, job[j].i, f, ~overlap, installed, db, gw, pid)
  BY <1>1, <1>6, Before
<1>8. Calls(pc, "a_check", "a_stop", "a_end")
  BY <1>2, <1>7, ActivateRows, RollbackRows, ForwardRows DEF ActivationFlow
<1>9. TypeHost' /\ Calm /\ Booked(j)
  BY <1>2, <1>5 DEF TypeHost, Calm, Booked, TypeBooks, TypeGhosts
<1>10. s = "a_stop" => installed = snap[j].prev
  BY <1>4, <1>5, <1>8 DEF Calls
<1>11. Keeps(s, cut'[j], f, snap'[j], ~overlap')
  BY <1>5, <1>7, <1>8, <1>10, CutoverNames DEF Calls, Keeps, Faces, Untouched
<1>12. Faces(s, 1, f, ~overlap', installed', db', gw', pid')
  BY <1>5, <1>7, <1>8 DEF Calls, Faces, Matching
<1>13. j \notin Upgrades
  BY <1>6, KindFacts
<1> QED BY <1>1, <1>4, <1>9, <1>11, <1>12, <1>13, CallStep

\* A proof of the candidate or of the previous Gateway settles the cutover.
LEMMA ProofStep ==
    ASSUME IInv, NEW j \in Jobs, NEW op, op \in {"verify", "proveold"}, At(j, op), Looked,
           UNCHANGED <<installed, db, gw, tunnel, books, plan, overlap, faults>>,
           (cut' = [cut EXCEPT ![j] = "settled"] /\ Ok(j)) \/ (cut' = cut /\ No(j))
    PROVE  IInv'
<1> DEFINE pc == job[j].pc
           f == job[j].found
           ok == Flow[pc].ok
           no == Flow[pc].no
<1>2. /\ TypeHost /\ TypeProcesses /\ TypeBooks /\ TypeGhosts /\ Stands /\ Held
      /\ pc \in SitesOf(j) /\ pc \in DOMAIN Flow /\ Flow[pc].op = op
  BY Before
<1>3. (Ok(j) => Arrived(j, ok)) /\ (No(j) => Arrived(j, no))
  BY <1>2, MovesOn
<1>4. PICK s \in {ok, no} : Arrived(j, s) /\ (s # no => ~No(j)) /\ (s # ok => ~Ok(j))
  BY <1>3 DEF Arrived
<1>5. /\ UNCHANGED <<installed, db, gw, tunnel, snap, receipt, pend, tx, plan, overlap, faults>>
      /\ pid' = (gw # None /\ pid)
  BY DEF books, Looked, Tracked
<1>6. j \in Activations \/ j \in Upgrades
  BY <1>2, Kinds, RecoveryRows, OperatorRows
<1>7. TypeHost' /\ Calm /\ Booked(j)
  BY <1>2, <1>5 DEF TypeHost, Calm, Booked, TypeBooks, TypeGhosts
<1>8. j \in Upgrades /\ s \in ProvenSites => cut'[j] = "settled"
  BY <1>2, <1>4, NotProven DEF TypeGhosts
<1>9. ASSUME j \in Activations
      PROVE  /\ Keeps(s, cut'[j], f, snap'[j], ~overlap')
             /\ Faces(s, 1, f, ~overlap', installed', db', gw', pid')
  <2>1. pc \in ActivationFlow /\ Keeps(pc, cut[j], f, snap[j], ~overlap)
        /\ Faces(pc, job[j].i, f, ~overlap, installed, db, gw, pid)
    BY <1>9, Before
  <2>2. \/ Calls(pc, "a_verify", "a_done", "c_stop") \/ Calls(pc, "f_verify", "x_serving", "f_stop")
        \/ Calls(pc, "b_verify", "x_previous", "b_undo")
    BY <1>2, <2>1, ActivateRows, RollbackRows, ForwardRows DEF ActivationFlow
  <2>3. (s = ok /\ s # no /\ cut'[j] = "settled") \/ (s = no /\ s # ok /\ cut'[j] = cut[j])
    BY <1>2, <1>4, <1>9, <2>2 DEF Calls, TypeGhosts
  <2>4. Keeps(s, cut'[j], f, snap'[j], ~overlap')
    <3>1. snap' = snap /\ overlap' = overlap /\ Keeps(pc, cut[j], f, snap[j], ~overlap)
      BY <1>5, <2>1
    <3> HIDE DEF f
    <3>2. CASE pc = "a_verify"
      BY <2>2, <2>3, <3>1, <3>2, CutoverNames DEF Calls, Keeps, Untouched
    <3>3. CASE pc \in {"f_verify", "b_verify"}
      BY <2>2, <2>3, <3>1, <3>3, CutoverNames DEF Calls, Keeps, Untouched
    <3> QED BY <2>2, <3>2, <3>3 DEF Calls
  <2>5. gw' # None /\ pid => pid'
    BY <1>2, <1>5 DEF TypeHost
  <2>6. Faces(s, 1, f, ~overlap', installed', db', gw', pid')
    BY <1>5, <2>1, <2>2, <2>5 DEF Calls, Faces, Matching
  <2> QED BY <2>4, <2>6
<1> QED BY <1>4, <1>7, <1>8, <1>9, CallStep

LEMMA VerifyStep == ASSUME IInv, NEW j \in Jobs, VerifyCandidate(j) \/ VerifyPrevious(j) PROVE IInv'
<1>1. CASE VerifyCandidate(j)
  <2>1. /\ At(j, "verify") /\ Looked
        /\ UNCHANGED <<installed, db, gw, tunnel, books, plan, overlap, faults>>
        /\ (cut' = [cut EXCEPT ![j] = "settled"] /\ Ok(j)) \/ (cut' = cut /\ No(j))
    BY <1>1 DEF VerifyCandidate
  <2> QED BY <2>1, ProofStep
<1>2. CASE VerifyPrevious(j)
  <2>1. /\ At(j, "proveold") /\ Looked
        /\ UNCHANGED <<installed, db, gw, tunnel, books, plan, overlap, faults>>
        /\ (cut' = [cut EXCEPT ![j] = "settled"] /\ Ok(j)) \/ (cut' = cut /\ No(j))
    BY <1>2 DEF VerifyPrevious
  <2> QED BY <2>1, ProofStep
<1> QED BY <1>1, <1>2

LEMMA CopyStep == ASSUME IInv, NEW j \in Jobs, CopyExecutable(j) PROVE IInv'
<1> DEFINE pc == job[j].pc
           ok == Flow[pc].ok
           no == Flow[pc].no
           set == [installed EXCEPT !["gatewayd"] = job[j].before.ver]
<1>1. At(j, "copy") /\ (Ok(j) \/ No(j))
  BY DEF CopyExecutable
<1>2. /\ TypeHost /\ TypeProcesses /\ TypeBooks /\ TypeGhosts /\ Stands /\ Held /\ Own(j)
      /\ pc \in SitesOf(j) /\ pc \in DOMAIN Flow /\ Flow[pc].op = "copy" /\ job[j] \in JobRecord
  BY <1>1, Before
<1>3. (Ok(j) => Arrived(j, ok)) /\ (No(j) => Arrived(j, no))
  BY <1>1, <1>2, MovesOn
<1>4. PICK s \in {ok, no} : Arrived(j, s)
  BY <1>1, <1>3
<1>5. /\ UNCHANGED <<db, pid, tunnel, snap, receipt, pend, tx, plan, cut, faults>>
      /\ \/ UNCHANGED <<installed, gw, overlap>>
         \/ Written(j, set) /\ Unlink
  BY DEF CopyExecutable, books
<1>6. j \in Recoveries /\ j \notin Activations /\ j \notin Upgrades /\ pc \in RecoverySites
  <2>1. j \notin Activations
    <3> SUFFICES ASSUME j \in Activations PROVE FALSE
      OBVIOUS
    <3>1. pc \in ActivationFlow
      BY <1>1, Before
    <3> QED BY <1>2, <3>1, ActivateRows, RollbackRows, ForwardRows DEF ActivationFlow
  <2> QED BY <1>2, <2>1, Kinds, UpgradeRows, OperatorRows, KindFacts DEF RecoverySites
<1>7. set \in ArtifactSet
  <2>1. job[j].before # None
    BY <1>2, <1>6 DEF Own, RecoveryFits
  <2>2. job[j].before.ver \in Builds
    BY <1>2, <2>1 DEF JobRecord, BeforeRecord
  <2> QED BY <1>2, <2>2 DEF TypeHost, ArtifactSet
<1>8. /\ TypeHost' /\ overlap' \in BOOLEAN /\ (overlap => overlap')
      /\ Calm \/ lock \in {None, j}
  <2>1. CASE UNCHANGED <<installed, gw, overlap>>
    BY <1>2, <1>5, <2>1 DEF TypeHost, TypeGhosts, Calm
  <2>2. CASE Written(j, set) /\ Unlink
    BY <1>2, <1>5, <1>7, <2>2, WrittenHost DEF TypeGhosts
  <2> QED BY <1>5, <2>1, <2>2
<1>9. Booked(j)
  BY <1>2, <1>5, <1>8 DEF Booked, TypeBooks, TypeGhosts
<1> QED BY <1>1, <1>4, <1>6, <1>8, <1>9, CallStep

LEMMA TunnelStep == ASSUME IInv, NEW j \in Jobs, StartTunnel(j) \/ StopTunnel(j) PROVE IInv'
<1> DEFINE pc == job[j].pc
           ok == Flow[pc].ok
           no == Flow[pc].no
<1>1. PICK op \in {"tunnelup", "tunneldown"} : At(j, op)
  BY DEF StartTunnel, StopTunnel
<1>2. /\ TypeHost /\ TypeProcesses /\ TypeBooks /\ TypeGhosts /\ Stands /\ Held /\ Own(j)
      /\ pc \in SitesOf(j) /\ pc \in DOMAIN Flow /\ Flow[pc].op = op
  BY <1>1, Before
<1>3. (Ok(j) => Arrived(j, ok)) /\ (No(j) => Arrived(j, no))
  BY <1>1, <1>2, MovesOn
<1>4. Ok(j) \/ No(j)
  BY DEF StartTunnel, StopTunnel
<1>5. PICK s \in {ok, no} : Arrived(j, s)
  BY <1>3, <1>4
<1>6. j \notin Activations /\ j \notin Upgrades
  <2>1. j \notin Activations
    <3> SUFFICES ASSUME j \in Activations PROVE FALSE
      OBVIOUS
    <3>1. pc \in ActivationFlow
      BY <1>1, Before
    <3> QED BY <1>2, <3>1, ActivateRows, RollbackRows, ForwardRows DEF ActivationFlow
  <2> QED BY <1>2, <2>1, Kinds, UpgradeRows, KindFacts
<1>7. tunnel' \in [run : 1..MaxTunnel, up : BOOLEAN]
  <2>1. tunnel \in [run : 1..MaxTunnel, up : BOOLEAN]
    BY <1>2 DEF TypeHost
  <2>2. CASE tunnel' = tunnel
    BY <2>1, <2>2
  <2>3. CASE tunnel' = [run |-> tunnel.run + 1, up |-> TRUE] /\ tunnel.run < MaxTunnel
    BY <2>1, <2>3, TargetsAreLater
  <2>4. CASE tunnel' = [tunnel EXCEPT !.up = FALSE]
    BY <2>1, <2>4
  <2> QED BY <2>2, <2>3, <2>4 DEF StartTunnel, StopTunnel
<1>8. UNCHANGED <<installed, db, gw, pid, snap, receipt, pend, tx, plan, cut, overlap, faults>>
  BY DEF StartTunnel, StopTunnel, books, ghosts
<1>9. TypeHost' /\ Calm /\ Booked(j)
  BY <1>2, <1>7, <1>8 DEF TypeHost, Calm, Booked, TypeBooks, TypeGhosts
<1> QED BY <1>1, <1>5, <1>6, <1>9, CallStep

LEMMA AcquireStep == ASSUME IInv, NEW j \in Jobs, AcquireController(j) PROVE IInv'
<1> DEFINE pc == job[j].pc
           f == job[j].found
           ok == Flow[pc].ok
           no == Flow[pc].no
           new == [job[j] EXCEPT !.pc = ok, !.found = IF j \in Activations THEN Found ELSE @]
<1>1. At(j, "acquire")
  BY DEF AcquireController
<1>2. /\ TypeHost /\ TypeProcesses /\ TypeBooks /\ TypeGhosts /\ Stands /\ Held /\ Own(j)
      /\ pc \in SitesOf(j) /\ pc \in DOMAIN Flow /\ Flow[pc].op = "acquire" /\ job[j] \in JobRecord
  BY <1>1, Before
<1>3. ok \in SitesOf(j) /\ no \in SitesOf(j)
  BY <1>2, GoesOn
<1>4. UNCHANGED <<installed, db, gw, pid, tunnel, snap, receipt, pend, tx, plan, cut, overlap, faults>>
  BY DEF AcquireController, host, books, ghosts
<1>5. TypeHost' /\ Calm /\ Booked(j)
  BY <1>2, <1>4 DEF TypeHost, Calm, Booked, TypeBooks, TypeGhosts
<1>6. ASSUME j \in Activations
      PROVE  /\ pc \in ActivationFlow /\ Keeps(pc, cut[j], f, snap[j], ~overlap)
             /\ Calls(pc, "a_lock", "a_check", "a_end")
  <2>1. pc \in ActivationFlow /\ Keeps(pc, cut[j], f, snap[j], ~overlap)
    BY <1>1, <1>6, Before
  <2> QED BY <1>2, <2>1, ActivateRows, RollbackRows, ForwardRows DEF ActivationFlow
<1>7. CASE lock # None
  <2>1. Go(j, no)
    BY <1>7 DEF AcquireController, No
  <2>2. Arrived(j, no)
    BY <1>2, <1>3, <2>1, Moves, Scope
  <2>3. TypeOK' /\ Stands' /\ Held' /\ \A k \in Jobs \ {j} : Stays(k)
    BY <1>2, <1>4, <1>5, <2>2 DEF TypeOK, TypeBooks, TypeGhosts, Arrived, Stays
  <2>4. Own(j)'
    <3>1. CASE j \in Activations
      <4>1. no = "a_end" /\ no \in EndSites
        BY <1>6, <3>1 DEF Calls, EndSites
      <4>2. Keeps(no, cut'[j], f, snap'[j], ~overlap')
        BY <1>4, <1>6, <3>1, <4>1, CutoverNames DEF Keeps, Calls, Untouched
      <4>3. Faces(no, job'[j].i, f, ~overlap', installed', db', gw', pid')
        BY <4>1 DEF Faces, Matching
      <4> QED BY <1>4, <1>6, <2>2, <3>1, <4>1, <4>2, <4>3, OwnActivation DEF Arrived
    <3>2. CASE j \notin Activations
      <4>1. j \in Upgrades => no \notin ProvenSites
        BY <1>2, NotProven
      <4> QED BY <1>2, <1>4, <2>2, <3>2, <4>1, OwnElse
    <3> QED BY <3>1, <3>2
  <2> QED BY <1>4, <1>5, <2>3, <2>4, Assemble
<1>8. CASE lock = None
  <2>1. /\ lock' = j /\ dlock' = dlock /\ ulock' = ulock
        /\ job' = [job EXCEPT ![j].pc = ok, ![j].found = IF j \in Activations THEN Found ELSE @]
    BY <1>8 DEF AcquireController
  <2>2. Found \in FoundRecord
    BY <1>2, ConstantFacts DEF Found, FoundRecord, TypeHost, ArtifactSet, GatewayRecord
  <2>3. new \in JobRecord /\ new.pc = ok /\ new.found = (IF j \in Activations THEN Found ELSE f)
        /\ new.before = job[j].before /\ new.i = job[j].i
    BY <1>2, <1>3, <2>2, SitesTyped DEF JobRecord
  <2>4. job' = [job EXCEPT ![j] = new]
    BY <2>1
  <2>5. job' \in [Jobs -> JobRecord] /\ job'[j] = new /\ \A k \in Jobs \ {j} : job'[k] = job[k]
    BY <1>2, <2>3, <2>4 DEF TypeProcesses
  <2>6. TypeProcesses' /\ Stands'
    BY <1>2, <1>3, <2>1, <2>3, <2>5 DEF TypeProcesses, Stands
  <2>7. Held'
    <3> SUFFICES ASSUME NEW k \in Jobs \ {j}, job'[k].pc \in ControllerSites PROVE FALSE
      BY <2>1 DEF Held
    <3> QED BY <1>2, <1>8, <2>5, NoneAssumption DEF Held
  <2>8. TypeOK' /\ \A k \in Jobs \ {j} : Stays(k)
    BY <1>2, <1>4, <1>5, <2>5, <2>6 DEF TypeOK, TypeBooks, TypeGhosts, Stays
  <2>9. Own(j)'
    <3>1. CASE j \in Activations
      <4>1. /\ ok = "a_check" /\ ok \in CutoverSites
            /\ job'[j].pc = ok /\ job'[j].found = Found
        BY <1>6, <2>3, <2>5, <3>1, CutoverNames DEF Calls
      <4>2. Found # None
        BY <2>2, NoneAssumption
      <4>3. Keeps(ok, cut'[j], Found, snap'[j], ~overlap')
        BY <1>4, <1>6, <3>1, <4>1, <4>2, CutoverNames DEF Keeps, Calls, Untouched
      <4>4. Faces(ok, job'[j].i, Found, ~overlap', installed', db', gw', pid')
        BY <1>4, <4>1 DEF Faces, Matching, Found
      <4>5. ok \notin {"idle", "d_run", "crashed", "ended"} /\ pc \notin {"idle", "d_run", "crashed"}
        BY <1>6, <3>1, <4>1 DEF Calls
      <4>6. j \in Debugs => DebugFits(receipt'[j], ok, pend'[j], cut'[j])
        BY <1>2, <1>4, <4>5 DEF Own, DebugFits
      <4>7. j \notin Recoveries /\ j \notin Upgrades
        BY <3>1, KindFacts
      <4> QED BY <4>1, <4>3, <4>4, <4>5, <4>6, <4>7 DEF Own
    <3>2. CASE j \notin Activations
      <4>1. j \notin Debugs /\ job'[j].pc = ok /\ job'[j].before = job[j].before
        BY <2>3, <2>5, <3>2, KindFacts
      <4>2. j \notin Recoveries
        BY <1>2, Kinds, RecoveryRows, KindFacts, <3>2
      <4>3. j \in Upgrades => Backed(ok, cut'[j], tx'[j])
        <5> SUFFICES ASSUME j \in Upgrades PROVE Backed(ok, cut'[j], tx'[j])
          OBVIOUS
        <5>1. pc \in UpgradeFlow /\ ok \in ReplacedSites
          BY <1>2, <3>2, Kinds, KindFacts, UpgradeRows
        <5>2. pc \in ReplacedSites
          BY <5>1 DEF UpgradeFlow, ReplacedSites
        <5>3. ok \notin ProvenSites /\ ok \notin {"idle", "u_lock", "u_backup"}
          BY <5>1, TableDomains DEF ReplacedSites, ProvenSites
        <5> QED BY <1>2, <1>4, <5>1, <5>2, <5>3 DEF Own, Backed
      <4> QED BY <3>2, <4>1, <4>2, <4>3 DEF Own
    <3> QED BY <3>1, <3>2
  <2> QED BY <1>4, <1>5, <2>6, <2>7, <2>8, <2>9, Assemble
<1> QED BY <1>7, <1>8


-----------------------------------------------------------------------------
(* The other steps.                                                        *)

\* What a step of process j leaves alone in the books of the others.
LeavesOthers(j) ==
    /\ TypeBooks' /\ TypeGhosts'
    /\ \A k \in Activations \ {j} : snap'[k] = snap[k]
    /\ \A k \in (Activations \cup Upgrades) \ {j} : cut'[k] = cut[k]
    /\ \A k \in (Debugs \cup Recoveries) \ {j} : receipt'[k] = receipt[k] /\ pend'[k] = pend[k]
    /\ \A k \in Upgrades \ {j} : tx'[k] = tx[k]
    /\ overlap' = overlap

LEMMA QuietStep ==
    ASSUME IInv, NEW j \in Jobs, TypeProcesses', Stands', Held',
           \A k \in Jobs \ {j} : job'[k] = job[k],
           UNCHANGED <<installed, db, gw, tunnel>>, pid' = pid \/ Looked,
           LeavesOthers(j), Own(j)'
    PROVE  IInv'
<1>1. TypeHost /\ TypeHost' /\ Calm
  BY DEF IInv, TypeOK, TypeHost, Looked, Tracked, Calm
<1>2. TypeOK'
  BY <1>1 DEF TypeOK, LeavesOthers
<1>3. \A k \in Jobs \ {j} : Stays(k)
  BY DEF Stays, LeavesOthers
<1> QED BY <1>1, <1>2, <1>3, Assemble DEF LeavesOthers

\* What is known before a step of process j.
LEMMA Known ==
    ASSUME IInv, NEW j \in Jobs
    PROVE  /\ TypeHost /\ TypeProcesses /\ TypeBooks /\ TypeGhosts /\ Stands /\ Held /\ Own(j)
           /\ job[j].pc \in SitesOf(j) /\ job[j] \in JobRecord
BY DEF IInv, TypeOK, Stands, TypeProcesses

\* Process j takes the record new, and controller.lock at most.
LEMMA Takes ==
    ASSUME TypeProcesses, Stands, Held, NEW j \in Jobs, NEW new \in JobRecord,
           job' = [job EXCEPT ![j] = new], new.pc \in SitesOf(j),
           {dlock', ulock'} \subseteq Jobs \cup {None},
           lock' = lock \/ (lock = None /\ lock' = j), new.pc \in ControllerSites => lock' = j
    PROVE  /\ TypeProcesses' /\ Stands' /\ Held' /\ job'[j] = new
           /\ \A k \in Jobs \ {j} : job'[k] = job[k]
<1>1. job' \in [Jobs -> JobRecord] /\ job'[j] = new /\ \A k \in Jobs \ {j} : job'[k] = job[k]
  BY DEF TypeProcesses
<1>2. TypeProcesses' /\ Stands'
  BY <1>1 DEF TypeProcesses, Stands
<1>3. Held'
  <2> SUFFICES ASSUME NEW k \in Jobs, job'[k].pc \in ControllerSites PROVE lock' = k
    BY DEF Held
  <2>1. CASE k = j
    BY <1>1, <2>1
  <2>2. CASE k # j
    <3>1. job[k].pc \in ControllerSites /\ lock = k
      BY <1>1, <2>2 DEF Held
    <3> QED BY <3>1, NoneAssumption
  <2> QED BY <2>1, <2>2
<1> QED BY <1>1, <1>2, <1>3

\* An activation away from the cutover.
LEMMA OwnAway ==
    ASSUME NEW j \in Activations, NEW s, job'[j].pc = s, s \notin CutoverSites,
           Keeps(s, cut'[j], job'[j].found, snap'[j], ~overlap'),
           j \in Debugs => DebugFits(receipt'[j], s, pend'[j], cut'[j]),
           j \notin Debugs /\ s = "idle" => cut'[j] = "none"
    PROVE  Own(j)'
<1>1. j \notin Recoveries /\ j \notin Upgrades
  BY KindFacts
<1>2. Faces(s, job'[j].i, job'[j].found, ~overlap', installed', db', gw', pid')
  BY CutoverNames DEF Faces, Matching
<1> QED BY <1>1, <1>2 DEF Own

LEMMA OwnRecovery ==
    ASSUME NEW j \in Recoveries, RecoveryFits(receipt'[j], job'[j].pc, job'[j].before)
    PROVE  Own(j)'
BY KindFacts DEF Own

LEMMA OwnUpgrade ==
    ASSUME NEW j \in Upgrades, Backed(job'[j].pc, cut'[j], tx'[j])
    PROVE  Own(j)'
BY KindFacts DEF Own

\* Sites no controller scope and no cutover has.
LEMMA Outside ==
    \A s \in {"idle", "ended", "crashed", "d_run", "p_prepare", "a_lock", "r_lock", "u_lock",
              "u_backup"} \cup EndSites :
      s \notin ControllerSites /\ s \notin CutoverSites
BY ControllerScope

LEMMA PrepareStep == ASSUME IInv, NEW j \in Jobs, PrepareActivationCutover(j) PROVE IInv'
<1> DEFINE b == [healthy |-> GatewayHealthy, tunnel |-> tunnel.run, running |-> Tracked,
                 ver |-> installed["gatewayd"]]
           new == [job[j] EXCEPT !.pc = "a_lock", !.before = b]
<1>1. /\ j \in Activations /\ job[j].pc = "p_prepare" /\ Looked
      /\ snap' = [snap EXCEPT ![j] = CreateRecoverySnapshot]
      /\ job' = [job EXCEPT ![j] = new]
      /\ UNCHANGED <<installed, db, gw, tunnel, lock, dlock, ulock, receipt, pend, tx, plan, cut,
                     overlap, faults>>
  BY DEF PrepareActivationCutover, locks, ghosts
<1>2. /\ TypeHost /\ TypeProcesses /\ TypeBooks /\ TypeGhosts /\ Stands /\ Held /\ Own(j)
      /\ job[j] \in JobRecord
  BY Known
<1>3. b \in BeforeRecord
  <2>1. Tracked \in BOOLEAN /\ GatewayHealthy \in BOOLEAN
    BY <1>2 DEF TypeHost, Tracked, GatewayHealthy, GatewayRecord
  <2>2. tunnel.run \in 1..MaxTunnel /\ installed["gatewayd"] \in Builds
    BY <1>2, ConstantFacts DEF TypeHost, ArtifactSet
  <2> QED BY <2>1, <2>2 DEF BeforeRecord
<1>4. /\ new \in JobRecord /\ new.pc = "a_lock" /\ new.found = job[j].found
      /\ "a_lock" \in SitesOf(j) /\ "a_lock" \notin ControllerSites /\ "a_lock" \notin CutoverSites
  <2>1. "a_lock" \in SitesOf(j)
    BY <1>1 DEF SitesOf
  <2> QED BY <1>2, <1>3, <2>1, SitesTyped, Outside DEF JobRecord
<1>5. /\ TypeProcesses' /\ Stands' /\ Held' /\ job'[j] = new
      /\ \A k \in Jobs \ {j} : job'[k] = job[k]
  <2> HIDE DEF new
  <2> QED BY <1>1, <1>2, <1>4, Takes DEF TypeProcesses
<1>6. CreateRecoverySnapshot \in SnapRecord /\ CreateRecoverySnapshot # None
  BY <1>2, NoneAssumption DEF CreateRecoverySnapshot, SnapRecord, TypeHost
<1>7. LeavesOthers(j) /\ snap'[j] # None
  BY <1>1, <1>2, <1>6 DEF LeavesOthers, TypeBooks, TypeGhosts
<1>8. cut'[j] = "none"
  BY <1>1, <1>2 DEF Own, Keeps, Untouched
<1>9. Keeps("a_lock", cut'[j], job'[j].found, snap'[j], ~overlap')
  BY <1>7, <1>8, CutoverNames DEF Keeps
<1>10. j \in Debugs => DebugFits(receipt'[j], "a_lock", pend'[j], cut'[j])
  BY <1>1, <1>2 DEF Own, DebugFits
<1>11. Own(j)'
  BY <1>1, <1>4, <1>5, <1>9, <1>10, OwnAway
<1> QED BY <1>1, <1>5, <1>7, <1>11, QuietStep

\* What a worker leaves in its receipt when it is over.
LEMMA Settled ==
    ASSUME TypeBooks, NEW j \in Activations, NEW o \in {"succeeded", "failed"}, NEW r \in BOOLEAN,
           Settle(j, o, r)
    PROVE  /\ receipt' \in [Debugs \cup Recoveries -> ReceiptRecord]
           /\ \A k \in (Debugs \cup Recoveries) \ {j} : receipt'[k] = receipt[k]
           /\ j \in Debugs =>
                \/ receipt'[j] = receipt[j]
                \/ receipt'[j].outcome = o /\ receipt'[j].retryable = r
<1>1. CASE receipt' = receipt
  BY <1>1 DEF TypeBooks
<1>2. CASE j \in Debugs /\ receipt' = [receipt EXCEPT ![j].outcome = o, ![j].retryable = r]
  <2>1. receipt[j] \in ReceiptRecord
    BY <1>2 DEF TypeBooks
  <2>2. [receipt[j] EXCEPT !.outcome = o, !.retryable = r] \in ReceiptRecord
    BY <2>1 DEF ReceiptRecord, Outcomes
  <2>3. receipt' = [receipt EXCEPT ![j] = [receipt[j] EXCEPT !.outcome = o, !.retryable = r]]
    BY <1>2 DEF TypeBooks
  <2> QED BY <1>2, <2>1, <2>2, <2>3 DEF TypeBooks, ReceiptRecord
<1> QED BY <1>1, <1>2 DEF Settle

LEMMA PreflightStep == ASSUME IInv, NEW j \in Jobs, PreflightFails(j) PROVE IInv'
<1> DEFINE s == IF j \in Debugs THEN "idle" ELSE "ended"
<1>1. /\ j \in Activations /\ job[j].pc = "p_prepare" /\ Looked
      /\ Settle(j, "failed", TRUE) /\ Go(j, s)
      /\ UNCHANGED <<installed, db, gw, tunnel, snap, pend, tx, plan, cut, overlap, faults>>
  BY DEF PreflightFails, ghosts
<1>2. TypeHost /\ TypeProcesses /\ TypeBooks /\ TypeGhosts /\ Stands /\ Held /\ Own(j)
  BY Known
<1>3. s \in SitesOf(j) /\ s \notin ControllerSites /\ s \notin CutoverSites /\ s \in {"idle", "ended"}
  BY <1>1, Outside DEF SitesOf
<1>4. Arrived(j, s)
  BY <1>1, <1>2, <1>3, Moves
<1>5. /\ receipt' \in [Debugs \cup Recoveries -> ReceiptRecord]
      /\ \A k \in (Debugs \cup Recoveries) \ {j} : receipt'[k] = receipt[k]
      /\ j \in Debugs =>
           \/ receipt'[j] = receipt[j]
           \/ receipt'[j].outcome = "failed" /\ receipt'[j].retryable = TRUE
  BY <1>1, <1>2, Settled
<1>6. LeavesOthers(j)
  BY <1>1, <1>2, <1>5 DEF LeavesOthers, TypeBooks, TypeGhosts
<1>7. cut'[j] = "none"
  BY <1>1, <1>2 DEF Own, Keeps, Untouched
<1>8. Keeps(s, cut'[j], job'[j].found, snap'[j], ~overlap')
  BY <1>3, <1>7, CutoverNames DEF Keeps, Untouched
<1>9. j \in Debugs => DebugFits(receipt'[j], s, pend'[j], cut'[j])
  <2> SUFFICES ASSUME j \in Debugs PROVE DebugFits(receipt'[j], s, pend'[j], cut'[j])
    OBVIOUS
  <2>1. /\ s = "idle" /\ receipt[j].outcome = "in_progress" /\ ~(pend[j] > 0)
        /\ DebugFits(receipt[j], job[j].pc, pend[j], cut[j])
    BY <1>1, <1>2 DEF Own, DebugFits
  <2> QED BY <1>1, <1>5, <1>7, <2>1, NoneAssumption DEF DebugFits
<1>10. Own(j)'
  BY <1>1, <1>3, <1>4, <1>7, <1>8, <1>9, OwnAway DEF Arrived
<1> QED BY <1>1, <1>4, <1>6, <1>10, QuietStep DEF Arrived

LEMMA EndStep == ASSUME IInv, NEW j \in Jobs, EndActivation(j) PROVE IInv'
<1> DEFINE e == job[j].pc
           s == IF j \in Debugs THEN "idle" ELSE "ended"
<1>1. PICK o \in {"succeeded", "failed"} :
        /\ Settle(j, o, FALSE)
        /\ snap' = snap \/ (~Retained(e) /\ snap' = [snap EXCEPT ![j] = None])
  BY DEF EndActivation
<1>2. /\ j \in Activations /\ e \in EndSites /\ Go(j, s)
      /\ UNCHANGED <<installed, db, gw, tunnel, pid, pend, tx, plan, cut, overlap, faults>>
  BY DEF EndActivation, host, ghosts
<1>3. TypeHost /\ TypeProcesses /\ TypeBooks /\ TypeGhosts /\ Stands /\ Held /\ Own(j)
  BY Known
<1>4. s \in SitesOf(j) /\ s \notin ControllerSites /\ s \notin CutoverSites /\ s \in {"idle", "ended"}
  BY <1>2, Outside DEF SitesOf
<1>5. Arrived(j, s)
  BY <1>2, <1>3, <1>4, Moves
<1>6. /\ receipt' \in [Debugs \cup Recoveries -> ReceiptRecord]
      /\ \A k \in (Debugs \cup Recoveries) \ {j} : receipt'[k] = receipt[k]
      /\ j \in Debugs =>
           \/ receipt'[j] = receipt[j]
           \/ receipt'[j].outcome = o /\ receipt'[j].retryable = FALSE
  BY <1>1, <1>2, <1>3, Settled
<1>7. /\ snap' \in [Activations -> {None} \cup SnapRecord]
      /\ \A k \in Activations \ {j} : snap'[k] = snap[k]
      /\ snap'[j] = snap[j] \/ ~Retained(e)
  BY <1>1, <1>3 DEF TypeBooks
<1>8. LeavesOthers(j)
  BY <1>2, <1>3, <1>6, <1>7 DEF LeavesOthers, TypeBooks, TypeGhosts
<1>9. Keeps(e, cut[j], job[j].found, snap[j], ~overlap)
  BY <1>2, <1>3 DEF Own
<1>10. ~Retained(e) => cut[j] \in {"none", "settled"}
  BY <1>2, <1>9 DEF Retained, EndSites, Keeps, Untouched
<1>11. Keeps(s, cut'[j], job'[j].found, snap'[j], ~overlap')
  BY <1>2, <1>4, <1>5, <1>7, <1>9, <1>10, CutoverNames DEF Keeps, Untouched, Arrived
<1>12. j \in Debugs => DebugFits(receipt'[j], s, pend'[j], cut'[j])
  <2> SUFFICES ASSUME j \in Debugs PROVE DebugFits(receipt'[j], s, pend'[j], cut'[j])
    OBVIOUS
  <2>1. /\ s = "idle" /\ receipt[j].outcome = "in_progress" /\ ~(pend[j] > 0)
        /\ ~receipt[j].retryable
    BY <1>2, <1>3 DEF Own, DebugFits, EndSites
  <2> QED BY <1>2, <1>6, <2>1, NoneAssumption DEF DebugFits
<1>13. j \notin Debugs => s # "idle"
  OBVIOUS
<1>14. Own(j)'
  BY <1>2, <1>4, <1>5, <1>11, <1>12, <1>13, OwnAway DEF Arrived
<1> QED BY <1>2, <1>5, <1>8, <1>14, QuietStep DEF Arrived

\* An activation that goes on at a site before its cutover, or comes to rest.
LEMMA EarlyStep ==
    ASSUME IInv, NEW j \in Activations, NEW s \in {"idle", "d_run", "p_prepare"}, Go(j, s),
           cut[j] = "none", LeavesOthers(j), cut' = cut, snap' = snap,
           UNCHANGED <<installed, db, gw, tunnel, pid>>,
           j \in Debugs => DebugFits(receipt'[j], s, pend'[j], "none"),
           s = "d_run" => j \in Debugs
    PROVE  IInv'
<1>1. /\ TypeHost /\ TypeProcesses /\ Stands /\ Held /\ Own(j) /\ j \in Jobs
  BY Known, KindFacts
<1>2. s \in SitesOf(j) /\ s \notin ControllerSites /\ s \notin CutoverSites
  BY Outside DEF SitesOf
<1>3. Arrived(j, s)
  BY <1>1, <1>2, Moves
<1>4. Keeps(s, cut'[j], job'[j].found, snap'[j], ~overlap')
  BY <1>2, CutoverNames DEF Keeps, Untouched
<1>5. Own(j)'
  BY <1>2, <1>3, <1>4, OwnAway DEF Arrived
<1> QED BY <1>1, <1>3, <1>5, QuietStep DEF Arrived

LEMMA RequestStep ==
    ASSUME IInv, NEW j \in Jobs, SelfActivate(j) \/ InstallAndRestartGateway(j)
    PROVE  IInv'
<1>1. /\ j \in Activations /\ job[j].pc = "idle" /\ Go(j, "p_prepare")
      /\ UNCHANGED <<installed, db, gw, pid, tunnel, snap, receipt, pend, tx, plan, cut, overlap, faults>>
  BY DEF SelfActivate, InstallAndRestartGateway, Activations, host, books, ghosts
<1>2. j \notin Debugs
  BY JobsAreDistinct DEF SelfActivate, InstallAndRestartGateway
<1>3. TypeBooks /\ TypeGhosts /\ Own(j)
  BY Known
<1>4. LeavesOthers(j)
  BY <1>1, <1>3 DEF LeavesOthers, TypeBooks, TypeGhosts
<1>5. cut[j] = "none"
  BY <1>1, <1>2, <1>3 DEF Own
<1> QED BY <1>1, <1>2, <1>4, <1>5, EarlyStep

LEMMA AcceptStep == ASSUME IInv, NEW j \in Jobs, j \in Debugs, AcceptActivation(j) PROVE IInv'
<1> DEFINE new == [outcome |-> "accepted", retryable |-> FALSE, attempt |-> receipt[j].attempt + 1]
<1>1. /\ receipt[j].outcome = None \/ MayRetry(receipt[j])
      /\ receipt' = [receipt EXCEPT ![j] = new]
      /\ pend' = [pend EXCEPT ![j] = 1] /\ Looked
      /\ UNCHANGED <<installed, db, gw, tunnel, lock, dlock, ulock, job, snap, tx, plan, cut, overlap,
                     faults>>
  BY DEF AcceptActivation, locks, ghosts
<1>2. /\ TypeHost /\ TypeProcesses /\ TypeBooks /\ TypeGhosts /\ Stands /\ Held /\ Own(j)
      /\ j \in Activations /\ receipt[j] \in ReceiptRecord
  BY Known, KindFacts DEF TypeBooks
<1>3. /\ job[j].pc = "idle" /\ cut[j] = "none"
      /\ receipt[j].outcome = None => receipt[j].attempt = 0
  BY <1>1, <1>2 DEF Own, DebugFits, MayRetry
<1>4. receipt[j].attempt < MaxAttempts
  BY <1>1, <1>3, TargetsAreLater DEF MayRetry
<1>5. receipt[j].attempt + 1 \in 0..MaxAttempts
  BY <1>2, <1>4, TargetsAreLater DEF ReceiptRecord
<1>6. new \in ReceiptRecord
  BY <1>5 DEF ReceiptRecord, Outcomes
<1>7. /\ receipt' \in [Debugs \cup Recoveries -> ReceiptRecord] /\ receipt'[j] = new
      /\ \A k \in (Debugs \cup Recoveries) \ {j} : receipt'[k] = receipt[k] /\ pend'[k] = pend[k]
      /\ pend' \in [Debugs \cup Recoveries -> 0..1]
  <2> HIDE DEF new
  <2> QED BY <1>1, <1>2, <1>6 DEF TypeBooks
<1>8. LeavesOthers(j)
  BY <1>1, <1>2, <1>7 DEF LeavesOthers, TypeBooks, TypeGhosts
<1>9. TypeProcesses' /\ Stands' /\ Held'
  BY <1>1, <1>2 DEF TypeProcesses, Stands, Held
<1>10. Keeps("idle", cut'[j], job'[j].found, snap'[j], ~overlap')
  BY <1>1, <1>3, CutoverNames DEF Keeps, Untouched
<1>11. DebugFits(receipt'[j], "idle", pend'[j], cut'[j])
  BY <1>1, <1>3, <1>7, NoneAssumption DEF DebugFits
<1>12. Own(j)'
  BY <1>1, <1>2, <1>3, <1>10, <1>11, Outside, OwnAway
<1> QED BY <1>1, <1>8, <1>9, <1>12, QuietStep

\* One worker fewer is scheduled.
LEMMA Fewer ==
    ASSUME TypeBooks, NEW j \in Debugs \cup Recoveries, pend[j] > 0, pend' = [pend EXCEPT ![j] = @ - 1]
    PROVE  /\ pend' \in [Debugs \cup Recoveries -> 0..1] /\ pend'[j] = 0
           /\ \A k \in (Debugs \cup Recoveries) \ {j} : pend'[k] = pend[k]
<1>1. pend[j] = 1
  BY DEF TypeBooks
<1> QED BY <1>1 DEF TypeBooks

LEMMA ScheduleStep == ASSUME IInv, NEW j \in Debugs, ScheduleWorker(j) PROVE IInv'
<1>1. /\ pend[j] > 0 /\ job[j].pc = "idle" /\ Go(j, "d_run")
      /\ pend' = [pend EXCEPT ![j] = @ - 1]
      /\ UNCHANGED <<installed, db, gw, pid, tunnel, snap, receipt, tx, plan, cut, overlap, faults>>
  BY DEF ScheduleWorker, host, ghosts
<1>2. TypeBooks /\ TypeGhosts /\ Own(j) /\ j \in Activations
  BY Known, KindFacts
<1>3. /\ pend' \in [Debugs \cup Recoveries -> 0..1] /\ pend'[j] = 0
      /\ \A k \in (Debugs \cup Recoveries) \ {j} : pend'[k] = pend[k]
  BY <1>1, <1>2, Fewer
<1>4. LeavesOthers(j)
  BY <1>1, <1>2, <1>3 DEF LeavesOthers, TypeBooks, TypeGhosts
<1>5. /\ cut[j] = "none" /\ receipt[j].outcome = "accepted" /\ ~receipt[j].retryable
      /\ receipt[j].outcome = None => receipt[j].attempt = 0
  BY <1>1, <1>2 DEF Own, DebugFits
<1>6. DebugFits(receipt'[j], "d_run", pend'[j], "none")
  BY <1>1, <1>3, <1>5, NoneAssumption DEF DebugFits
<1> QED BY <1>1, <1>2, <1>4, <1>5, <1>6, EarlyStep

LEMMA LaunchFailureStep == ASSUME IInv, NEW j \in Debugs, RecordLaunchFailure(j) PROVE IInv'
<1> DEFINE new == [receipt[j] EXCEPT !.outcome = "failed", !.retryable = TRUE]
<1>1. /\ pend[j] > 0
      /\ pend' = [pend EXCEPT ![j] = @ - 1]
      /\ receipt' = receipt \/ receipt' = [receipt EXCEPT ![j] = new]
      /\ UNCHANGED <<installed, db, gw, pid, tunnel, lock, dlock, ulock, job, snap, tx, plan, cut,
                     overlap, faults>>
  BY DEF RecordLaunchFailure, host, locks, ghosts
<1>2. /\ TypeHost /\ TypeProcesses /\ TypeBooks /\ TypeGhosts /\ Stands /\ Held /\ Own(j)
      /\ j \in Activations /\ j \in Jobs /\ receipt[j] \in ReceiptRecord
  BY Known, KindFacts DEF TypeBooks
<1>3. /\ pend' \in [Debugs \cup Recoveries -> 0..1] /\ pend'[j] = 0
      /\ \A k \in (Debugs \cup Recoveries) \ {j} : pend'[k] = pend[k]
  BY <1>1, <1>2, Fewer
<1>4. new \in ReceiptRecord /\ new.outcome = "failed"
  BY <1>2 DEF ReceiptRecord, Outcomes
<1>5. /\ receipt' \in [Debugs \cup Recoveries -> ReceiptRecord]
      /\ \A k \in (Debugs \cup Recoveries) \ {j} : receipt'[k] = receipt[k]
      /\ receipt'[j] = receipt[j] \/ receipt'[j].outcome = "failed"
  <2> HIDE DEF new
  <2> QED BY <1>1, <1>2, <1>4 DEF TypeBooks
<1>6. LeavesOthers(j)
  BY <1>1, <1>2, <1>3, <1>5 DEF LeavesOthers, TypeBooks, TypeGhosts
<1>7. /\ job[j].pc = "idle" /\ cut[j] = "none"
      /\ receipt[j].outcome = None => receipt[j].attempt = 0
  BY <1>1, <1>2 DEF Own, DebugFits
<1>8. TypeProcesses' /\ Stands' /\ Held'
  BY <1>1, <1>2 DEF TypeProcesses, Stands, Held
<1>9. Keeps("idle", cut'[j], job'[j].found, snap'[j], ~overlap')
  BY <1>1, <1>7, CutoverNames DEF Keeps, Untouched
<1>10. DebugFits(receipt'[j], "idle", pend'[j], cut'[j])
  BY <1>1, <1>3, <1>5, <1>7, NoneAssumption DEF DebugFits
<1>11. Own(j)'
  BY <1>1, <1>2, <1>7, <1>9, <1>10, Outside, OwnAway
<1> QED BY <1>1, <1>2, <1>6, <1>8, <1>11, QuietStep

LEMMA RunStep == ASSUME IInv, NEW j \in Debugs, RunActivation(j) PROVE IInv'
<1> DEFINE new == [receipt[j] EXCEPT !.outcome = "in_progress"]
           took == [job[j] EXCEPT !.pc = "p_prepare"]
<1>1. /\ job[j].pc = "d_run"
      /\ UNCHANGED <<installed, db, gw, pid, tunnel, snap, pend, tx, plan, cut, overlap, faults>>
      /\ \/ /\ receipt' = [receipt EXCEPT ![j] = new] /\ job' = [job EXCEPT ![j] = took]
            /\ dlock' = j /\ UNCHANGED <<lock, ulock>>
         \/ Go(j, "idle") /\ receipt' = receipt
  BY DEF RunActivation, host, ghosts
<1>2. /\ TypeHost /\ TypeProcesses /\ TypeBooks /\ TypeGhosts /\ Stands /\ Held /\ Own(j)
      /\ j \in Activations /\ j \in Jobs /\ receipt[j] \in ReceiptRecord /\ job[j] \in JobRecord
  BY Known, KindFacts DEF TypeBooks
<1>3. /\ cut[j] = "none" /\ receipt[j].outcome = "accepted" /\ ~receipt[j].retryable
      /\ ~(pend[j] > 0)
  BY <1>1, <1>2 DEF Own, DebugFits, Keeps, Untouched
<1>4. CASE Go(j, "idle") /\ receipt' = receipt
  <2>1. LeavesOthers(j)
    BY <1>1, <1>2, <1>4 DEF LeavesOthers, TypeBooks, TypeGhosts
  <2>2. DebugFits(receipt'[j], "idle", pend'[j], "none")
    BY <1>1, <1>3, <1>4, NoneAssumption DEF DebugFits
  <2> QED BY <1>1, <1>2, <1>3, <1>4, <2>1, <2>2, EarlyStep
<1>5. CASE /\ receipt' = [receipt EXCEPT ![j] = new] /\ job' = [job EXCEPT ![j] = took]
           /\ dlock' = j /\ UNCHANGED <<lock, ulock>>
  <2>1. new \in ReceiptRecord /\ new.outcome = "in_progress" /\ ~new.retryable
    BY <1>2, <1>3 DEF ReceiptRecord, Outcomes
  <2>2. /\ receipt' \in [Debugs \cup Recoveries -> ReceiptRecord] /\ receipt'[j] = new
        /\ \A k \in (Debugs \cup Recoveries) \ {j} : receipt'[k] = receipt[k]
    <3> HIDE DEF new
    <3> QED BY <1>2, <1>5, <2>1 DEF TypeBooks
  <2>3. LeavesOthers(j)
    BY <1>1, <1>2, <2>2 DEF LeavesOthers, TypeBooks, TypeGhosts
  <2>4. /\ took \in JobRecord /\ took.pc = "p_prepare" /\ "p_prepare" \in SitesOf(j)
        /\ "p_prepare" \notin ControllerSites /\ "p_prepare" \notin CutoverSites
    <3>1. "p_prepare" \in SitesOf(j)
      BY <1>2 DEF SitesOf
    <3> QED BY <1>2, <3>1, SitesTyped, Outside DEF JobRecord
  <2>5. /\ TypeProcesses' /\ Stands' /\ Held' /\ job'[j] = took
        /\ \A k \in Jobs \ {j} : job'[k] = job[k]
    <3> HIDE DEF took
    <3> QED BY <1>2, <1>5, <2>4, Takes DEF TypeProcesses
  <2>6. Keeps("p_prepare", cut'[j], job'[j].found, snap'[j], ~overlap')
    BY <1>1, <1>3, CutoverNames DEF Keeps, Untouched
  <2>7. DebugFits(receipt'[j], "p_prepare", pend'[j], cut'[j])
    BY <1>1, <1>3, <2>1, <2>2, NoneAssumption DEF DebugFits
  <2>8. Own(j)'
    BY <1>2, <2>4, <2>5, <2>6, <2>7, OwnAway
  <2> QED BY <1>1, <1>2, <2>3, <2>5, <2>8, QuietStep
<1> QED BY <1>1, <1>4, <1>5

-----------------------------------------------------------------------------
(* Recoveries.                                                             *)

\* A recovery's step that leaves the host and the books of the others alone.
LEMMA RecoveryStep ==
    ASSUME IInv, NEW j \in Recoveries, TypeProcesses', Stands', Held',
           \A k \in Jobs \ {j} : job'[k] = job[k],
           receipt' \in [Debugs \cup Recoveries -> ReceiptRecord],
           \A k \in (Debugs \cup Recoveries) \ {j} : receipt'[k] = receipt[k] /\ pend'[k] = pend[k],
           pend' \in [Debugs \cup Recoveries -> 0..1],
           UNCHANGED <<installed, db, gw, tunnel, snap, tx, plan, cut, overlap, faults>>,
           pid' = pid \/ Looked,
           RecoveryFits(receipt'[j], job'[j].pc, job'[j].before)
    PROVE  IInv'
<1>1. TypeBooks /\ TypeGhosts /\ j \in Jobs
  BY Known, KindFacts
<1>2. LeavesOthers(j)
  BY <1>1 DEF LeavesOthers, TypeBooks, TypeGhosts
<1> QED BY <1>1, <1>2, OwnRecovery, QuietStep

LEMMA AcceptRecoveryStep == ASSUME IInv, NEW j \in Recoveries, AcceptGatewayRecovery(j) PROVE IInv'
<1> DEFINE new == [receipt[j] EXCEPT !.outcome = "accepted"]
<1>1. /\ \/ receipt[j].outcome = None /\ receipt' = [receipt EXCEPT ![j] = new]
         \/ receipt' = receipt
      /\ pend' = [pend EXCEPT ![j] = 1] /\ Looked
      /\ UNCHANGED <<installed, db, gw, tunnel, lock, dlock, ulock, job, snap, tx, plan, cut, overlap,
                     faults>>
  BY DEF AcceptGatewayRecovery, locks, ghosts
<1>2. /\ TypeProcesses /\ TypeBooks /\ Stands /\ Held /\ Own(j) /\ receipt[j] \in ReceiptRecord
  BY Known, KindFacts DEF TypeBooks
<1>3. TypeProcesses' /\ Stands' /\ Held'
  BY <1>1, <1>2 DEF TypeProcesses, Stands, Held
<1>4. new \in ReceiptRecord
  BY <1>2 DEF ReceiptRecord, Outcomes
<1>5. /\ receipt' \in [Debugs \cup Recoveries -> ReceiptRecord]
      /\ \A k \in (Debugs \cup Recoveries) \ {j} : receipt'[k] = receipt[k]
      /\ receipt'[j] = receipt[j] \/ receipt[j].outcome = None
  BY <1>1, <1>2, <1>4 DEF TypeBooks
<1>6. /\ pend' \in [Debugs \cup Recoveries -> 0..1]
      /\ \A k \in (Debugs \cup Recoveries) \ {j} : pend'[k] = pend[k]
  BY <1>1, <1>2 DEF TypeBooks
<1>7. RecoveryFits(receipt'[j], job'[j].pc, job'[j].before)
  BY <1>1, <1>2, <1>5, NoneAssumption DEF Own, RecoveryFits
<1> QED BY <1>1, <1>3, <1>5, <1>6, <1>7, RecoveryStep

LEMMA LaunchStep == ASSUME IInv, NEW j \in Recoveries, LaunchGatewayRecoveryWorker(j) PROVE IInv'
<1>1. /\ pend[j] > 0 /\ pend' = [pend EXCEPT ![j] = @ - 1] /\ receipt' = receipt
      /\ (job[j].pc = "idle" /\ Go(j, "r_lock")) \/ UNCHANGED <<job, lock, dlock, ulock>>
      /\ UNCHANGED <<installed, db, gw, pid, tunnel, snap, tx, plan, cut, overlap, faults>>
  BY DEF LaunchGatewayRecoveryWorker, host, locks, ghosts
<1>2. TypeProcesses /\ TypeBooks /\ Stands /\ Held /\ Own(j) /\ j \in Jobs
  BY Known, KindFacts
<1>3. /\ pend' \in [Debugs \cup Recoveries -> 0..1]
      /\ \A k \in (Debugs \cup Recoveries) \ {j} : pend'[k] = pend[k]
  BY <1>1, <1>2, Fewer
<1>4. /\ TypeProcesses' /\ Stands' /\ Held' /\ \A k \in Jobs \ {j} : job'[k] = job[k]
      /\ job'[j].pc = "r_lock" \/ job'[j] = job[j]
  <2>1. CASE Go(j, "r_lock")
    <3>1. "r_lock" \in SitesOf(j) /\ "r_lock" \notin ControllerSites
      BY Outside, KindFacts DEF SitesOf
    <3> QED BY <1>2, <2>1, <3>1, Moves DEF Arrived
  <2>2. CASE UNCHANGED <<job, lock, dlock, ulock>>
    BY <1>2, <2>2 DEF TypeProcesses, Stands, Held
  <2> QED BY <1>1, <2>1, <2>2
<1>5. "r_lock" \notin RecoverySites
  BY TableDomains DEF RecoverySites
<1>6. RecoveryFits(receipt'[j], job'[j].pc, job'[j].before)
  BY <1>1, <1>2, <1>4, <1>5 DEF Own, RecoveryFits
<1> QED BY <1>1, <1>2, <1>3, <1>4, <1>6, RecoveryStep DEF TypeBooks

LEMMA RecoveryFailureStep ==
    ASSUME IInv, NEW j \in Recoveries, RecordGatewayRecoveryLaunchFailure(j)
    PROVE  IInv'
<1> DEFINE new == [receipt[j] EXCEPT !.outcome = "failed"]
<1>1. /\ pend[j] > 0 /\ pend' = [pend EXCEPT ![j] = @ - 1]
      /\ \/ lock = None /\ receipt' = [receipt EXCEPT ![j] = new]
         \/ receipt' = receipt
      /\ UNCHANGED <<installed, db, gw, pid, tunnel, lock, dlock, ulock, job, snap, tx, plan, cut,
                     overlap, faults>>
  BY DEF RecordGatewayRecoveryLaunchFailure, host, locks, ghosts
<1>2. /\ TypeProcesses /\ TypeBooks /\ Stands /\ Held /\ Own(j) /\ receipt[j] \in ReceiptRecord
      /\ j \in Jobs
  BY Known, KindFacts DEF TypeBooks
<1>3. TypeProcesses' /\ Stands' /\ Held'
  BY <1>1, <1>2 DEF TypeProcesses, Stands, Held
<1>4. new \in ReceiptRecord
  BY <1>2 DEF ReceiptRecord, Outcomes
<1>5. /\ receipt' \in [Debugs \cup Recoveries -> ReceiptRecord]
      /\ \A k \in (Debugs \cup Recoveries) \ {j} : receipt'[k] = receipt[k]
      /\ receipt'[j] = receipt[j] \/ lock = None
  BY <1>1, <1>2, <1>4 DEF TypeBooks
<1>6. /\ pend' \in [Debugs \cup Recoveries -> 0..1]
      /\ \A k \in (Debugs \cup Recoveries) \ {j} : pend'[k] = pend[k]
  BY <1>1, <1>2, Fewer
<1>7. lock = None => job[j].pc \notin RecoverySites
  BY <1>2, ControllerScope, NoneAssumption DEF Held
<1>8. RecoveryFits(receipt'[j], job'[j].pc, job'[j].before)
  BY <1>1, <1>2, <1>5, <1>7 DEF Own, RecoveryFits
<1> QED BY <1>1, <1>3, <1>5, <1>6, <1>8, RecoveryStep

\* A recovery that gives up or is done.
LEMMA RecoveryRests ==
    ASSUME IInv, NEW j \in Recoveries, Go(j, "idle"),
           receipt' \in [Debugs \cup Recoveries -> ReceiptRecord],
           \A k \in (Debugs \cup Recoveries) \ {j} : receipt'[k] = receipt[k],
           UNCHANGED <<installed, db, gw, tunnel, snap, pend, tx, plan, cut, overlap, faults>>,
           pid' = pid \/ Looked
    PROVE  IInv'
<1>1. TypeProcesses /\ TypeBooks /\ Stands /\ Held /\ j \in Jobs
  BY Known, KindFacts
<1>2. "idle" \in SitesOf(j) /\ "idle" \notin ControllerSites /\ "idle" \notin RecoverySites
  BY Outside, TableDomains DEF SitesOf, RecoverySites
<1>3. Arrived(j, "idle")
  BY <1>1, <1>2, Moves
<1>4. RecoveryFits(receipt'[j], job'[j].pc, job'[j].before)
  BY <1>2, <1>3 DEF RecoveryFits, Arrived
<1> QED BY <1>1, <1>3, <1>4, RecoveryStep DEF TypeBooks, Arrived

LEMMA BeginStep == ASSUME IInv, NEW j \in Jobs, BeginRecovery(j) PROVE IInv'
<1> DEFINE b == [healthy |-> FALSE, tunnel |-> tunnel.run, running |-> Tracked,
                 ver |-> IF Tracked THEN gw.ver ELSE installed["gatewayd"]]
           new == [receipt[j] EXCEPT !.outcome = "in_progress"]
           took(s) == [job[j] EXCEPT !.pc = s, !.before = b]
<1>1. /\ j \in Recoveries /\ job[j].pc = "r_lock"
      /\ UNCHANGED <<installed, db, gw, tunnel, snap, pend, tx, plan, cut, overlap, faults>>
  BY DEF BeginRecovery, ghosts
<1>2. /\ TypeHost /\ TypeProcesses /\ TypeBooks /\ TypeGhosts /\ Stands /\ Held /\ Own(j)
      /\ receipt[j] \in ReceiptRecord /\ job[j] \in JobRecord
  BY <1>1, Known DEF TypeBooks
<1>3. CASE Go(j, "idle") /\ UNCHANGED <<receipt, pid>>
  BY <1>1, <1>2, <1>3, RecoveryRests DEF TypeBooks
<1>4. ASSUME NEW s \in {"r_stop", "r_failed"}, lock = None, lock' = j, Looked, UNCHANGED <<dlock, ulock>>,
             receipt' = [receipt EXCEPT ![j] = new], job' = [job EXCEPT ![j] = took(s)]
      PROVE  IInv'
  <2>1. b \in BeforeRecord
    <3>1. Tracked \in BOOLEAN /\ (Tracked => gw.ver \in Builds)
      BY <1>2 DEF TypeHost, Tracked, GatewayRecord
    <3>2. tunnel.run \in 1..MaxTunnel /\ installed["gatewayd"] \in Builds
      BY <1>2, ConstantFacts DEF TypeHost, ArtifactSet
    <3> QED BY <3>1, <3>2 DEF BeforeRecord
  <2>2. s \in SitesOf(j)
    BY <1>1, <1>4, TableDomains, KindFacts DEF SitesOf, RecoverySites
  <2>3. took(s) \in JobRecord /\ took(s).pc = s /\ took(s).before = b
    <3> HIDE DEF b
    <3> QED BY <1>1, <1>2, <2>1, <2>2, SitesTyped DEF JobRecord
  <2>4. /\ TypeProcesses' /\ Stands' /\ Held' /\ job'[j] = took(s)
        /\ \A k \in Jobs \ {j} : job'[k] = job[k]
    <3> DEFINE t == took(s)
    <3>1. t \in JobRecord /\ t.pc = s /\ job' = [job EXCEPT ![j] = t]
      BY <1>4, <2>3
    <3>2. /\ {dlock', ulock'} \subseteq Jobs \cup {None} /\ j \in Jobs
          /\ TypeProcesses /\ Stands /\ Held
          /\ lock = None /\ lock' = j
      BY <1>1, <1>2, <1>4, KindFacts DEF TypeProcesses
    <3> HIDE DEF t
    <3>3. /\ TypeProcesses' /\ Stands' /\ Held' /\ job'[j] = t
          /\ \A k \in Jobs \ {j} : job'[k] = job[k]
      BY <2>2, <3>1, <3>2, Takes
    <3> QED BY <3>3 DEF t
  <2>5. new \in ReceiptRecord /\ new.outcome = "in_progress"
    BY <1>2 DEF ReceiptRecord, Outcomes
  <2>6. /\ receipt' \in [Debugs \cup Recoveries -> ReceiptRecord] /\ receipt'[j] = new
        /\ \A k \in (Debugs \cup Recoveries) \ {j} : receipt'[k] = receipt[k]
    <3> HIDE DEF new
    <3> QED BY <1>1, <1>2, <1>4, <2>5 DEF TypeBooks
  <2>7. b # None
    <3> HIDE DEF b
    <3> QED BY <2>1, NoneAssumption
  <2>8. RecoveryFits(receipt'[j], job'[j].pc, job'[j].before)
    BY <2>3, <2>4, <2>5, <2>6, <2>7 DEF RecoveryFits
  <2> QED BY <1>1, <1>2, <1>4, <2>4, <2>6, <2>8, RecoveryStep DEF TypeBooks
<1>5. \/ Go(j, "idle") /\ UNCHANGED <<receipt, pid>>
      \/ /\ lock = None /\ lock' = j /\ Looked /\ UNCHANGED <<dlock, ulock>>
         /\ receipt' = [receipt EXCEPT ![j] = new]
         /\ \E s \in {"r_stop", "r_failed"} : job' = [job EXCEPT ![j] = took(s)]
  <2>1. CASE Go(j, "idle") /\ UNCHANGED <<receipt, pid>>
    BY <2>1
  <2>2. CASE /\ lock = None /\ lock' = j /\ Looked /\ UNCHANGED <<dlock, ulock>>
             /\ receipt' = [receipt EXCEPT ![j].outcome = "in_progress"]
             /\ \E s \in {"r_stop", "r_failed"} :
                  job' = [job EXCEPT ![j].pc = s,
                            ![j].before = [healthy |-> FALSE, tunnel |-> tunnel.run, running |-> Tracked,
                                           ver |-> IF Tracked THEN gw.ver ELSE installed["gatewayd"]]]
    BY <2>2
  <2> HIDE DEF b, new, took
  <2> QED BY <2>1, <2>2 DEF BeginRecovery
<1> QED BY <1>3, <1>4, <1>5

LEMMA FinishStep == ASSUME IInv, NEW j \in Jobs, FinishRecovery(j) PROVE IInv'
<1>1. /\ j \in Recoveries /\ Go(j, "idle") /\ Looked
      /\ UNCHANGED <<installed, db, gw, tunnel, snap, pend, tx, plan, cut, overlap, faults>>
  BY DEF FinishRecovery, ghosts
<1>2. TypeBooks /\ receipt[j] \in ReceiptRecord
  BY <1>1, Known DEF TypeBooks
<1>3. PICK o \in Outcomes : receipt' = [receipt EXCEPT ![j].outcome = o]
  <2>1. receipt = [receipt EXCEPT ![j].outcome = receipt[j].outcome] /\ receipt[j].outcome \in Outcomes
    BY <1>1, <1>2 DEF TypeBooks, ReceiptRecord
  <2> QED BY <1>1, <1>2, <2>1 DEF FinishRecovery, Outcomes
<1>4. [receipt[j] EXCEPT !.outcome = o] \in ReceiptRecord
  BY <1>2 DEF ReceiptRecord
<1>5. /\ receipt' \in [Debugs \cup Recoveries -> ReceiptRecord]
      /\ \A k \in (Debugs \cup Recoveries) \ {j} : receipt'[k] = receipt[k]
  BY <1>2, <1>3, <1>4 DEF TypeBooks
<1> QED BY <1>1, <1>5, RecoveryRests

-----------------------------------------------------------------------------
(* Upgrades, the operator, kills and the Gateway.                          *)

\* An upgrade's step from or to a site where controller.lock is not held.
LEMMA UpgradeStep ==
    ASSUME IInv, NEW j \in Upgrades, NEW s \in SitesOf(j), Go(j, s), s \notin ControllerSites,
           tx' \in [Upgrades -> TxRecord], \A k \in Upgrades \ {j} : tx'[k] = tx[k],
           UNCHANGED <<installed, db, gw, tunnel, snap, receipt, pend, plan, cut, overlap, faults>>,
           pid' = pid \/ Looked, Backed(s, cut[j], tx'[j])
    PROVE  IInv'
<1>1. TypeProcesses /\ TypeBooks /\ TypeGhosts /\ Stands /\ Held /\ j \in Jobs
  BY Known, KindFacts
<1>2. Arrived(j, s)
  BY <1>1, Moves
<1>3. LeavesOthers(j)
  BY <1>1 DEF LeavesOthers, TypeBooks, TypeGhosts
<1>4. Own(j)'
  BY <1>2, OwnUpgrade DEF Arrived
<1> QED BY <1>1, <1>2, <1>3, <1>4, QuietStep DEF Arrived

LEMMA UpgradeSitesOf ==
    ASSUME NEW j \in Upgrades
    PROVE  /\ {"ended", "crashed", "u_lock", "u_backup"} \cup ReplacedSites \cup ProvenSites
                \subseteq SitesOf(j)
           /\ {"u_replace", "u_lock2", "u_phase", "v_failed"} \subseteq ReplacedSites
           /\ \A s \in {"u_replace", "u_lock2", "u_phase", "v_failed", "ended"} \cup ProvenSites :
                s \notin ControllerSites
           /\ \A s \in {"ended", "crashed"} :
                s \notin ReplacedSites \cup ProvenSites \cup {"idle", "u_lock", "u_backup"}
           /\ \A s \in ReplacedSites : s \notin ProvenSites \cup {"idle", "u_lock", "u_backup"}
           /\ \A s \in ProvenSites : s \notin {"idle", "u_lock", "u_backup"}
<1>1. j \notin Activations /\ j \notin Recoveries
  BY KindFacts
<1>2. /\ {"u_replace", "u_lock2", "u_phase", "v_failed"} \subseteq ReplacedSites
      /\ \A s \in ReplacedSites : s \notin ProvenSites \cup {"idle", "u_lock", "u_backup", "ended", "crashed"}
  BY TableDomains DEF ReplacedSites, ProvenSites
<1>3. "u_lock2" \notin ControllerSites
  <2>1. "u_lock2" \notin CutoverSites \cup RecoverySites \cup OperatorSites
    BY TableDomains DEF CutoverSites, RecoverySites, OperatorSites
  <2> QED BY <2>1, ControllerScope
<1> QED BY <1>1, <1>2, <1>3, ControllerScope DEF SitesOf, ProvenSites

\* A transaction that failed keeps what it said about its backup.
LEMMA FailedStep ==
    ASSUME IInv, NEW j \in Upgrades, FailTransaction(j),
           UNCHANGED <<installed, db, gw, pid, tunnel, snap, receipt, pend, plan, cut, overlap, faults>>
    PROVE  IInv'
<1> DEFINE new == [tx[j] EXCEPT !.final = "failed"]
<1>1. TypeBooks /\ Own(j) /\ tx[j] \in TxRecord
  BY Known, KindFacts DEF TypeBooks
<1>2. new \in TxRecord /\ new.backup = tx[j].backup /\ new.available = tx[j].available
  BY <1>1 DEF TxRecord
<1>3. /\ tx' \in [Upgrades -> TxRecord] /\ \A k \in Upgrades \ {j} : tx'[k] = tx[k]
      /\ tx'[j].backup = tx[j].backup /\ tx'[j].available = tx[j].available
  <2>1. CASE tx' = [tx EXCEPT ![j] = new]
    <3> HIDE DEF new
    <3> QED BY <1>1, <1>2, <2>1 DEF TypeBooks
  <2>2. CASE tx' = tx
    BY <1>1, <2>2 DEF TypeBooks
  <2> QED BY <2>1, <2>2 DEF FailTransaction
<1>4. Backed("ended", cut[j], tx'[j])
  BY <1>1, <1>3, UpgradeSitesOf DEF Own, Backed
<1>5. Go(j, "ended") /\ "ended" \in SitesOf(j) /\ "ended" \notin ControllerSites
  BY UpgradeSitesOf DEF FailTransaction
<1> QED BY <1>3, <1>4, <1>5, UpgradeStep

LEMMA InspectStep == ASSUME IInv, NEW j \in Upgrades, UpgradePreflight(j) PROVE IInv'
<1> DEFINE b == [healthy |-> TRUE, tunnel |-> tunnel.run, running |-> TRUE, ver |-> installed["ctl"]]
           took == [job[j] EXCEPT !.pc = "u_lock", !.before = b]
           new == [tx[j] EXCEPT !.phase = "prepare", !.final = "pending"]
<1>1. /\ job[j].pc = "idle" /\ Looked
      /\ UNCHANGED <<installed, db, gw, tunnel, snap, receipt, pend, plan, cut, overlap, faults>>
  BY DEF UpgradePreflight, ghosts
<1>2. /\ TypeHost /\ TypeProcesses /\ TypeBooks /\ TypeGhosts /\ Stands /\ Held /\ Own(j)
      /\ job[j] \in JobRecord /\ tx[j] \in TxRecord /\ j \in Jobs
  BY Known, KindFacts DEF TypeBooks
<1>3. cut[j] = "none"
  BY <1>1, <1>2 DEF Own, Backed
<1>4. CASE Go(j, "ended") /\ UNCHANGED tx
  <2>1. Backed("ended", cut[j], tx'[j])
    BY <1>3, UpgradeSitesOf DEF Backed
  <2>2. "ended" \in SitesOf(j) /\ "ended" \notin ControllerSites
    BY UpgradeSitesOf
  <2> QED BY <1>1, <1>2, <1>4, <2>1, <2>2, UpgradeStep DEF TypeBooks
<1>5. CASE tx' = [tx EXCEPT ![j] = new] /\ job' = [job EXCEPT ![j] = took] /\ UNCHANGED locks
  <2>1. b \in BeforeRecord
    BY <1>2, ConstantFacts DEF TypeHost, ArtifactSet, BeforeRecord
  <2>2. /\ took \in JobRecord /\ took.pc = "u_lock"
        /\ "u_lock" \in SitesOf(j) /\ "u_lock" \notin ControllerSites
    <3> HIDE DEF b
    <3> QED BY <1>2, <2>1, SitesTyped, UpgradeSitesOf, Outside DEF JobRecord
  <2>3. /\ TypeProcesses' /\ Stands' /\ Held' /\ job'[j] = took
        /\ \A k \in Jobs \ {j} : job'[k] = job[k]
    <3>1. lock' = lock /\ {dlock', ulock'} \subseteq Jobs \cup {None}
      BY <1>2, <1>5 DEF TypeProcesses, locks
    <3> HIDE DEF took
    <3> QED BY <1>2, <1>5, <2>2, <3>1, Takes
  <2>4. new \in TxRecord
    BY <1>2 DEF TxRecord
  <2>5. tx' \in [Upgrades -> TxRecord] /\ \A k \in Upgrades \ {j} : tx'[k] = tx[k]
    <3> HIDE DEF new
    <3> QED BY <1>2, <1>5, <2>4 DEF TypeBooks
  <2>6. LeavesOthers(j)
    BY <1>1, <1>2, <2>5 DEF LeavesOthers, TypeBooks, TypeGhosts
  <2>7. "u_lock" \notin ReplacedSites /\ "u_lock" \notin ProvenSites
    BY UpgradeSitesOf
  <2>8. Backed("u_lock", cut'[j], tx'[j])
    BY <1>1, <1>3, <2>7 DEF Backed
  <2>9. Own(j)'
    BY <2>2, <2>3, <2>8, OwnUpgrade
  <2> QED BY <1>1, <1>2, <2>3, <2>6, <2>9, QuietStep
<1> QED BY <1>4, <1>5 DEF UpgradePreflight

LEMMA UpgradeLockStep == ASSUME IInv, NEW j \in Jobs, UpgradeLock(j) PROVE IInv'
<1> DEFINE took == [job[j] EXCEPT !.pc = "u_backup"]
<1>1. /\ j \in Upgrades /\ job[j].pc = "u_lock"
      /\ UNCHANGED <<installed, db, gw, pid, tunnel, snap, receipt, pend, plan, cut, overlap, faults>>
  BY DEF UpgradeLock, host, ghosts
<1>2. /\ TypeProcesses /\ TypeBooks /\ TypeGhosts /\ Stands /\ Held /\ Own(j) /\ job[j] \in JobRecord
  BY Known
<1>3. CASE FailTransaction(j)
  BY <1>1, <1>3, FailedStep
<1>4. CASE ulock' = j /\ job' = [job EXCEPT ![j] = took] /\ UNCHANGED <<lock, dlock, tx>>
  <2>1. /\ took \in JobRecord /\ took.pc = "u_backup"
        /\ "u_backup" \in SitesOf(j) /\ "u_backup" \notin ControllerSites
    BY <1>1, <1>2, SitesTyped, UpgradeSitesOf, Outside DEF JobRecord
  <2>2. /\ TypeProcesses' /\ Stands' /\ Held' /\ job'[j] = took
        /\ \A k \in Jobs \ {j} : job'[k] = job[k]
    <3>1. lock' = lock /\ {dlock', ulock'} \subseteq Jobs \cup {None}
      BY <1>2, <1>4 DEF TypeProcesses
    <3> HIDE DEF took
    <3> QED BY <1>2, <1>4, <2>1, <3>1, Takes
  <2>3. LeavesOthers(j)
    BY <1>1, <1>2, <1>4 DEF LeavesOthers, TypeBooks, TypeGhosts
  <2>4. "u_backup" \notin ReplacedSites /\ "u_backup" \notin ProvenSites
    BY <1>1, UpgradeSitesOf
  <2>5. cut[j] = "none"
    BY <1>1, <1>2 DEF Own, Backed
  <2>6. Backed("u_backup", cut'[j], tx'[j])
    BY <1>1, <2>4, <2>5 DEF Backed
  <2>7. Own(j)'
    BY <1>1, <2>1, <2>2, <2>6, OwnUpgrade
  <2> QED BY <1>1, <2>2, <2>3, <2>7, QuietStep
<1> QED BY <1>3, <1>4 DEF UpgradeLock

\* The steps of an upgrade that write its transaction.
LEMMA WritesStep ==
    ASSUME IInv, NEW j \in Upgrades, NEW new \in TxRecord, NEW s \in SitesOf(j),
           tx' = [tx EXCEPT ![j] = new], Go(j, s), s \notin ControllerSites,
           UNCHANGED <<installed, db, gw, pid, tunnel, snap, receipt, pend, plan, cut, overlap, faults>>,
           Backed(s, cut[j], new)
    PROVE  IInv'
<1>1. TypeBooks
  BY Known, KindFacts
<1>2. /\ tx' \in [Upgrades -> TxRecord] /\ tx'[j] = new /\ \A k \in Upgrades \ {j} : tx'[k] = tx[k]
  BY <1>1 DEF TypeBooks
<1> QED BY <1>2, UpgradeStep

LEMMA TransactionStep ==
    ASSUME IInv, NEW j \in Jobs,
           \/ UpgradeBackup(j) \/ UpgradePhaseActivate(j) \/ RemoveUpgradeBackup(j)
           \/ CompleteTransaction(j) \/ RollbackFails(j)
    PROVE  IInv'
<1>1. /\ j \in Upgrades
      /\ UNCHANGED <<installed, db, gw, pid, tunnel, snap, receipt, pend, plan, cut, overlap, faults>>
  BY DEF UpgradeBackup, UpgradePhaseActivate, RemoveUpgradeBackup, CompleteTransaction, RollbackFails,
         host, ghosts
<1>2. /\ TypeHost /\ TypeBooks /\ TypeGhosts /\ Own(j) /\ tx[j] \in TxRecord
      /\ Backed(job[j].pc, cut[j], tx[j])
  BY <1>1, Known DEF TypeBooks, Own
<1>3. CASE FailTransaction(j)
  BY <1>1, <1>3, FailedStep
<1>4. CASE /\ job[j].pc = "u_backup" /\ Go(j, "u_replace")
           /\ tx' = [tx EXCEPT ![j].phase = "validate", ![j].available = TRUE, ![j].backup = installed]
  <2> DEFINE new == [tx[j] EXCEPT !.phase = "validate", !.available = TRUE, !.backup = installed]
  <2>1. /\ new \in TxRecord /\ new.backup # None /\ new.available
        /\ tx' = [tx EXCEPT ![j] = new]
    <3>1. installed \in ArtifactSet /\ installed # None
      BY <1>2, NoneAssumption DEF TypeHost
    <3>2. new \in TxRecord /\ new.backup = installed /\ new.available
      BY <1>2, <3>1 DEF TxRecord
    <3>3. tx' = [tx EXCEPT ![j] = new]
      BY <1>4
    <3> QED BY <3>1, <3>2, <3>3
  <2>2. cut[j] = "none"
    BY <1>2, <1>4 DEF Backed
  <2> HIDE DEF new
  <2>3. Backed("u_replace", cut[j], new)
    BY <1>1, <2>1, <2>2, UpgradeSitesOf DEF Backed
  <2>4. "u_replace" \in SitesOf(j) /\ "u_replace" \notin ControllerSites
    BY <1>1, UpgradeSitesOf
  <2> QED BY <1>1, <1>4, <2>1, <2>3, <2>4, WritesStep
<1>5. CASE /\ job[j].pc = "u_phase" /\ Go(j, "u_lock2")
           /\ tx' = [tx EXCEPT ![j].phase = "activate"]
  <2> DEFINE new == [tx[j] EXCEPT !.phase = "activate"]
  <2>1. /\ new \in TxRecord /\ new.backup = tx[j].backup /\ new.available = tx[j].available
        /\ tx' = [tx EXCEPT ![j] = new]
    BY <1>2, <1>5 DEF TxRecord
  <2> HIDE DEF new
  <2>2. Backed("u_lock2", cut[j], new)
    BY <1>1, <1>2, <1>5, <2>1, UpgradeSitesOf DEF Backed
  <2>3. "u_lock2" \in SitesOf(j) /\ "u_lock2" \notin ControllerSites
    BY <1>1, UpgradeSitesOf
  <2> QED BY <1>1, <1>5, <2>1, <2>2, <2>3, WritesStep
<1>6. CASE /\ job[j].pc \in {"u_clean", "v_clean"} /\ Go(j, IF job[j].pc = "u_clean" THEN "u_complete" ELSE "v_complete")
           /\ tx' = [tx EXCEPT ![j].backup = None]
  <2> DEFINE new == [tx[j] EXCEPT !.backup = None]
             s == IF job[j].pc = "u_clean" THEN "u_complete" ELSE "v_complete"
  <2>1. new \in TxRecord /\ tx' = [tx EXCEPT ![j] = new]
    BY <1>2, <1>6 DEF TxRecord
  <2>2. s \in ProvenSites /\ job[j].pc \in ProvenSites
    BY <1>6 DEF ProvenSites
  <2> HIDE DEF new, s
  <2>3. cut[j] = "settled" /\ s \notin ReplacedSites
    BY <1>1, <1>2, <2>2, UpgradeSitesOf DEF Backed
  <2>4. Backed(s, cut[j], new)
    BY <1>1, <2>2, <2>3, UpgradeSitesOf DEF Backed
  <2>5. s \in SitesOf(j) /\ s \notin ControllerSites
    BY <1>1, <2>2, UpgradeSitesOf
  <2> QED BY <1>1, <1>6, <2>1, <2>4, <2>5, WritesStep DEF s
<1>7. CASE CompleteTransaction(j)
  <2>1. job[j].pc \in ProvenSites /\ Go(j, "ended")
    BY <1>7 DEF CompleteTransaction, ProvenSites
  <2>2. PICK new \in TxRecord : tx' = [tx EXCEPT ![j] = new]
    <3>1. CASE tx' = [tx EXCEPT ![j].phase = "complete", ![j].available = FALSE,
                       ![j].final = IF job[j].pc = "u_complete" THEN "UPGRADE_COMPLETE"
                                                                ELSE "UPGRADE_ROLLED_BACK"]
      <4>1. [tx[j] EXCEPT !.phase = "complete", !.available = FALSE,
                  !.final = IF job[j].pc = "u_complete" THEN "UPGRADE_COMPLETE"
                                                        ELSE "UPGRADE_ROLLED_BACK"] \in TxRecord
        BY <1>2 DEF TxRecord
      <4> QED BY <3>1, <4>1
    <3>2. CASE tx' = [tx EXCEPT ![j].available = FALSE, ![j].final = "failed"]
      <4>1. [tx[j] EXCEPT !.available = FALSE, !.final = "failed"] \in TxRecord
        BY <1>2 DEF TxRecord
      <4> QED BY <3>2, <4>1
    <3>3. CASE tx' = tx
      <4>1. tx' = [tx EXCEPT ![j] = tx[j]]
        BY <1>1, <1>2, <3>3 DEF TypeBooks
      <4> QED BY <1>2, <4>1
    <3> QED BY <1>7, <3>1, <3>2, <3>3 DEF CompleteTransaction
  <2>3. Backed("ended", cut[j], new)
    BY <1>1, <1>2, <2>1, UpgradeSitesOf DEF Backed
  <2>4. "ended" \in SitesOf(j) /\ "ended" \notin ControllerSites
    BY <1>1, UpgradeSitesOf
  <2> QED BY <1>1, <2>1, <2>2, <2>3, <2>4, WritesStep
<1> QED BY <1>3, <1>4, <1>5, <1>6, <1>7
        DEF UpgradeBackup, UpgradePhaseActivate, RemoveUpgradeBackup, RollbackFails

LEMMA OperateStep == ASSUME IInv, NEW j \in Operators, Operate(j) PROVE IInv'
<1>1. PICK s \in {"s_lock", "t_lock", "q_lock", "g_lock", "h_lock", "k_lock"} : Go(j, s)
  BY DEF Operate
<1>2. /\ TypeProcesses /\ TypeBooks /\ TypeGhosts /\ Stands /\ Held /\ j \in Jobs
      /\ j \notin Activations /\ j \notin Recoveries /\ j \notin Upgrades /\ j \notin Debugs
  BY Known, KindFacts
<1>3. s \in SitesOf(j) /\ s \notin ControllerSites
  BY <1>2, TableDomains, ControllerScope DEF SitesOf, OperatorSites
<1>4. Arrived(j, s)
  BY <1>1, <1>2, <1>3, Moves
<1>5. UNCHANGED <<installed, db, gw, pid, tunnel, snap, receipt, pend, tx, plan, cut, overlap, faults>>
  BY DEF Operate, host, books, ghosts
<1>6. LeavesOthers(j)
  BY <1>2, <1>5 DEF LeavesOthers, TypeBooks, TypeGhosts
<1>7. Own(j)'
  BY <1>2 DEF Own
<1> QED BY <1>2, <1>4, <1>5, <1>6, <1>7, QuietStep DEF Arrived

LEMMA CrashStep == ASSUME IInv, NEW j \in Jobs, Crash(j) PROVE IInv'
<1> DEFINE s == IF j \in Recoveries \cup Operators THEN "idle" ELSE "crashed"
<1>1. /\ job[j].pc \notin {"idle", "ended", "crashed"} /\ Go(j, s) /\ faults > 0 /\ faults' = faults - 1
      /\ UNCHANGED <<installed, db, gw, pid, tunnel, snap, receipt, pend, tx, plan, cut, overlap>>
  BY DEF Crash, host, books
<1>2. TypeProcesses /\ TypeBooks /\ TypeGhosts /\ Stands /\ Held /\ Own(j)
  BY Known
<1>3. s \in SitesOf(j) /\ s \notin ControllerSites /\ s \notin CutoverSites
  BY Outside, KindFacts DEF SitesOf, Jobs
<1>4. Arrived(j, s)
  BY <1>1, <1>2, <1>3, Moves
<1>5. faults' \in Nat
  BY <1>1, <1>2 DEF TypeGhosts
<1>6. LeavesOthers(j)
  BY <1>1, <1>2, <1>5 DEF LeavesOthers, TypeBooks, TypeGhosts
<1>7. Own(j)'
  <2>1. CASE j \in Activations
    <3>1. s = "crashed"
      BY <2>1, KindFacts
    <3>2. Keeps(s, cut'[j], job'[j].found, snap'[j], ~overlap')
      BY <1>1, <1>2, <1>4, <2>1, <3>1, CutoverNames DEF Own, Keeps, Untouched, Arrived
    <3>3. j \in Debugs => DebugFits(receipt'[j], s, pend'[j], cut'[j])
      BY <1>1, <1>2, <3>1 DEF Own, DebugFits
    <3> QED BY <1>3, <1>4, <2>1, <3>1, <3>2, <3>3, OwnAway DEF Arrived
  <2>2. CASE j \in Recoveries
    <3>1. "idle" \notin RecoverySites
      BY TableDomains DEF RecoverySites
    <3> QED BY <1>4, <2>2, <3>1, OwnRecovery DEF RecoveryFits, Arrived
  <2>3. CASE j \in Upgrades
    <3>1. s = "crashed"
      BY <2>3, KindFacts
    <3>2. Backed(s, cut'[j], tx'[j])
      BY <1>1, <1>2, <2>3, <3>1, UpgradeSitesOf DEF Own, Backed
    <3> QED BY <1>4, <2>3, <3>2, OwnUpgrade DEF Arrived
  <2>4. CASE j \notin Activations \cup Recoveries \cup Upgrades
    BY <2>4, KindFacts DEF Own
  <2> QED BY <2>1, <2>2, <2>3, <2>4
<1> QED BY <1>1, <1>4, <1>6, <1>7, QuietStep DEF Arrived

\* What the Gateway does by itself, or what becomes of it.
LEMMA GatewayStep ==
    ASSUME IInv, (\E d \in Databases : Migrate(d)) \/ BecomeReady \/ StartupFails \/ GatewayExits
    PROVE  IInv'
<1>1. TypeHost /\ TypeProcesses /\ TypeBooks /\ TypeGhosts
  BY DEF IInv, TypeOK
<1>2. /\ UNCHANGED <<installed, pid, tunnel, lock, dlock, ulock, job, snap, receipt, tx, plan, cut, overlap>>
      /\ faults' = faults \/ (faults > 0 /\ faults' = faults - 1)
      /\ pend' = pend \/ Gone
      /\ gw' \in {gw, None, [gw EXCEPT !.ready = TRUE]} /\ (gw' # None => gw # None)
      /\ db' = db \/ \E d \in Databases : gw # None /\ db' = [db EXCEPT ![d] = gw.ver]
  BY DEF Migrate, BecomeReady, StartupFails, GatewayExits, Gone, locks, books, ghosts
<1>3. TypeHost' /\ Calm
  BY <1>1, <1>2 DEF TypeHost, Calm, GatewayRecord, DatabaseSet
<1>4. /\ pend' \in [Debugs \cup Recoveries -> 0..1]
      /\ \A k \in Debugs \cup Recoveries : pend'[k] \in {pend[k], 0}
  BY <1>1, <1>2 DEF TypeBooks, Gone
<1>5. faults' \in Nat
  BY <1>1, <1>2 DEF TypeGhosts
<1>6. TypeOK'
  BY <1>1, <1>2, <1>3, <1>4, <1>5 DEF TypeOK, TypeProcesses, TypeBooks, TypeGhosts
<1>7. \A k \in Jobs : Stays(k)
  BY <1>2, <1>4 DEF Stays
<1> QED BY <1>2, <1>3, <1>6, <1>7, AssembleAll

-----------------------------------------------------------------------------
(* The invariant.                                                          *)

LEMMA InitIInv == Init => IInv
<1> SUFFICES ASSUME Init PROVE IInv
  OBVIOUS
<1>1. PICK p \in Plans : plan = p.procs /\ faults = p.faults
  BY DEF Init
<1>2. plan \subseteq Jobs /\ faults \in Nat
  BY <1>1, TargetsAreLater
<1>3. TypeHost
  <2>1. installed \in ArtifactSet /\ db \in DatabaseSet
    BY ConstantFacts DEF Init, All, ArtifactSet, DatabaseSet
  <2>2. gw \in GatewayRecord /\ pid \in BOOLEAN
    BY ConstantFacts DEF Init, GatewayRecord
  <2>3. 1 \in 1..MaxTunnel
    BY TargetsAreLater
  <2>4. tunnel \in [run : 1..MaxTunnel, up : BOOLEAN]
    BY <2>3 DEF Init
  <2> QED BY <2>1, <2>2, <2>4 DEF TypeHost
<1>4. TypeProcesses
  <2>1. 1 \in 1..Len(BinaryNames)
    BY ConstantFacts
  <2>2. [pc |-> "idle", i |-> 1, bad |-> FALSE, found |-> None, before |-> None] \in JobRecord
    BY <2>1 DEF JobRecord, Sites
  <2> QED BY <2>2 DEF Init, TypeProcesses
<1>5. TypeBooks
  <2>1. NoReceipt \in ReceiptRecord
    BY TargetsAreLater DEF NoReceipt, ReceiptRecord, Outcomes
  <2>2. NoTx \in TxRecord
    BY DEF NoTx, TxRecord
  <2> QED BY <2>1, <2>2 DEF Init, TypeBooks
<1>6. TypeGhosts
  BY <1>2 DEF Init, TypeGhosts
<1>7. Stands /\ Held
  <2>1. \A j \in Jobs : job[j].pc = "idle" /\ "idle" \in SitesOf(j)
    BY DEF Init, SitesOf
  <2> QED BY <2>1, Outside DEF Stands, Held
<1>8. ASSUME NEW j \in Jobs PROVE Own(j)
  <2>1. job[j].pc = "idle"
    BY DEF Init
  <2>2. /\ j \in Debugs \cup Recoveries => receipt[j] = NoReceipt /\ pend[j] = 0
        /\ j \in Activations \cup Upgrades => cut[j] = "none"
    BY DEF Init
  <2>3. j \in Debugs => DebugFits(receipt[j], "idle", pend[j], cut[j])
    BY <2>2, KindFacts, NoneAssumption DEF DebugFits, NoReceipt
  <2>4. j \in Recoveries => RecoveryFits(receipt[j], "idle", job[j].before)
    BY TableDomains DEF RecoveryFits, RecoverySites
  <2>5. j \in Activations =>
          /\ Keeps("idle", cut[j], job[j].found, snap[j], ~overlap)
          /\ Faces("idle", job[j].i, job[j].found, ~overlap, installed, db, gw, pid)
    BY <2>2, CutoverNames DEF Keeps, Faces, Untouched, Matching
  <2>6. j \in Upgrades => Backed("idle", cut[j], tx[j])
    <3>1. "idle" \notin ReplacedSites \cup ProvenSites
      BY TableDomains DEF ReplacedSites, ProvenSites
    <3> QED BY <2>2, <3>1 DEF Backed
  <2> QED BY <2>1, <2>2, <2>3, <2>4, <2>5, <2>6 DEF Own
<1> QED BY <1>3, <1>4, <1>5, <1>6, <1>7, <1>8 DEF IInv, TypeOK

LEMMA WorkIInv == ASSUME IInv, NEW j \in Jobs, Work(j) PROVE IInv'
<1>1. CASE AcquireController(j)
  BY <1>1, AcquireStep
<1>2. CASE StopProcess(j)
  BY <1>2, StopStep
<1>3. CASE Spawn(j)
  BY <1>3, SpawnStep
<1>4. CASE RecordPID(j)
  BY <1>4, RecordStep
<1>5. CASE AwaitReady(j) \/ WaitURL(j)
  BY <1>5, AwaitStep
<1>6. CASE ReplaceOne(j)
  BY <1>6, ReplaceStep
<1>7. CASE ReplaceFails(j)
  BY <1>7, ReplaceFailsStep
<1>8. CASE RestoreOne(j)
  BY <1>8, RestoreStep
<1>9. CASE CaptureDurableState(j)
  BY <1>9, CaptureStep
<1>10. CASE RestoreOneDatabase(j)
  BY <1>10, RevertStep
<1>11. CASE PrepareActivationCutover(j)
  BY <1>11, PrepareStep
<1>12. CASE PreflightFails(j)
  BY <1>12, PreflightStep
<1>13. CASE ValidateBeforeStop(j)
  BY <1>13, ValidateStep
<1>14. CASE VerifyCandidate(j) \/ VerifyPrevious(j)
  BY <1>14, VerifyStep
<1>15. CASE EndActivation(j)
  BY <1>15, EndStep
<1>16. CASE RunActivation(j)
  <2>1. j \in Debugs
    BY <1>16 DEF RunActivation
  <2> QED BY <1>16, <2>1, RunStep
<1>17. CASE BeginRecovery(j)
  BY <1>17, BeginStep
<1>18. CASE CopyExecutable(j)
  BY <1>18, CopyStep
<1>19. CASE FinishRecovery(j)
  BY <1>19, FinishStep
<1>20. CASE UpgradeLock(j)
  BY <1>20, UpgradeLockStep
<1>21. CASE \/ UpgradeBackup(j) \/ UpgradePhaseActivate(j) \/ RemoveUpgradeBackup(j)
            \/ CompleteTransaction(j) \/ RollbackFails(j)
  BY <1>21, TransactionStep
<1>22. CASE StartTunnel(j) \/ StopTunnel(j)
  BY <1>22, TunnelStep
<1> QED
  BY <1>1, <1>2, <1>3, <1>4, <1>5, <1>6, <1>7, <1>8, <1>9, <1>10, <1>11, <1>12, <1>13, <1>14, <1>15,
     <1>16, <1>17, <1>18, <1>19, <1>20, <1>21, <1>22
     DEF Work

LEMMA StutterIInv == ASSUME IInv, UNCHANGED vars PROVE IInv'
<1>1. UNCHANGED <<installed, db, gw, pid, tunnel, lock, dlock, ulock, job, snap, receipt, pend, tx, plan,
                  cut, overlap, faults>>
  BY DEF vars, host, locks, books, ghosts
<1>2. TypeOK' /\ Calm /\ \A k \in Jobs : Stays(k)
  BY <1>1 DEF IInv, TypeOK, TypeHost, TypeProcesses, TypeBooks, TypeGhosts, Calm, Stays
<1> QED BY <1>1, <1>2, AssembleAll

LEMMA NextIInv == IInv /\ [Next]_vars => IInv'
<1> SUFFICES ASSUME IInv, [Next]_vars PROVE IInv'
  OBVIOUS
<1>1. CASE \E j \in Jobs : Work(j)
  BY <1>1, WorkIInv
<1>2. CASE (\E j \in Selves : SelfActivate(j)) \/ (\E j \in Installs : InstallAndRestartGateway(j))
  <2>1. Selves \subseteq Jobs /\ Installs \subseteq Jobs
    BY DEF Jobs, Activations
  <2> QED BY <1>2, <2>1, RequestStep
<1>3. CASE \E j \in Debugs : AcceptActivation(j) \/ ScheduleWorker(j) \/ RecordLaunchFailure(j)
  <2>1. Debugs \subseteq Jobs
    BY KindFacts
  <2> QED BY <1>3, <2>1, AcceptStep, ScheduleStep, LaunchFailureStep
<1>4. CASE \E j \in Recoveries :
             \/ AcceptGatewayRecovery(j) \/ LaunchGatewayRecoveryWorker(j)
             \/ RecordGatewayRecoveryLaunchFailure(j)
  BY <1>4, AcceptRecoveryStep, LaunchStep, RecoveryFailureStep
<1>5. CASE \E j \in Upgrades : UpgradePreflight(j)
  BY <1>5, InspectStep
<1>6. CASE \E j \in Operators : Operate(j)
  BY <1>6, OperateStep
<1>7. CASE (\E d \in Databases : Migrate(d)) \/ BecomeReady \/ StartupFails \/ GatewayExits
  BY <1>7, GatewayStep
<1>8. CASE \E j \in Jobs : Crash(j)
  BY <1>8, CrashStep
<1>9. CASE UNCHANGED vars
  BY <1>9, StutterIInv
<1> QED BY <1>1, <1>2, <1>3, <1>4, <1>5, <1>6, <1>7, <1>8, <1>9 DEF Next

\* The processes, files, databases, receipts and transactions stay what the code
\* can hold, and a program counter is always at a call of its process's kind.
THEOREM DeploymentTypeCorrect == Spec => []TypeOK
<1>1. IInv => TypeOK
  BY DEF IInv
<1> QED BY InitIInv, NextIInv, <1>1, PTL DEF Spec

\* Whatever fails or is killed between any two steps of any number of processes
\* (activateBinaries, Runner.Run): the previous Gateway is started on the binary
\* and the databases that belong together, and what the way back needs stays on
\* disk until the candidate or the previous Gateway is proven.
THEOREM WayBackHolds == Spec => []WayBackSound
<1>1. IInv => WayBackSound
  <2> SUFFICES ASSUME IInv PROVE WayBackSound
    OBVIOUS
  <2>1. ASSUME NEW j \in Activations
        PROVE  /\ Keeps(job[j].pc, cut[j], job[j].found, snap[j], ~overlap)
               /\ Faces(job[j].pc, job[j].i, job[j].found, ~overlap, installed, db, gw, pid)
    BY KindFacts DEF IInv, Own
  <2>2. RollbackStartsMatchingPair
    BY <2>1 DEF RollbackStartsMatchingPair, Faces, Matching
  <2>3. ASSUME ~overlap, NEW j \in Activations
        PROVE  /\ cut[j] \in {"open", "ran"} => snap[j] # None /\ snap[j].prev = job[j].found.set
               /\ cut[j] = "ran" => \A d \in Databases :
                    snap[j].db[d] \in {job[j].found.db[d], job[j].found.ran, job[j].found.set["gatewayd"]}
    BY <2>1, <2>3 DEF Keeps
  <2>4. ASSUME NEW j \in Upgrades, cut[j] = "open" PROVE tx[j].backup # None /\ tx[j].available
    BY <2>4, KindFacts DEF IInv, Own, Backed
  <2> QED BY <2>2, <2>3, <2>4 DEF WayBackSound, WayBackKept
<1> QED BY InitIInv, NextIInv, <1>1, PTL DEF Spec

-----------------------------------------------------------------------------
(* Receipts.                                                               *)

\* The outcome of an operation is known and nothing may take it up again.
IsFinal(j) ==
    receipt[j].outcome \in {"succeeded", "failed"} /\ ~(j \in Debugs /\ MayRetry(receipt[j]))

LEMMA WorkWrites ==
    ASSUME IInv, NEW j \in Jobs, Work(j)
    PROVE  \A k \in DOMAIN receipt : IsFinal(k) => receipt'[k] = receipt[k]
<1>1. CASE receipt' = receipt
  BY <1>1
<1>2. CASE PreflightFails(j) \/ EndActivation(j)
  <2>1. PICK o \in {"succeeded", "failed"}, r \in BOOLEAN : Settle(j, o, r)
    BY <1>2 DEF PreflightFails, EndActivation
  <2>2. j \in Activations /\ job[j].pc \notin {"idle", "d_run", "crashed"}
    BY <1>2 DEF PreflightFails, EndActivation, EndSites
  <2>3. j \in Debugs => receipt[j].outcome = "in_progress"
    BY <2>2, Known DEF Own, DebugFits
  <2> QED BY <2>1, <2>3 DEF Settle, IsFinal
<1>3. CASE RunActivation(j)
  BY <1>3 DEF RunActivation, IsFinal
<1>4. CASE BeginRecovery(j)
  BY <1>4 DEF BeginRecovery, IsFinal
<1>5. CASE FinishRecovery(j)
  <2>1. j \in Recoveries /\ job[j].pc \in RecoverySites
    BY <1>5 DEF FinishRecovery, RecoverySites
  <2>2. receipt[j].outcome = "in_progress"
    BY <2>1, Known DEF Own, RecoveryFits
  <2> QED BY <1>5, <2>2 DEF FinishRecovery, IsFinal
<1>6. \/ receipt' = receipt \/ PreflightFails(j) \/ EndActivation(j) \/ RunActivation(j)
      \/ BeginRecovery(j) \/ FinishRecovery(j)
  <2>1. CASE \/ AcquireController(j) \/ StopProcess(j) \/ Spawn(j) \/ RecordPID(j)
             \/ AwaitReady(j) \/ WaitURL(j) \/ ReplaceOne(j) \/ ReplaceFails(j) \/ RestoreOne(j)
             \/ CaptureDurableState(j) \/ RestoreOneDatabase(j)
    BY <2>1 DEF AcquireController, StopProcess, Spawn, RecordPID, AwaitReady, WaitURL, ReplaceOne,
                ReplaceFails, RestoreOne, CaptureDurableState, RestoreOneDatabase, books
  <2>2. CASE \/ PrepareActivationCutover(j) \/ ValidateBeforeStop(j) \/ VerifyCandidate(j)
             \/ VerifyPrevious(j) \/ CopyExecutable(j) \/ UpgradeLock(j) \/ UpgradeBackup(j)
             \/ UpgradePhaseActivate(j) \/ RemoveUpgradeBackup(j) \/ CompleteTransaction(j)
             \/ RollbackFails(j) \/ StartTunnel(j) \/ StopTunnel(j)
    BY <2>2 DEF PrepareActivationCutover, ValidateBeforeStop, VerifyCandidate, VerifyPrevious,
                CopyExecutable, UpgradeLock, UpgradeBackup, UpgradePhaseActivate,
                RemoveUpgradeBackup, CompleteTransaction, RollbackFails, StartTunnel, StopTunnel, books
  <2> QED BY <2>1, <2>2 DEF Work
<1> QED BY <1>1, <1>2, <1>3, <1>4, <1>5, <1>6

LEMMA RequestWrites ==
    ASSUME IInv, NEW j \in Debugs \cup Recoveries,
           \/ j \in Debugs /\ (AcceptActivation(j) \/ ScheduleWorker(j) \/ RecordLaunchFailure(j))
           \/ AcceptGatewayRecovery(j) \/ LaunchGatewayRecoveryWorker(j)
           \/ RecordGatewayRecoveryLaunchFailure(j)
    PROVE  \A k \in DOMAIN receipt : IsFinal(k) => receipt'[k] = receipt[k]
<1>1. CASE j \in Debugs /\ AcceptActivation(j)
  BY <1>1, NoneAssumption DEF AcceptActivation, IsFinal
<1>2. CASE ScheduleWorker(j) \/ LaunchGatewayRecoveryWorker(j)
  BY <1>2 DEF ScheduleWorker, LaunchGatewayRecoveryWorker
<1>3. CASE RecordLaunchFailure(j)
  BY <1>3 DEF RecordLaunchFailure, IsFinal
<1>4. CASE AcceptGatewayRecovery(j)
  BY <1>4, NoneAssumption DEF AcceptGatewayRecovery, IsFinal
<1>5. CASE RecordGatewayRecoveryLaunchFailure(j)
  BY <1>5 DEF RecordGatewayRecoveryLaunchFailure, IsFinal
<1> QED BY <1>1, <1>2, <1>3, <1>4, <1>5

\* A debug activation offers a retry only before it has touched the host, and a
\* receipt that says how its operation ended keeps saying it, whichever worker
\* is launched late or twice (AcceptActivation, RunActivation, runRecovery).
THEOREM ReceiptsAreFinal == Spec => ReceiptsHold
<1>1. IInv => RetryOnlyBeforeCutover
  <2> SUFFICES ASSUME IInv, NEW j \in Debugs
               PROVE  /\ receipt[j].retryable => cut[j] = "none"
                      /\ receipt[j].outcome \in {"accepted", "in_progress"} => ~MayRetry(receipt[j])
    BY DEF RetryOnlyBeforeCutover
  <2>1. DebugFits(receipt[j], job[j].pc, pend[j], cut[j])
    BY KindFacts DEF IInv, Own
  <2> QED BY <2>1 DEF DebugFits, MayRetry
<1>2. IInv /\ [Next]_vars => [RetryOnlyBeforeCutover' /\ ReceiptsFinal]_vars
  <2> SUFFICES ASSUME IInv, Next PROVE RetryOnlyBeforeCutover' /\ ReceiptsFinal
    OBVIOUS
  <2>1. RetryOnlyBeforeCutover'
    <3>1. IInv'
      BY NextIInv
    <3> QED BY <1>1, <3>1, PTL
  <2>2. SUFFICES \A k \in DOMAIN receipt : IsFinal(k) => receipt'[k] = receipt[k]
    BY <2>1 DEF ReceiptsFinal, IsFinal
  <2>3. CASE \E j \in Jobs : Work(j)
    BY <2>3, WorkWrites
  <2>4. CASE (\E j \in Selves : SelfActivate(j)) \/ (\E j \in Installs : InstallAndRestartGateway(j))
    BY <2>4 DEF SelfActivate, InstallAndRestartGateway, books
  <2>5. CASE \/ \E j \in Debugs : AcceptActivation(j) \/ ScheduleWorker(j) \/ RecordLaunchFailure(j)
             \/ \E j \in Recoveries :
                  \/ AcceptGatewayRecovery(j) \/ LaunchGatewayRecoveryWorker(j)
                  \/ RecordGatewayRecoveryLaunchFailure(j)
    BY <2>5, RequestWrites
  <2>6. CASE (\E j \in Upgrades : UpgradePreflight(j)) \/ (\E j \in Operators : Operate(j))
    BY <2>6 DEF UpgradePreflight, Operate, books
  <2>7. CASE (\E d \in Databases : Migrate(d)) \/ BecomeReady \/ StartupFails \/ GatewayExits
    BY <2>7 DEF Migrate, BecomeReady, StartupFails, GatewayExits, books
  <2>8. CASE \E j \in Jobs : Crash(j)
    BY <2>8 DEF Crash, books
  <2> QED BY <2>3, <2>4, <2>5, <2>6, <2>7, <2>8 DEF Next
<1> QED BY InitIInv, NextIInv, <1>1, <1>2, PTL DEF Spec, ReceiptsHold
=============================================================================
