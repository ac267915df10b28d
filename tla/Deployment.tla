------------------------------ MODULE Deployment ------------------------------
(* Installing and restarting the Gateway on its host: self-activation of a     *)
(* built candidate (internal/activation, controller/gateway_activation.go),    *)
(* debug activation with its retry receipt (internal/debug), Gateway recovery  *)
(* (controller/gateway_recovery.go), artifact upgrade (internal/upgrade) and   *)
(* the operator's start, stop and restart (controller/lifecycle.go).           *)
(*                                                                             *)
(* All of them are processes of their own that share the three installed       *)
(* binaries, two SQLite databases, one Gateway process with its PID record,    *)
(* the Tunnel process and three flock files.  Every process may be killed      *)
(* between any two steps, and the Gateway may exit at any moment.              *)
(*                                                                             *)
(* A build is a number: a later build has a larger one, and a database holds   *)
(* the number of the last build that migrated it.                              *)
EXTENDS Naturals, Sequences, FiniteSets, FiniteSetsExt

CONSTANTS
  Debugs,       \* debug activations, one per exact source commit
  Selves,       \* activations requested by a Task's release procedure
  Installs,     \* runs of gpt-tunnelctl install-and-restart-gateway
  Recoveries,   \* Gateway recovery operation ids
  Upgrades,     \* runs of the upgrade command
  Operators,    \* operator sessions (gpt-tunnelctl)
  BinaryNames,  \* the installed binaries in the order they are replaced
  Target,       \* the build each activation and upgrade installs
  Plans,        \* [procs, faults]: the processes of one behaviour and how many
                \* times a worker is killed or the Gateway exits in it
  MaxAttempts,  \* maxDebugActivationAttempts
  MaxTunnel,    \* bound: how many times the Tunnel is started
  None

Activations == Debugs \cup Selves \cup Installs
Jobs == Activations \cup Recoveries \cup Upgrades \cup Operators
Builds == {1} \cup {Target[j] : j \in Activations \cup Upgrades}

ASSUME TargetsAreLater ==
  /\ Target \in [Activations \cup Upgrades -> Nat]
  /\ \A j \in DOMAIN Target : Target[j] > 1
  /\ MaxAttempts \in Nat \ {0} /\ MaxTunnel \in Nat \ {0}
  /\ BinaryNames \in Seq(STRING) /\ {"gatewayd", "ctl"} \subseteq Range(BinaryNames)
  /\ \A p \in Plans : p.procs \subseteq Jobs /\ p.faults \in Nat

\* A process is of one kind.
ASSUME JobsAreDistinct ==
  /\ Debugs \cap Selves = {} /\ (Debugs \cup Selves) \cap Installs = {}
  /\ Activations \cap (Recoveries \cup Upgrades \cup Operators) = {}
  /\ Recoveries \cap (Upgrades \cup Operators) = {} /\ Upgrades \cap Operators = {}

VARIABLES
  plan,       \* the processes of this behaviour
  installed,  \* [Binaries -> Builds], the files under ~/.local/bin
  db,         \* [Databases -> Builds]
  gw,         \* the live Gateway process, or None
  pid,        \* does the Gateway PID record exist
  tunnel,     \* [run, up]: the Tunnel process
  lock, dlock, ulock,  \* holders of controller.lock, debug-activation.lock, upgrade.lock
  job,        \* the state of every process
  snap,       \* the recovery snapshot directory of every activation
  receipt,    \* the durable receipt of every debug activation and recovery
  pend,       \* workers scheduled behind an HTTP response and not launched yet
  tx,         \* the durable upgrade transactions
  faults,     \* faults left in this behaviour
  cut,        \* ghost: how far each activation or upgrade has changed the host
  overlap     \* ghost: artifacts written while another process held controller.lock

host == <<installed, db, gw, pid, tunnel>>
locks == <<lock, dlock, ulock>>
books == <<snap, receipt, pend, tx>>
ghosts == <<plan, cut, overlap, faults>>
vars == <<host, locks, job, books, ghosts>>

Binaries == Range(BinaryNames)
Databases == {"shared", "local"}

(* ---------------------------- order of the steps --------------------------- *)
(* Each row is one call of the code: what it does and where the caller goes on *)
(* after success and after an error.                                           *)
Row(op, ok, no) == [op |-> op, ok |-> ok, no |-> no]

\* ActivateGateway up to the end of the candidate's verification.
ActivateGateway ==
  [a_lock    |-> Row("acquire",  "a_check",   "a_end"),
   a_check   |-> Row("validate", "a_stop",    "a_end"),
   a_stop    |-> Row("stop",     "a_capture", "a_end"),
   a_capture |-> Row("capture",  "a_replace", "b_stop"),
   a_replace |-> Row("replace",  "a_spawn",   "b_stop"),
   a_spawn   |-> Row("spawn",    "a_record",  "c_stop"),
   a_record  |-> Row("record",   "a_ready",   "c_stop"),
   a_ready   |-> Row("ready",    "a_verify",  "c_stop"),
   a_verify  |-> Row("verify",   "a_done",    "c_stop")]

\* Mutant: the databases are not put back before the previous binaries start.
RollbackKeepsState ==
  [c_stop    |-> Row("stop",     "b_restore", "x_required"),
   c_state   |-> Row("revert",   "b_restore", "f_replace"),
   b_stop    |-> Row("stop",     "b_restore", "x_required"),
   b_restore |-> Row("restore",  "b_spawn",   "f_replace"),
   b_spawn   |-> Row("spawn",    "b_record",  "b_undo"),
   b_record  |-> Row("record",   "b_ready",   "b_undo"),
   b_ready   |-> Row("ready",    "b_verify",  "b_undo"),
   b_verify  |-> Row("proveold", "x_previous", "b_undo"),
   b_undo    |-> Row("stop",     "f_replace", "x_required")]

\* Its rollback closure: c_* when the candidate may have run, b_* when not.
Rollback ==
  [c_stop    |-> Row("stop",     "c_state",   "x_required"),
   c_state   |-> Row("revert",   "b_restore", "f_replace"),
   b_stop    |-> Row("stop",     "b_restore", "x_required"),
   b_restore |-> Row("restore",  "b_spawn",   "f_replace"),
   b_spawn   |-> Row("spawn",    "b_record",  "b_undo"),
   b_record  |-> Row("record",   "b_ready",   "b_undo"),
   b_ready   |-> Row("ready",    "b_verify",  "b_undo"),
   b_verify  |-> Row("proveold", "x_previous", "b_undo"),
   b_undo    |-> Row("stop",     "f_replace", "x_required")]

\* Mutant: forward recovery that fails is tried again.
RecoverGatewayForwardAgain ==
  [f_replace |-> Row("replace",  "f_spawn",   "x_required"),
   f_spawn   |-> Row("spawn",    "f_record",  "f_stop"),
   f_record  |-> Row("record",   "f_ready",   "f_stop"),
   f_ready   |-> Row("ready",    "f_verify",  "f_stop"),
   f_verify  |-> Row("verify",   "x_serving", "f_stop"),
   f_stop    |-> Row("stop",     "f_replace", "x_required")]

RecoverGatewayForward ==
  [f_replace |-> Row("replace",  "f_spawn",   "x_required"),
   f_spawn   |-> Row("spawn",    "f_record",  "f_stop"),
   f_record  |-> Row("record",   "f_ready",   "f_stop"),
   f_ready   |-> Row("ready",    "f_verify",  "f_stop"),
   f_verify  |-> Row("verify",   "x_serving", "f_stop"),
   f_stop    |-> Row("stop",     "x_required", "x_required")]

\* RestartGatewayRecovery after it has taken the lock.
RestartGatewayRecovery ==
  [r_stop    |-> Row("stop",     "r_spawn",   "r_failed"),
   r_spawn   |-> Row("spawn",    "r_record",  "r_undo"),
   r_record  |-> Row("record",   "r_wait",    "r_undo"),
   r_wait    |-> Row("wait",     "r_ok",      "r_undo"),
   r_undo    |-> Row("stop",     "r_copy",    "r_copy"),
   r_copy    |-> Row("copy",     "r_spawn2",  "r_failed"),
   r_spawn2  |-> Row("spawn",    "r_record2", "r_failed"),
   r_record2 |-> Row("record",   "r_wait2",   "r_failed"),
   r_wait2   |-> Row("wait",     "r_failed",  "r_failed")]

\* Runner.Run from the replacement of the artifacts on.
UpgradeRun ==
  [u_replace |-> Row("replace",  "u_phase",   "v_restore"),
   u_lock2   |-> Row("acquire",  "u_stop",    "v_restore"),
   u_stop    |-> Row("stop",     "u_spawn",   "v_restore"),
   u_spawn   |-> Row("spawn",    "u_record",  "v_restore"),
   u_record  |-> Row("record",   "u_ready",   "v_restore"),
   u_ready   |-> Row("ready",    "u_verify",  "v_restore"),
   u_verify  |-> Row("verify",   "u_clean",   "v_restore")]

UpgradeRollback ==
  [v_restore |-> Row("restore",  "v_stop",    "v_failed"),
   v_stop    |-> Row("stop",     "v_lock2",   "v_failed"),
   v_lock2   |-> Row("acquire",  "v_stop2",   "v_failed"),
   v_stop2   |-> Row("stop",     "v_spawn",   "v_failed"),
   v_spawn   |-> Row("spawn",    "v_record",  "v_failed"),
   v_record  |-> Row("record",   "v_ready",   "v_failed"),
   v_ready   |-> Row("ready",    "v_verify",  "v_failed"),
   v_verify  |-> Row("proveold", "v_clean",   "v_failed")]

\* Controller.Start, Stop and Restart (Stop, then Start under a second lock).
Start ==
  [s_lock    |-> Row("acquire",  "s_spawn",   "idle"),
   s_spawn   |-> Row("spawn",    "s_record",  "idle"),
   s_record  |-> Row("record",   "s_ready",   "idle"),
   s_ready   |-> Row("ready",    "s_tunnel",  "s_undo"),
   s_tunnel  |-> Row("tunnelup", "idle",      "s_undo"),
   s_undo    |-> Row("stop",     "idle",      "idle")]

Stop ==
  [t_lock    |-> Row("acquire",  "t_tunnel",  "idle"),
   t_tunnel  |-> Row("tunneldown", "t_stop",  "idle"),
   t_stop    |-> Row("stop",     "idle",      "idle")]

Restart ==
  [q_lock    |-> Row("acquire",  "q_tunnel",  "idle"),
   q_tunnel  |-> Row("tunneldown", "q_stop",  "idle"),
   q_stop    |-> Row("stop",     "s_lock",    "idle")]

StartGatewayOnly ==
  [g_lock    |-> Row("acquire",  "g_spawn",   "idle"),
   g_spawn   |-> Row("spawn",    "g_record",  "idle"),
   g_record  |-> Row("record",   "g_wait",    "idle"),
   g_wait    |-> Row("wait",     "idle",      "g_undo"),
   g_undo    |-> Row("stop",     "idle",      "idle")]

StopGatewayOnly ==
  [h_lock    |-> Row("acquire",  "h_stop",    "idle"),
   h_stop    |-> Row("stop",     "idle",      "idle")]

\* RestartGatewayOnlyAfterUpgradeDiagnostics: a failure leaves what it started.
RestartGatewayOnly ==
  [k_lock    |-> Row("acquire",  "k_stop",    "idle"),
   k_stop    |-> Row("stop",     "k_spawn",   "idle"),
   k_spawn   |-> Row("spawn",    "k_record",  "idle"),
   k_record  |-> Row("record",   "k_ready",   "idle"),
   k_ready   |-> Row("ready",    "idle",      "idle")]

Flow ==
  [s \in UNION {DOMAIN ActivateGateway, DOMAIN Rollback, DOMAIN RecoverGatewayForward,
                DOMAIN RestartGatewayRecovery, DOMAIN UpgradeRun, DOMAIN UpgradeRollback,
                DOMAIN Start, DOMAIN Stop, DOMAIN Restart, DOMAIN StartGatewayOnly,
                DOMAIN StopGatewayOnly, DOMAIN RestartGatewayOnly} |->
     CASE s \in DOMAIN ActivateGateway -> ActivateGateway[s]
       [] s \in DOMAIN Rollback -> Rollback[s]
       [] s \in DOMAIN RecoverGatewayForward -> RecoverGatewayForward[s]
       [] s \in DOMAIN RestartGatewayRecovery -> RestartGatewayRecovery[s]
       [] s \in DOMAIN UpgradeRun -> UpgradeRun[s]
       [] s \in DOMAIN UpgradeRollback -> UpgradeRollback[s]
       [] s \in DOMAIN Start -> Start[s]
       [] s \in DOMAIN Stop -> Stop[s]
       [] s \in DOMAIN Restart -> Restart[s]
       [] s \in DOMAIN StartGatewayOnly -> StartGatewayOnly[s]
       [] s \in DOMAIN StopGatewayOnly -> StopGatewayOnly[s]
       [] s \in DOMAIN RestartGatewayOnly -> RestartGatewayOnly[s]]

\* Where controller.lock, debug-activation.lock and upgrade.lock are held.
ControllerSites ==
  {"a_check", "a_stop", "a_capture", "a_replace", "a_spawn", "a_record", "a_ready", "a_verify",
   "r_ok", "r_failed",
   "u_stop", "u_spawn", "u_record", "u_ready", "v_stop2", "v_spawn", "v_record", "v_ready",
   "s_spawn", "s_record", "s_ready", "s_tunnel", "s_undo", "t_tunnel", "t_stop",
   "q_tunnel", "q_stop", "g_spawn", "g_record", "g_wait", "g_undo", "h_stop",
   "k_stop", "k_spawn", "k_record", "k_ready"}
  \cup DOMAIN Rollback \cup DOMAIN RecoverGatewayForward \cup DOMAIN RestartGatewayRecovery
EndSites == {"a_done", "a_end", "x_previous", "x_serving", "x_required"}
DebugSites ==
  {"p_prepare", "a_lock"} \cup EndSites
     \cup DOMAIN ActivateGateway \cup DOMAIN Rollback \cup DOMAIN RecoverGatewayForward
UpgradeSites ==
  {"u_backup", "u_phase", "u_clean", "u_complete", "v_failed", "v_clean", "v_complete"}
     \cup DOMAIN UpgradeRun \cup DOMAIN UpgradeRollback
Sites ==
  {"idle", "crashed", "ended", "d_run", "p_prepare", "r_lock", "u_lock"}
     \cup DOMAIN Flow \cup EndSites \cup ControllerSites \cup UpgradeSites

At(j, op) == job[j].pc \in DOMAIN Flow /\ Flow[job[j].pc].op = op

\* Process j goes on at site s; a lock whose scope it leaves is released.
Go(j, s) ==
  /\ job' = [job EXCEPT ![j].pc = s, ![j].i = 1, ![j].bad = FALSE]
  /\ lock' = IF lock = j /\ s \notin ControllerSites THEN None ELSE lock
  /\ dlock' = IF dlock = j /\ s \notin DebugSites THEN None ELSE dlock
  /\ ulock' = IF ulock = j /\ s \notin UpgradeSites THEN None ELSE ulock
Ok(j) == Go(j, Flow[job[j].pc].ok)
No(j) == Go(j, Flow[job[j].pc].no)

(* ------------------------------ the host --------------------------------- *)
Coherent == \A b, c \in Binaries : installed[b] = installed[c]
All(v) == [b \in Binaries |-> v]
MaxOf(a, b) == IF a >= b THEN a ELSE b

\* process(): a record whose process is dead is deleted by whoever looks.
Tracked == gw # None /\ pid
Looked == pid' = Tracked

\* Doctor and the status checks behind every health proof.
GatewayHealthy == Tracked /\ gw.ready /\ gw.ver = installed["gatewayd"]
TunnelHealthy(t) == tunnel.up /\ tunnel.run = t

\* A Gateway that is gone takes the workers it has scheduled with it.
Gone == gw' = None /\ pend' = [j \in DOMAIN pend |-> 0]

\* New files on disk: a running Gateway whose file was renamed over keeps its
\* image, and /proc shows its executable as deleted.
Written(j, set) ==
  /\ installed' = set
  /\ overlap' = (overlap \/ (lock # None /\ lock # j))
Unlink == gw' = IF gw = None THEN None ELSE [gw EXCEPT !.linked = FALSE]

\* Ghost: what an activation finds when it gets the controller lock.
Found == [set |-> installed, db |-> db,
          ran |-> IF gw = None THEN installed["gatewayd"] ELSE gw.ver]

(* ------------------------ starting and stopping --------------------------- *)
AcquireController(j) ==
  /\ At(j, "acquire")
  /\ IF lock = None
     THEN LET s == Flow[job[j].pc].ok IN
          /\ lock' = j
          /\ job' = [job EXCEPT ![j].pc = s,
                       ![j].found = IF j \in Activations THEN Found ELSE @]
          /\ UNCHANGED <<dlock, ulock>>
     ELSE No(j)
  /\ UNCHANGED <<host, books, ghosts>>

\* stopProcess: a recorded process is terminated; a record whose process is
\* already dead is deleted but reported as an unexpected executable; without a
\* record there is nothing to stop.
StopProcess(j) ==
  /\ At(j, "stop")
  /\ \/ Tracked /\ Gone /\ pid' = FALSE /\ Ok(j)
     \/ Tracked /\ No(j) /\ UNCHANGED <<gw, pid, pend>>
     \/ gw = None /\ pid /\ pid' = FALSE /\ No(j) /\ UNCHANGED <<gw, pend>>
     \/ ~pid /\ Ok(j) /\ UNCHANGED <<gw, pid, pend>>
  /\ cut' = IF job[j].pc = "a_stop" /\ job'[j].pc = "a_capture" THEN [cut EXCEPT ![j] = "open"] ELSE cut
  /\ UNCHANGED <<installed, db, tunnel, snap, receipt, tx, plan, overlap, faults>>

\* endpointOwnerPIDs: the processes that listen on the configured endpoint.
EndpointOwner == IF gw = None THEN {} ELSE {gw}

\* An unrecorded process on the endpoint is retired only when its executable
\* can still be resolved: procExe fails for a file that was replaced.
OrphanProvable == \A p \in EndpointOwner : p.linked
EndpointCoherent == \A p \in EndpointOwner : p.linked

\* startProcess up to the fork: fails on a recorded process or on an endpoint
\* owner that cannot be proven, otherwise runs the installed binary.
Spawn(j) ==
  /\ At(j, "spawn")
  /\ \/ /\ ~Tracked /\ OrphanProvable
        /\ gw' = [ver |-> installed["gatewayd"], linked |-> TRUE, ready |-> FALSE]
        /\ pend' = [k \in DOMAIN pend |-> 0]
        /\ Ok(j)
     \/ /\ ~Tracked /\ ~OrphanProvable
        /\ No(j) /\ UNCHANGED <<gw, pend>>
     \/ /\ Tracked
        /\ No(j) /\ UNCHANGED <<gw, pend>>
     \/ /\ ~Tracked /\ OrphanProvable        \* the fork itself fails
        /\ Gone /\ No(j)
  /\ Looked
  /\ cut' = IF job[j].pc = "a_spawn" THEN [cut EXCEPT ![j] = "ran"] ELSE cut
  /\ UNCHANGED <<installed, db, tunnel, snap, receipt, tx, plan, overlap, faults>>

\* The PID record; when it cannot be written the new process is killed.
RecordPID(j) ==
  /\ At(j, "record")
  /\ \/ pid' = TRUE /\ Ok(j) /\ UNCHANGED <<gw, pend>>
     \/ Gone /\ No(j) /\ UNCHANGED pid
  /\ UNCHANGED <<installed, db, tunnel, snap, receipt, tx, ghosts>>

\* Readiness within thirty seconds, and proof that the endpoint is served by
\* the installed file.  The timeout may strike before a slow Gateway is ready.
AwaitReady(j) ==
  /\ At(j, "ready")
  /\ \/ Tracked /\ gw.ready /\ EndpointCoherent /\ Ok(j)
     \/ ~(gw # None /\ gw.ready /\ EndpointCoherent) /\ No(j)
  /\ Looked
  /\ UNCHANGED <<installed, db, gw, tunnel, books, ghosts>>

\* Recovery and StartGatewayOnly poll the endpoint only; recovery also wants
\* the Tunnel process it found.
WaitURL(j) ==
  /\ At(j, "wait")
  /\ LET same == j \in Recoveries => job[j].before.tunnel = tunnel.run IN
     \/ gw # None /\ gw.ready /\ same /\ Ok(j)
     \/ ~(gw # None /\ gw.ready /\ same) /\ No(j)
  /\ UNCHANGED <<host, books, ghosts>>

(* ---------------------------- artifacts and state ------------------------- *)
Old(j) == IF j \in Upgrades THEN tx[j].backup ELSE snap[j].prev

\* ReplaceAll: everything is staged and checked first, then renamed one file
\* after the other; a failed rename puts the old bytes back as far as it can.
ReplaceOne(j) ==
  /\ At(j, "replace")
  /\ LET b == BinaryNames[job[j].i] IN
     /\ Written(j, [installed EXCEPT ![b] = Target[j]])
     /\ IF b = "gatewayd" THEN Unlink ELSE UNCHANGED gw
     /\ IF job[j].i < Len(BinaryNames)
        THEN job' = [job EXCEPT ![j].i = @ + 1] /\ UNCHANGED locks
        ELSE Ok(j) \/ No(j)        \* the manifest or the staging cleanup may still fail
  /\ cut' = IF j \in Upgrades THEN [cut EXCEPT ![j] = "open"] ELSE cut
  /\ UNCHANGED <<db, pid, tunnel, books, plan, faults>>

ReplaceFails(j) ==
  /\ At(j, "replace")
  /\ \/ job[j].i = 1 /\ UNCHANGED <<installed, gw, overlap>>
     \/ \E back \in SUBSET Binaries :
          /\ Written(j, [b \in Binaries |-> IF b \in back THEN Old(j)[b] ELSE installed[b]])
          /\ IF "gatewayd" \in back THEN Unlink ELSE UNCHANGED gw
  /\ No(j)
  /\ UNCHANGED <<db, pid, tunnel, books, plan, cut, faults>>

\* RestoreAll goes on after a file it could not write and reports the first error.
RestoreOne(j) ==
  /\ At(j, "restore")
  /\ LET b == BinaryNames[job[j].i]
         last == job[j].i = Len(BinaryNames)
     IN \/ /\ Written(j, [installed EXCEPT ![b] = Old(j)[b]])
           /\ IF b = "gatewayd" THEN Unlink ELSE UNCHANGED gw
           /\ IF ~last THEN job' = [job EXCEPT ![j].i = @ + 1] /\ UNCHANGED locks
              ELSE IF ~job[j].bad /\ installed' = Old(j) THEN Ok(j) ELSE No(j)
        \/ /\ UNCHANGED <<installed, gw, overlap>>
           /\ IF last THEN No(j)
              ELSE job' = [job EXCEPT ![j].i = @ + 1, ![j].bad = TRUE] /\ UNCHANGED locks
  /\ UNCHANGED <<db, pid, tunnel, books, plan, cut, faults>>

\* CaptureDurableState: an online backup of both databases while no Gateway runs.
CaptureDurableState(j) ==
  /\ At(j, "capture")
  /\ \/ snap' = [snap EXCEPT ![j].db = db] /\ Ok(j)
     \/ No(j) /\ UNCHANGED snap
  /\ UNCHANGED <<host, receipt, pend, tx, ghosts>>

\* RestoreDatabases: both copies are verified, then put in place one by one.
RestoreOneDatabase(j) ==
  /\ At(j, "revert")
  /\ \/ /\ snap[j].db # None
        /\ LET d == <<"shared", "local">>[job[j].i] IN
           /\ db' = [db EXCEPT ![d] = snap[j].db[d]]
           /\ IF d = "local" THEN Ok(j)
              ELSE job' = [job EXCEPT ![j].i = 2] /\ UNCHANGED locks
     \/ No(j) /\ UNCHANGED db
  /\ UNCHANGED <<installed, gw, pid, tunnel, books, ghosts>>

(* -------------------------------- activation ------------------------------ *)
HealthyGatewayRuntime == GatewayHealthy /\ Coherent
CreateRecoverySnapshot == [prev |-> installed, db |-> None]

\* prepareActivationCutover: health, build, candidate smoke, copies of the
\* candidate and of the installed set.  Nothing on the host has changed yet.
PrepareActivationCutover(j) ==
  /\ j \in Activations /\ job[j].pc = "p_prepare"
  /\ tunnel.up
  /\ j \in Selves => Tracked /\ gw.ready
  /\ j \in Installs => HealthyGatewayRuntime
  /\ snap' = [snap EXCEPT ![j] = CreateRecoverySnapshot]
  /\ job' = [job EXCEPT ![j].pc = "a_lock",
               ![j].before = [healthy |-> GatewayHealthy, tunnel |-> tunnel.run,
                              running |-> Tracked, ver |-> installed["gatewayd"]]]
  /\ Looked
  /\ UNCHANGED <<installed, db, gw, tunnel, locks, receipt, pend, tx, ghosts>>

\* Mutant: every failure is reported as retryable.
SettleRetryable(j, outcome, retryable) ==
  IF j \in Debugs
  THEN \/ receipt' = [receipt EXCEPT ![j].outcome = outcome, ![j].retryable = outcome = "failed"]
       \/ UNCHANGED receipt
  ELSE UNCHANGED receipt

\* What a debug activation leaves in its receipt; the write is tried twice.
Settle(j, outcome, retryable) ==
  IF j \in Debugs
  THEN \/ receipt' = [receipt EXCEPT ![j].outcome = outcome, ![j].retryable = retryable]
       \/ UNCHANGED receipt
  ELSE UNCHANGED receipt

PreflightFails(j) ==
  /\ j \in Activations /\ job[j].pc = "p_prepare"
  /\ Settle(j, "failed", TRUE)
  /\ Go(j, IF j \in Debugs THEN "idle" ELSE "ended")
  /\ Looked
  /\ UNCHANGED <<installed, db, gw, tunnel, snap, pend, tx, ghosts>>

\* ValidateBeforeStop: under the lock the world must still be the one the
\* preflight saw, and the copy of the previous set must match the files.
ValidateBeforeStop(j) ==
  /\ At(j, "validate")
  /\ \/ /\ TunnelHealthy(job[j].before.tunnel)
        /\ j \notin Debugs => HealthyGatewayRuntime
        /\ installed = snap[j].prev
        /\ Ok(j)
     \/ No(j)
  /\ Looked
  /\ UNCHANGED <<installed, db, gw, tunnel, books, ghosts>>

\* The candidate's proof: the installed set is the candidate's, the serving
\* process is it, the Tunnel is the same, Doctor and the MCP smoke pass.
VerifyCandidate(j) ==
  /\ At(j, "verify")
  /\ \/ /\ installed = All(Target[j]) /\ GatewayHealthy /\ gw.linked
        /\ TunnelHealthy(job[j].before.tunnel)
        /\ cut' = [cut EXCEPT ![j] = "settled"]
        /\ Ok(j)
     \/ No(j) /\ UNCHANGED cut
  /\ Looked
  /\ UNCHANGED <<installed, db, gw, tunnel, books, plan, overlap, faults>>

\* VerifyRollback and the proof at the end of an upgrade's rollback.
VerifyPrevious(j) ==
  /\ At(j, "proveold")
  /\ \/ /\ j \in Activations => job[j].before.healthy
        /\ installed = Old(j) /\ GatewayHealthy /\ gw.linked
        /\ TunnelHealthy(job[j].before.tunnel)
        /\ cut' = [cut EXCEPT ![j] = "settled"]
        /\ Ok(j)
     \/ No(j) /\ UNCHANGED cut
  /\ Looked
  /\ UNCHANGED <<installed, db, gw, tunnel, books, plan, overlap, faults>>

\* selfActivate after ActivateGateway: the snapshot is kept exactly when forward
\* recovery was needed; a snapshot that cannot be deleted fails the activation.
Retained(s) == s \in {"x_required", "x_serving"}
EndActivation(j) ==
  /\ j \in Activations /\ job[j].pc \in EndSites
  /\ LET s == job[j].pc IN
     \/ /\ ~Retained(s)
        /\ snap' = [snap EXCEPT ![j] = None]
        /\ Settle(j, IF s = "a_done" THEN "succeeded" ELSE "failed", FALSE)
     \/ /\ UNCHANGED snap
        /\ Settle(j, "failed", FALSE)
  /\ Go(j, IF j \in Debugs THEN "idle" ELSE "ended")
  /\ UNCHANGED <<host, pend, tx, ghosts>>

SelfActivate(j) ==
  /\ j \in Selves \cap plan /\ job[j].pc = "idle"
  /\ Go(j, "p_prepare")
  /\ UNCHANGED <<host, books, ghosts>>

\* gpt-tunnelctl install-and-restart-gateway drives the same cutover.
InstallAndRestartGateway(j) ==
  /\ j \in Installs \cap plan /\ job[j].pc = "idle"
  /\ Go(j, "p_prepare")
  /\ UNCHANGED <<host, books, ghosts>>

(* ----------------------------- debug activation --------------------------- *)
Serving == gw # None /\ gw.ready
NoReceipt == [outcome |-> None, retryable |-> FALSE, attempt |-> 0]
MayRetry(r) == r.outcome = "failed" /\ r.retryable /\ r.attempt < MaxAttempts

\* AcceptActivation: the accepted receipt, then a worker behind the response.
\* A receipt that is accepted or in progress only answers; nothing is scheduled.
AcceptActivation(j) ==
  /\ j \in Debugs \cap plan /\ Serving /\ dlock = None
  /\ receipt[j].outcome = None \/ MayRetry(receipt[j])
  /\ receipt' = [receipt EXCEPT ![j] = [outcome |-> "accepted", retryable |-> FALSE,
                                        attempt |-> @.attempt + 1]]
  /\ pend' = [pend EXCEPT ![j] = 1]
  /\ Looked
  /\ UNCHANGED <<installed, db, gw, tunnel, locks, job, snap, tx, ghosts>>

ScheduleWorker(j) ==
  /\ j \in Debugs /\ pend[j] > 0 /\ job[j].pc = "idle"
  /\ pend' = [pend EXCEPT ![j] = @ - 1]
  /\ Go(j, "d_run")
  /\ UNCHANGED <<host, snap, receipt, tx, ghosts>>

RecordLaunchFailure(j) ==
  /\ j \in Debugs /\ pend[j] > 0
  /\ pend' = [pend EXCEPT ![j] = @ - 1]
  /\ receipt' = IF dlock = None /\ receipt[j].outcome \in {"accepted", "in_progress"}
                THEN [receipt EXCEPT ![j].outcome = "failed", ![j].retryable = TRUE]
                ELSE receipt
  /\ UNCHANGED <<host, locks, job, snap, tx, ghosts>>

\* RunActivation: a busy lock ends the worker without an error.
RunActivation(j) ==
  /\ j \in Debugs /\ job[j].pc = "d_run"
  /\ IF dlock = None /\ receipt[j].outcome \in {"accepted", "in_progress"}
     THEN \/ /\ dlock' = j
             /\ receipt' = [receipt EXCEPT ![j].outcome = "in_progress"]
             /\ job' = [job EXCEPT ![j].pc = "p_prepare"]
             /\ UNCHANGED <<lock, ulock>>
          \/ Go(j, "idle") /\ UNCHANGED receipt
     ELSE Go(j, "idle") /\ UNCHANGED receipt
  /\ UNCHANGED <<host, snap, pend, tx, ghosts>>

(* ------------------------------ Gateway recovery -------------------------- *)
\* AcceptGatewayRecovery: an unfinished receipt schedules another worker.
AcceptGatewayRecovery(j) ==
  /\ j \in Recoveries \cap plan /\ Serving /\ pend[j] = 0
  /\ \/ /\ receipt[j].outcome = None /\ lock = None
        /\ receipt' = [receipt EXCEPT ![j].outcome = "accepted"]
     \/ /\ receipt[j].outcome \in {"accepted", "in_progress"}
        /\ UNCHANGED receipt
  /\ pend' = [pend EXCEPT ![j] = 1]
  /\ Looked
  /\ UNCHANGED <<installed, db, gw, tunnel, locks, job, snap, tx, ghosts>>

\* A second worker of the same operation finds the lock busy and gives up.
LaunchGatewayRecoveryWorker(j) ==
  /\ j \in Recoveries /\ pend[j] > 0
  /\ pend' = [pend EXCEPT ![j] = @ - 1]
  /\ IF job[j].pc = "idle" THEN Go(j, "r_lock") ELSE UNCHANGED <<job, locks>>
  /\ UNCHANGED <<host, snap, receipt, tx, ghosts>>

RecordGatewayRecoveryLaunchFailure(j) ==
  /\ j \in Recoveries /\ pend[j] > 0
  /\ pend' = [pend EXCEPT ![j] = @ - 1]
  /\ receipt' = IF lock = None /\ receipt[j].outcome \notin {"succeeded", "failed"}
                THEN [receipt EXCEPT ![j].outcome = "failed"] ELSE receipt
  /\ UNCHANGED <<host, locks, job, snap, tx, ghosts>>

\* The worker takes over an accepted or interrupted operation under the lock,
\* and copies the running executable aside.
BeginRecovery(j) ==
  /\ j \in Recoveries /\ job[j].pc = "r_lock"
  /\ IF lock = None /\ receipt[j].outcome \notin {"succeeded", "failed"}
     THEN \/ /\ lock' = j
             /\ receipt' = [receipt EXCEPT ![j].outcome = "in_progress"]
             /\ \E s \in {"r_stop"} \cup (IF Tracked THEN {"r_failed"} ELSE {}) :
                  job' = [job EXCEPT ![j].pc = s,
                            ![j].before = [healthy |-> FALSE, tunnel |-> tunnel.run, running |-> Tracked,
                                           ver |-> IF Tracked THEN gw.ver ELSE installed["gatewayd"]]]
             /\ Looked
             /\ UNCHANGED <<dlock, ulock>>
          \/ Go(j, "idle") /\ UNCHANGED <<receipt, pid>>
     ELSE Go(j, "idle") /\ UNCHANGED <<receipt, pid>>
  /\ UNCHANGED <<installed, db, gw, tunnel, snap, pend, tx, ghosts>>

\* The copied executable goes back over the Gateway binary only.
CopyExecutable(j) ==
  /\ At(j, "copy")
  /\ \/ /\ job[j].before.running
        /\ Written(j, [installed EXCEPT !["gatewayd"] = job[j].before.ver])
        /\ Unlink /\ Ok(j)
     \/ No(j) /\ UNCHANGED <<installed, gw, overlap>>
  /\ UNCHANGED <<db, pid, tunnel, books, plan, cut, faults>>

FinishRecovery(j) ==
  /\ j \in Recoveries /\ job[j].pc \in {"r_ok", "r_failed"}
  /\ \/ receipt' = [receipt EXCEPT ![j].outcome = IF job[j].pc = "r_ok" THEN "succeeded" ELSE "failed"]
     \/ receipt' = [receipt EXCEPT ![j].outcome = IF job[j].pc = "r_ok" THEN "failed" ELSE @]
     \/ UNCHANGED receipt
  /\ Looked
  /\ Go(j, "idle")
  /\ UNCHANGED <<installed, db, gw, tunnel, snap, pend, tx, ghosts>>

(* -------------------------------- upgrade --------------------------------- *)
NoTx == [phase |-> None, final |-> None, available |-> FALSE, backup |-> None]

\* validateInstalledRuntime and compareVersion: the target is newer than the
\* one version all installed binaries report.
NewerThanInstalled(j) == Coherent /\ Target[j] > installed["ctl"]

\* Inspect without a blocker.
Inspect(j) == GatewayHealthy /\ tunnel.up /\ NewerThanInstalled(j)

\* Every check of Run is made, and the transaction created, before the lock.
UpgradePreflight(j) ==
  /\ j \in Upgrades \cap plan /\ job[j].pc = "idle"
  /\ \/ /\ Inspect(j)
        /\ tx' = [tx EXCEPT ![j].phase = "prepare", ![j].final = "pending"]
        /\ job' = [job EXCEPT ![j].pc = "u_lock",
                     ![j].before = [healthy |-> TRUE, tunnel |-> tunnel.run, running |-> TRUE,
                                    ver |-> installed["ctl"]]]
        /\ UNCHANGED locks
     \/ Go(j, "ended") /\ UNCHANGED tx
  /\ Looked
  /\ UNCHANGED <<installed, db, gw, tunnel, snap, receipt, pend, ghosts>>

\* tx.fail keeps what the transaction said about its backup; the write is best effort.
FailTransaction(j) ==
  /\ \/ tx' = [tx EXCEPT ![j].final = "failed"]
     \/ UNCHANGED tx
  /\ Go(j, "ended")

UpgradeLock(j) ==
  /\ j \in Upgrades /\ job[j].pc = "u_lock"
  /\ IF ulock = None
     THEN /\ ulock' = j
          /\ job' = [job EXCEPT ![j].pc = "u_backup"]
          /\ UNCHANGED <<lock, dlock, tx>>
     ELSE FailTransaction(j)
  /\ UNCHANGED <<host, snap, receipt, pend, ghosts>>

\* Build, validate, copy the installed set; the backup is announced once complete.
UpgradeBackup(j) ==
  /\ j \in Upgrades /\ job[j].pc = "u_backup"
  /\ \/ /\ tx' = [tx EXCEPT ![j].phase = "validate", ![j].available = TRUE, ![j].backup = installed]
        /\ Go(j, "u_replace")
     \/ FailTransaction(j)
  /\ UNCHANGED <<host, snap, receipt, pend, ghosts>>

UpgradePhaseActivate(j) ==
  /\ j \in Upgrades /\ job[j].pc = "u_phase"
  /\ \/ tx' = [tx EXCEPT ![j].phase = "activate"] /\ Go(j, "u_lock2")
     \/ FailTransaction(j)
  /\ UNCHANGED <<host, snap, receipt, pend, ghosts>>

\* The backup is deleted, and only then is the transaction completed.
RemoveUpgradeBackup(j) ==
  /\ j \in Upgrades /\ job[j].pc \in {"u_clean", "v_clean"}
  /\ \/ /\ tx' = [tx EXCEPT ![j].backup = None]
        /\ Go(j, IF job[j].pc = "u_clean" THEN "u_complete" ELSE "v_complete")
     \/ FailTransaction(j)
  /\ UNCHANGED <<host, snap, receipt, pend, ghosts>>

CompleteTransaction(j) ==
  /\ j \in Upgrades /\ job[j].pc \in {"u_complete", "v_complete"}
  /\ \/ tx' = [tx EXCEPT ![j].phase = "complete", ![j].available = FALSE,
                 ![j].final = IF job[j].pc = "u_complete" THEN "UPGRADE_COMPLETE"
                                                             ELSE "UPGRADE_ROLLED_BACK"]
     \/ tx' = [tx EXCEPT ![j].available = FALSE, ![j].final = "failed"]
     \/ UNCHANGED tx
  /\ Go(j, "ended")
  /\ UNCHANGED <<host, snap, receipt, pend, ghosts>>

RollbackFails(j) ==
  /\ j \in Upgrades /\ job[j].pc = "v_failed"
  /\ FailTransaction(j)
  /\ UNCHANGED <<host, snap, receipt, pend, ghosts>>

(* ------------------------------ the operator ------------------------------ *)
Operate(j) ==
  /\ j \in Operators \cap plan /\ job[j].pc = "idle"
  /\ \E s \in {"s_lock", "t_lock", "q_lock", "g_lock", "h_lock", "k_lock"} : Go(j, s)
  /\ UNCHANGED <<host, books, ghosts>>

StartTunnel(j) ==
  /\ At(j, "tunnelup")
  /\ \/ /\ ~tunnel.up /\ tunnel.run < MaxTunnel
        /\ tunnel' = [run |-> tunnel.run + 1, up |-> TRUE] /\ Ok(j)
     \/ No(j) /\ UNCHANGED tunnel
  /\ UNCHANGED <<installed, db, gw, pid, books, ghosts>>

StopTunnel(j) ==
  /\ At(j, "tunneldown")
  /\ \/ tunnel' = [tunnel EXCEPT !.up = FALSE] /\ Ok(j)
     \/ No(j) /\ UNCHANGED tunnel
  /\ UNCHANGED <<installed, db, gw, pid, books, ghosts>>

(* ------------------------- the Gateway and its faults --------------------- *)
\* A starting Gateway opens the databases and migrates what an older build
\* wrote; it refuses a database with a migration marker it does not know.
Readable == \A d \in Databases : db[d] <= gw.ver
Migrate(d) ==
  /\ gw # None /\ ~gw.ready /\ db[d] < gw.ver
  /\ db' = [db EXCEPT ![d] = gw.ver]
  /\ UNCHANGED <<installed, gw, pid, tunnel, locks, job, books, ghosts>>

BecomeReady ==
  /\ gw # None /\ ~gw.ready /\ Readable
  /\ gw' = [gw EXCEPT !.ready = TRUE]
  /\ UNCHANGED <<installed, db, pid, tunnel, locks, job, books, ghosts>>

StartupFails ==
  /\ gw # None /\ ~gw.ready /\ ~Readable
  /\ Gone
  /\ UNCHANGED <<installed, db, pid, tunnel, locks, job, snap, receipt, tx, ghosts>>

GatewayExits ==
  /\ gw # None /\ faults > 0
  /\ Gone /\ faults' = faults - 1
  /\ UNCHANGED <<installed, db, pid, tunnel, locks, job, snap, receipt, tx, plan, cut, overlap>>

\* A worker is killed: its locks are free again, its traces stay.
Crash(j) ==
  /\ job[j].pc \notin {"idle", "ended", "crashed"} /\ faults > 0
  /\ faults' = faults - 1
  /\ Go(j, IF j \in Recoveries \cup Operators THEN "idle" ELSE "crashed")
  /\ UNCHANGED <<host, books, plan, cut, overlap>>

(* ------------------------------ specification ----------------------------- *)
Init ==
  /\ \E p \in Plans : plan = p.procs /\ faults = p.faults
  /\ installed = All(1) /\ db = [d \in Databases |-> 1]
  /\ gw = [ver |-> 1, linked |-> TRUE, ready |-> TRUE] /\ pid = TRUE
  /\ tunnel = [run |-> 1, up |-> TRUE]
  /\ lock = None /\ dlock = None /\ ulock = None
  /\ job = [j \in Jobs |-> [pc |-> "idle", i |-> 1, bad |-> FALSE, found |-> None, before |-> None]]
  /\ snap = [j \in Activations |-> None]
  /\ receipt = [j \in Debugs \cup Recoveries |-> NoReceipt]
  /\ pend = [j \in Debugs \cup Recoveries |-> 0]
  /\ tx = [j \in Upgrades |-> NoTx]
  /\ cut = [j \in Activations \cup Upgrades |-> "none"] /\ overlap = FALSE

\* One step of process j once it runs.
Work(j) ==
  \/ AcquireController(j) \/ StopProcess(j) \/ Spawn(j) \/ RecordPID(j)
  \/ AwaitReady(j) \/ WaitURL(j) \/ ReplaceOne(j) \/ ReplaceFails(j) \/ RestoreOne(j)
  \/ CaptureDurableState(j) \/ RestoreOneDatabase(j)
  \/ PrepareActivationCutover(j) \/ PreflightFails(j) \/ ValidateBeforeStop(j)
  \/ VerifyCandidate(j) \/ VerifyPrevious(j) \/ EndActivation(j) \/ RunActivation(j)
  \/ BeginRecovery(j) \/ CopyExecutable(j) \/ FinishRecovery(j)
  \/ UpgradeLock(j) \/ UpgradeBackup(j) \/ UpgradePhaseActivate(j)
  \/ RemoveUpgradeBackup(j) \/ CompleteTransaction(j) \/ RollbackFails(j)
  \/ StartTunnel(j) \/ StopTunnel(j)

Next ==
  \/ \E j \in Jobs : Work(j)
  \/ \E j \in Selves : SelfActivate(j)
  \/ \E j \in Installs : InstallAndRestartGateway(j)
  \/ \E j \in Debugs : AcceptActivation(j) \/ ScheduleWorker(j) \/ RecordLaunchFailure(j)
  \/ \E j \in Recoveries :
       AcceptGatewayRecovery(j) \/ LaunchGatewayRecoveryWorker(j) \/ RecordGatewayRecoveryLaunchFailure(j)
  \/ \E j \in Upgrades : UpgradePreflight(j)
  \/ \E j \in Operators : Operate(j)
  \/ \E d \in Databases : Migrate(d)
  \/ BecomeReady \/ StartupFails \/ GatewayExits
  \/ \E j \in Jobs : Crash(j)

\* An activation worker that runs goes on running: every wait in it has a
\* deadline.  Nothing is assumed of the other processes or of the Gateway.
Fairness == \A j \in Activations : WF_vars(Work(j))
Spec == Init /\ [][Next]_vars /\ Fairness
(* ------------------------------- properties ------------------------------- *)
\* What the artifacts, databases, locals of the processes, receipts and
\* transactions are made of.
ArtifactSet == [Binaries -> Builds]
DatabaseSet == [Databases -> Builds]
FoundRecord == [set : ArtifactSet, db : DatabaseSet, ran : Builds]
BeforeRecord == [healthy : BOOLEAN, tunnel : 1..MaxTunnel, running : BOOLEAN, ver : Builds]
JobRecord ==
  [pc : Sites, i : 1..Len(BinaryNames), bad : BOOLEAN,
   found : {None} \cup FoundRecord, before : {None} \cup BeforeRecord]
GatewayRecord == [ver : Builds, linked : BOOLEAN, ready : BOOLEAN]
SnapRecord == [prev : ArtifactSet, db : {None} \cup DatabaseSet]
Outcomes == {None, "accepted", "in_progress", "succeeded", "failed"}
ReceiptRecord == [outcome : Outcomes, retryable : BOOLEAN, attempt : 0..MaxAttempts]
TxRecord ==
  [phase : {None, "prepare", "validate", "activate", "complete"},
   final : {None, "pending", "failed", "UPGRADE_COMPLETE", "UPGRADE_ROLLED_BACK"},
   available : BOOLEAN, backup : {None} \cup ArtifactSet]

\* None is no process, no record and no word of the program.
ASSUME NoneAssumption ==
  /\ None \notin Jobs
  /\ None \notin UNION {FoundRecord, BeforeRecord, GatewayRecord, SnapRecord, ArtifactSet, DatabaseSet}
  /\ None \notin {"accepted", "in_progress", "succeeded", "failed", "pending"}

\* Every variable stays within what the files, locks and processes can hold.
TypeHost ==
  /\ installed \in ArtifactSet /\ db \in DatabaseSet
  /\ gw \in {None} \cup GatewayRecord /\ pid \in BOOLEAN
  /\ tunnel \in [run : 1..MaxTunnel, up : BOOLEAN]
TypeProcesses == {lock, dlock, ulock} \subseteq Jobs \cup {None} /\ job \in [Jobs -> JobRecord]
TypeBooks ==
  /\ snap \in [Activations -> {None} \cup SnapRecord]
  /\ receipt \in [Debugs \cup Recoveries -> ReceiptRecord]
  /\ pend \in [Debugs \cup Recoveries -> 0..1]
  /\ tx \in [Upgrades -> TxRecord]
TypeGhosts ==
  /\ plan \subseteq Jobs /\ faults \in Nat /\ overlap \in BOOLEAN
  /\ cut \in [Activations \cup Upgrades -> {"none", "open", "ran", "settled"}]
TypeOK == TypeHost /\ TypeProcesses /\ TypeBooks /\ TypeGhosts

\* A failed candidate's rollback starts the Gateway that was installed when the
\* activation took the lock, on the databases of that moment (or on what the
\* Gateway running then, or that one itself, has migrated since): never the previous binary on the
\* candidate's state, and never a set copied before the lock that another
\* process has replaced meanwhile.  Not promised when an upgrade has written
\* artifacts under the activation's lock.
RollbackStartsMatchingPair ==
  ~overlap =>
    \A j \in Activations :
      (job[j].pc \in {"b_record", "b_ready", "b_verify"} /\ gw # None) =>
        /\ gw.ver = job[j].found.set["gatewayd"]
        /\ \A d \in Databases : db[d] \in {job[j].found.db[d], job[j].found.ran, gw.ver}

\* From its first stop until the candidate or the previous Gateway is proven, an
\* activation has on disk what the way back needs: the binaries it found and,
\* once it has started the candidate in its cutover, the databases it found (or
\* what the Gateway running or installed then has migrated since), whether it is running, has given up or was killed.  An upgrade that has
\* replaced a binary likewise keeps its backup of the set it replaced until the
\* target or the previous set is proven.
WayBackKept ==
  /\ ~overlap => \A j \in Activations :
       /\ cut[j] \in {"open", "ran"} => snap[j] # None /\ snap[j].prev = job[j].found.set
       /\ cut[j] = "ran" => \A d \in Databases :
            snap[j].db[d] \in {job[j].found.db[d], job[j].found.ran, job[j].found.set["gatewayd"]}
  /\ \A j \in Upgrades :
       cut[j] = "open" => tx[j].backup # None /\ tx[j].available

\* Whatever fails or is killed, there is a way back and it leads to the binary
\* and the state that belong together (activateBinaries, the upgrade runner).
WayBackSound == RollbackStartsMatchingPair /\ WayBackKept

\* A debug activation offers a retry only when no attempt has stopped the
\* Gateway or started a candidate, and within the bound on attempts.
RetryOnlyBeforeCutover ==
  \A j \in Debugs :
    /\ receipt[j].retryable => cut[j] = "none"
    /\ receipt[j].outcome \in {"accepted", "in_progress"} /\ cut[j] # "none" => ~MayRetry(receipt[j])

\* A receipt that says how an operation ended keeps saying it: a worker launched
\* late, or one that could not be launched, never rewrites the outcome.
ReceiptsFinal ==
  \A j \in DOMAIN receipt :
    (receipt[j].outcome \in {"succeeded", "failed"} /\ ~(j \in Debugs /\ MayRetry(receipt[j])))
       => receipt'[j] = receipt[j]

\* What a receipt says can be relied on, before and after its operation ends.
ReceiptsHold == [][RetryOnlyBeforeCutover' /\ ReceiptsFinal]_vars

\* An activation that has begun its handoff comes to an end, whatever fails on
\* the way: proven, rolled back, serving forward or asking for recovery, with
\* the controller lock free again.
CutoverSettles ==
  \A j \in Activations :
    job[j].pc \in DOMAIN Flow ~> (job[j].pc \in {"idle", "ended", "crashed"} /\ lock # j)

===============================================================================
