-------------------------- MODULE DaemonLifecycle --------------------------
(***************************************************************************)
(* The app around the engine: DaemonManager (app/DaemonManager.swift) with *)
(* its debounced restart, the PermissionsMonitor it owns, and Daemon       *)
(* (public/swift/Daemon.swift) over the C interface.  All of it runs on    *)
(* the main actor, so a method is a step; between two steps tasks sleep,   *)
(* the user clicks, and permissions are granted and revoked elsewhere.     *)
(***************************************************************************)
EXTENDS Naturals

CONSTANTS
  Options,            \* values of DaemonOptions
  NoEngine,
  MaxChanges          \* bound: changes of the settings

ASSUME LifecycleAssumption == NoEngine \notin Options /\ MaxChanges \in Nat

VARIABLES
  status,             \* DaemonManager.status
  engine,             \* Daemon.state: the options of its FS_Daemon, or nil
  daemons,            \* FS_Daemons created and not destroyed
  settings,           \* settingsStore.daemonOptions
  restart_pending,    \* restartTask sleeps and has not been cancelled
  cancelled_tasks,    \* restart tasks cancelled that have not ended yet
  hadPermissions,     \* of the PermissionsMonitor
  permission,         \* external: AXIsProcessTrusted
  changes             \* changes of the settings so far

vars == <<status, engine, daemons, settings, restart_pending, cancelled_tasks,
          hadPermissions, permission, changes>>

Denied == "accessibilityPermissionDenied"

TypeOK ==
  /\ status \in {"running", "stopped", Denied, "genericError"}
  /\ engine \in Options \cup {NoEngine}
  /\ daemons \in 0 .. 1
  /\ settings \in Options
  /\ restart_pending \in BOOLEAN
  /\ cancelled_tasks \in 0 .. MaxChanges
  /\ hadPermissions \in BOOLEAN
  /\ permission \in BOOLEAN
  /\ changes \in 0 .. MaxChanges

\* The app has been launched; its first start() is still to come.
Launched ==
  /\ status = "stopped"
  /\ engine = NoEngine
  /\ daemons = 0
  /\ restart_pending = FALSE
  /\ cancelled_tasks = 0
  /\ hadPermissions = permission

Init ==
  /\ settings \in Options
  /\ permission \in BOOLEAN
  /\ changes = 0
  /\ Launched

-----------------------------------------------------------------------------
\* Daemon

\* Mutant: stop() drops the FS_Daemon without FS_Destroy.
RemainingLeaked == daemons

\* FS_Daemons left after stop().
Remaining == IF engine = NoEngine THEN daemons ELSE daemons - 1

StopEngine == engine' = NoEngine /\ daemons' = Remaining

\* Mutant: start() does not stop the engine it replaces.
PerformStartTwice ==
  \/ /\ ~permission
     /\ status' = Denied
     /\ UNCHANGED <<engine, daemons>>
  \/ /\ permission
     /\ \/ status' = "running" /\ engine' = settings /\ daemons' = daemons + 1
        \/ status' = "genericError" /\ UNCHANGED <<engine, daemons>>

\* performStart(with: settingsStore.daemonOptions).  The permission is tested
\* before the engine in place is stopped; the new one may fail to be created.
PerformStart ==
  \/ /\ ~permission
     /\ status' = Denied
     /\ UNCHANGED <<engine, daemons>>
  \/ /\ permission
     /\ \/ status' = "running" /\ engine' = settings /\ daemons' = Remaining + 1
        \/ status' = "genericError" /\ StopEngine

-----------------------------------------------------------------------------
\* DaemonManager

\* restartTask?.cancel(): the task still has to wake up to see it.
CancelRestart ==
  /\ restart_pending' = FALSE
  /\ cancelled_tasks' = IF restart_pending THEN cancelled_tasks + 1 ELSE cancelled_tasks

Stop == CancelRestart /\ StopEngine /\ status' = "stopped"

\* The user clicks the status, or the app is launched.  A denied permission is
\* asked for first.
Toggle ==
  /\ \/ status = "running" /\ Stop
     \/ /\ status \in {"stopped", "genericError"} \/ (status = Denied /\ permission)
        /\ PerformStart
        /\ UNCHANGED <<restart_pending, cancelled_tasks>>
  /\ UNCHANGED <<settings, hadPermissions, permission, changes>>

\* Mutant: only a daemon that failed is restarted.
ScheduleRestartIfFailed ==
  IF status = "genericError"
    THEN /\ restart_pending' = TRUE
         /\ cancelled_tasks' = IF restart_pending THEN cancelled_tasks + 1 ELSE cancelled_tasks
    ELSE UNCHANGED <<restart_pending, cancelled_tasks>>

\* scheduleRestart(): a new task replaces the one that is pending.
ScheduleRestart ==
  IF status \in {"running", "genericError"}
    THEN /\ restart_pending' = TRUE
         /\ cancelled_tasks' = IF restart_pending THEN cancelled_tasks + 1 ELSE cancelled_tasks
    ELSE UNCHANGED <<restart_pending, cancelled_tasks>>

\* A setter of the settings view: store the options, schedule a restart.
ChangeSettings(options) ==
  /\ changes < MaxChanges
  /\ changes' = changes + 1
  /\ settings' = options
  /\ ScheduleRestart
  /\ UNCHANGED <<status, engine, daemons, hadPermissions, permission>>

\* The task has slept for 250 ms.
Restart ==
  /\ restart_pending
  /\ restart_pending' = FALSE
  /\ PerformStart
  /\ UNCHANGED <<settings, cancelled_tasks, hadPermissions, permission, changes>>

\* Mutant: Task.isCancelled is not looked at.
CancelledTaskRestarts ==
  /\ cancelled_tasks > 0
  /\ cancelled_tasks' = cancelled_tasks - 1
  /\ PerformStart
  /\ UNCHANGED <<settings, restart_pending, hadPermissions, permission, changes>>

\* A cancelled task wakes up and returns.
CancelledTaskEnds ==
  /\ cancelled_tasks > 0
  /\ cancelled_tasks' = cancelled_tasks - 1
  /\ UNCHANGED <<status, engine, daemons, settings, restart_pending, hadPermissions,
                 permission, changes>>

\* handleAccessibilityPermissionsRevoked()
PermissionsRevoked ==
  /\ CancelRestart
  /\ IF status \in {"running", "genericError"}
       THEN StopEngine /\ status' = Denied
       ELSE UNCHANGED <<status, engine, daemons>>

-----------------------------------------------------------------------------
\* PermissionsMonitor.poll(), once a second.
Poll ==
  /\ hadPermissions' = permission
  /\ IF hadPermissions /\ ~permission
       THEN PermissionsRevoked
       ELSE UNCHANGED <<status, engine, daemons, restart_pending, cancelled_tasks>>
  /\ UNCHANGED <<settings, permission, changes>>

\* The user grants or revokes the permission in the system's settings.
ChangePermission ==
  /\ permission' = ~permission
  /\ UNCHANGED <<status, engine, daemons, settings, restart_pending, cancelled_tasks,
                 hadPermissions, changes>>

Next ==
  \/ Toggle \/ (\E options \in Options : ChangeSettings(options))
  \/ Restart \/ CancelledTaskEnds
  \/ Poll \/ ChangePermission

Spec == Init /\ [][Next]_vars

-----------------------------------------------------------------------------
\* Properties

\* There is an FS_Daemon exactly while Daemon holds one, a status of running
\* is true, and an engine runs under another status only if its restart was
\* denied: start() tests the permission before it stops the engine in place.
OneEngine ==
  /\ daemons = IF engine = NoEngine THEN 0 ELSE 1
  /\ status = "running" => engine # NoEngine
  /\ engine # NoEngine => status \in {"running", Denied}

\* While the daemon is said to run it has the latest settings, or a restart
\* that nothing has cancelled will give it to them.
LatestSettings == status = "running" => engine = settings \/ restart_pending

\* A daemon the user has stopped stays so until the user starts it, whatever
\* restarts were scheduled, cancelled or asleep at the time.
StoppedStays ==
  [][status = "stopped" /\ status' # "stopped" => Toggle]_vars
=============================================================================
