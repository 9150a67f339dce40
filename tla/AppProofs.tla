----------------------------- MODULE AppProofs -----------------------------
(***************************************************************************)
(* Proofs about DaemonLifecycle, for any options and number of changes,    *)
(* and about App: for any values of the options, anything a first launch   *)
(* may find stored, and any number of changes and launches.                *)
(***************************************************************************)
EXTENDS App, TLAPS

-----------------------------------------------------------------------------
(* One launch                                                               *)

(* A task is cancelled at most once for every change that made one, and a  *)
(* stopped daemon has no restart to come.                                  *)
TasksBounded ==
  /\ cancelled_tasks <= changes
  /\ restart_pending => cancelled_tasks < changes

NoRestartWhenStopped == status = "stopped" => ~restart_pending

IInv == TypeOK /\ OneEngine /\ LatestSettings /\ TasksBounded /\ NoRestartWhenStopped

-----------------------------------------------------------------------------
(* The app as it is launched satisfies the invariant.                      *)
LEMMA InitIInv == Init => IInv
  <1> SUFFICES ASSUME Init PROVE IInv
    OBVIOUS
  <1>1. restart_pending \in BOOLEAN /\ hadPermissions \in BOOLEAN /\ ~restart_pending
    BY Zenon DEF Init, Launched
  <1>2. TypeOK
    BY <1>1, LifecycleAssumption DEF Init, Launched, TypeOK
  <1>3. OneEngine /\ LatestSettings /\ TasksBounded /\ NoRestartWhenStopped
    BY <1>1 DEF Init, Launched, OneEngine, LatestSettings, TasksBounded, NoRestartWhenStopped
  <1>4. QED
    BY <1>2, <1>3 DEF IInv

(* Whatever start() comes to, at most one FS_Daemon is left, and a status  *)
(* of running is that of an engine with the settings of the moment.        *)
LEMMA StartKeepsOne ==
  ASSUME TypeOK, OneEngine, PerformStart, UNCHANGED settings
  PROVE  /\ OneEngine'
         /\ status' \in {"running", Denied, "genericError"}
         /\ engine' \in Options \cup {NoEngine} /\ daemons' \in 0 .. 1
         /\ status' = "running" => engine' = settings'
  BY LifecycleAssumption
     DEF TypeOK, OneEngine, PerformStart, StopEngine, Remaining, Denied

(* So does stop(), which leaves none.                                      *)
LEMMA StopLeavesNone ==
  ASSUME TypeOK, OneEngine, StopEngine
  PROVE  engine' = NoEngine /\ daemons' = 0
  BY DEF TypeOK, OneEngine, StopEngine, Remaining

(* Cancelling the restart adds at most the one task that was pending.      *)
LEMMA CancelKeepsBound ==
  ASSUME TypeOK, TasksBounded, CancelRestart, UNCHANGED changes
  PROVE  /\ TasksBounded' /\ cancelled_tasks' \in 0 .. MaxChanges
         /\ restart_pending' \in BOOLEAN /\ ~restart_pending'
  <1>1. restart_pending' \in BOOLEAN /\ ~restart_pending'
    BY Zenon DEF CancelRestart
  <1>2. CASE restart_pending
    BY <1>1, <1>2, LifecycleAssumption DEF TypeOK, TasksBounded, CancelRestart
  <1>3. CASE ~restart_pending
    BY <1>1, <1>3, LifecycleAssumption DEF TypeOK, TasksBounded, CancelRestart
  <1>4. QED
    BY <1>1, <1>2, <1>3

(* Every click, task, poll and change of permissions or settings preserves *)
(* the invariant.                                                          *)
LEMMA NextIInv == IInv /\ [Next]_vars => IInv'
  <1> SUFFICES ASSUME IInv, [Next]_vars PROVE IInv'
    OBVIOUS
  <1>0. TypeOK /\ OneEngine /\ LatestSettings /\ TasksBounded /\ NoRestartWhenStopped
    BY DEF IInv
  <1>1. CASE Toggle
    <2>1. CASE status = "running" /\ Stop
      <3>1. engine' = NoEngine /\ daemons' = 0 /\ status' = "stopped" /\ ~restart_pending'
        BY <2>1, <1>0, StopLeavesNone DEF Stop, CancelRestart
      <3>2. UNCHANGED <<settings, hadPermissions, permission, changes>>
        BY <1>1 DEF Toggle
      <3>3. /\ TasksBounded' /\ cancelled_tasks' \in 0 .. MaxChanges
            /\ restart_pending' \in BOOLEAN /\ ~restart_pending'
        BY <1>0, <2>1, <3>2, CancelKeepsBound DEF Stop
      <3>4. TypeOK'
        BY <1>0, <3>1, <3>2, <3>3 DEF TypeOK
      <3>5. QED
        BY <3>1, <3>3, <3>4 DEF IInv, OneEngine, LatestSettings, NoRestartWhenStopped
    <2>2. CASE /\ PerformStart
               /\ UNCHANGED <<restart_pending, cancelled_tasks, settings,
                              hadPermissions, permission, changes>>
      <3>1. /\ OneEngine' /\ status' \in {"running", Denied, "genericError"}
            /\ engine' \in Options \cup {NoEngine} /\ daemons' \in 0 .. 1
            /\ status' = "running" => engine' = settings'
        BY <1>0, <2>2, StartKeepsOne
      <3>2. QED
        BY <1>0, <2>2, <3>1
           DEF IInv, TypeOK, LatestSettings, TasksBounded, NoRestartWhenStopped, Denied
    <2>3. QED
      BY <1>1, <2>1, <2>2 DEF Toggle
  <1>2. ASSUME NEW options \in Options, ChangeSettings(options) PROVE IInv'
    <2>1. OneEngine' /\ NoRestartWhenStopped' /\ LatestSettings'
      BY <1>0, <1>2 DEF ChangeSettings, ScheduleRestart, OneEngine, LatestSettings,
                        NoRestartWhenStopped
    <2>2. /\ UNCHANGED <<status, engine, daemons, hadPermissions, permission>>
          /\ changes' = changes + 1 /\ changes < MaxChanges /\ settings' \in Options
      BY <1>2 DEF ChangeSettings
    <2>3. /\ restart_pending' \in BOOLEAN /\ TasksBounded'
          /\ cancelled_tasks' \in 0 .. MaxChanges
      <3>1. restart_pending' \in BOOLEAN
        BY <1>0, <1>2, Zenon DEF ChangeSettings, ScheduleRestart, TypeOK
      <3>2. \/ cancelled_tasks' = cancelled_tasks
            \/ restart_pending /\ cancelled_tasks' = cancelled_tasks + 1
        BY <1>2, Zenon DEF ChangeSettings, ScheduleRestart
      <3>3. QED
        BY <1>0, <2>2, <3>1, <3>2, LifecycleAssumption DEF TypeOK, TasksBounded
    <2>4. TypeOK'
      BY <1>0, <2>2, <2>3, LifecycleAssumption DEF TypeOK
    <2>5. QED
      BY <2>1, <2>3, <2>4 DEF IInv
  <1>3. CASE Restart
    <2>1. /\ OneEngine' /\ status' \in {"running", Denied, "genericError"}
          /\ engine' \in Options \cup {NoEngine} /\ daemons' \in 0 .. 1
          /\ status' = "running" => engine' = settings'
      BY <1>0, <1>3, StartKeepsOne DEF Restart
    <2>2. QED
      BY <1>0, <1>3, <2>1
         DEF IInv, Restart, TypeOK, LatestSettings, TasksBounded,
             NoRestartWhenStopped, Denied
  <1>4. CASE CancelledTaskEnds
    BY <1>0, <1>4, LifecycleAssumption
       DEF CancelledTaskEnds, IInv, TypeOK, OneEngine, LatestSettings, TasksBounded,
           NoRestartWhenStopped
  <1>5. CASE Poll
    <2>1. CASE PermissionsRevoked
      <3>1. OneEngine' /\ status' # "running" /\ ~restart_pending'
        BY <1>0, <2>1, StopLeavesNone
           DEF PermissionsRevoked, CancelRestart, OneEngine, Denied
      <3>2. UNCHANGED <<settings, permission, changes>> /\ hadPermissions' = permission
        BY <1>5 DEF Poll
      <3>3. /\ TasksBounded' /\ cancelled_tasks' \in 0 .. MaxChanges
            /\ restart_pending' \in BOOLEAN /\ ~restart_pending'
        BY <1>0, <2>1, <3>2, CancelKeepsBound DEF PermissionsRevoked
      <3>4. /\ status' \in {"running", "stopped", Denied, "genericError"}
            /\ engine' \in Options \cup {NoEngine} /\ daemons' \in 0 .. 1
        BY <1>0, <2>1, StopLeavesNone DEF PermissionsRevoked, TypeOK, Denied
      <3>5. TypeOK'
        BY <1>0, <3>2, <3>3, <3>4 DEF TypeOK
      <3>6. QED
        BY <3>1, <3>3, <3>5 DEF IInv, LatestSettings, NoRestartWhenStopped
    <2>2. CASE UNCHANGED <<status, engine, daemons, restart_pending, cancelled_tasks>>
      BY <1>0, <1>5, <2>2 DEF Poll, IInv, TypeOK, OneEngine, LatestSettings,
                              TasksBounded, NoRestartWhenStopped
    <2>3. QED
      BY <1>5, <2>1, <2>2 DEF Poll
  <1>6. CASE ChangePermission
    BY <1>0, <1>6 DEF ChangePermission, IInv, TypeOK, OneEngine, LatestSettings,
                      TasksBounded, NoRestartWhenStopped
  <1>7. CASE UNCHANGED vars
    BY <1>0, <1>7 DEF vars, IInv, TypeOK, OneEngine, LatestSettings, TasksBounded,
                      NoRestartWhenStopped
  <1>8. QED
    BY <1>1, <1>2, <1>3, <1>4, <1>5, <1>6, <1>7 DEF Next

(* The conjunction is an inductive invariant of the app.                   *)
THEOREM Invariance == Spec => []IInv
  BY InitIInv, NextIInv, PTL DEF Spec

-----------------------------------------------------------------------------
(* The app's state always has its types.                                   *)
THEOREM TypeCorrect == Spec => []TypeOK
  <1>1. IInv => TypeOK
    BY DEF IInv
  <1>2. QED
    BY Invariance, <1>1, PTL

(* No FS_Daemon is leaked or doubled, and a status of running is true.     *)
THEOREM EngineCounted == Spec => []OneEngine
  <1>1. IInv => OneEngine
    BY DEF IInv
  <1>2. QED
    BY Invariance, <1>1, PTL

(* A running daemon has the latest settings or a restart to come.          *)
THEOREM SettingsReachDaemon == Spec => []LatestSettings
  <1>1. IInv => LatestSettings
    BY DEF IInv
  <1>2. QED
    BY Invariance, <1>1, PTL

(* No restart brings back a daemon that the user has stopped.              *)
THEOREM StopHolds == Spec => StoppedStays
  <1>1. IInv /\ [Next]_vars => [status = "stopped" /\ status' # "stopped" => Toggle]_vars
    <2> SUFFICES ASSUME IInv, Next, status = "stopped", status' # "stopped" PROVE Toggle
      BY DEF vars
    <2>1. ~restart_pending
      BY DEF IInv, NoRestartWhenStopped
    <2>2. QED
      BY <2>1 DEF Next, ChangeSettings, Restart, CancelledTaskEnds, Poll,
                  PermissionsRevoked, ChangePermission
  <1>2. QED
    BY Invariance, <1>1, PTL DEF Spec, StoppedStays

-----------------------------------------------------------------------------
(* The app, launch after launch                                             *)

(* What hydration yields: nothing of older versions, and every field set   *)
(* but the curve, which only a Bezier needs.                               *)
HydratedSettings ==
  [enabled : BOOLEAN, duration : Durations, easing : EasingFunction, bezier : Optional(Curves)]

HydratedMessage ==
  [duration : {Unset}, easing : {Unset}, bezier : {Unset}, fps : Framerates,
   intercept : BOOLEAN, jump : BOOLEAN,
   horizontal : HydratedSettings, vertical : HydratedSettings]

-----------------------------------------------------------------------------
(* What an older version stored for both axes has the types of an axis.    *)
LEMMA MigratedTyped ==
  ASSUME NEW o \in Message, NEW s \in GestureSettings
  PROVE  Migrated(o, s) \in GestureSettings
  <1> DEFINE duration == IF o.duration \in {Unset, 200} THEN s.duration ELSE o.duration
             easing == IF o.easing \in {Unset, Quadratic} THEN s.easing ELSE o.easing
             bezier == Or(o.bezier, s.bezier)
  <1>1. /\ o.duration \in Optional(Durations) /\ o.easing \in Optional(EasingFunction)
        /\ o.bezier \in Optional(Curves)
    BY DEF Message
  <1>2. /\ duration \in Optional(Durations) /\ easing \in Optional(EasingFunction)
        /\ bezier \in Optional(Curves)
    BY <1>1 DEF GestureSettings, Or
  <1>3. Migrated(o, s) = [s EXCEPT !.duration = duration, !.easing = easing, !.bezier = bezier]
    BY DEF Migrated
  <1> HIDE DEF duration, easing, bezier
  <1>4. QED
    BY <1>2, <1>3 DEF GestureSettings

(* The settings of an axis are filled in whatever they were.               *)
LEMMA AxisHydrated ==
  ASSUME NEW o \in Message, NEW axis \in Axes
  PROVE  Axis(axis, o) \in HydratedSettings
  <1>1. o[axis] \in Optional(GestureSettings)
    BY DEF Message, Axes
  <1>2. Mutable(o[axis]) \in GestureSettings
    BY <1>1 DEF Mutable, Or, Optional, GestureSettings
  <1>3. ASSUME NEW s \in GestureSettings PROVE Hydrated(axis, s) \in HydratedSettings
    <2> DEFINE enabled == Or(s.enabled, TRUE)
               duration == Or(s.duration, 200)
               easing == Or(s.easing, DefaultEasing[axis])
    <2>1. s.enabled \in Optional(BOOLEAN)
      BY DEF GestureSettings
    <2>2. enabled \in BOOLEAN
      BY <2>1, Zenon DEF Optional, Or
    <2>3. duration \in Durations /\ easing \in EasingFunction
      BY OptionsAssumption
         DEF GestureSettings, Optional, Or, Axes, DefaultEasing, EasingFunction
    <2>4. Hydrated(axis, s) = [s EXCEPT !.enabled = enabled, !.duration = duration,
                                        !.easing = easing]
      BY DEF Hydrated
    <2> HIDE DEF enabled, duration, easing
    <2>5. QED
      BY <2>2, <2>3, <2>4 DEF GestureSettings, HydratedSettings
  <1>4. QED
    BY <1>2, <1>3, MigratedTyped DEF Axis

(* Hydration yields a hydrated message.                                    *)
LEMMA HydrationFills ==
  ASSUME NEW o \in Message
  PROVE  HydrateDaemonOptions(o) \in HydratedMessage
  <1>1. Axis("horizontal", o) \in HydratedSettings /\ Axis("vertical", o) \in HydratedSettings
    BY AxisHydrated DEF Axes
  <1>2. /\ Or(o.fps, 240) \in Framerates
        /\ Or(o.intercept, TRUE) \in BOOLEAN /\ Or(o.jump, TRUE) \in BOOLEAN
    BY OptionsAssumption DEF Message, Optional, Or
  <1>3. QED
    BY <1>1, <1>2 DEF HydrateDaemonOptions, HydratedMessage

(* A hydrated message is one the settings may hold.                        *)
LEMMA HydratedIsMessage == HydratedMessage \subseteq Message
  BY DEF HydratedMessage, HydratedSettings, Message, GestureSettings, Optional

(* An axis that is hydrated stays as it is.                                *)
LEMMA AxisKept ==
  ASSUME NEW o \in HydratedMessage, NEW axis \in Axes
  PROVE  Axis(axis, o) = o[axis]
  <1>1. o[axis] \in HydratedSettings /\ o.duration = Unset /\ o.easing = Unset /\ o.bezier = Unset
    BY DEF HydratedMessage, Axes
  <1>2. o[axis] # Unset
    BY <1>1, OptionsAssumption DEF HydratedSettings, GestureSettings, Optional
  <1>3. Mutable(o[axis]) = o[axis]
    BY <1>2 DEF Mutable, Or
  <1>4. ASSUME NEW s \in HydratedSettings PROVE Migrated(o, s) = s
    BY <1>1, <1>4 DEF Migrated, HydratedSettings, Or
  <1>5. ASSUME NEW s \in HydratedSettings PROVE Hydrated(axis, s) = s
    BY <1>5, OptionsAssumption DEF Hydrated, HydratedSettings, Or
  <1>6. QED
    BY <1>1, <1>3, <1>4, <1>5 DEF Axis

(* A second hydration changes nothing.                                     *)
LEMMA HydrationIdempotent ==
  ASSUME NEW o \in HydratedMessage
  PROVE  HydrateDaemonOptions(o) = o
  <1>1. Axis("horizontal", o) = o.horizontal /\ Axis("vertical", o) = o.vertical
    BY AxisKept DEF Axes
  <1>2. Or(o.fps, 240) = o.fps /\ Or(o.intercept, TRUE) = o.intercept /\ Or(o.jump, TRUE) = o.jump
    BY OptionsAssumption DEF HydratedMessage, Or
  <1>3. QED
    BY <1>1, <1>2 DEF HydrateDaemonOptions, HydratedMessage

-----------------------------------------------------------------------------
(* The fields of the view, one by one.                                     *)
LEMMA FieldsOfView ==
  /\ \A axis \in Axes : \A name \in {"enabled", "duration", "easing", "bezier"} : <<axis, name>> \in Fields
  /\ \A f \in Fields :
       \/ \E axis \in Axes : \E name \in {"enabled", "duration", "easing", "bezier"} :
            f = <<axis, name>>
       \/ f = <<"fps">> \/ f = <<"intercept">> \/ f = <<"jump">>
  BY DEF Fields

(* A setter writes the values of its field.                                *)
LEMMA ValuesTyped ==
  /\ \A axis \in Axes : /\ Values(<<axis, "enabled">>) = BOOLEAN
                         /\ Values(<<axis, "duration">>) = Durations
                         /\ Values(<<axis, "easing">>) = EasingFunction
                         /\ Values(<<axis, "bezier">>) = Curves
  /\ Values(<<"fps">>) = Framerates
  /\ Values(<<"intercept">>) = BOOLEAN /\ Values(<<"jump">>) = BOOLEAN
  BY DEF Values

(* A setter of an axis: the other fields of the axis stay as they are.     *)
LEMMA AxisSetter ==
  ASSUME NEW s \in HydratedSettings, NEW name \in {"enabled", "duration", "easing", "bezier"},
         NEW axis \in Axes, NEW value \in Values(<<axis, name>>)
  PROVE  /\ [s EXCEPT ![name] = value] \in HydratedSettings
         /\ [s EXCEPT ![name] = value][name] = value
         /\ \A other \in {"enabled", "duration", "easing", "bezier"} \ {name} :
              [s EXCEPT ![name] = value][other] = s[other]
  <1>1. CASE name = "enabled"
    BY <1>1, ValuesTyped DEF HydratedSettings
  <1>2. CASE name = "duration"
    BY <1>2, ValuesTyped DEF HydratedSettings
  <1>3. CASE name = "easing"
    BY <1>3, ValuesTyped DEF HydratedSettings
  <1>4. CASE name = "bezier"
    BY <1>4, ValuesTyped DEF HydratedSettings, Optional
  <1>5. QED
    BY <1>1, <1>2, <1>3, <1>4

(* A setter leaves the settings hydrated, sets its own field and no other. *)
LEMMA SetterSetsOneField ==
  ASSUME NEW o \in HydratedMessage, NEW f \in Fields, NEW value \in Values(f)
  PROVE  /\ Write(o, f, value) \in HydratedMessage
         /\ Read(Write(o, f, value), f) = value
         /\ \A g \in Fields \ {f} : Read(Write(o, f, value), g) = Read(o, g)
  <1> DEFINE Names == {"enabled", "duration", "easing", "bezier"}
  <1>1. ASSUME NEW axis \in Axes, NEW name \in Names, f = <<axis, name>>
        PROVE  /\ Write(o, f, value) \in HydratedMessage
               /\ Read(Write(o, f, value), f) = value
               /\ \A g \in Fields \ {f} : Read(Write(o, f, value), g) = Read(o, g)
    <2> DEFINE t == [o[axis] EXCEPT ![name] = value]
               w == [o EXCEPT ![axis] = t]
    <2>1. o[axis] \in HydratedSettings
      BY DEF Axes, HydratedMessage
    <2>2. Mutable(o[axis]) = o[axis]
      BY <2>1, OptionsAssumption DEF HydratedSettings, GestureSettings, Optional, Mutable, Or
    <2>3. Write(o, f, value) = w
      BY <1>1, <2>2 DEF Write
    <2>4. /\ t \in HydratedSettings /\ t[name] = value
          /\ \A other \in Names \ {name} : t[other] = o[axis][other]
      BY <1>1, <2>1, AxisSetter
    <2> HIDE DEF t
    <2>5. w \in HydratedMessage
      BY <2>4 DEF Axes, HydratedMessage
    <2>6. w[axis] = t
      BY DEF Axes, HydratedMessage
    <2>7. \A other \in Axes \ {axis} : w[other] = o[other]
      BY DEF Axes, HydratedMessage
    <2>8. w["fps"] = o["fps"] /\ w["intercept"] = o["intercept"] /\ w["jump"] = o["jump"]
      BY DEF Axes, HydratedMessage
    <2> HIDE DEF w
    <2>9. Read(w, f) = value
      BY <1>1, <2>4, <2>6 DEF Read
    <2>10. ASSUME NEW g \in Fields \ {f} PROVE Read(w, g) = Read(o, g)
      <3>1. ASSUME NEW a \in Axes, NEW n \in Names, g = <<a, n>> PROVE Read(w, g) = Read(o, g)
        <4>1. a # axis \/ n # name
          BY <1>1, <3>1
        <4>2. w[a][n] = o[a][n]
          BY <2>4, <2>6, <2>7, <4>1
        <4>3. QED
          BY <3>1, <4>2 DEF Read
      <3>2. CASE g = <<"fps">> \/ g = <<"intercept">> \/ g = <<"jump">>
        BY <2>8, <3>2 DEF Read
      <3>3. QED
        BY <3>1, <3>2, FieldsOfView
    <2>11. QED
      BY <2>3, <2>5, <2>9, <2>10
  <1>2. ASSUME NEW name \in {"fps", "intercept", "jump"}, f = <<name>>
        PROVE  /\ Write(o, f, value) \in HydratedMessage
               /\ Read(Write(o, f, value), f) = value
               /\ \A g \in Fields \ {f} : Read(Write(o, f, value), g) = Read(o, g)
    <2> DEFINE w == [o EXCEPT ![name] = value]
    <2>1. Write(o, f, value) = w
      BY <1>2 DEF Write
    <2>2. w \in HydratedMessage
      BY <1>2, ValuesTyped DEF HydratedMessage
    <2>3. w[name] = value
      BY DEF HydratedMessage
    <2>4. \A other \in {"fps", "intercept", "jump", "horizontal", "vertical"} \ {name} :
            w[other] = o[other]
      BY DEF HydratedMessage
    <2> HIDE DEF w
    <2>5. Read(w, f) = value
      BY <1>2, <2>3 DEF Read
    <2>6. ASSUME NEW g \in Fields \ {f} PROVE Read(w, g) = Read(o, g)
      <3>1. ASSUME NEW a \in Axes, NEW n \in Names, g = <<a, n>> PROVE Read(w, g) = Read(o, g)
        BY <2>4, <3>1 DEF Read, Axes
      <3>2. ASSUME NEW n \in {"fps", "intercept", "jump"}, g = <<n>> PROVE Read(w, g) = Read(o, g)
        <4>1. n # name
          BY <1>2, <3>2
        <4>2. QED
          BY <2>4, <3>2, <4>1 DEF Read
      <3>3. QED
        BY <3>1, <3>2, FieldsOfView
    <2>7. QED
      BY <2>1, <2>2, <2>5, <2>6
  <1>3. QED
    BY <1>1, <1>2, FieldsOfView

-----------------------------------------------------------------------------
(* An axis keeps what an older version was told for it, and takes what one *)
(* was told for both.                                                      *)
LEMMA AxisKeepsChoices ==
  ASSUME NEW o \in Message, NEW axis \in Axes
  PROVE  LET a == Axis(axis, o)
             m == Mutable(o[axis])
         IN  /\ m.enabled # Unset => a.enabled = m.enabled
             /\ IF o.duration \notin {Unset, 200} THEN a.duration = o.duration
                ELSE m.duration # Unset => a.duration = m.duration
             /\ IF o.easing \notin {Unset, Quadratic} THEN a.easing = o.easing
                ELSE m.easing # Unset => a.easing = m.easing
             /\ a.bezier = Or(o.bezier, m.bezier)
  <1>1. o[axis] \in Optional(GestureSettings)
    BY DEF Message, Axes
  <1>2. PICK m \in GestureSettings : m = Mutable(o[axis])
    BY <1>1 DEF Mutable, Or, Optional, GestureSettings
  <1>3. PICK s \in GestureSettings : s = Migrated(o, m)
    BY MigratedTyped
  <1>4. /\ s.enabled = m.enabled
        /\ s.duration = IF o.duration \in {Unset, 200} THEN m.duration ELSE o.duration
        /\ s.easing = IF o.easing \in {Unset, Quadratic} THEN m.easing ELSE o.easing
        /\ s.bezier = Or(o.bezier, m.bezier)
    BY <1>3 DEF Migrated, GestureSettings
  <1>5. LET h == Hydrated(axis, s)
        IN  /\ h.enabled = Or(s.enabled, TRUE) /\ h.duration = Or(s.duration, 200)
            /\ h.easing = Or(s.easing, DefaultEasing[axis]) /\ h.bezier = s.bezier
    BY DEF Hydrated, GestureSettings
  <1>6. Axis(axis, o) = Hydrated(axis, s)
    BY <1>2, <1>3 DEF Axis
  <1>7. QED
    BY <1>2, <1>4, <1>5, <1>6 DEF Or

(* The first launch keeps what was chosen before, whatever is stored.      *)
LEMMA LaunchKeepsChoices ==
  ASSUME NEW data \in Stored \cup {None, Garbage}
  PROVE  /\ Load(data) \in HydratedMessage
         /\ \A f \in Fields : ChosenBefore(data)[f] # Unset =>
              Read(Load(data), f) = ChosenBefore(data)[f]
  <1>1. DefaultDaemonOptions \in HydratedMessage
    BY OptionsAssumption
       DEF DefaultDaemonOptions, DefaultGestureSettings, DefaultEasing, HydratedMessage,
           HydratedSettings, EasingFunction, Optional
  <1>2. CASE data \in {None, Garbage}
    BY <1>1, <1>2 DEF Load, Hydrate, ChosenBefore
  <1>3. CASE data \in Stored
    <2>1. data \in Message /\ data \notin {None, Garbage}
      BY <1>3, AppAssumption
    <2>2. Load(data) = HydrateDaemonOptions(data)
      BY <2>1 DEF Load, Hydrate
    <2>3. ASSUME NEW axis \in Axes, NEW name \in {"enabled", "duration", "easing", "bezier"},
                 ChosenBefore(data)[<<axis, name>>] # Unset
          PROVE  Read(Load(data), <<axis, name>>) = ChosenBefore(data)[<<axis, name>>]
      <3> DEFINE m == Mutable(data[axis])
      <3>1. <<axis, name>> \in Fields
        BY FieldsOfView
      <3>2. ChosenBefore(data)[<<axis, name>>] =
              CASE name = "duration" /\ data.duration \notin {Unset, 200} -> data.duration
                [] name = "easing" /\ data.easing \notin {Unset, Quadratic} -> data.easing
                [] name = "bezier" /\ data.bezier # Unset -> data.bezier
                [] OTHER -> m[name]
        BY <2>1, <3>1 DEF ChosenBefore
      <3>3. Read(Load(data), <<axis, name>>) = Axis(axis, data)[name]
        BY <2>2 DEF Read, HydrateDaemonOptions, Axes
      <3> HIDE DEF m
      <3>4. QED
        BY <2>1, <2>3, <3>2, <3>3, AxisKeepsChoices DEF m, Or
    <2>4. ASSUME NEW name \in {"fps", "intercept", "jump"}, ChosenBefore(data)[<<name>>] # Unset
          PROVE  Read(Load(data), <<name>>) = ChosenBefore(data)[<<name>>]
      <3>1. <<name>> \in Fields
        BY DEF Fields
      <3>2. ChosenBefore(data)[<<name>>] = data[name]
        BY <2>1, <3>1 DEF ChosenBefore
      <3>3. \A default : Or(data[name], default) = data[name]
        BY <2>4, <3>2, Zenon DEF Or
      <3>4. HydrateDaemonOptions(data)[name] = data[name]
        <4>1. /\ HydrateDaemonOptions(data)["fps"] = Or(data["fps"], 240)
              /\ HydrateDaemonOptions(data)["intercept"] = Or(data["intercept"], TRUE)
              /\ HydrateDaemonOptions(data)["jump"] = Or(data["jump"], TRUE)
          BY DEF HydrateDaemonOptions
        <4>2. CASE name = "fps"
          BY <3>3, <4>1, <4>2, Zenon
        <4>3. CASE name = "intercept"
          BY <3>3, <4>1, <4>3, Zenon
        <4>4. CASE name = "jump"
          BY <3>3, <4>1, <4>4, Zenon
        <4>5. QED
          BY <4>2, <4>3, <4>4
      <3>5. QED
        BY <2>2, <3>2, <3>4 DEF Read
    <2>5. QED
      BY <2>1, <2>2, <2>3, <2>4, HydrationFills, FieldsOfView
  <1>4. QED
    BY <1>2, <1>3

-----------------------------------------------------------------------------
(* ChoicesKept says nothing of the next launch, which hydrates again: that *)
(* it loses no choice, and that the engine was not started with options    *)
(* whose defaults are nobody's, rests on the settings being hydrated.      *)
SettingsHydrated == settings \in HydratedMessage /\ engine \in HydratedMessage \cup {NoEngine}

AppIInv == IInv /\ SettingsHydrated /\ DOMAIN chosen = Fields /\ ChoicesKept

(* Every first launch satisfies it.                                        *)
LEMMA InitAppIInv == AppInit => AppIInv
  <1> SUFFICES ASSUME AppInit PROVE AppIInv
    OBVIOUS
  <1>1. PICK data \in Stored \cup {None, Garbage} :
          settings = Load(data) /\ chosen = ChosenBefore(data)
    BY DEF AppInit
  <1>2. settings \in HydratedMessage /\ DOMAIN chosen = Fields /\ ChoicesKept
    BY <1>1, LaunchKeepsChoices DEF ChosenBefore, ChoicesKept
  <1>3. Init
    BY <1>2, HydratedIsMessage, AppAssumption DEF AppInit, Init
  <1>4. engine = NoEngine
    BY DEF AppInit, Launched
  <1>5. QED
    BY <1>2, <1>3, <1>4, InitIInv DEF AppIInv, SettingsHydrated

(* A launch finds the settings hydrated and leaves them as they are.       *)
LEMMA RelaunchKeeps == AppIInv /\ Relaunch => AppIInv' /\ settings' = settings
  <1> SUFFICES ASSUME AppIInv, Relaunch PROVE AppIInv' /\ settings' = settings
    OBVIOUS
  <1>1. IInv /\ SettingsHydrated /\ DOMAIN chosen = Fields /\ ChoicesKept
    BY DEF AppIInv
  <1>2. settings \in Message
    BY <1>1, HydratedIsMessage DEF SettingsHydrated
  <1>3. settings' = settings
    BY <1>1, <1>2, AppAssumption, HydrationIdempotent
       DEF Relaunch, Load, Hydrate, SettingsHydrated
  <1>4. /\ status' = "stopped" /\ engine' = NoEngine /\ daemons' = 0
        /\ restart_pending' = FALSE /\ cancelled_tasks' = 0
        /\ hadPermissions' = permission /\ UNCHANGED <<permission, changes, chosen>>
    BY DEF Relaunch
  <1>5. TypeOK'
    <2>1. restart_pending' \in BOOLEAN /\ hadPermissions' \in BOOLEAN
      BY <1>1, <1>4, Zenon DEF IInv, TypeOK
    <2>2. QED
      BY <1>1, <1>3, <1>4, <2>1, LifecycleAssumption DEF IInv, TypeOK
  <1>6. OneEngine' /\ LatestSettings' /\ TasksBounded' /\ NoRestartWhenStopped'
    <2>1. changes \in Nat
      BY <1>1 DEF IInv, TypeOK
    <2>2. QED
      BY <1>4, <2>1 DEF OneEngine, LatestSettings, TasksBounded, NoRestartWhenStopped
  <1>7. QED
    BY <1>1, <1>3, <1>4, <1>5, <1>6 DEF AppIInv, IInv, SettingsHydrated, ChoicesKept

(* Every step of the app preserves it.                                     *)
LEMMA NextAppIInv == AppIInv /\ [AppNext]_appVars => AppIInv'
  <1> SUFFICES ASSUME AppIInv, [AppNext]_appVars PROVE AppIInv'
    OBVIOUS
  <1>1. IInv /\ SettingsHydrated /\ DOMAIN chosen = Fields /\ ChoicesKept
    BY DEF AppIInv
  <1>2. ASSUME NEW f \in Fields, NEW value \in Values(f), Choose(f, value) PROVE AppIInv'
    <2>1. /\ settings' = Write(settings, f, value) /\ UNCHANGED engine
          /\ chosen' = [chosen EXCEPT ![f] = value]
      BY <1>2 DEF Choose, ChangeSettings
    <2>2. /\ settings' \in HydratedMessage /\ Read(settings', f) = value
          /\ \A g \in Fields \ {f} : Read(settings', g) = Read(settings, g)
      BY <1>1, <2>1, SetterSetsOneField DEF SettingsHydrated
    <2>3. IInv'
      <3>1. Write(settings, f, value) \in Options
        BY <2>1, <2>2, HydratedIsMessage, AppAssumption
      <3>2. Next
        BY <1>2, <3>1 DEF Choose, Next
      <3>3. QED
        BY <1>1, <3>2, NextIInv
    <2>4. DOMAIN chosen' = Fields /\ ChoicesKept'
      BY <1>1, <2>1, <2>2 DEF ChoicesKept
    <2>5. QED
      BY <1>1, <2>1, <2>2, <2>3, <2>4 DEF AppIInv, SettingsHydrated
  <1>3. CASE (Toggle \/ Restart \/ CancelledTaskEnds \/ Poll \/ ChangePermission)
               /\ UNCHANGED chosen
    <2>1. IInv'
      BY <1>1, <1>3, NextIInv DEF Next
    <2>2. settings' = settings /\ (engine' = engine \/ engine' = NoEngine \/ engine' = settings)
      BY <1>3 DEF Toggle, Stop, StopEngine, PerformStart, Restart, CancelledTaskEnds, Poll,
                  PermissionsRevoked, ChangePermission
    <2>3. QED
      BY <1>1, <1>3, <2>1, <2>2 DEF AppIInv, SettingsHydrated, ChoicesKept
  <1>4. CASE Relaunch
    BY <1>4, RelaunchKeeps
  <1>5. CASE UNCHANGED appVars
    <2>1. IInv'
      BY <1>1, <1>5, NextIInv DEF appVars
    <2>2. UNCHANGED <<settings, engine, chosen>>
      BY <1>5 DEF appVars, vars
    <2>3. QED
      BY <1>1, <2>1, <2>2 DEF AppIInv, SettingsHydrated, ChoicesKept
  <1>6. QED
    BY <1>2, <1>3, <1>4, <1>5 DEF AppNext

(* The conjunction is an inductive invariant of the app across launches.   *)
THEOREM AppInvariance == AppSpec => []AppIInv
  BY InitAppIInv, NextAppIInv, PTL DEF AppSpec

-----------------------------------------------------------------------------
(* The app's state has its types whatever was stored and however often it  *)
(* is launched: a setter, or hydration, never leaves settings of no type.  *)
THEOREM AppTypeCorrect == AppSpec => []TypeOK
  <1>1. AppIInv => TypeOK
    BY DEF AppIInv, IInv
  <1>2. QED
    BY AppInvariance, <1>1, PTL

(* No choice of the user is ever lost: not to another setter, to an older  *)
(* version's settings, to a default, or to a launch.                       *)
THEOREM ChoicesStand == AppSpec => []ChoicesKept
  <1>1. AppIInv => ChoicesKept
    BY DEF AppIInv
  <1>2. QED
    BY AppInvariance, <1>1, PTL

(* The engine's fallbacks never show: it animates as the view says, and    *)
(* every key it would take is tapped.                                      *)
THEOREM EngineShown == AppSpec => []EngineAsShown
  <1>1. ASSUME NEW e \in HydratedMessage, NEW axis \in Axes
        PROVE  /\ IsAxisEnabled(e, axis) = Read(e, <<axis, "enabled">>)
               /\ DurationForAxis(e, axis) = Read(e, <<axis, "duration">>)
               /\ EasingFunctionForAxis(e, axis) =
                    [easing |-> Read(e, <<axis, "easing">>), bezier |-> Read(e, <<axis, "bezier">>)]
    <2>1. \A name \in {"enabled", "duration", "easing", "bezier"} :
            Read(e, <<axis, name>>) = e[axis][name]
      BY DEF Read
    <2>2. e[axis] \in HydratedSettings
      BY DEF HydratedMessage, Axes
    <2>3. /\ e[axis] # Unset /\ e[axis].duration # Unset /\ e[axis].easing # Unset
          /\ e[axis].enabled \in BOOLEAN
      BY <2>2, OptionsAssumption DEF HydratedSettings, GestureSettings, Optional
    <2>4. IsAxisEnabled(e, axis) = e[axis].enabled
      BY <2>3, Zenon DEF IsAxisEnabled, IsSet
    <2>5. DurationForAxis(e, axis) = e[axis].duration
      BY <2>3 DEF DurationForAxis
    <2>6. EasingFunctionForAxis(e, axis) = [easing |-> e[axis].easing, bezier |-> e[axis].bezier]
      BY <2>3 DEF EasingFunctionForAxis, FromGestureSettings, Or
    <2>7. QED
      BY <2>1, <2>4, <2>5, <2>6
  <1>2. ASSUME NEW e \in HydratedMessage,
               \/ IsSet(e.intercept) /\ \E axis \in Axes : IsAxisEnabled(e, axis)
               \/ IsSet(e.jump) /\ IsAxisEnabled(e, "horizontal")
        PROVE  TapsKeys(e)
    BY <1>2 DEF TapsKeys, IsAxisEnabled
  <1>3. AppIInv => EngineAsShown
    BY <1>1, <1>2 DEF AppIInv, SettingsHydrated, EngineAsShown
  <1>4. QED
    BY AppInvariance, <1>3, PTL

(* No FS_Daemon is leaked or doubled, from one launch to the next either.  *)
THEOREM AppEngineCounted == AppSpec => []OneEngine
  <1>1. AppIInv => OneEngine
    BY DEF AppIInv, IInv
  <1>2. QED
    BY AppInvariance, <1>1, PTL

(* A running daemon has the latest settings or a restart to come.          *)
THEOREM AppSettingsReachDaemon == AppSpec => []LatestSettings
  <1>1. AppIInv => LatestSettings
    BY DEF AppIInv, IInv
  <1>2. QED
    BY AppInvariance, <1>1, PTL

(* No restart, and no launch by itself, brings back a daemon that the user *)
(* has stopped.                                                            *)
THEOREM AppStopHolds == AppSpec => StoppedStays
  <1>1. AppIInv /\ [AppNext]_appVars => [status = "stopped" /\ status' # "stopped" => Toggle]_vars
    <2> SUFFICES ASSUME AppIInv, [AppNext]_appVars, status = "stopped", status' # "stopped"
                 PROVE  Toggle
      BY DEF vars
    <2>1. ~restart_pending
      BY DEF AppIInv, IInv, NoRestartWhenStopped
    <2>2. QED
      BY <2>1 DEF AppNext, appVars, vars, Choose, ChangeSettings, Relaunch, Restart,
                  CancelledTaskEnds, Poll, PermissionsRevoked, ChangePermission
  <1>2. QED
    BY AppInvariance, <1>1, PTL DEF AppSpec, StoppedStays
=============================================================================
