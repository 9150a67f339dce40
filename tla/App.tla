-------------------------------- MODULE App --------------------------------
(***************************************************************************)
(* The app from one launch to the next: the options in UserDefaults        *)
(* (app/SettingsStore.swift), which every launch hydrates and every access *)
(* parses again, the setters of the settings view                          *)
(* (app/ViewModels/SettingsViewModel.swift), which read them, change a     *)
(* field and write them back, and the daemon started with them.  What is   *)
(* stored and the settings are the same between two launches.              *)
(***************************************************************************)
EXTENDS DaemonLifecycle, DaemonOptions, Sequences

CONSTANTS Stored,      \* what UserDefaults may hold before the first launch
          None,        \* nothing is stored
          Garbage      \* what is stored does not parse

ASSUME AppAssumption ==
  /\ Options = Message /\ Stored \subseteq Message
  /\ None \notin Message /\ Garbage \notin Message

VARIABLE chosen        \* history: the user's choice for each field

appVars == <<vars, chosen>>

\* The fields of the settings view.
Fields ==
  {<<axis, field>> : axis \in Axes, field \in {"enabled", "duration", "easing", "bezier"}}
    \cup {<<"fps">>, <<"intercept">>, <<"jump">>}

Values(f) ==
  CASE f[Len(f)] \in {"enabled", "intercept", "jump"} -> BOOLEAN
    [] f[Len(f)] = "duration" -> Durations
    [] f[Len(f)] = "easing" -> EasingFunction
    [] f[Len(f)] = "bezier" -> Curves
    [] f[Len(f)] = "fps" -> Framerates

Read(options, f) == IF Len(f) = 2 THEN options[f[1]][f[2]] ELSE options[f[1]]

Write(options, f, value) ==
  IF Len(f) = 2 THEN [options EXCEPT ![f[1]] = [Mutable(@) EXCEPT ![f[2]] = value]]
  ELSE [options EXCEPT ![f[1]] = value]

\* hydrateDaemonOptions() of public/swift/DaemonOptions.swift
Hydrate(data) == IF data = None THEN DefaultDaemonOptions ELSE HydrateDaemonOptions(data)

\* SettingsStore.init(): what does not parse is replaced.
Load(data) == IF data = Garbage THEN DefaultDaemonOptions ELSE Hydrate(data)

\* What the user chose in an older version, but for its defaults.
ChosenBefore(data) ==
  [f \in Fields |->
     IF data \in {None, Garbage} THEN Unset
     ELSE CASE f[Len(f)] = "duration" /\ data.duration \notin {Unset, 200} -> data.duration
            [] f[Len(f)] = "easing" /\ data.easing \notin {Unset, Quadratic} -> data.easing
            [] f[Len(f)] = "bezier" /\ data.bezier # Unset -> data.bezier
            [] OTHER -> IF Len(f) = 2 THEN Mutable(data[f[1]])[f[2]] ELSE data[f[1]]]

AppInit ==
  /\ \E data \in Stored \cup {None, Garbage} :
       settings = Load(data) /\ chosen = ChosenBefore(data)
  /\ permission \in BOOLEAN
  /\ changes = 0
  /\ Launched

\* A setter of the settings view.
Choose(f, value) ==
  /\ ChangeSettings(Write(settings, f, value))
  /\ chosen' = [chosen EXCEPT ![f] = value]

\* The app is quit, or crashes, and is launched again.
Relaunch ==
  /\ settings' = Load(settings)
  /\ status' = "stopped" /\ engine' = NoEngine /\ daemons' = 0
  /\ restart_pending' = FALSE /\ cancelled_tasks' = 0
  /\ hadPermissions' = permission
  /\ UNCHANGED <<permission, changes, chosen>>

AppNext ==
  \/ \E f \in Fields : \E value \in Values(f) : Choose(f, value)
  \/ Relaunch
  \/ (Toggle \/ Restart \/ CancelledTaskEnds \/ Poll \/ ChangePermission) /\ UNCHANGED chosen

AppSpec == AppInit /\ [][AppNext]_appVars

-----------------------------------------------------------------------------
\* Properties

\* A choice of the user outlives every other choice and every launch: no setter
\* touches another field, what an older version stored for both axes is copied
\* to them once and never again, and defaults only fill what was never set.
ChoicesKept == \A f \in Fields : chosen[f] # Unset => Read(settings, f) = chosen[f]

\* The engine animates as its options are shown by the view, which knows nothing
\* of the fallbacks the engine and older versions have, and whatever key the
\* handler would take is tapped (fasterswiper.cc:268-281 against
\* physical-event-handler.cc:93-121).
EngineAsShown ==
  engine # NoEngine =>
  /\ \A axis \in Axes :
       /\ IsAxisEnabled(engine, axis) = Read(engine, <<axis, "enabled">>)
       /\ DurationForAxis(engine, axis) = Read(engine, <<axis, "duration">>)
       /\ EasingFunctionForAxis(engine, axis) =
            [easing |-> Read(engine, <<axis, "easing">>), bezier |-> Read(engine, <<axis, "bezier">>)]
  /\ \/ IsSet(engine.intercept) /\ \E axis \in Axes : IsAxisEnabled(engine, axis)
     \/ IsSet(engine.jump) /\ IsAxisEnabled(engine, "horizontal")
     => TapsKeys(engine)
=============================================================================
