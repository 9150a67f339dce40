--------------------------- MODULE DaemonOptions ---------------------------
(***************************************************************************)
(* The message DaemonOptions (public/fasterswiper.proto) as the C          *)
(* interface fills it in (public/fasterswiper.cc) and the engine reads it  *)
(* (engine/physical-event-handler.cc).  A field that is not set is Unset.  *)
(* The fields of the message itself named duration, easing and bezier are  *)
(* those of older versions, which had one setting for both axes.           *)
(***************************************************************************)

CONSTANTS Durations,   \* in milliseconds
          Curves,      \* values of a CubicBezierCurve
          Framerates,
          Unset

Linear == "linear"
Quadratic == "quadratic"
Quintic == "quintic"
Bezier == "bezier"
EasingFunction == {Linear, Quadratic, Quintic, Bezier}

Optional(S) == S \cup {Unset}

GestureSettings ==
  [enabled : Optional(BOOLEAN), duration : Optional(Durations),
   easing : Optional(EasingFunction), bezier : Optional(Curves)]

ASSUME OptionsAssumption ==
  /\ 200 \in Durations /\ 240 \in Framerates
  /\ Unset \notin BOOLEAN /\ Unset \notin Durations /\ Unset \notin Curves
  /\ Unset \notin Framerates /\ Unset \notin EasingFunction /\ Unset \notin GestureSettings

Axes == {"horizontal", "vertical"}

Message ==
  [duration : Optional(Durations), easing : Optional(EasingFunction),
   bezier : Optional(Curves), fps : Optional(Framerates),
   intercept : Optional(BOOLEAN), jump : Optional(BOOLEAN),
   horizontal : Optional(GestureSettings), vertical : Optional(GestureSettings)]

-----------------------------------------------------------------------------
\* public/fasterswiper.cc

DefaultEasing == [horizontal |-> Quadratic, vertical |-> Quintic]

DefaultGestureSettings(axis) ==
  [enabled |-> TRUE, duration |-> 200, easing |-> DefaultEasing[axis], bezier |-> Unset]

DefaultDaemonOptions ==
  [duration |-> Unset, easing |-> Unset, bezier |-> Unset,
   fps |-> 240, intercept |-> TRUE, jump |-> TRUE,
   horizontal |-> DefaultGestureSettings("horizontal"),
   vertical |-> DefaultGestureSettings("vertical")]

Or(value, default) == IF value = Unset THEN default ELSE value

\* mutable_horizontal_settings(): there are settings afterwards.
Mutable(settings) ==
  Or(settings, [enabled |-> Unset, duration |-> Unset, easing |-> Unset, bezier |-> Unset])

\* A setting of an older version is copied to both axes, over what they have,
\* unless it is the default of then.
Migrated(options, settings) ==
  [settings EXCEPT
     !.duration = IF options.duration \in {Unset, 200} THEN @ ELSE options.duration,
     !.easing = IF options.easing \in {Unset, Quadratic} THEN @ ELSE options.easing,
     !.bezier = Or(options.bezier, @)]

Hydrated(axis, settings) ==
  [settings EXCEPT !.enabled = Or(@, TRUE), !.duration = Or(@, 200),
                   !.easing = Or(@, DefaultEasing[axis])]

Axis(axis, options) == Hydrated(axis, Migrated(options, Mutable(options[axis])))

\* Mutant: the old settings stay, and are copied again by the next launch.
HydrateDaemonOptionsKeeping(options) ==
  [options EXCEPT
     !.horizontal = Axis("horizontal", options), !.vertical = Axis("vertical", options),
     !.fps = Or(@, 240), !.intercept = Or(@, TRUE), !.jump = Or(@, TRUE)]

\* Mutant: the vertical axis is left as it was stored.
HydrateDaemonOptionsHorizontally(options) ==
  [duration |-> Unset, easing |-> Unset, bezier |-> Unset,
   fps |-> Or(options.fps, 240),
   intercept |-> Or(options.intercept, TRUE), jump |-> Or(options.jump, TRUE),
   horizontal |-> Axis("horizontal", options),
   vertical |-> Migrated(options, Mutable(options.vertical))]

\* FS_HydrateDaemonOptions()
HydrateDaemonOptions(options) ==
  [duration |-> Unset, easing |-> Unset, bezier |-> Unset,
   fps |-> Or(options.fps, 240),
   intercept |-> Or(options.intercept, TRUE), jump |-> Or(options.jump, TRUE),
   horizontal |-> Axis("horizontal", options), vertical |-> Axis("vertical", options)]

\* Whoever sets nothing reads the default of the field's type.
IsSet(flag) == flag = TRUE

\* FS_Create(): the keyboard is tapped too.
TapsKeys(options) ==
  LET horizontal_enabled == options.horizontal = Unset \/ IsSet(options.horizontal.enabled)
  IN  IsSet(options.intercept) \/ (IsSet(options.jump) /\ horizontal_enabled)

-----------------------------------------------------------------------------
\* engine/physical-event-handler.cc

IsAxisEnabled(options, axis) == options[axis] = Unset \/ IsSet(options[axis].enabled)

DurationForAxis(options, axis) ==
  IF options[axis] # Unset /\ options[axis].duration # Unset
    THEN options[axis].duration
    ELSE Or(options.duration, 200)

\* easing.cc: the function settings name; the curve counts for a Bezier only.
FromGestureSettings(settings) ==
  [easing |-> Or(settings.easing, Linear), bezier |-> settings.bezier]

\* Its fallback is the horizontal axis, whatever axis asks.
FromDaemonOptions(options) ==
  FromGestureSettings(IF options.horizontal # Unset THEN options.horizontal ELSE options)

EasingFunctionForAxis(options, axis) ==
  IF options[axis] # Unset THEN FromGestureSettings(options[axis]) ELSE FromDaemonOptions(options)
=============================================================================
