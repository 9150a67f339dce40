------------------------ MODULE PhysicalEventHandler ------------------------
(***************************************************************************)
(* PhysicalEventHandler (engine/physical-event-handler.cc): what physical  *)
(* trackpad gestures and keys do to the current animator, and which of     *)
(* them the OS still gets.  The animator is its contract, AnimatorContract *)
(* (SwipeAnimator implements it): HandleEvent runs on one thread and every *)
(* call on the animator first stops its run, so a handler is one step and  *)
(* the run's frames come between handlers.  Which keys it takes is Hotkeys. *)
(*                                                                         *)
(* The events of a gesture come in any order: its beginning may have been  *)
(* before the engine was there, and any of them may be lost.  The easing   *)
(* function is always found: EasingFunction is a closed enum               *)
(* (fasterswiper.proto:7), of which easing.cc has every value.             *)
(***************************************************************************)
EXTENDS Hotkeys

CONSTANTS
  One,             \* nanoswipes of a space
  Spaces,          \* number of spaces of the active display
  Positions,       \* every position the model distinguishes
  Progresses,      \* of a physical gesture, in nanoswipes, both signs
  DaemonOptions,   \* external: the options the user may have chosen
  Preferences,     \* external: the hotkeys the user may have chosen
  Keys             \* external: key events

Axes == {"horizontal", "vertical"}
Phases == {"Began", "Changed", "Ended", "Cancelled", "Other"}

\* Every boundary between spaces a swipe can be at is a position.
ASSUME HandlerAssumption ==
  /\ One \in Nat \ {0} /\ Spaces \in Nat \ {0}
  /\ Positions \subseteq Int /\ Progresses \subseteq Int
  /\ {i * One : i \in -1 .. 1} \cup {i * One : i \in 0 .. Spaces - 1} \subseteq Positions
  /\ \A o \in DaemonOptions : o.axes \subseteq Axes /\ {o.intercept, o.jump} \subseteq BOOLEAN

VARIABLES
  options,           \* options_: enabled axes, and the two kinds of shortcuts
  preferences,       \* the hotkeys in the system's preferences at the start
  hotkeys,           \* hotkey_configs_
  animator,          \* what animator_ was created with; axis "none": null
  state, position, goal,  \* of the animator (AnimatorContract)
  initial_position,  \* initial_position_
  target_position,   \* target_position_
  touching,          \* axes whose latest physical gesture event was not its end
  handled            \* the latest event of an enabled axis: what became of it

configuration == <<options, preferences, hotkeys>>
animatorState == <<state, position, goal>>
vars == <<configuration, animator, animatorState, initial_position, target_position,
          touching, handled>>

NoAnimator == [axis |-> "none", min |-> 0, max |-> 0, origin |-> 0, natural |-> "system"]

\* What SetUpForNewGesture may create: the adapter's axis, soft limits and
\* committed position (external: windows and spaces are read from the OS), and
\* whether the events follow the system's natural scrolling or never do.
HorizontalAnimators ==
  {[axis |-> "horizontal", min |-> 0, max |-> (Spaces - 1) * One,
    origin |-> i * One, natural |-> "system"] : i \in 0 .. Spaces - 1}

\* The App Expose adapter of macOS 26, and that of macOS 27.
AppExposeAnimators ==
  {[axis |-> "horizontal", min |-> i * One, max |-> i * One,
    origin |-> i * One, natural |-> "system"] : i \in 0 .. Spaces - 1}
  \cup {[axis |-> "horizontal", min |-> -One, max |-> One,
         origin |-> 0, natural |-> "system"]}

VerticalAnimators(natural) ==
  {[axis |-> "vertical", min |-> lower * One, max |-> One,
    origin |-> i * One, natural |-> natural] : i \in -1 .. 1, lower \in -1 .. 0}

NewAnimators(axis, natural) ==
  IF axis = "horizontal" THEN HorizontalAnimators \cup AppExposeAnimators
                         ELSE VerticalAnimators(natural)

TypeOK ==
  /\ animator \in {NoAnimator} \cup NewAnimators("horizontal", "system")
                    \cup VerticalAnimators("system") \cup VerticalAnimators("off")
  /\ state \in {"none", "still", "running", "committing", "committed"}
  /\ {position, goal, initial_position, target_position} \subseteq Positions
  /\ touching \subseteq Axes
  /\ handled \in {"none", "ignored", "swallowed", "passed", "unchecked", "unrecognized"}
  /\ animator = NoAnimator <=> state = "none"

\* Create() fails when the hotkeys cannot be loaded: there is no engine then.
Init ==
  /\ options \in DaemonOptions
  /\ preferences \in {p \in Preferences : Loads(p)}
  /\ hotkeys = LoadHotkeyConfiguration(preferences)
  /\ animator = NoAnimator
  /\ state = "none"
  /\ position = 0 /\ goal = 0
  /\ initial_position = 0
  /\ target_position = 0
  /\ touching = {}
  /\ handled = "none"

-----------------------------------------------------------------------------
\* The run of the current animator, between two events.

Run == INSTANCE AnimatorContract

Animation ==
  /\ (\E p \in Positions : Run!Frame(p)) \/ Run!Finish
       \/ (state = "committing" /\ Run!Commit)
  /\ UNCHANGED <<configuration, animator, initial_position, target_position, touching, handled>>

-----------------------------------------------------------------------------
\* CancelAnimation(): a run that has reached its goal is committed instead.
Stopped == CASE state = "running"    -> "still"
             [] state = "committing" -> "committed"
             [] OTHER                -> state

\* (n / kOneSwipeInNanoswipes + sign) * kOneSwipeInNanoswipes
NextSpace(n, sign) ==
  LET spaces == IF n >= 0 THEN n \div One ELSE -((-n) \div One)
  IN  (spaces + sign) * One

Clamp(n, a) == IF n < a.min THEN a.min ELSE IF n > a.max THEN a.max ELSE n

\* Mutant: a new animator keeps the target of the one it replaces.
SetUpsKeepingTarget(axis, natural) ==
  IF Stopped = "still"
  THEN {[ok |-> TRUE, animator |-> animator, state |-> "still", position |-> position,
         initial |-> position, target |-> target_position]}
  ELSE {[ok |-> FALSE, animator |-> animator, state |-> Stopped,
         position |-> position, initial |-> initial_position, target |-> target_position]}
       \cup {[ok |-> TRUE, animator |-> a, state |-> "still", position |-> a.origin,
              initial |-> a.origin, target |-> target_position] : a \in NewAnimators(axis, natural)}

\* SetUpForNewGesture(): the outcomes.  A swipe that is not committed is taken
\* over wherever it is, whatever its axis; else a new one is created, which
\* fails when the OS cannot tell the windows or the spaces.
SetUps(axis, natural) ==
  IF Stopped = "still"
  THEN {[ok |-> TRUE, animator |-> animator, state |-> "still", position |-> position,
         initial |-> position, target |-> target_position]}
  ELSE {[ok |-> FALSE, animator |-> animator, state |-> Stopped,
         position |-> position, initial |-> initial_position, target |-> target_position]}
       \cup {[ok |-> TRUE, animator |-> a, state |-> "still", position |-> a.origin,
              initial |-> a.origin, target |-> a.origin] : a \in NewAnimators(axis, natural)}

\* The handler leaves what SetUpForNewGesture did, and the swipe runs to the
\* target: AnimateToPosition cannot refuse a swipe that SetUps left still.
SetUpAndRun(s, target) ==
  /\ animator' = s.animator /\ position' = s.position /\ initial_position' = s.initial
  /\ IF s.ok
       THEN /\ target_position' = target /\ goal' = target
            /\ state' = "running" /\ handled' = "swallowed"
       ELSE /\ target_position' = s.target /\ UNCHANGED goal
            /\ state' = s.state /\ handled' = "passed"

Passed(st) == state' = st /\ handled' = "passed"

\* HandleBeginGesture(): SetPosition to where the swipe already is.
BeginGesture(axis) ==
  /\ \E s \in SetUps(axis, "system") :
       /\ animator' = s.animator /\ position' = s.position
       /\ initial_position' = s.initial /\ target_position' = s.target
       /\ state' = s.state
       /\ handled' = IF s.ok THEN "swallowed" ELSE "passed"
  /\ UNCHANGED goal

ChangeGesture(progress) ==
  /\ initial_position + progress \in Positions
  /\ IF Stopped \in {"none", "committed"}
       THEN Passed(Stopped) /\ UNCHANGED position
       ELSE /\ state' = "still" /\ handled' = "swallowed"
            /\ position' = initial_position + progress
  /\ UNCHANGED <<animator, goal, initial_position, target_position>>

\* AnimateToPosition(p); a committed swipe refuses.
Animate(p) ==
  /\ IF Stopped = "committed"
       THEN Passed("committed") /\ UNCHANGED goal
       ELSE state' = "running" /\ goal' = p /\ handled' = "swallowed"
  /\ UNCHANGED <<animator, position, initial_position>>

\* HandleEndGesture(): the target moves on by a space, even if refused.
EndGesture(progress) ==
  IF state = "none"
    THEN Passed("none") /\ UNCHANGED <<animator, position, goal, initial_position, target_position>>
    ELSE /\ target_position' =
              Clamp(NextSpace(target_position, IF progress > 0 THEN 1 ELSE -1), animator)
         /\ Animate(target_position')

\* Mutant: a cancelled gesture leaves the swipe where it is.
CancelGestureInPlace ==
  /\ Passed(Stopped)
  /\ UNCHANGED <<animator, position, goal, initial_position, target_position>>

\* HandleCancelGesture()
CancelGesture ==
  IF state = "none"
    THEN Passed("none") /\ UNCHANGED <<animator, position, goal, initial_position, target_position>>
    ELSE Animate(initial_position) /\ UNCHANGED target_position

\* A gesture on the other axis than the animator's is swallowed and ignored
\* until the animator is committed, and even then up to its next Began.
Ignores(axis, phase) ==
  /\ animator # NoAnimator /\ animator.axis # axis
  /\ state # "committed" \/ phase # "Began"

\* External: what the events so far tell of the fingers.
Touches(axis, phase) ==
  touching' = CASE phase \in {"Began", "Changed"}   -> touching \cup {axis}
                [] phase \in {"Ended", "Cancelled"} -> touching \ {axis}
                [] OTHER                            -> touching

\* HandleCommand(GestureCommand), up to the check of the axis.  An unknown phase
\* is an error whatever the swipe does, and the OS gets the event.
GestureCommand(axis, phase, progress) ==
  CASE phase = "Began"     -> BeginGesture(axis)
    [] phase = "Changed"   -> ChangeGesture(progress)
    [] phase = "Ended"     -> EndGesture(progress)
    [] phase = "Cancelled" -> CancelGesture
    [] OTHER -> /\ handled' = "unrecognized"
                /\ UNCHANGED <<animator, animatorState, initial_position, target_position>>

\* Mutant: no axis is asked whether it is enabled.
GestureOfAnyAxis(axis, phase, progress) ==
  /\ Touches(axis, phase)
  /\ IF Ignores(axis, phase)
       THEN /\ handled' = "swallowed"
            /\ UNCHANGED <<animator, animatorState, initial_position, target_position>>
       ELSE GestureCommand(axis, phase, progress)

Gesture(axis, phase, progress) ==
  /\ Touches(axis, phase)
  /\ IF axis \notin options.axes \/ Ignores(axis, phase)
       THEN /\ handled' = IF axis \in options.axes THEN "swallowed" ELSE "ignored"
            /\ UNCHANGED <<animator, animatorState, initial_position, target_position>>
       ELSE GestureCommand(axis, phase, progress)

\* HandleCommand(RelativeMoveCommand)
RelativeMove(axis, sign) ==
  \E s \in SetUps(axis, IF axis = "vertical" THEN "off" ELSE "system") :
    SetUpAndRun(s, Clamp(NextSpace(s.target, sign), s.animator))

\* HandleCommand(JumpToSpaceCommand).  The spaces cannot be loaded (the OS gets
\* the key before anything asks what the swipe does), the index is past the
\* last space, or the swipe goes there.
JumpToSpace(index) ==
  \/ /\ handled' = "unchecked"
     /\ UNCHANGED <<animator, animatorState, initial_position, target_position>>
  \/ /\ index >= Spaces
     /\ handled' = "swallowed"
     /\ UNCHANGED <<animator, animatorState, initial_position, target_position>>
  \/ /\ index < Spaces
     /\ \E s \in SetUps("horizontal", "system") : SetUpAndRun(s, index * One)

\* An event that is none of the engine's goes to the OS.
Ignored ==
  /\ handled' = "ignored"
  /\ UNCHANGED <<animator, animatorState, initial_position, target_position>>

\* The command of a key that is pressed.  A hotkey of a disabled axis may still
\* be a key of the jumps.
Moves(key) ==
  {m \in RelativeMoveOf(key, hotkeys) : options.intercept /\ m.axis \in options.axes}

Jumps(key) ==
  {index \in JumpOf(key) : options.jump /\ "horizontal" \in options.axes}

Key(key) ==
  /\ IF ~key.physical \/ ~key.down \/ (Moves(key) = {} /\ Jumps(key) = {})
       THEN Ignored
       ELSE \/ \E m \in Moves(key) : RelativeMove(m.axis, m.sign)
            \/ Moves(key) = {} /\ \E index \in Jumps(key) : JumpToSpace(index)
  /\ UNCHANGED touching

\* Events the engine does not recognize: of other kinds, of a gesture along no
\* known axis, or posted by itself.
Unrecognized == Ignored /\ UNCHANGED touching

HandleEvent ==
  /\ \/ \E axis \in Axes, phase \in Phases, progress \in Progresses : Gesture(axis, phase, progress)
     \/ \E key \in Keys : Key(key)
     \/ Unrecognized
  /\ UNCHANGED configuration

Next == Animation \/ HandleEvent

Spec == Init /\ [][Next]_vars

-----------------------------------------------------------------------------
\* Properties

\* The target is a whole space, inside the soft limits of the animator it is
\* accumulated for unless it is where that animator started, or where a jump
\* key sent it: however the keys and gestures are mixed, it does not run away.
TargetIsSpace ==
  /\ TypeOK
  /\ animator # NoAnimator =>
       /\ target_position % One = 0
       /\ target_position \in animator.min .. animator.max \cup {animator.origin}
                                \cup {index * One : index \in 0 .. Spaces - 1}

\* A swipe stands still only while the gesture that moves it goes on as far as
\* the engine was told: whatever events and errors come, in whatever order, and
\* whichever are missing, a swipe whose gesture has ended or was cancelled runs,
\* however often keys and the other axis' gestures came in between.
NoOrphan == state = "still" => animator.axis \in touching

\* A key or a gesture's event that fails, and that the OS gets as well, finds no
\* swipe in progress here, so that the two never move the Dock at once.  The two
\* exceptions the code makes fail before it looks at the swipe: a jump key while
\* the spaces cannot be loaded (cc:447-448), and an event of a phase that is
\* none of the four (cc:245-246).
PassedOnlyWhenIdle == handled = "passed" => state \in {"none", "committed"}

\* An axis the user has disabled is left to the OS: no gesture, hotkey or jump
\* key, and no swipe taken over, ever makes the engine swipe along it.
DisabledAxisLeftAlone == animator.axis \in options.axes \cup {"none"}

\* The user has given a hotkey this combination in the system's preferences.
Bound(key) ==
  \E type \in HotkeyTypes :
    LET hotkey == Get(preferences.holds, DictionaryKey[type], <<>>)
        default == DefaultHotkey(type)
    IN  /\ Get(hotkey, "enabled", TRUE)
        /\ key.key_code = Get(Parameters(hotkey), 2, default.key_code)
        /\ key.modifiers \cap kModifierKeyMask =
             Get(Parameters(hotkey), 3, default.modifiers) \cap kModifierKeyMask

\* SettingsView.swift:260: "Change these shortcuts in System Settings".  A key
\* the engine takes is one the user has bound there, or one of the jump keys.
OnlyBoundKeysTaken ==
  [][\A key \in Keys :
       Key(key) /\ handled' = "swallowed" => Bound(key) \/ Jumps(key) # {}]_vars
=============================================================================
