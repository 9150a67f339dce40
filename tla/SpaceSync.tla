----------------------------- MODULE SpaceSync -----------------------------
(***************************************************************************)
(* One switch after another, as the engine and the system see it: what is  *)
(* read from the OS to set a switch up (mission-control.cc, space-state.cc,*)
(* the axis adapters of engine/axis-adapter.cc, SetUpForNewGesture), the   *)
(* flicks its operation posts, and the wait for the Dock's commit.  The    *)
(* Dock, the mouse and the user move between any two of those reads.       *)
(* Positions are spaces.                                                   *)
(***************************************************************************)
EXTENDS Integers, Sequences, SequencesExt

CONSTANTS
  Displays,       \* of the system
  InitialSpaces,  \* external: the spaces of each display, in order
  NewSpaces,      \* external: the spaces the user may add
  JumpTargets,    \* space indices of the jump keys
  MaxPending,     \* bound: flicks the Dock still has to do
  MaxCrossed,     \* bound: spaces the fingers cross
  MaxChanges,     \* bound: what the user does outside of the engine
  None            \* no adapter

\* Of a space, its id64 and whether its type is that of a desktop.  External:
\* an id64 is that of one space, which is in the list of a display once.
Space == [id : Nat, is_desktop : BOOLEAN]
Known == NewSpaces \cup UNION {ToSet(InitialSpaces[d]) : d \in Displays}

ASSUME SpaceAssumption ==
  /\ JumpTargets \subseteq Nat /\ None \notin JumpTargets
  /\ InitialSpaces \in [Displays -> Seq(Known) \ {<<>>}] /\ Known \subseteq Space
  /\ \A d \in Displays : IsInjective(InitialSpaces[d])
  /\ \A s, t \in Known : s.id = t.id => s = t

VARIABLES
  spaces, showing,   \* external: of each display
  mouse,             \* external: the display under the mouse
  windows,           \* external: the overview's windows on the screen
  pending,           \* external: what the Dock has yet to do
  level,             \* external: overview the Dock shows or is opening
  changes,           \* history: how often the user interfered
  macos27,           \* IsMacOS27()
  step,              \* of the engine's thread
  request,           \* what it handles: axis, and the index of a jump
  load,              \* what a load of the spaces has read
  adapter,           \* the axis adapter
  origin, position, target,   \* of the operation
  late,              \* the deadline of the wait has passed
  crossed,           \* history: flicks the operation has posted
  failed,            \* history: a query of the OS failed in the wait
  quiet,             \* history: the latest operation found the Dock at rest, posted
                     \* one flick at most and saw it done, and the user has not
                     \* interfered since
  expected           \* history: the one before it did

system == <<spaces, showing, mouse, windows, pending, level, changes, macos27>>
history == <<crossed, failed, quiet, expected>>
operation == <<origin, position, target>>
vars == <<system, step, request, load, adapter, operation, late, history>>

-----------------------------------------------------------------------------
\* What the OS answers

\* The windows of App Expose (-1), the desktop (0) and Mission Control (1): of
\* the overview on macOS 27, names of spaces before it.
WindowsOf(overview) ==
  CASE overview = 0  -> {}
    [] overview = 1  -> IF macos27 THEN {"overlay", "spaces_bar"} ELSE {"mission-control"}
    [] overview = -1 -> IF macos27 THEN {"overlay"} ELSE {"show-front"}

\* GetActiveMultitaskingWindow() when the OS answers: none when it is told of
\* both overviews.
ActiveMultitaskingWindow ==
  IF macos27
    THEN {IF "overlay" \notin windows THEN 0 ELSE IF "spaces_bar" \in windows THEN 1 ELSE -1}
    ELSE IF {"mission-control", "show-front"} \subseteq windows THEN {}
         ELSE {IF "mission-control" \in windows THEN 1
               ELSE IF "show-front" \in windows THEN -1 ELSE 0}

\* The index of a display's current space in a list that may be older.
IndexIn(list, space) == {i - 1 : i \in {i \in 1 .. Len(list) : list[i].id = space}}

-----------------------------------------------------------------------------
\* The axis adapters

\* App Expose on macOS 27 has no space state of its own: a dummy of two spaces.
Count(a) == IF a.kind = "AppExpose" THEN 2 ELSE Len(a.state.spaces)

\* Mutant: App Expose is no position of the vertical axis.
CommittedPositionNoExpose(a) ==
  CASE a.kind \in {"Horizontal", "AppExpose_MacOS26"} ->
         IndexIn(a.state.spaces, showing[a.state.display])
    [] a.kind = "AppExpose" -> {0}
    [] a.kind = "Vertical" -> ActiveMultitaskingWindow \ {-1}

\* committed_position(): none when there is an error.
CommittedPosition(a) ==
  CASE a.kind \in {"Horizontal", "AppExpose_MacOS26"} ->
         IndexIn(a.state.spaces, showing[a.state.display])
    [] a.kind = "AppExpose" -> {0}
    [] a.kind = "Vertical" -> ActiveMultitaskingWindow

\* position_soft_limits()
SoftLimits(a) ==
  CASE a.kind = "Horizontal" -> 0 .. Count(a) - 1
    [] a.kind = "AppExpose_MacOS26" -> {a.state.index}
    [] a.kind = "AppExpose" -> -1 .. 1
    [] a.kind = "Vertical" ->
         IF a.state.spaces[a.state.index + 1].is_desktop THEN -1 .. 1 ELSE 0 .. 1

Distance(a, b) == IF a > b THEN a - b ELSE b - a

-----------------------------------------------------------------------------
\* External: the Dock and the user

\* Where in its list the space is that a display shows.
At(d) == CHOOSE i \in 1 .. Len(spaces[d]) : spaces[d][i].id = showing[d]

\* Where a flick takes a display of so many spaces: past the ends nowhere.
Flicked(flick, d, count, i) ==
  IF /\ flick.display = d /\ flick.axis = "horizontal"
     /\ i + flick.sign \in 0 .. count - 1
    THEN i + flick.sign ELSE i

\* Where one flick after another takes it.
Reached(flicks, d, count, start) ==
  LET index[n \in 0 .. Len(flicks)] ==
        IF n = 0 THEN start ELSE Flicked(flicks[n], d, count, index[n - 1])
  IN  index[Len(flicks)]

\* Where the display ends up when the Dock has done what is pending for it.
Destination(d) == Reached(pending, d, Len(spaces[d]), At(d) - 1)

\* The Dock does one flick after another.
DockFlicks ==
  /\ pending # <<>>
  /\ LET flick == Head(pending)
         d == flick.display
         next == Flicked(flick, d, Len(spaces[d]), At(d) - 1)
     IN  IF flick.axis = "horizontal"
           THEN showing' = [showing EXCEPT ![d] = spaces[d][next + 1].id] /\ UNCHANGED level
           ELSE /\ UNCHANGED showing
                /\ level' = IF level + flick.sign \in -1 .. 1 THEN level + flick.sign ELSE level
  /\ pending' = Tail(pending)
  /\ UNCHANGED <<spaces, mouse, windows, changes, macos27>>

\* The windows of an overview come and go one by one.
DockWindows ==
  /\ \/ \E w \in WindowsOf(level) \ windows : windows' = windows \cup {w}
     \/ \E w \in windows \ WindowsOf(level) : windows' = windows \ {w}
  /\ UNCHANGED <<spaces, showing, mouse, pending, level, changes, macos27>>

\* Outside of the engine: the mouse moves to another display, a space is added
\* or removed, or another one is shown.
UserActs ==
  /\ changes < MaxChanges /\ changes' = changes + 1
  /\ \/ \E d \in Displays \ {mouse} : mouse' = d /\ UNCHANGED <<spaces, showing>>
     \/ \E d \in Displays, s \in NewSpaces :
          /\ \A e \in Displays : ~Contains(spaces[e], s)
          /\ spaces' = [spaces EXCEPT ![d] = Append(@, s)]
          /\ UNCHANGED <<showing, mouse>>
     \/ \E d \in Displays : \E i \in 1 .. Len(spaces[d]) :
          /\ Len(spaces[d]) > 1 /\ spaces[d][i].id # showing[d]
          /\ spaces' = [spaces EXCEPT ![d] = RemoveAt(@, i)]
          /\ UNCHANGED <<showing, mouse>>
     \/ \E d \in Displays : \E i \in 1 .. Len(spaces[d]) :
          /\ spaces[d][i].id # showing[d]
          /\ showing' = [showing EXCEPT ![d] = spaces[d][i].id]
          /\ UNCHANGED <<spaces, mouse>>
  /\ quiet' = FALSE /\ expected' = FALSE
  /\ UNCHANGED <<windows, pending, level, macos27>>
  /\ UNCHANGED <<step, request, load, adapter, operation, late, crossed, failed>>

System ==
  /\ DockFlicks \/ DockWindows
  /\ UNCHANGED <<step, request, load, adapter, operation, late, history>>

Deadline ==
  /\ step = "waiting" /\ ~late
  /\ late' = TRUE
  /\ UNCHANGED <<system, step, request, load, adapter, operation, history>>

-----------------------------------------------------------------------------
\* The engine's thread

Init ==
  /\ spaces = InitialSpaces
  /\ showing = [d \in Displays |-> InitialSpaces[d][1].id]
  /\ mouse \in Displays
  /\ windows = {} /\ level = 0
  /\ pending = <<>> /\ changes = 0
  /\ macos27 \in BOOLEAN
  /\ step = "idle" /\ request = None /\ load = None /\ adapter = None
  /\ origin = 0 /\ position = 0 /\ target = 0
  /\ late = FALSE
  /\ crossed = 0 /\ failed = FALSE /\ quiet = TRUE /\ expected = FALSE

\* A gesture or a hotkey; or a jump, which loads the spaces for itself first.
Request(axis, jump) ==
  /\ step = "idle" /\ Len(pending) <= MaxPending
  /\ jump # None => axis = "horizontal"
  /\ request' = [axis |-> axis, jump |-> jump]
  /\ step' = IF axis = "horizontal" /\ jump = None THEN "asking" ELSE "locating"
  /\ UNCHANGED <<system, load, adapter, operation, late, history>>

\* The animator goes with its operation and its adapter.
Over ==
  /\ step' = "idle" /\ request' = None /\ load' = None /\ adapter' = None /\ late' = FALSE
  /\ origin' = 0 /\ position' = 0 /\ target' = 0
  /\ crossed' = 0 /\ expected' = FALSE /\ UNCHANGED failed

\* The steps up to a new animator may fail, and the event is left to the OS.
Fail == Over /\ UNCHANGED <<system, quiet>>

\* Each of the OS's answers may be an error or incomplete: the windows
\* (mission-control.cc:51-61, 91-140, 159-169), the displays (space-state.cc:54-70,
\* 164-195) and their spaces (space-state.cc:73-86, 136-139).
Query == \/ step \in {"asking", "locating", "listing", "indexing"}
         \/ step = "creating" /\ adapter.kind = "Vertical"
QueryFails == Query /\ Fail

\* LoadSpaceStateForActiveDisplay(): the display under the mouse, the spaces
\* of the displays, and only then which of them its display shows.
Locate ==
  /\ step = "locating" /\ step' = "listing"
  /\ load' = [display |-> mouse, spaces |-> <<>>]
  /\ UNCHANGED <<system, request, adapter, operation, late, history>>

ListSpaces ==
  /\ step = "listing" /\ step' = "indexing"
  /\ load' = [load EXCEPT !.spaces = spaces[load.display]]
  /\ UNCHANGED <<system, request, adapter, operation, late, history>>

\* A jump has no adapter yet when it looks for its space.
LookingUp == adapter = None /\ request.jump # None

Load ==
  /\ step = "indexing"
  /\ LET found == IndexIn(load.spaces, showing[load.display])
         state(i) == [display |-> load.display, spaces |-> load.spaces, index |-> i]
     IN  \/ found = {} /\ Fail
         \/ /\ LookingUp /\ found # {}
            /\ IF request.jump < Len(load.spaces)
                 THEN step' = "asking" /\ load' = None
                      /\ UNCHANGED <<system, request, adapter, operation, late, history>>
                 ELSE Fail
         \/ /\ ~LookingUp
            /\ \E i \in found :
                 adapter' = IF request.axis = "vertical"
                              THEN [kind |-> "Vertical", continuous |-> FALSE, state |-> state(i)]
                              ELSE [adapter EXCEPT !.state = state(i)]
            /\ step' = "creating" /\ load' = None
            /\ UNCHANGED <<system, request, operation, late, history>>

\* SetUpForNewGesture(): on the horizontal axis the windows decide.
AskWindow ==
  /\ step = "asking"
  /\ \/ ActiveMultitaskingWindow = {} /\ Fail
     \/ \E w \in ActiveMultitaskingWindow :
          /\ adapter' = [kind |-> IF w # -1 THEN "Horizontal"
                                  ELSE IF macos27 THEN "AppExpose" ELSE "AppExpose_MacOS26",
                         continuous |-> w = 0, state |-> None]
          /\ step' = IF adapter'.kind = "AppExpose" THEN "creating" ELSE "locating"
          /\ UNCHANGED <<system, request, load, operation, late, history>>

\* The operation takes the committed position for its origin.
Create ==
  /\ step = "creating"
  /\ \/ CommittedPosition(adapter) = {} /\ Fail
     \/ \E p \in CommittedPosition(adapter) :
          /\ origin' = p /\ position' = p /\ target' = p
          /\ step' = "ready"
          /\ crossed' = 0
          /\ expected' = quiet
          /\ quiet' = (pending = <<>>)
          /\ UNCHANGED <<system, request, load, adapter, late, failed>>

Flicks(sign, n) ==
  IF adapter.kind = "AppExpose" THEN <<>>
  ELSE [i \in 1 .. n |-> [display |-> mouse, axis |-> request.axis, sign |-> sign]]

Direction == IF target > position THEN 1 ELSE -1

\* The segmented operation posts a gesture for each space it gets to.
CrossTo(p) ==
  /\ position' = p /\ crossed' = crossed + 1
  /\ pending' = pending \o Flicks(p - position, 1)
  /\ UNCHANGED <<spaces, showing, mouse, windows, level, changes, macos27>>
  /\ UNCHANGED <<step, request, load, adapter, origin, target, late, failed, quiet, expected>>

\* The fingers may take it over spaces, and back; past the limits the Dock is
\* given no other space.  The continuous one keeps its flicks for the commit.
Follow(sign) ==
  /\ step = "ready" /\ request.jump = None /\ ~adapter.continuous
  /\ crossed < MaxCrossed
  /\ position + sign \in SoftLimits(adapter)
  /\ CrossTo(position + sign)

\* The swipe runs to a target inside the soft limits, or to that of the jump.
Run(t) ==
  /\ step = "ready"
  /\ target' = t /\ step' = "running"
  /\ UNCHANGED <<system, request, load, adapter, origin, position, late, history>>

Cross ==
  /\ step = "running" /\ position # target /\ ~adapter.continuous
  /\ CrossTo(position + Direction)

\* The commit: the continuous operation now posts one flick for each space.
\* Nothing is awaited if nothing has moved, or in App Expose.
Commit ==
  /\ step = "running"
  /\ position = target \/ adapter.continuous
  /\ pending' = pending \o Flicks(Direction, Distance(position, target))
  /\ IF target = origin \/ adapter.kind \in {"AppExpose", "AppExpose_MacOS26"}
       THEN Over /\ quiet' = (quiet /\ (crossed + Distance(position, target) = 0
                                      \/ adapter.kind = "AppExpose"))
       ELSE /\ step' = "waiting" /\ position' = target
            /\ crossed' = crossed + Distance(position, target)
            /\ UNCHANGED <<request, load, adapter, origin, target, late, failed, quiet, expected>>
  /\ UNCHANGED <<spaces, showing, mouse, windows, level, changes, macos27>>

\* WaitForCommittedPositionChanged(): an iteration that sees a change; the
\* status of committed_position() is not tested, an error ends the process.
Poll ==
  /\ step = "waiting" /\ ~late
  /\ \/ CommittedPosition(adapter) = {} /\ step' = "aborted"
     \/ (\E p \in CommittedPosition(adapter) : p # origin) /\ step' = "leaving"
  /\ UNCHANGED <<system, request, load, adapter, operation, late, history>>

\* The OS need not answer it, and the windows are asked each time.
PollFails ==
  /\ step = "waiting" /\ ~late /\ adapter.kind = "Vertical"
  /\ step' = "aborted" /\ failed' = TRUE
  /\ UNCHANGED <<system, request, load, adapter, operation, late, crossed, quiet, expected>>

\* Mutant: whoever gives up does not say so.
LeaveContent ==
  /\ step = "leaving" \/ (step = "waiting" /\ late)
  /\ quiet' = (quiet /\ crossed = 1)
  /\ Over /\ UNCHANGED system

\* Mutant: nobody gives up.
LeaveOnChange ==
  /\ step = "leaving"
  /\ quiet' = (quiet /\ ~late /\ crossed = 1)
  /\ Over /\ UNCHANGED system

\* The deadline is looked at once more: a change seen too late is not reported.
Leave ==
  /\ step = "leaving" \/ (step = "waiting" /\ late)
  /\ quiet' = (quiet /\ ~late /\ crossed = 1)
  /\ Over /\ UNCHANGED system

Engine ==
  \/ \E axis \in {"horizontal", "vertical"}, jump \in JumpTargets \cup {None} : Request(axis, jump)
  \/ QueryFails \/ Locate \/ ListSpaces \/ Load \/ AskWindow \/ Create
  \/ \E sign \in {-1, 1} : Follow(sign)
  \/ \E t \in IF request = None \/ step # "ready" THEN {}
           ELSE IF request.jump # None THEN {request.jump} ELSE SoftLimits(adapter) : Run(t)
  \/ Cross \/ Commit \/ Poll \/ PollFails \/ Leave

\* An abort ends everything.
Next == step # "aborted" /\ (System \/ UserActs \/ Deadline \/ Engine)

\* The clock goes on, and so does the thread that waits.
Spec == Init /\ [][Next]_vars /\ WF_vars(Deadline) /\ WF_vars(Poll) /\ WF_vars(Leave)

-----------------------------------------------------------------------------
\* Properties

\* After an operation that found the Dock at rest, crossed one space at most and
\* saw the change it waited for, the next one starts where the Dock is, and
\* the Dock ends up wherever that one goes, however late it does its flicks.
\* After more spaces than one, or a wait that gave up, it need not: the wait
\* ends at the first change (axis-adapter.cc:62).
DockWhereAsked ==
  /\ step \in {"ready", "running", "waiting", "leaving"}
  /\ expected /\ adapter.kind = "Horizontal"
  => Destination(adapter.state.display) = position

\* An error of committed_position() ends the process (axis-adapter.cc:54), and
\* neither the Dock's pace nor the mouse is its cause: on the horizontal axis
\* the spaces of the display were changed behind the wait; on the vertical one
\* the OS failed, or, before macOS 27, has the windows of both overviews.
AbortExplained ==
  step = "aborted" =>
    IF adapter.kind = "Vertical"
      THEN failed \/ (~macos27 /\ {"mission-control", "show-front"} \subseteq windows)
      ELSE adapter.state.spaces # spaces[adapter.state.display]

\* The engine's thread, which every event of the system waits for, comes back
\* from the wait, even if the Dock never commits.
WaitReturns == step = "waiting" ~> step \in {"idle", "aborted"}
=============================================================================
