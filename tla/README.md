# FasterSwiper, verified

TLA+ models, model checks and machine-checked proofs about FasterSwiper, a macOS
background program that takes over the trackpad gestures and keys that switch
spaces and plays them back to the Dock as faster synthetic gestures. Paths such as
`src/engine/…` are relative to the repository.

- [How the system works](#how-the-system-works)
- [Inventory](#inventory)
- [The modules](#the-modules)
- [The runs](#the-runs)
- [Fairness](#fairness)
- [What is proved](#what-is-proved)
- [Where the code and its text disagree](#where-the-code-and-its-text-disagree)
- [Observations](#observations)
- [What is not modelled](#what-is-not-modelled)
- [Plan](#plan)

## How the system works

    trackpad, keyboard
          | CGEvent (event tap, main run loop)
          v
    PhysicalEventHandler --- owns ---> SwipeAnimator --- owns ---> SpaceSwitchOperation
          | passes or swallows             |      |                  |  (segmented, or
          v                                |      | tick, stopped     |   continuous)
       the OS                              |      | callbacks         | DeferredPosition
                                           v      |                  v
                                       PeriodicTimer (dispatch     dock-control events
                                        queue, own thread)          posted to the Dock

The event tap runs on one thread. Every physical gesture event, arrow key and
jump key becomes a command to the `PhysicalEventHandler`, which either takes over the
swipe in progress or, when there is none, creates a new `SwipeAnimator` around a new
`SpaceSwitchOperation`. While fingers are on the trackpad the handler moves the
animator directly; when they are lifted, or a key is pressed, the animator runs to a
target. The run is driven by a `PeriodicTimer` on a serial dispatch queue, so the
animator and the operation are touched by two threads: the owner's, and the queue's.
The owner regains exclusive use by destroying the timer and then waiting on a future.
The operation turns a sequence of positions into the gesture events the Dock
understands. `Channel` is the repository's other piece of shared-memory concurrency;
its client streams captured events to a server.

The behaviours that are hard, and that decide what is modelled first:

- the race between a tick that finishes an animation and the owner that cancels it
  (`PeriodicTimer`, `SwipeAnimator`): its outcome decides whether the operation is
  committed, and every later call depends on both sides agreeing about it;
- the promise that after a cancel returns no callback is running, on which all
  unlocked sharing in `SwipeAnimator` rests;
- the protocol with the Dock: gestures begun once, ended once, from where the last one
  left the Dock, not left on a boundary while they last, whatever positions come in (easing curves
  overshoot, positions jump, fingers go back and forth over boundaries);
- events of several sources (two gesture axes, hotkeys, jump keys) taking over one
  another's swipes, with OS queries failing and phases of gestures missing in between;
- one switch after another while the Dock is still doing the flicks of the last, and the
  mouse, the displays and the spaces change behind it;
- options and hotkeys that pass through defaults, fallbacks and older versions on their
  way from a view to the engine;
- the shutdown of threads that block on each other through a bounded queue.

## Inventory

| Component | State | Operations | Interacts with | Correct when | Status |
|---|---|---|---|---|---|
| `PeriodicTimer` (`src/periodic-timer.*`) | `stop_requested_`, `stop_reason_`, `stopped_`, dispatch source | constructor, `Cancel`, destructor, tick and cancel handlers | dispatch queue; user callbacks | the stopped callback runs once, with the reason of the side that won; no callback runs after `Cancel` returns; `Cancel` returns; no `LOG(FATAL)` | modelled, proved |
| `DeferredPosition` (`src/engine/deferred-position.*`) | effective and deferred position | `Set`, `CommitDeferred` | operations | never on a boundary before it is committed, on the side it comes from | modelled (operators), proved |
| Space switch operations (`src/engine/space-switch-operation.*`) | position, gesture state or direction, committed | `SetPosition`, `Commit` | Dock (events) | the events form gestures that leave the Dock at the operation's position | modelled, proved |
| `SwipeAnimator` (`src/engine/swipe-animator.*`) | timer, promise/future, operation | `SetPosition`, `AnimateToPosition`, `CancelAnimation`, destructor; tick and stopped callbacks | timer, operation, handler | owner and callbacks never overlap; nothing moves after the commit; always committed before destruction; calls return | modelled, proved |
| `PhysicalEventHandler` (`src/engine/physical-event-handler.*`) | animator, initial and target position | begin, change, end and cancel of a gesture; relative move; jump | animator, axis adapters, OS | no swipe orphaned; targets are spaces in limits; the OS and the engine never both act; a disabled axis is the OS's | modelled, proved |
| Axis adapters (`src/engine/axis-adapter.*`) | the space state they were created with | limits, committed position, conversions, wait for the Dock | OS queries, Dock | the next switch starts where the last one ended; the wait ends, and ends the process for known causes only | partly, proved: not the conversions |
| Space state (`src/space-state.*`) | snapshot of the spaces | load, conversions | adapters, jump keys | what is used of a snapshot is still so, unless the user changed it | partly, proved: not the conversions |
| Mission Control detection (`src/mission-control.cc`) | none | classify windows | handler, vertical adapter | none of its errors (a query that fails, or the windows of both overviews) comes unexpected to a caller that does not test for it | modelled, proved |
| `Channel` (`src/channel.h`) | queue, two closed flags | `Write`, `Read`, `CloseWriter`, `CloseReader` | any threads | FIFO, bounded, drained before closed, closing unblocks | modelled, proved |
| Streaming client (`src/tools/stream-events-client.cc`) | stop flag, event queue, two threads | callback, sender loop, signal handler, shutdown | channel, gRPC, server, run loop | events in order; it stops, given a server that responds | modelled, proved |
| Daemon lifecycle (`src/app/DaemonManager.swift`, `src/public/swift/Daemon.swift`, `src/app/PermissionsMonitor.swift`, C interface in `src/public/fasterswiper.cc`) | daemon handle, running state, pending restart task | start, stop, toggle, delayed restart, permission poll, launch | UI, settings, engine | a restart in flight never undoes a stop; one daemon at a time, with the latest settings | modelled, proved |
| Options (`src/public/fasterswiper.cc`, `src/public/fasterswiper.proto`, `src/public/swift/*.swift`) | none | defaults, migration, hydration, the engine's fallbacks | settings, engine | no choice is lost; the engine does what the view shows | partly, proved: not the protobuf encoding |
| Settings (`src/app/SettingsStore.swift`, `src/app/ViewModels`) | published options | load, setters, notify | daemon lifecycle | the daemon ends up with the last settings | partly, proved: the options of the daemon |
| Events and hotkeys (`src/event.*`, `src/hotkeys.*`) | event fields | classify, match hotkeys, make events | handler, operations | the engine takes the keys the user bound | partly: not the making of events |
| Core Foundation helpers (`src/cf-collections-util.h`, `src/cf-util.*`) | none | typed getters, ownership | hotkeys, adapters | | partly: the optional typed getters |
| Gesture serialization (`src/gesture-serialization.*`) | field map | parse, augment, serialize | operations, recording tools | what is accepted is what was written; an augmented event keeps its fields; signs survive | modelled, proved |
| Easing (`src/easing.*`, `third_party/chromium`) | curve | select, evaluate | animator | | partly: which function; its values are floating point |
| User interface (`src/app/Views`) | none | clicks, edits | everything in the app | | partly: as actions of the app |
| Recording and inspection tools (`src/tools`) | | | event tap, serialization | | partly: how `record-events` takes the queue element |
| Compatibility (`src/compatibility.*`) | none | version test | adapters, detection | | partly: its answer |
| Event tap (`src/event-tap-manager.cc`) | | | OS | | not modelled: no state of its own |

## The modules

| Module | What it is | Depends on |
|---|---|---|
| `TimerContract` | abstract specification of a `PeriodicTimer` | |
| `PeriodicTimer` | the timer, one step per atomic access or dispatch call | refines `TimerContract` |
| `AnimatorContract` | abstract specification of a `SwipeAnimator` | |
| `SwipeAnimator`, `SwipeAnimatorProofs` | the animator's owner against its callbacks; theorems about it | composes `TimerContract`, refines `AnimatorContract` |
| `DeferredPosition` | operators of `DeferredPosition` | |
| `DockGestures` | external: what the Dock makes of gesture events | |
| `SegmentedSwitch`, `ContinuousSwitch` | the two kinds of operation | extend `DeferredPosition`, `DockGestures` |
| `SpaceSwitchOperation`, `SpaceSwitchOperationProofs` | an operation of either kind, and what both promise; theorems about both | composes the two |
| `Hotkeys` | operators: the hotkeys in the preferences, and which key concerns which | |
| `PhysicalEventHandler`, `PhysicalEventHandlerProofs` | gestures and keys, under all options and hotkeys; theorems about them | composes `AnimatorContract`, extends `Hotkeys` |
| `SpaceSync`, `SpaceSyncProofs` | one switch after another: what is read from the OS, the flicks, the wait; theorems about it | |
| `GestureSerialization` | an event read, augmented, written and read again | |
| `LibraryProofs` | theorems about `PeriodicTimer` and about `GestureSerialization`, which share nothing | extends both |
| `Channel`, `ChannelProofs` | the bounded queue, and theorems about it | |
| `StreamEventsClient`, `StreamEventsClientProofs` | the streaming client, and theorems about it | composes `Channel` |
| `DaemonOptions` | operators: defaults, migration, hydration, the engine's fallbacks | |
| `DaemonLifecycle` | one launch of the app: start, stop, delayed restart, permissions | |
| `App`, `AppProofs` | the app from launch to launch with its settings; theorems about one launch and about all of them | extends `DaemonLifecycle`, `DaemonOptions` |
| `MC*` | what TLC checks: constants that a `.cfg` cannot write | |

The chain `PeriodicTimer` → `TimerContract` → `SwipeAnimator` → `AnimatorContract` →
`PhysicalEventHandler` is the point of the layout: each layer is checked against the
promise of the layer below rather than its detail, and each promise is shown to be kept.
An operator whose name says how it differs from another, under a comment that begins with
"Mutant", is a plausible bug: the run named beside it in `PROJECT.json` must fail with it.

**PeriodicTimer.** `queue` is the place of the dispatch queue's thread in
`HandleTick` or in the cancel handler (`src/periodic-timer.cc:25-46, 63-75`), `pc` that of
each thread in `Cancel` (54-61) or the destructor. `stop_requested`, `stop_reason` and
`stopped` are the three atomics, `source_cancelled` whether `dispatch_source_cancel` was
called. `stopped_.wait(false)` is two steps, falling asleep and returning, so a lost wakeup
would show. `winner`, `finish_asked`, `reports`, `cancel_returned` are history. What
libdispatch does is external: ticks only while the source is not cancelled, then one cancel
handler, never two blocks at once.

**SwipeAnimator.** `place` is where the owner's thread is in the method `call`: every
method begins with `CancelAnimation`, whose steps are `Enter` (is there a pending
future), `ResetTimer` (`timer_.reset()` asks the timer to stop), `TimerGone` (its
destructor returned), `GetFuture` and the method's own step. The queue's side is
`TickBegin`, `Tick`, `StoppedBegin`, `StoppedCommit`, `StoppedPromise`; the latter two are
separate because the owner may look at the future in between. The easing function may put a
frame's position anywhere in `Positions`; `frames` stands for elapsed time and reaching
`MaxFrames` for the elapsed duration.

**SpaceSwitchOperation.** Both kinds hold a mutex for a whole call. One step of
`SegmentedSwitch` is one iteration of `SetPosition`'s loop, because the Dock sees the
events of an iteration before the next; a call of `ContinuousSwitch` is one step. The
posted events are applied, one after the other, to `dock`, a record of what a reader of the gesture
protocol knows: whether a gesture is open, where the Dock is (`home`), the progress of the latest event
(`shown` nanoswipes and `nudge` times `kEpsilon`), progress and sign of the velocity of the latest end (`moved`, 0
for a Cancelled, and `flung`), whether an event came that no gesture allows (`confused`) and
whether a Changed came after one that was directly on a boundary (`lingered`). So `EndGesture` is its Changed
followed by its Ended or Cancelled (`src/engine/space-switch-operation.cc:350-355`), with the sign that
`is_rubberbanding` turns. The flicks of a continuous operation carry two signs: their progress has that of the way from the origin,
their velocity that of the latest movement. Where the Dock stops when the two differ no code says, so `Flicks` leaves it
any space their number can reach. `turned` is history: a position nearer to the origin was asked for.

**PhysicalEventHandler.** `HandleEvent` runs on one thread and each call on the
animator first stops its run, so a handler is one step and the animator's frames come in
between. The phases of either axis come in any order: repeated, without a beginning or an end, or unknown.
`touching` is history, the axes whose latest event was a Began or a Changed. The code has no
timeout for an end that is lost, so what `NoOrphan` can say, and says, is that a swipe stands still only
as long as the engine has not been told that its fingers are gone. `animator` is what the current one was created
with; creating one chooses any limits and committed position its axis adapter may report, or fails. The options and the hotkeys are
chosen once, as at the engine's creation. `handled` is what became of the latest event:
swallowed, passed on to the OS, none of the engine's (`ignored`), or passed on before the swipe
was asked about (`unchecked`: a jump key when the spaces cannot be loaded; `unrecognized`: a gesture's phase that
is none of the four). The error of `GetEasingFunctionForAxis` is not in the model because no options lead to it:
`EasingFunction` is an enum of an edition that closes it (`src/public/fasterswiper.proto:7`), so a message cannot hold another value,
and the switch of `src/easing.cc` has a case for each.

**Hotkeys.** A Core Foundation value is a record of its kind and of what it holds, so that a
value of the wrong kind is an error where the typed getters return one
(`src/cf-collections-util.h`), and a set of flags is the set of their names. `Loads` says when
`LoadHotkeyConfiguration` succeeds, `ParseHotkey` what it yields, `RelativeMoveOf` and
`JumpOf` which command a key press becomes.

**SpaceSync.** `step` is where the engine's thread is: it asks for the window, loads the spaces,
creates the operation (`SetUpForNewGesture`), follows the fingers, runs to a target, commits and
waits (`WaitForCommittedPositionChanged`). Every one of those reads is a step, since the Dock
(`DockFlicks`, `DockWindows`) and the user (`UserActs`: the mouse on another display, a space
added, removed or shown) go on in between. Loading the spaces is three such reads (`Locate`,
`ListSpaces`, `Load`: the display under the mouse, the lists of spaces, the space its display shows,
`src/space-state.cc:54, 73, 118`), and each query may fail (`QueryFails`, and `PollFails` in the wait). `pending` is what the
engine has flicked and the Dock has not done. Positions are whole spaces: `Follow` is a segmented operation
that gets to the next space under the fingers, forward or back, and posts the gesture for it, which is all that
`SpaceSwitchOperation` leaves of the way there.

**GestureSerialization.** An input is a byte string; a step is one field or one struct. First the engine
reads, adds the queue element (`Augment`) and writes; then the recorder reads what was written.
A cell is at once a byte of a payload and a 16-bit word of a header, `Cell` the number of its
values, which keeps the sign bit of a size and the tag bits of a field where the code has them.
Its actions and variables are named `SerializationNext`, `serializationVars` and so on, since
`LibraryProofs` extends it together with `PeriodicTimer`.

**Channel.** A call is two steps: entering it (`calling`), and its critical section, which
runs once its condition holds. `absl::Mutex` evaluates the conditions of waiting threads
itself, so no notification can be forgotten; what can be wrong is the condition.

**StreamEventsClient.** `main` follows the callback and the shutdown after
`CFRunLoopRun`, `sender` follows `SenderThreadLoop` up to its `WritesDone` and `Finish`. The signal may come at any
time and more than once. `connected` is whether the sender has a call whose connection stands. gRPC is external: a
`Write` that returns true has only handed the event over, to `stream`, and blocks while `Window` events are there;
the server takes them from it one by one (`Take`) and answers at the end (`Answer`). The connection may break at
any moment, whatever is in the stream then being `lost`, and a `Write` on a broken one has `failed`.

**DaemonLifecycle.** All methods run on the main actor, so each is a step; what interleaves is
what comes between them. `engine` is `Daemon.state` (the options its `FS_Daemon` was created with),
`daemons` the number created and not destroyed, `restart_pending` the restart task that sleeps and
is not cancelled, `cancelled_tasks` those that were cancelled and still have to wake up
(`Task.isCancelled`, `src/app/DaemonManager.swift:91`). `permission` is the system's answer, which
may change at any time; `hadPermissions` is what the poll of `PermissionsMonitor` saw last.

**DaemonOptions and App.** Options are records whose fields may be `Unset`; the message's own
`duration`, `easing` and `bezier` are the single settings of older versions. `App` adds to the
lifecycle the first launch over anything that may be stored (`AppInit`: options of an older version,
nothing, or garbage), a setter for each field of the view (`Choose`) and the next launches
(`Relaunch`, which a crash leads to as well: the store is written by each setter). `chosen` is history: the
last choice for each field, the older version's included.

## The runs

| Run | Question | Instance | States | Properties |
|---|---|---|---|---|
| `timer` | Do all interleavings of ticks, two cancelling threads and the destructor keep the contract? | 2 callers | 651 | `TypeOK QuietAfterCancel ReportsTheWinner ImplementsContract CancelReturns` |
| `timer_cancel` | Is the timer no longer executing when `Cancel` has returned? (The cancel handler may still be.) | as `timer` | | `NotExecutingAfterCancel` |
| `switches` | Does every sequence of positions, with a commit at any moment, give the Dock well-formed gestures that leave it where the operation is? | spaces of 10, deferral 2, limits 0..20, origin 10, targets -14..38 | 8702 | `TypeOK GesturesWellFormed FlungForward CancelledOutward WithinLimits CloseToTarget CommitLandsOnTarget MoveReturns` |
| `animator` | Do owner and callbacks agree on every outcome, and does every call end? | 3 positions, 2 frames | 8199 | `OwnerAlone CommittedAtGoal CallReturns AnimationEnds ImplementsContract` |
| `handler` | Do gestures and keys, in every order, with phases missing and under all options, leave no swipe orphaned, no target out of range and no disabled axis touched? | 2 spaces of 2, half a space of overscroll, progress -1, 1 and 2, 4 choices of options, 5 of hotkeys | 587000 | `TargetIsSpace NoOrphan PassedOnlyWhenIdle DisabledAxisLeftAlone` |
| `handler_hotkeys` | Does the engine take only keys the user bound? (Not with a modifier other than Control.) | as `handler` | | `OnlyBoundKeysTaken` |
| `spaces` | Does the Dock, lagging behind, get from one switch to the next where it is asked, and does the wait for it end? | displays of 3 spaces and of 1, fingers over 2 spaces, one interference | 2257861 | `DockWhereAsked AbortExplained WaitReturns` |
| `records` | Is a serialized event, whole or damaged, read for what was written, and does the augmented one tell the posted gesture? | cells of 32 values, up to 5 cells, 2 records, 26 gestures | 348675 | `ReadsWhatIsWritten AugmentKeepsRest ElementTellsGesture` |
| `channel` | Is it a bounded FIFO that drains before it reports closed, and does a close free every thread? | 2 writers, 2 readers, 2 values, capacity 2, 3 writes | 162752 | `Bounded Fifo DrainedBeforeClosed CloseUnblocks` |
| `client` | Are events streamed in order, and does the shutdown finish? | capacity 2, 2 events in gRPC, 4 events | 5966 | `StreamedInOrder ShutdownCompletes` |
| `client_ctrl_c` | Does Ctrl+C stop the client? (Not with a full queue.) | as `client` | | `CtrlCStops` |
| `daemon` | Whatever older versions stored and however often the app is launched, is no choice lost, does the engine do what the view shows, and is there one engine at most, with the latest settings, and none the user stopped? | 2 durations, 2 rates, 1 curve, 6 stored options, 3 changes | 1295208 | `TypeOK OneEngine LatestSettings ChoicesKept EngineAsShown StoppedStays` |

`CHECK_DEADLOCK FALSE` is set in every run but `daemon`, where the poll never ends, because each of these systems may stop: a released timer, a
committed operation, a destroyed animator, an exited client, a recorded event, an aborted process, a channel whose bound on
writes is used up, a handler between two events when the bounded progress allows no further one.

Why the bounds are enough:

- *timer*: the races are between the queue and one caller, and between two callers; the
  theorems cover any number of them.
- *switches*: the code depends on a position only through its space, its
  distance to a boundary relative to the deferral, and its order relative to the origin and
  the limits. Spaces of 10 with deferral 2 have every case on both sides of a boundary
  (in the code 1 000 000 and 20); targets reach more than one space past both
  limits, where `GetNextBoundary` returns none, and include negative positions, where
  division truncates the other way.
- *animator*: positions 0, 1, 2 tell apart a start, a goal and another; animations that
  end at the goal early, at the deadline, or are stopped before, all occur, and the owner may
  call again any number of times.
- *handler*: two spaces and limits of App Expose and of the vertical axis give targets at,
  inside and beyond limits; a jump key past the last space; progress of half a space either way and of a
  whole one leaves swipes between spaces and on them. Half-space overscroll is
  the bound on positions: `ChangeGesture` refuses a progress outside `Positions`. The options
  turn off each axis and each kind of shortcut; the preferences are the system's own, some with a
  hotkey rebound to another modifier, to a jump key and disabled, and three that do not load.
- *spaces*: three spaces let a switch go over one space and over two, a single space leaves no
  way to go, the two displays tell the one looked at from the one flicked, and the third
  space is no desktop, which changes the vertical limits. `MaxCrossed` (2) lets the fingers go on
  to a second space or back to the first. `MaxPending` (1) bounds what the Dock
  still has to do when a switch begins, after which it may lag by three flicks; one interference
  is enough for each of them to fall between any two reads.
- *records*: a step of the reader looks at one record, so two suffice for a repeated field
  and for one cut short by the next; every string of up to five of the six telling cells covers
  headers of all tags with sizes of zero, one, more and negative, and every input shorter than a header; a queue element is damaged
  in each of its cells. The longest blob a header can announce is read, and one cell more is not.
- *channel*: one write more than the capacity blocks a writer; two of each side compete.
- *client*: the queue fills with one event in the sender's hands and one blocked in the
  callback: `MaxEvents` is the capacity plus two. Two events in gRPC are enough for one to be delivered and one lost, and for
  a third to block in `Write`.
- *daemon*: a duration and a rate other than the default are one each; the easing functions are the
  code's. The stored options are those of three older versions and of this one, nothing, and
  garbage. Three changes leave a pending restart beside two cancelled ones, and let a choice be
  made, overwritten and followed by another. The theorems cover any of these numbers.

Actions that read the OS may give any answer its state allows at that moment, and events, commands, clicks and signals may come
at any time the receiving thread is free to take them.

## Fairness

- `PeriodicTimer`: the queue's thread runs its blocks and callbacks return; a
  thread inside `Cancel` goes on. Nobody is obliged to call `Cancel`, and the source need
  not fire. What is needed for `CancelReturns` is only that the cancel handler runs.
- `SpaceSwitchOperation`: the thread inside `SetPosition` goes on with the loop.
- `SwipeAnimator`: the owner goes on with a call it is in; the timer fires, as a dispatch
  source does; a callback returns. Strong fairness is assumed of one action, starting the
  stopped callback once a stop was asked for: ticks may come in between, disabling it
  for their duration, but `PeriodicTimer` does not allow them forever — a tick after the
  request finds `stop_requested_` set — which is what `CancelReturns` of the `timer` run
  shows about the code beneath the contract.
- `SpaceSync`: the clock passes the deadline of a wait, and the thread that waits looks at the
  Dock and at the clock. Nothing is assumed of the Dock, which may never commit, or of the user.
- `Channel`: a thread whose condition stays true eventually gets the mutex.
- `StreamEventsClient`: both threads run whenever they are not blocked, and connecting and sleeping end by themselves.
  `Write` and `Finish` wait for the server without a deadline, so `ShutdownCompletes` and `CtrlCStops` have
  a premise, `RespondingServer`: it goes on taking events and answers at the end. No event, no Ctrl+C, and no working server
  is assumed otherwise. Without the premise the shutdown hangs on a server that stalls with the connection up.

`DaemonLifecycle` and `PhysicalEventHandler` have safety properties only, and assume no fairness.

## What is proved

`LibraryProofs`, in its first part about `PeriodicTimer`, for any set of calling threads and no other assumption:

- `TimerTypeCorrect`, `Quiet` (`QuietAfterCancel`), `Winner` (`ReportsTheWinner`): the safety
  properties of the `timer` run; `FatalUnreachable` (`NeverFatal`): the `LOG(FATAL)` of the cancel handler cannot be reached;
- `TimerRefinement` (`ImplementsContract`): the timer implements `TimerContract`.

None of the safety properties is inductive: that the reported reason is the
winner's says nothing about the moments between the test-and-set, the store of the reason
and the cancellation of the source. `TimerIInv` adds three parts. `OneStopper`: the flag is set
exactly when there is a winner; whoever is between the test-and-set and the cancellation of
the source is the winner, alone, and the source is not cancelled yet. `ReasonStored`: the
winner's reason is stored by the time the source can be cancelled, and a queue that won was
asked to finish. `HandlerProgress`: the place of the cancel handler determines `reports`
and `stopped`, and it is only reached after the source is cancelled. `InitTimerIInv` and `NextTimerIInv`
(one step per action) give `TimerInvariance`; the theorems are consequences. `TimerStepRefines`
maps each action to a contract step or a stutter: the reason read by the cancel handler when
it begins to report is the outcome, `kFinished` only after a tick asked.

`ChannelProofs`, for any threads, values, capacity and number of writes, from
`ChannelAssumption` (a positive capacity, writers and readers distinct):

- `TypeCorrect`, `BoundedQueue` (`Bounded`), `InOrder` (`Fifo`), `Drained`
  (`DrainedBeforeClosed`).

The conjunction of the four is itself inductive. It needs two facts about sequences:
`HeadInTransit` (handing out the head of what is in transit leaves the whole history as it
was) and `DropInTransit` (dropping it leaves a prefix), each proved from the library's
theorems about concatenation.

`SwipeAnimatorProofs`, for any positions and number of frames (`AnimatorAssumption`):

- `Alone` (`OwnerAlone`), `CommitTold` (`CommittedAtGoal`), `Refinement` (`ImplementsContract`), and two that
  no run states: `GetNeverBlocks`, the future that `CancelAnimation` gets is ready, and the action
  property `CommitIsFinal`, what is committed is neither moved nor animated again.

`OwnerAlone` only speaks of the moments at which the owner touches the operation; what it rests on is
established earlier, on two threads. `IInv` has a part for each. `CallbacksInOrder` is what the timer's contract
leaves of the queue's side: the stopped callback is the last, and is told `kFinished` only after a
tick has asked for it. `PromiseFollowsTimer` ties the two sides together: the future is pending
exactly until the stopped callback has ended, and only that callback commits meanwhile.
`FinishedAtGoal` keeps the position at the goal from the tick that finishes until the commit, which is
what makes the commit one at the goal. `OwnerProgress` says what the owner knows at each
place of a call: from `get` on there is no timer. `StepRefines` then maps every step to one
of `AnimatorContract`, or to a stutter for the steps inside of a call.

`PhysicalEventHandlerProofs`, for any size and number of spaces, any options, preferences, keys and progress of
gestures. `HandlerAssumption` asks that the positions considered contain the boundaries an animator may begin at or be sent
to, which all integers do:

- `TargetInRange` (`TargetIsSpace`), `Finished` (`NoOrphan`), `Idle` (`PassedOnlyWhenIdle`), `Disabled`
  (`DisabledAxisLeftAlone`).

The four need each other: a gesture along an axis that is disabled would be left alone, so a swipe must not
stand still on it. That a swipe stands still only under fingers of its own axis (`Finished`) is
kept by events of the other axis too, because those are ignored while it does (`Ignores`), and by the errors, because
each leaves it as it was. The rest of `IInv` is `Typed`, and that the target of an animator is one of the targets it
may have (`TargetOf`), its own origin included, at every moment and not only when it runs. `NewAnimatorFacts` says so of
every animator a handler can create, `NextSpaceIsBoundary` that the space next to any position is a
multiple of `One` (by `BoundaryIndex` and the order of multiples); one lemma for each kind of event follows,
and one for the two things all of them do, setting up an animator and running it.

Two more theorems, which no run states, are about the keys, for any preferences that load: `OtherModifiersIgnored`, a key pressed with any other modifier than Control is
never taken; and `ControlKeysTaken`, that of a user whose hotkeys have Control or no modifier (`ControlAtMost`) the engine takes no
key that is not bound and overlooks none that is. The two bound what the run `handler_hotkeys` finds: it
concerns hotkeys bound with other modifiers, and a key taken wrongly is one pressed alone or with Control.

`StreamEventsClientProofs`, for any capacity and number of events:

- `InOrder` (`StreamedInOrder`), for any window of gRPC too, and `ClientOfQueue`, the client's steps are steps of its
  queue, so that every theorem of `ChannelProofs` is one about that queue.

What is sent is related to what was captured only through the queue: `IInv` is the invariant of
`ChannelProofs` itself (instantiated for the two threads, with `QueueAssumption` for its assumption) with
`Control` (which thread can be inside of which call), `Captured` (events are written in the order of
their numbers) and `Streamed`: each event read off the queue has been delivered, is with gRPC, was lost there, has failed, or is the one
in the sender's hands, the latest. `Ordered` puts what is with gRPC behind all that was delivered, in order. `NextToRead` takes from the queue's history that the next event read is the next number.

`SpaceSwitchOperationProofs`, for any size of a space, any deferral below half of it
(`DeferAssumption`), and any limits and start on boundaries (`OperationAssumption`) with any targets,
of either kind of operation:

- `TypeCorrect`, `WellFormed` (`GesturesWellFormed`), `Flung` (`FlungForward`), `CommitLands`
  (`CommitLandsOnTarget`), `Close` (`CloseToTarget`), `Outward` (`CancelledOutward`);
- `Limits` (`WithinLimits`), of operations that begin inside of the soft limits. App Expose begins at -1, which on a
  space that is no desktop is outside of the vertical limits 0..1; the Dock is then where it was, not inside.

`IInv` is these properties with what they leave open between two steps. `Settled`: a position that is
deferred is near a boundary and shown as far from it on either side (`NearBoundary`), and the loop is
over only when it is where it was asked. For the segmented kind `GestureBetweenBoundaries`: while a gesture is open
the position shown is `Clear` of every boundary, strictly between the two at which the gesture
would end, and the Dock shows its distance from the origin of the gesture; without it nothing keeps an
Ended from being posted on the wrong side. For the continuous kind `OneGesture`: one gesture from where the operation did
begin, and, as long as nothing has turned back, a latest direction that points from there to the target, from which the velocity of the
flicks agrees with their progress. `CancelledOutward` is not in `IInv` but rests on it: in the loop nothing is cancelled, since
the boundary that ends a gesture is never its origin (`MoveOutward`), and a commit cancels within twice the deferral of
the origin, far from the other limit (`CommitOutward`). The arithmetic
rests on one fact, that no two boundaries are closer than a space (`BoundarySpacing`), from which follow
`NearestFacts` (the boundary that `NearestBoundary` names, for negative positions too, where division
truncates the other way), `SetFacts` (what `DeferredPosition::Set` leaves) and `FlickFacts` (where a commit's
flicks end). `SameOperators` says that what the two kinds name alike is the same.

`SpaceSyncProofs`, for any displays, spaces, size of a space, jump keys, number of switches, flicks and interferences:

- `Asked` (`DockWhereAsked`), `Explained` (`AbortExplained`).

`SpaceAssumption` says of the OS that a display has at least one space, that an id belongs to one space, and that a
list names a space once; and that `None` is no jump. `DockWhereAsked` relates what the engine believes to what
the Dock will only do later, and is nowhere near inductive. `IInv` adds, besides types and `Displayed`
(a display shows one of its spaces): `Snapshot` and `JumpInRange`, what was loaded is as it was for as long as the user has
interfered with nothing (`Undisturbed`); `OnTheWay`, `OriginInRange` and `TargetInRange`, the swipe is between two spaces
that are there; and three that follow the flicks from one operation to the next. `OwnFlicks`: an operation
that found the Dock at rest has at most one flick pending for each space it has crossed.
`SeenWhenDone`: while the one flick of a switch is pending, the space shown is the one at the origin; so when the wait sees
another, that flick is done. `AtRest`: hence the Dock has no display left to flick when the operation leaves as expected, and the
next one starts where it will stay. Where the Dock ends up is a recursive function over the pending flicks. A recursion over data is
reasoned about by the least number for which a claim would fail (`Induction`, from the library's
theorem that the natural numbers are well-founded): there is exactly one course of the indices a display goes through
(`JourneyExists`, `JourneyUnique`, `ReachedFacts`), from which come the three lemmas that are used: the first flick may be done
before the others (`ReachedFirst`, a step of the Dock), flicks of the other axis do nothing (`ReachedNone`), and
flicks that stay inside of the spaces are all done (`ReachedMore`, a step of the engine).

`AppProofs`, in its first part about one launch, for any options and number of changes:

- `TypeCorrect`, `EngineCounted` (`OneEngine`), `SettingsReachDaemon` (`LatestSettings`), and
  the action property `StopHolds` (`StoppedStays`).

`StoppedStays` cannot be had from `OneEngine` and `LatestSettings`: a restart that is still pending when
the daemon is stopped would start it. `IInv` adds `NoRestartWhenStopped`, and `TasksBounded`, which says
that a task is cancelled at most once for the change that made it and is what types
`cancelled_tasks`. `StartKeepsOne`, `StopLeavesNone` and `CancelKeepsBound` state what the three
calls every action is made of preserve.

In its second part, about the app across launches, for any durations, curves and framerates that contain the
defaults (`OptionsAssumption`, which also says that `Unset` is no value), anything well-typed that may be stored
(`AppAssumption`), and any number of changes:

- `ChoicesStand` (`ChoicesKept`), `EngineShown` (`EngineAsShown`), and the properties of the
  lifecycle again, with the setters for changes and with launches in between: `AppTypeCorrect`,
  `AppEngineCounted`, `AppSettingsReachDaemon`, `AppStopHolds`.

`ChoicesKept` is not inductive, since it says nothing of what the next launch will make of the settings:
options of an older version left beside them would be copied over them. `SettingsHydrated` says that
the settings, and the options of an engine that runs, are in `HydratedMessage`: nothing of an older version, and
every field set but the curve. The argument is then three lemmas about operators. `HydrationFills`: hydration maps every
message into that set; `HydrationIdempotent`: it is the identity there, so a launch changes nothing;
`SetterSetsOneField`: a setter stays in it, sets its field and no other. `LaunchKeepsChoices` is the
base case, where hydration does change what is stored. A setter's step is a `ChangeSettings` of
`DaemonLifecycle`, so that `NextIInv` is used as it stands; only `Relaunch` is new to it.

`LibraryProofs`, in its second part about `GestureSerialization`, for any inputs, byte values, widths of a field
and gestures:

- `ReadsOnlyWhatIsWritten` (`ReadsWhatIsWritten`), `AugmentedKeepsRest` (`AugmentKeepsRest`),
  `ElementTellsTheGesture` (`ElementTellsGesture`).

`SerializationAssumption` says that a cell has as many values as a field's tag and index take, that the two
widths differ, that inputs are byte strings, that the event record and two structs fit a blob, and that a
gesture fits its fields. In the code, the structs are far shorter than the longest blob, and velocities are at most
`kInstantSwitchVelocity`, 500 (`src/engine/const.h:11`), where a fixed-point field holds 32768 either way.

The three properties speak of readers that are done; `EventIInv` says where a reader is at each
step. `ReadSoFar`: what remains, put over what has been read, is what reading the whole input gives.
`TakenSoFar`: the structs taken off the queue
element, written again, and what is left are the field's value. `OnTheWay`: what was written is the records of the
fields in order, and the reader is behind some number of them with exactly those fields in hand; inside of the queue
element, it is behind some number of its structs. The argument then rests on one record: a record that is written is
legal, announces its own length, and reads back as the field it was written for (`RecordAnnounced`,
`AnnouncedLegal`, `RecordRead`, `WrittenFacts`), whatever comes behind it. `NextRecord` carries that to the whole
string, with `FlattenConcat`, flattening a sequence of records puts one behind the other. `Readings` and the
flattening are recursive functions, reasoned about by the least number for which a claim would
fail (`Induction`). `FixedFacts` is the arithmetic of the signs: what is not zero keeps its sign in
`FixedFP1616`, for every value that fits.

Only model-checked: the liveness properties (`CancelReturns`, `MoveReturns`, `CallReturns`,
`AnimationEnds`, `WaitReturns`, `CloseUnblocks`, `ShutdownCompletes`), since the prover does not reason
about fairness or ENABLED.

## Where the code and its text disagree

- The modifiers of a hotkey are intersected with those of its default, Control
  (`src/hotkeys.cc:152`). A user who follows `src/app/Views/SettingsView.swift:260` ("Change these
  shortcuts in System Settings …") and binds Command+Left makes the engine take Left without any modifier, in
  every application, and leave Command+Left alone. Run `handler_hotkeys`.
- The client's Ctrl+C does not stop it when the queue is full: the sender leaves its
  loop, and the callback waits for room on the thread that would close the queue
  (`src/tools/stream-events-client.cc:137`). Run `client_ctrl_c`.
- `Cancel` may return before the cancel handler's last access to the timer: `stopped_.store(true)` lets
  the waiting thread go, whose destructor releases the object, before `stopped_.notify_all()` is called on a member of it
  (`src/periodic-timer.cc:36-37`). `src/periodic-timer.h:51` says that `Cancel` "blocks until the timer is guaranteed to no longer be
  executing". No callback runs any more by then (`QuietAfterCancel`). Run `timer_cancel`.

## Observations

What the models made visible, true of the code and not contradicted by any text of it:

*Timer and animator.* A timer with a period of zero ends the process in its constructor (`src/periodic-timer.cc:15-17`),
which the model leaves out. Hydration keeps any framerate that is present, and the settings store it as
typed (`src/app/ViewModels/SettingsViewModel.swift:164`): 0 divides by zero in `src/engine/swipe-animator.cc:68`.

*Operations.* A continuous operation that is committed without having moved posts a Cancelled for a
gesture nobody began (`GesturesWellFormed` states the exception). Its flicks take the sign of their
velocity from the last movement and that of their progress from the whole distance
(`src/engine/space-switch-operation.cc:216`); after an easing that overshoots the
target the two differ, and `FlungForward` and `CommitLandsOnTarget` say nothing of where the Dock goes then. Deferred positions avoid
"gesture change events directly on a boundary" (`src/engine/deferred-position.h:12-14`) except for the one that
`EndGesture` posts right before its Ended (353-355). A segmented operation committed from more than a space outside its soft limits ends its gesture
towards a boundary behind it (`FlungForward` states the exception). `SetPosition` does not test
`is_committed_`; that no caller moves a committed operation is the animator's doing
(`ImplementsContract` of `animator`), so the operations' models guard `SetPosition` by `~committed`.

*Handler.* A gesture cancelled after it took over a swipe returns to where it took over, which may
be between two spaces (`src/engine/physical-event-handler.cc:364`), and its duration is that of the way to
`target_position_` (349-351). A jump key pressed while a vertical swipe is uncommitted takes that
swipe over and runs it to the space's horizontal position (458). An up or down key that
takes over a swipe begun on the trackpad keeps its natural
scrolling: the option that ignores it (404) is only used when an animator is created (407).
`current_axis_` (494) is set by every event, also one that takes over a swipe of the other axis, but only
the duration and the easing depend on it. A swipe whose gesture's end is lost stands still until the next event; nothing
looks for it. A gesture's event of an unknown phase goes to the OS whatever swipe is in progress (245-246).
Nothing handles `kCGEventTapDisabledByTimeout`.

*Spaces.* The wait ends at the first change of the committed position, so after a switch over several spaces, or a
vertical one with both overviews' windows coming and going, the next operation may start from where the
Dock is only passing; the same holds for a change that comes after the deadline. `DockWhereAsked` speaks of neither. The wait dereferences the
status of the committed position without a test (`src/engine/axis-adapter.cc:54`), so the process ends when the space it waits on is
removed, when on the vertical axis any query of the windows fails, and when on macOS 26 the windows
of both overviews are on the screen at once (`AbortExplained` names the causes). A jump key's space is looked up before the windows are
asked and the spaces loaded again (`src/engine/physical-event-handler.cc:447`); when one was removed in between, the swipe runs past the last. The limits of App Expose on
macOS 26 are those of the index read when the swipe began (162). On macOS 27 the overlay is
on the screen before the spaces bar, so Mission Control that opens reads as App Expose
(`src/mission-control.cc:44`).

*Hotkeys and events.* One malformed hotkey entry keeps the engine from being created
(`src/hotkeys.cc:102-156`). `record-events` throws when an event has no blob in field 4205.
A Ctrl+C that comes before `CFRunLoopRun` (`src/tools/stream-events-client.cc:156-159`) stops a loop that does not run yet.

*Daemon.* A start that is denied leaves a pending restart in place, which starts the daemon by itself if the
permission comes within its 250 ms. `Daemon.start` throws on a missing permission before it stops the engine in place
(`src/public/swift/Daemon.swift:52`), so a restart that finds the permission gone before the poll does leaves the engine
running under the status "denied", and the poll's handler, which only stops a daemon whose status is running or in error, leaves it so. A grant
and a revocation within the same second are not seen at all. No text says what should become of the engine.

## What is not modelled

- *Time* is an order of events, never a duration; the memory model is sequential consistency, which the
  default orderings of the atomics give.
- *Floating point*: the easing curves (`src/easing.cc`, `third_party/chromium`) are any function, since TLC
  has no such numbers and the animator must hold up under any curve. Nor are the conversions between nanoswipes and progress
(`src/space-state.cc:31, 43-50`), arithmetic of doubles without state, whose unit on a display with one space is infinite.
- *Making an event* (`src/event.cc`): the fields of a posted event are those `GestureSerialization` is given; the sign that natural
  scrolling turns on macOS 27 changes no state, and the debug strings none.
- *Encodings*: the options' protobuf message and the text of a Bezier curve
  (`src/public/swift/BezierCurve.swift`) are library or text conversions of one value to another.
- *The event tap* (`src/event-tap-manager.cc`) and the ownership wrappers of Core Foundation are calls of the OS without state of their own.
- *The views*: layout and bindings; of the settings, launch-at-login and the menu-bar icon, which nothing else reads.
- *Where the Dock stops* after flicks whose progress and velocity disagree is left open in `ContinuousSwitch` and is not in `SpaceSync`,
  whose runs go straight to their target; nor are displays that are plugged in or out.
- *The other tools* read or print in sequence what the engine's parts compute.

## Plan

Done: all modules listed above, their runs, and the proofs of every component with state. What is left are lemmas about
`Hotkeys` and `DaemonOptions` that no step of a model rests on: which preferences fail to load, and what the engine falls back to for a
message that was never hydrated.
