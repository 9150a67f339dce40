-------------------- MODULE PhysicalEventHandlerProofs --------------------
(***************************************************************************)
(* Proofs about PhysicalEventHandler for any size and number of spaces,    *)
(* any options and preferences of the user, and any keys and gestures.     *)
(***************************************************************************)
EXTENDS PhysicalEventHandler, TLAPS

(* A target that animator a may run to.                                     *)
TargetOf(a, target) ==
  /\ target % One = 0
  /\ target \in a.min .. a.max \cup {a.origin} \cup {index * One : index \in 0 .. Spaces - 1}

(* The animators there can be: TypeOK names the same ones.                  *)
Animators == NewAnimators("horizontal", "system") \cup NewAnimators("vertical", "system")
               \cup NewAnimators("vertical", "off")

Typed ==
  /\ options \in DaemonOptions
  /\ animator \in {NoAnimator} \cup Animators
  /\ state \in {"none", "still", "running", "committing", "committed"}
  /\ {position, goal, initial_position, target_position} \subseteq Positions
  /\ touching \subseteq Axes
  /\ handled \in {"none", "ignored", "swallowed", "passed", "unchecked", "unrecognized"}
  /\ animator = NoAnimator <=> state = "none"

(* The properties need each other: a gesture finds no swipe standing still  *)
(* on a disabled axis, or it would leave it there.                          *)
IInv ==
  /\ Typed
  /\ animator # NoAnimator => TargetOf(animator, target_position)
  /\ NoOrphan
  /\ PassedOnlyWhenIdle
  /\ DisabledAxisLeftAlone

-----------------------------------------------------------------------------
(* The boundaries between spaces are the multiples of One.                  *)
LEMMA DivisionFacts ==
  ASSUME NEW n \in Int, NEW d \in Nat \ {0}
  PROVE  n = (n \div d) * d + (n % d) /\ n \div d \in Int /\ (n * d) % d = 0 /\ n * d \in Int
  <1>1. n = (n \div d) * d + (n % d) /\ n % d \in 0 .. d - 1 /\ n \div d \in Int
    OBVIOUS
  <1>2. n \div d \in Int /\ n * d \in Int
    OBVIOUS
  <1>3. (n * d) % d = 0
    OBVIOUS
  <1>4. QED
    BY <1>1, <1>2, <1>3

(* Multiplying by a size of a space keeps the order.                        *)
LEMMA OrderFacts ==
  ASSUME NEW j \in Int, NEW k \in Int, NEW d \in Nat \ {0}, j <= k
  PROVE  j * d <= k * d
  OBVIOUS

(* A position between two spaces is a whole number of sizes of a space.     *)
LEMMA BoundaryIndex ==
  ASSUME NEW n \in Int, n % One = 0
  PROVE  \E k \in Int : n = k * One
  <1>1. One \in Nat \ {0}
    BY HandlerAssumption
  <1>2. n = (n \div One) * One + (n % One) /\ n \div One \in Int /\ (n \div One) * One \in Int
    BY <1>1, DivisionFacts
  <1> DEFINE k == n \div One
  <1>3. k \in Int /\ n = k * One
    BY <1>1, <1>2
  <1> HIDE DEF k
  <1>4. QED
    BY <1>3

(* Boundaries are in the order of their indices.                            *)
LEMMA BoundaryOrder ==
  ASSUME NEW j \in Int, NEW k \in Int, j <= k
  PROVE  j * One \in Int /\ k * One \in Int /\ j * One <= k * One
  <1>1. One \in Nat \ {0}
    BY HandlerAssumption
  <1>2. QED
    BY <1>1, DivisionFacts, OrderFacts

(* NextSpace (physical-event-handler.cc:57-66) is a boundary.               *)
LEMMA NextSpaceIsBoundary ==
  ASSUME NEW n \in Int, NEW sign \in {-1, 1}
  PROVE  NextSpace(n, sign) \in Int /\ NextSpace(n, sign) % One = 0
  <1> DEFINE spaces == IF n >= 0 THEN n \div One ELSE -((-n) \div One)
  <1>1. One \in Nat \ {0}
    BY HandlerAssumption
  <1>2. spaces + sign \in Int
    BY <1>1
  <1>3. NextSpace(n, sign) = (spaces + sign) * One
    BY DEF NextSpace
  <1> HIDE DEF spaces
  <1>4. \A k \in Int : k * One \in Int /\ (k * One) % One = 0
    BY <1>1
  <1>5. QED
    BY <1>2, <1>3, <1>4

(* What SetUpForNewGesture creates is along the axis it was asked for, and  *)
(* lies between boundaries: a target clamped to it is one again.            *)
LEMMA NewAnimatorFacts ==
  ASSUME NEW axis \in Axes, NEW natural, NEW a \in NewAnimators(axis, natural)
  PROVE  /\ a.axis = axis
         /\ a.origin \in Positions /\ TargetOf(a, a.origin)
         /\ \A n \in Int : n % One = 0 =>
              Clamp(n, a) \in Positions /\ TargetOf(a, Clamp(n, a))
  <1>0. One \in Nat \ {0} /\ Spaces \in Nat \ {0}
    BY HandlerAssumption
  <1>1. PICK i \in Int, lower \in Int, upper \in Int :
          /\ a.axis = axis
          /\ a.origin = i * One /\ a.min = lower * One /\ a.max = upper * One
          /\ lower <= upper
          /\ \/ i \in -1 .. 1 \/ i \in 0 .. Spaces - 1
          /\ \/ lower \in -1 .. 1 /\ upper \in -1 .. 1
             \/ lower \in 0 .. Spaces - 1 /\ upper \in 0 .. Spaces - 1
    <2>1. CASE axis = "horizontal" /\ a \in HorizontalAnimators
      <3>1. PICK i \in 0 .. Spaces - 1 :
              a = [axis |-> "horizontal", min |-> 0, max |-> (Spaces - 1) * One,
                   origin |-> i * One, natural |-> "system"]
        BY <2>1 DEF HorizontalAnimators
      <3>2. a.axis = axis /\ a.min = 0 * One /\ a.max = (Spaces - 1) * One /\ a.origin = i * One
        BY <1>0, <2>1, <3>1
      <3>3. 0 \in 0 .. Spaces - 1 /\ Spaces - 1 \in 0 .. Spaces - 1 /\ 0 <= Spaces - 1
        BY <1>0
      <3>4. QED
        BY <3>2, <3>3
    <2>2. CASE axis = "horizontal" /\ a \in AppExposeAnimators
      <3>1. ASSUME NEW i \in 0 .. Spaces - 1,
                   a = [axis |-> "horizontal", min |-> i * One, max |-> i * One,
                        origin |-> i * One, natural |-> "system"]
            PROVE  a.axis = axis /\ a.min = i * One /\ a.max = i * One /\ a.origin = i * One
        BY <1>0, <2>2, <3>1
      <3>2. ASSUME a = [axis |-> "horizontal", min |-> -One, max |-> One,
                        origin |-> 0, natural |-> "system"]
            PROVE  a.axis = axis /\ a.min = -1 * One /\ a.max = 1 * One /\ a.origin = 0 * One
        BY <1>0, <2>2, <3>2
      <3>3. CASE a = [axis |-> "horizontal", min |-> -One, max |-> One,
                      origin |-> 0, natural |-> "system"]
        <4> DEFINE lower == -1
        <4> DEFINE upper == 1
        <4>1. a.axis = axis /\ a.min = lower * One /\ a.max = upper * One /\ a.origin = 0 * One
          BY <1>0, <3>2, <3>3
        <4>2. lower \in -1 .. 1 /\ upper \in -1 .. 1 /\ lower <= upper
          OBVIOUS
        <4> HIDE DEF lower, upper
        <4>3. QED
          BY <4>1, <4>2
      <3>4. QED
        BY <2>2, <3>1, <3>3 DEF AppExposeAnimators
    <2>3. CASE axis = "vertical" /\ a \in VerticalAnimators(natural)
      <3>1. PICK i \in -1 .. 1, lower \in -1 .. 0 :
              a = [axis |-> "vertical", min |-> lower * One, max |-> One,
                   origin |-> i * One, natural |-> natural]
        BY <2>3 DEF VerticalAnimators
      <3> DEFINE upper == 1
      <3>2. a.axis = axis /\ a.min = lower * One /\ a.max = upper * One /\ a.origin = i * One
        BY <1>0, <2>3, <3>1
      <3>3. upper \in -1 .. 1 /\ lower <= upper
        OBVIOUS
      <3> HIDE DEF upper
      <3>4. QED
        BY <3>2, <3>3
    <2>4. QED
      BY <2>1, <2>2, <2>3 DEF NewAnimators, Axes
  <1>2. \A k \in Int : k * One \in Int /\ (k * One) % One = 0
    BY <1>0
  <1>3. \A k \in Int : k \in -1 .. 1 \/ k \in 0 .. Spaces - 1 => k * One \in Positions
    BY HandlerAssumption
  <1>4. a.origin \in Positions /\ TargetOf(a, a.origin)
    BY <1>1, <1>2, <1>3 DEF TargetOf
  <1>5. ASSUME NEW n \in Int, n % One = 0
        PROVE  Clamp(n, a) \in Positions /\ TargetOf(a, Clamp(n, a))
    <2>1. PICK k \in Int : n = k * One
      BY <1>5, BoundaryIndex
    <2>2. PICK m \in lower .. upper : Clamp(n, a) = m * One
      <3>1. CASE k \in lower .. upper
        BY <1>0, <1>1, <2>1, <3>1 DEF Clamp
      <3>2. CASE k < lower
        BY <1>0, <1>1, <2>1, <3>2 DEF Clamp
      <3>3. CASE k > upper
        BY <1>0, <1>1, <2>1, <3>3 DEF Clamp
      <3>4. QED
        BY <3>1, <3>2, <3>3
    <2>3. Clamp(n, a) \in Positions
      <3>1. m \in Int /\ (m \in -1 .. 1 \/ m \in 0 .. Spaces - 1)
        BY <1>0, <1>1
      <3>2. QED
        BY <1>3, <2>2, <3>1
    <2>4. m * One \in a.min .. a.max
      <3>1. lower * One <= m * One /\ m * One <= upper * One /\ m * One \in Int
        BY <1>1, BoundaryOrder
      <3>2. lower * One \in Int /\ upper * One \in Int
        BY <1>1, BoundaryOrder
      <3>3. QED
        BY <1>1, <3>1, <3>2
    <2>5. QED
      BY <1>2, <2>2, <2>3, <2>4 DEF TargetOf
  <1>6. QED
    BY <1>1, <1>4, <1>5

(* A whole space, brought within an animator's limits, is a target of it.   *)
LEMMA AnimatorFacts ==
  ASSUME NEW a \in Animators
  PROVE  /\ a # NoAnimator /\ a.axis \in Axes
         /\ \A n \in Int : n % One = 0 =>
              Clamp(n, a) \in Positions /\ TargetOf(a, Clamp(n, a))
  <1>1. NoAnimator.axis = "none"
    BY DEF NoAnimator
  <1>2. "horizontal" \in Axes /\ "vertical" \in Axes /\ "none" \notin Axes
    BY DEF Axes
  <1>3. QED
    BY <1>1, <1>2, NewAnimatorFacts DEF Animators

(* SetUpForNewGesture either takes over the swipe that stands still, or     *)
(* creates one along the axis whose target is where it starts, or fails     *)
(* without a swipe in progress.                                             *)
LEMMA SetUpFacts ==
  ASSUME IInv,
         NEW axis \in Axes, NEW natural \in {"system", "off"},
         natural = "off" => axis = "vertical",
         NEW s \in SetUps(axis, natural)
  PROVE  /\ {s.position, s.initial, s.target} \subseteq Positions
         /\ \/ /\ s.ok = TRUE /\ s.state = "still" /\ s.animator \in Animators
               /\ TargetOf(s.animator, s.target)
               /\ \/ state # "none" /\ state # "committed" /\ s.animator = animator
                  \/ s.animator.axis = axis
            \/ /\ s.ok = FALSE /\ s.state = Stopped /\ Stopped \in {"none", "committed"}
               /\ s.animator = animator /\ s.target = target_position
  <1>0. /\ {position, goal, initial_position, target_position} \subseteq Positions
        /\ state \in {"none", "still", "running", "committing", "committed"}
        /\ animator \in {NoAnimator} \cup Animators
        /\ animator = NoAnimator <=> state = "none"
        /\ animator # NoAnimator => TargetOf(animator, target_position)
    BY DEF IInv, Typed
  <1>1. CASE Stopped = "still"
    <2>1. s = [ok |-> TRUE, animator |-> animator, state |-> "still", position |-> position,
               initial |-> position, target |-> target_position]
      BY <1>1 DEF SetUps
    <2>2. state # "none" /\ state # "committed"
      BY <1>0, <1>1 DEF Stopped
    <2>3. animator \in Animators
      BY <1>0, <2>2
    <2>4. s.ok = TRUE
      BY <2>1
    <2>5. /\ s.animator = animator /\ s.state = "still" /\ s.position = position
          /\ s.initial = position /\ s.target = target_position
      BY <2>1
    <2> HIDE <2>1
    <2>6. QED
      BY <1>0, <2>2, <2>3, <2>4, <2>5
  <1>2. CASE Stopped # "still"
    <2>1. CASE s = [ok |-> FALSE, animator |-> animator, state |-> Stopped, position |-> position,
                    initial |-> initial_position, target |-> target_position]
      <3>1. Stopped \in {"none", "committed"}
        BY <1>0, <1>2 DEF Stopped
      <3>2. s.ok = FALSE
        BY <2>1
      <3>3. /\ s.animator = animator /\ s.state = Stopped /\ s.position = position
            /\ s.initial = initial_position /\ s.target = target_position
        BY <2>1
      <3>4. QED
        BY <1>0, <3>1, <3>2, <3>3
    <2>2. CASE s \in {[ok |-> TRUE, animator |-> a, state |-> "still", position |-> a.origin,
                       initial |-> a.origin, target |-> a.origin] : a \in NewAnimators(axis, natural)}
      <3>1. PICK a \in NewAnimators(axis, natural) :
              s = [ok |-> TRUE, animator |-> a, state |-> "still", position |-> a.origin,
                   initial |-> a.origin, target |-> a.origin]
        BY <2>2
      <3>2. a \in Animators
        BY DEF Animators, Axes, NewAnimators
      <3>3. a.axis = axis /\ a.origin \in Positions /\ TargetOf(a, a.origin)
        BY NewAnimatorFacts
      <3>4. s.ok = TRUE
        BY <3>1
      <3>5. /\ s.animator = a /\ s.state = "still" /\ s.position = a.origin
            /\ s.initial = a.origin /\ s.target = a.origin
        BY <3>1
      <3>6. QED
        BY <3>2, <3>3, <3>4, <3>5
    <2>3. QED
      BY <1>2, <2>1, <2>2 DEF SetUps
  <1>3. QED
    BY <1>1, <1>2

-----------------------------------------------------------------------------
(* Before the first event there is no animator.                             *)
LEMMA InitIInv == Init => IInv
  <1> SUFFICES ASSUME Init PROVE IInv
    OBVIOUS
  <1>1. 0 \in Positions
    <2>1. 0 * One \in Positions
      BY HandlerAssumption
    <2>2. QED
      BY <2>1, HandlerAssumption
  <1>2. NoAnimator.axis = "none"
    BY DEF NoAnimator
  <1>3. QED
    BY <1>1, <1>2 DEF Init, IInv, Typed, NoOrphan, PassedOnlyWhenIdle, DisabledAxisLeftAlone

(* Between two events the run of the animator goes on, and may be committed. *)
LEMMA AnimationIInv == IInv /\ Animation => IInv'
  <1> SUFFICES ASSUME IInv, Animation PROVE IInv'
    OBVIOUS
  <1> USE DEF Animation, configuration, IInv, Typed, NoOrphan, PassedOnlyWhenIdle,
              DisabledAxisLeftAlone
  <1>1. ASSUME NEW p \in Positions, Run!Frame(p) PROVE IInv'
    BY <1>1 DEF Run!Frame
  <1>2. CASE Run!Finish
    BY <1>2 DEF Run!Finish
  <1>3. CASE state = "committing" /\ Run!Commit
    BY <1>3 DEF Run!Commit
  <1>4. QED
    BY <1>1, <1>2, <1>3

(* The keys' moves and jumps: a swipe along an enabled axis, or one taken   *)
(* over, runs to the target, or there was none in progress.                 *)
LEMMA SetUpAndRunIInv ==
  ASSUME IInv,
         NEW axis \in Axes, axis \in options.axes, NEW natural \in {"system", "off"},
         natural = "off" => axis = "vertical",
         NEW s \in SetUps(axis, natural), NEW target,
         s.ok => target \in Positions /\ TargetOf(s.animator, target),
         SetUpAndRun(s, target), UNCHANGED <<configuration, touching>>
  PROVE  IInv'
  <1> USE DEF SetUpAndRun, configuration, IInv, Typed, NoOrphan, PassedOnlyWhenIdle,
              DisabledAxisLeftAlone
  <1>1. {s.position, s.initial, s.target} \subseteq Positions
    BY SetUpFacts
  <1>2. CASE s.ok = TRUE
    <2>1. s.animator \in Animators /\ (s.animator = animator \/ s.animator.axis = axis)
      BY <1>2, SetUpFacts
    <2>2. s.animator # NoAnimator
      BY <2>1, AnimatorFacts
    <2>3. QED
      BY <1>1, <1>2, <2>1, <2>2
  <1>3. CASE s.ok = FALSE
    <2>1. /\ s.state = Stopped /\ Stopped \in {"none", "committed"}
          /\ s.animator = animator /\ s.target = target_position
      BY <1>3, SetUpFacts
    <2>2. Stopped = "none" <=> state = "none"
      BY DEF Stopped
    <2>3. QED
      BY <1>1, <1>3, <2>1, <2>2
  <1>4. QED
    BY <1>2, <1>3, SetUpFacts

(* An event that is none of the engine's changes nothing.                   *)
LEMMA UnchangedIInv ==
  ASSUME IInv, handled' \in {"ignored", "swallowed", "unchecked", "unrecognized"},
         UNCHANGED <<configuration, animator, animatorState, initial_position,
                     target_position, touching>>
  PROVE  IInv'
  BY DEF configuration, animatorState, IInv, Typed, NoOrphan, PassedOnlyWhenIdle,
     DisabledAxisLeftAlone

(* A move key or a jump key preserves the invariant.                        *)
LEMMA KeyIInv ==
  ASSUME IInv, NEW key \in Keys, Key(key), UNCHANGED configuration
  PROVE  IInv'
  <1>1. CASE Ignored
    BY <1>1, UnchangedIInv DEF Key, Ignored
  <1>2. ASSUME NEW m \in Moves(key), RelativeMove(m.axis, m.sign)
        PROVE  IInv'
    <2>1. m.axis \in Axes /\ m.axis \in options.axes /\ m.sign \in {-1, 1}
      BY DEF Moves, RelativeMoveOf, RelativeMoves, Axes
    <2> DEFINE natural == IF m.axis = "vertical" THEN "off" ELSE "system"
    <2>2. natural \in {"system", "off"} /\ (natural = "off" => m.axis = "vertical")
      OBVIOUS
    <2>3. PICK s \in SetUps(m.axis, natural) :
            SetUpAndRun(s, Clamp(NextSpace(s.target, m.sign), s.animator))
      BY <1>2 DEF RelativeMove
    <2> HIDE DEF natural
    <2> DEFINE target == Clamp(NextSpace(s.target, m.sign), s.animator)
    <2>4. s.ok => target \in Positions /\ TargetOf(s.animator, target)
      <3>1. s.ok => s.animator \in Animators
        BY <2>1, <2>2, <2>3, SetUpFacts
      <3>2. s.target \in Int
        BY <2>1, <2>2, <2>3, SetUpFacts, HandlerAssumption
      <3>3. QED
        BY <2>1, <3>1, <3>2, AnimatorFacts, NextSpaceIsBoundary
    <2>5. UNCHANGED touching
      BY DEF Key
    <2> HIDE DEF target
    <2>6. SetUpAndRun(s, target)
      BY <2>3 DEF target
    <2>7. QED
      BY <2>1, <2>2, <2>3, <2>4, <2>5, <2>6, SetUpAndRunIInv
  <1>3. ASSUME NEW index \in Jumps(key), JumpToSpace(index)
        PROVE  IInv'
    <2>1. CASE UNCHANGED <<animator, animatorState, initial_position, target_position>>
                 /\ handled' \in {"unchecked", "swallowed"}
      BY <2>1, UnchangedIInv DEF Key
    <2>2. ASSUME index < Spaces,
                 NEW s \in SetUps("horizontal", "system"), SetUpAndRun(s, index * One)
          PROVE  IInv'
      <3>1. "horizontal" \in Axes /\ "horizontal" \in options.axes
        BY DEF Jumps, Axes
      <3>2. index \in 0 .. Spaces - 1
        BY <2>2, HandlerAssumption DEF Jumps, JumpOf
      <3>3. index * One \in Positions /\ TargetOf(s.animator, index * One)
        BY <3>2, HandlerAssumption, DivisionFacts DEF TargetOf
      <3>4. UNCHANGED touching
        BY DEF Key
      <3>5. QED
        BY <2>2, <3>1, <3>3, <3>4, SetUpAndRunIInv
    <2>3. QED
      BY <1>3, <2>1, <2>2 DEF JumpToSpace
  <1>4. QED
    BY <1>1, <1>2, <1>3 DEF Key

-----------------------------------------------------------------------------
(* CancelAnimation() and then AnimateToPosition(p) (EndGesture, Cancel-      *)
(* Gesture): a swipe still in progress runs, the OS gets the event of one   *)
(* that is committed.                                                       *)
LEMMA AnimateIInv ==
  ASSUME IInv, state # "none", NEW p \in Positions, Animate(p),
         target_position' \in Positions, TargetOf(animator, target_position'),
         touching' \subseteq Axes, UNCHANGED configuration
  PROVE  IInv'
  <1> USE DEF Animate, Passed, Stopped, configuration, IInv, Typed, NoOrphan,
              PassedOnlyWhenIdle, DisabledAxisLeftAlone
  <1>1. CASE Stopped = "committed"
    BY <1>1
  <1>2. CASE Stopped # "committed"
    BY <1>2
  <1>3. QED
    BY <1>1, <1>2

(* A gesture, in any of its phases.                                         *)
LEMMA GestureIInv ==
  ASSUME IInv, NEW axis \in Axes, NEW progress \in Progresses,
         NEW phase \in Phases,
         Gesture(axis, phase, progress), UNCHANGED configuration
  PROVE  IInv'
  <1>0. Typed /\ NoOrphan /\ PassedOnlyWhenIdle /\ DisabledAxisLeftAlone
    BY DEF IInv
  <1>1. touching' \subseteq Axes
    BY <1>0 DEF Gesture, Touches, Typed
  <1>2. \A a \in Axes : a # axis => (a \in touching <=> a \in touching')
    BY DEF Gesture, Touches
  <1>3. CASE axis \notin options.axes \/ Ignores(axis, phase)
    <2>1. state = "still" => animator.axis # axis /\ animator.axis \in Axes
      <3>1. state = "still" => animator \in Animators
        BY <1>0 DEF Typed
      <3>2. state = "still" => animator.axis \in Axes /\ animator.axis # "none"
        BY <3>1, AnimatorFacts DEF Axes
      <3>3. QED
        BY <1>0, <1>3, <3>2 DEF DisabledAxisLeftAlone, Ignores
    <2>2. /\ handled' \in {"swallowed", "ignored"}
          /\ UNCHANGED <<animator, animatorState, initial_position, target_position>>
      BY <1>3 DEF Gesture
    <2>3. NoOrphan'
      BY <1>0, <1>2, <2>1, <2>2 DEF NoOrphan, animatorState
    <2>4. QED
      BY <1>0, <1>1, <2>2, <2>3 DEF configuration, animatorState, IInv, Typed,
         PassedOnlyWhenIdle, DisabledAxisLeftAlone
  <1>4. CASE axis \in options.axes /\ ~Ignores(axis, phase)
    <2>1. CASE phase = "Began"
      <3>1. BeginGesture(axis) /\ axis \in touching'
        BY <1>4, <2>1 DEF Gesture, GestureCommand, Touches
      <3>2. PICK s \in SetUps(axis, "system") :
              /\ animator' = s.animator /\ position' = s.position
              /\ initial_position' = s.initial /\ target_position' = s.target
              /\ state' = s.state
              /\ handled' = IF s.ok THEN "swallowed" ELSE "passed"
        BY <3>1 DEF BeginGesture
      <3>3. goal' = goal
        BY <3>1 DEF BeginGesture
      <3>4. {s.position, s.initial, s.target} \subseteq Positions
        BY SetUpFacts
      <3>5. CASE s.ok = TRUE
        <4>1. /\ s.state = "still" /\ s.animator \in Animators
              /\ TargetOf(s.animator, s.target)
              /\ \/ state # "none" /\ state # "committed" /\ s.animator = animator
                 \/ s.animator.axis = axis
          BY <3>5, SetUpFacts
        <4>2. s.animator # NoAnimator
          BY <4>1, AnimatorFacts
        <4>3. s.animator.axis = axis
          BY <1>0, <1>4, <4>1 DEF Typed, Ignores
        <4>4. QED
          BY <1>0, <1>1, <1>4, <3>1, <3>2, <3>3, <3>4, <3>5, <4>1, <4>2, <4>3
             DEF configuration, IInv, Typed, NoOrphan, PassedOnlyWhenIdle, DisabledAxisLeftAlone
      <3>6. CASE s.ok = FALSE
        <4>1. /\ s.state = Stopped /\ Stopped \in {"none", "committed"}
              /\ s.animator = animator /\ s.target = target_position
          BY <3>6, SetUpFacts
        <4>2. Stopped = "none" <=> state = "none"
          BY DEF Stopped
        <4>3. QED
          BY <1>1, <3>1, <3>2, <3>3, <3>4, <3>6, <4>1, <4>2
             DEF configuration, IInv, Typed, NoOrphan, PassedOnlyWhenIdle, DisabledAxisLeftAlone
      <3>7. QED
        BY <3>5, <3>6, SetUpFacts
    <2>2. CASE phase = "Changed"
      <3>1. ChangeGesture(progress) /\ axis \in touching'
        BY <1>4, <2>2 DEF Gesture, GestureCommand, Touches
      <3>2. CASE Stopped \in {"none", "committed"}
        BY <1>1, <3>1, <3>2 DEF ChangeGesture, Passed, Stopped, configuration, IInv, Typed,
           NoOrphan, PassedOnlyWhenIdle, DisabledAxisLeftAlone
      <3>3. CASE Stopped \notin {"none", "committed"}
        <4>1. state # "none" /\ state # "committed"
          BY <1>0, <3>3 DEF Stopped, Typed
        <4>2. animator.axis = axis
          BY <1>0, <1>4, <4>1 DEF Typed, Ignores
        <4>3. QED
          BY <1>1, <3>1, <3>3, <4>1, <4>2 DEF ChangeGesture, configuration, IInv, Typed,
             NoOrphan, PassedOnlyWhenIdle, DisabledAxisLeftAlone
      <3>4. QED
        BY <3>2, <3>3
    <2>3. CASE phase \in {"Ended", "Cancelled"} /\ state = "none"
      <3>1. Passed("none")
              /\ UNCHANGED <<animator, position, goal, initial_position, target_position>>
        BY <1>4, <2>3 DEF Gesture, GestureCommand, EndGesture, CancelGesture
      <3>2. QED
        BY <1>1, <2>3, <3>1 DEF Passed, configuration, IInv, Typed, NoOrphan,
           PassedOnlyWhenIdle, DisabledAxisLeftAlone
    <2>4. CASE phase = "Ended" /\ state # "none"
      <3> DEFINE sign == IF progress > 0 THEN 1 ELSE -1
      <3>1. EndGesture(progress)
        BY <1>4, <2>4 DEF Gesture, GestureCommand
      <3>2. sign \in {-1, 1}
        OBVIOUS
      <3>3. target_position' = Clamp(NextSpace(target_position, sign), animator)
              /\ Animate(target_position')
        BY <2>4, <3>1 DEF EndGesture
      <3> HIDE DEF sign
      <3>4. animator \in Animators /\ target_position \in Int
        BY <1>0, <2>4, HandlerAssumption DEF Typed
      <3>5. target_position' \in Positions /\ TargetOf(animator, target_position')
        BY <3>2, <3>3, <3>4, AnimatorFacts, NextSpaceIsBoundary
      <3>6. QED
        BY <1>1, <2>4, <3>3, <3>5, AnimateIInv
    <2>5. CASE phase = "Cancelled" /\ state # "none"
      <3>1. Animate(initial_position) /\ UNCHANGED target_position
        BY <1>4, <2>5 DEF Gesture, GestureCommand, CancelGesture
      <3>2. /\ initial_position \in Positions /\ target_position \in Positions
            /\ TargetOf(animator, target_position)
        BY <2>5 DEF IInv, Typed
      <3>3. QED
        BY <1>1, <2>5, <3>1, <3>2, AnimateIInv
    <2>6. CASE phase = "Other"
      <3>1. /\ handled' = "unrecognized" /\ touching' = touching
            /\ UNCHANGED <<animator, animatorState, initial_position, target_position>>
        BY <1>4, <2>6 DEF Gesture, GestureCommand, Touches
      <3>2. QED
        BY <3>1, UnchangedIInv
    <2>7. QED
      BY <2>1, <2>2, <2>3, <2>4, <2>5, <2>6 DEF Phases
  <1>5. QED
    BY <1>3, <1>4

(* Every event and every step of a run preserves the invariant.             *)
LEMMA NextIInv == IInv /\ [Next]_vars => IInv'
  <1> SUFFICES ASSUME IInv, [Next]_vars PROVE IInv'
    OBVIOUS
  <1>1. CASE Animation
    BY <1>1, AnimationIInv
  <1>2. ASSUME NEW axis \in Axes, NEW phase \in Phases,
               NEW progress \in Progresses, Gesture(axis, phase, progress),
               UNCHANGED configuration
        PROVE  IInv'
    BY <1>2, GestureIInv
  <1>3. ASSUME NEW key \in Keys, Key(key), UNCHANGED configuration PROVE IInv'
    BY <1>3, KeyIInv
  <1>4. CASE Unrecognized /\ UNCHANGED configuration
    BY <1>4, UnchangedIInv DEF Unrecognized, Ignored
  <1>5. CASE UNCHANGED vars
    BY <1>5 DEF vars, configuration, animatorState, IInv, Typed, NoOrphan,
       PassedOnlyWhenIdle, DisabledAxisLeftAlone
  <1>6. QED
    BY <1>1, <1>2, <1>3, <1>4, <1>5 DEF Next, HandleEvent

(* Whatever gestures and keys come, in whatever order, the invariant holds. *)
THEOREM Invariance == Spec => []IInv
  BY InitIInv, NextIInv, PTL DEF Spec

-----------------------------------------------------------------------------
(* The target swipes accumulate is a whole space within what the animator's *)
(* soft limits, its start and the jump keys allow.                          *)
THEOREM TargetInRange == Spec => []TargetIsSpace
  <1>1. IInv => TargetIsSpace
    BY DEF IInv, Typed, TargetIsSpace, TypeOK, TargetOf, Animators, NewAnimators
  <1>2. QED
    BY Invariance, <1>1, PTL

(* No swipe stands still once its gesture has ended or was cancelled,       *)
(* whichever events come or are missing.                                    *)
THEOREM Finished == Spec => []NoOrphan
  <1>1. IInv => NoOrphan
    BY DEF IInv
  <1>2. QED
    BY Invariance, <1>1, PTL

(* The OS gets a key or gesture that failed on the swipe only if there is   *)
(* none in progress.                                                        *)
THEOREM Idle == Spec => []PassedOnlyWhenIdle
  <1>1. IInv => PassedOnlyWhenIdle
    BY DEF IInv
  <1>2. QED
    BY Invariance, <1>1, PTL

(* The engine never swipes along an axis the user has disabled.             *)
THEOREM Disabled == Spec => []DisabledAxisLeftAlone
  <1>1. IInv => DisabledAxisLeftAlone
    BY DEF IInv
  <1>2. QED
    BY Invariance, <1>1, PTL
-----------------------------------------------------------------------------
(* The hotkeys.  What OnlyBoundKeysTaken asks does not hold of every        *)
(* preferences; the theorems say of which it does, and of all of them how   *)
(* far the engine goes.                                                     *)

(* The hotkeys stay those that were loaded when the handler was created.    *)
Configured == hotkeys = LoadHotkeyConfiguration(preferences)

(* What the preferences say of a hotkey.                                    *)
BoundCode(type) ==
  Get(Parameters(Get(preferences.holds, DictionaryKey[type], <<>>)), 2, DefaultHotkey(type).key_code)
BoundModifiers(type) ==
  Get(Parameters(Get(preferences.holds, DictionaryKey[type], <<>>)), 3, DefaultHotkey(type).modifiers)

(* The user has bound keys with Control or without modifiers only, and      *)
(* their codes fit a CGKeyCode.                                             *)
ControlAtMost ==
  \A type \in HotkeyTypes :
    BoundCode(type) % 2^16 = BoundCode(type)
      /\ BoundModifiers(type) \cap kModifierKeyMask \subseteq {"control"}

(* A key pressed with Command, Option, Shift or Caps Lock is never taken,   *)
(* whatever hotkeys the user has bound.                                     *)
OtherModifiersLeftAlone ==
  [][\A key \in Keys :
       Key(key) /\ handled' = "swallowed" =>
         key.modifiers \cap kModifierKeyMask \subseteq {"control"}]_vars

(* Of a user who keeps to Control, the engine takes no key that is not      *)
(* bound, and overlooks none that is bound.                                 *)
ControlKeysAsBound ==
  [][\A key \in Keys : ControlAtMost /\ Key(key) =>
       /\ handled' = "swallowed" => Bound(key) \/ Jumps(key) # {}
       /\ Bound(key) /\ key.physical /\ key.down /\ options.intercept /\ options.axes = Axes =>
            handled' # "ignored"]_vars

(* Nothing reads the preferences again.                                     *)
LEMMA ConfiguredStays == Spec => []Configured
  <1>1. Init => Configured
    BY DEF Init, Configured
  <1>2. Configured /\ [Next]_vars => Configured'
    BY DEF Configured, Next, Animation, HandleEvent, configuration, vars
  <1>3. QED
    BY <1>1, <1>2, PTL DEF Spec

(* What the engine has loaded of a hotkey.                                  *)
LEMMA LoadedHotkey ==
  ASSUME Configured, NEW type \in HotkeyTypes
  PROVE  /\ hotkeys[type].enabled =
              Get(Get(preferences.holds, DictionaryKey[type], <<>>), "enabled", TRUE)
         /\ hotkeys[type].key_code = BoundCode(type) % 2^16
         /\ hotkeys[type].modifiers = {"control"} \cap BoundModifiers(type)
  BY DEF Configured, LoadHotkeyConfiguration, ParseHotkey, BoundCode, BoundModifiers, DefaultHotkey

(* Each move has its hotkey, and each hotkey its move.                      *)
LEMMA MoveTypes ==
  /\ \A i \in 1 .. 4 : RelativeMoves[i].type \in HotkeyTypes /\ RelativeMoves[i].axis \in Axes
  /\ \A type \in HotkeyTypes : \E i \in 1 .. 4 : RelativeMoves[i].type = type
  BY DEF RelativeMoves, HotkeyTypes, Axes

(* A key that is taken is a move's or a jump's.                             *)
LEMMA TakenKey ==
  ASSUME NEW key, Key(key), handled' = "swallowed", Jumps(key) = {}
  PROVE  \E type \in HotkeyTypes : Concerns(key, hotkeys[type])
  <1>1. PICK m : m \in Moves(key)
    BY DEF Key, Ignored
  <1>2. PICK i \in 1 .. 4 : Concerns(key, hotkeys[RelativeMoves[i].type])
    BY <1>1 DEF Moves, RelativeMoveOf
  <1>3. QED
    BY <1>2, MoveTypes

(* Where hotkeys are used and both axes enabled, a key that concerns one is *)
(* some move's: the first that it concerns.                                 *)
LEMMA ConcernedKeyMoves ==
  ASSUME NEW key, NEW type \in HotkeyTypes, Concerns(key, hotkeys[type]),
         options.intercept, options.axes = Axes
  PROVE  Moves(key) # {}
  <1> DEFINE Is(i) == Concerns(key, hotkeys[RelativeMoves[i].type])
  <1>1. \E i \in 1 .. 4 : Is(i)
    BY MoveTypes
  <1> HIDE DEF Is
  <1>2. PICK i \in 1 .. 4 : Is(i) /\ \A j \in 1 .. i - 1 : ~Is(j)
    <2>1. \A i \in 1 .. 4 : i \in {1, 2, 3, 4}
      OBVIOUS
    <2>2. CASE Is(1)
      BY <2>2
    <2>3. CASE ~Is(1) /\ Is(2)
      BY <2>3
    <2>4. CASE ~Is(1) /\ ~Is(2) /\ Is(3)
      BY <2>4
    <2>5. CASE ~Is(1) /\ ~Is(2) /\ ~Is(3) /\ Is(4)
      BY <2>5
    <2>6. QED
      BY <1>1, <2>1, <2>2, <2>3, <2>4, <2>5
  <1>3. RelativeMoves[i] \in RelativeMoveOf(key, hotkeys)
    BY <1>2 DEF RelativeMoveOf, Is
  <1>4. QED
    BY <1>3, MoveTypes DEF Moves

(* The modifiers of a hotkey that is loaded are Control or none.            *)
THEOREM OtherModifiersIgnored == Spec => OtherModifiersLeftAlone
  <1>1. ASSUME Configured, NEW key \in Keys, Key(key), handled' = "swallowed"
        PROVE  key.modifiers \cap kModifierKeyMask \subseteq {"control"}
    <2>1. CASE Jumps(key) # {}
      BY <2>1 DEF Jumps, JumpOf
    <2>2. CASE Jumps(key) = {}
      <3>1. PICK type \in HotkeyTypes : Concerns(key, hotkeys[type])
        BY <1>1, <2>2, TakenKey
      <3>2. QED
        BY <1>1, <3>1, LoadedHotkey DEF Concerns
    <2>3. QED
      BY <2>1, <2>2
  <1>2. Configured /\ [Next]_vars =>
          [\A key \in Keys :
             Key(key) /\ handled' = "swallowed" =>
               key.modifiers \cap kModifierKeyMask \subseteq {"control"}]_vars
    BY <1>1
  <1>3. QED
    BY ConfiguredStays, <1>2, PTL DEF Spec, OtherModifiersLeftAlone

(* Bound keys are exactly those that concern a hotkey, if the user keeps to *)
(* Control.                                                                 *)
LEMMA BoundConcerns ==
  ASSUME Configured, ControlAtMost, NEW key
  PROVE  Bound(key) <=> \E type \in HotkeyTypes : Concerns(key, hotkeys[type])
  <1>1. ASSUME NEW type \in HotkeyTypes
        PROVE  {"control"} \cap BoundModifiers(type) = BoundModifiers(type) \cap kModifierKeyMask
    <2>1. "control" \in kModifierKeyMask
      BY DEF kModifierKeyMask
    <2>2. BoundModifiers(type) \cap kModifierKeyMask \subseteq {"control"}
      BY DEF ControlAtMost
    <2>3. QED
      BY <2>1, <2>2
  <1>2. ASSUME NEW type \in HotkeyTypes
        PROVE  Concerns(key, hotkeys[type]) <=>
                 /\ Get(Get(preferences.holds, DictionaryKey[type], <<>>), "enabled", TRUE)
                 /\ key.key_code = BoundCode(type)
                 /\ key.modifiers \cap kModifierKeyMask = BoundModifiers(type) \cap kModifierKeyMask
    BY <1>1, LoadedHotkey DEF Concerns, ControlAtMost
  <1>3. QED
    BY <1>2 DEF Bound, BoundCode, BoundModifiers

(* A hotkey bound with Control or without modifiers is taken as bound: the  *)
(* divergence is confined to the other modifiers.                           *)
THEOREM ControlKeysTaken == Spec => ControlKeysAsBound
  <1>1. ASSUME Configured, NEW key \in Keys, ControlAtMost, Key(key)
        PROVE  /\ handled' = "swallowed" => Bound(key) \/ Jumps(key) # {}
               /\ Bound(key) /\ key.physical /\ key.down /\ options.intercept
                    /\ options.axes = Axes => handled' # "ignored"
    <2>1. handled' = "swallowed" => Bound(key) \/ Jumps(key) # {}
      BY <1>1, TakenKey, BoundConcerns
    <2>2. ASSUME Bound(key), key.physical, key.down, options.intercept, options.axes = Axes
          PROVE  handled' # "ignored"
      <3>1. PICK type \in HotkeyTypes : Concerns(key, hotkeys[type])
        BY <1>1, <2>2, BoundConcerns
      <3>2. Moves(key) # {}
        BY <2>2, <3>1, ConcernedKeyMoves
      <3>3. PICK m \in Moves(key) : RelativeMove(m.axis, m.sign)
        BY <1>1, <2>2, <3>2 DEF Key
      <3>4. QED
        BY <3>3 DEF RelativeMove, SetUpAndRun
    <2>3. QED
      BY <2>1, <2>2
  <1>2. Configured /\ [Next]_vars =>
          [\A key \in Keys : ControlAtMost /\ Key(key) =>
             /\ handled' = "swallowed" => Bound(key) \/ Jumps(key) # {}
             /\ Bound(key) /\ key.physical /\ key.down /\ options.intercept
                  /\ options.axes = Axes => handled' # "ignored"]_vars
    BY <1>1
  <1>3. QED
    BY ConfiguredStays, <1>2, PTL DEF Spec, ControlKeysAsBound
=============================================================================
