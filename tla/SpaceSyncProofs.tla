-------------------------- MODULE SpaceSyncProofs --------------------------
(***************************************************************************)
(* Proofs about SpaceSync for any displays and spaces, and any number of   *)
(* switches, flicks, failures of the OS and interferences.                 *)
(***************************************************************************)
EXTENDS SpaceSync, TLAPS, WellFoundedInduction

(* The spaces of a list differ in their ids.                                *)
Unique(list) == \A i, j \in 1 .. Len(list) : list[i].id = list[j].id => i = j
Lists == {list \in Seq(Known) : Unique(list)}

SpaceStates == [display : Displays, spaces : Lists, index : Nat]
Adapters == [kind : {"Horizontal", "AppExpose_MacOS26", "AppExpose", "Vertical"},
             continuous : BOOLEAN, state : SpaceStates \cup {None}]
Requests == [axis : {"horizontal", "vertical"}, jump : JumpTargets \cup {None}]
FlicksOfDock == [display : Displays, axis : {"horizontal", "vertical"}, sign : {-1, 1}]

(* An adapter of the spaces has loaded them, the current one among them.    *)
Loaded(a) == a.kind # "AppExpose" => a.state \in SpaceStates /\ a.state.index < Len(a.state.spaces)

(* The engine's thread has no operation, or has one.                        *)
Loading == step \in {"locating", "listing", "indexing"}
Between == step \in {"idle", "asking", "creating"} \/ Loading
Operating == step \in {"ready", "running", "waiting", "leaving"}

(* It has at least an adapter for one.                                      *)
Prepared == step = "creating" \/ Operating

Typed ==
  /\ spaces \in [Displays -> Lists] /\ showing \in [Displays -> Nat]
  /\ mouse \in Displays /\ changes \in Nat
  /\ pending \in Seq(FlicksOfDock)
  /\ origin \in Int /\ position \in Int /\ target \in Int /\ crossed \in Nat
  /\ quiet \in BOOLEAN /\ expected \in BOOLEAN
  /\ step \in {"idle", "locating", "listing", "indexing", "asking", "creating", "ready",
               "running", "waiting", "leaving", "aborted"}
  /\ step = "idle" => adapter = None
  /\ step # "idle" => request \in Requests /\ (request.jump # None => request.axis = "horizontal")
  /\ step = "asking" => request.axis = "horizontal"
  /\ Loading /\ request.axis = "horizontal" /\ ~LookingUp =>
       adapter \in Adapters /\ adapter.kind \in {"Horizontal", "AppExpose_MacOS26"}
  /\ step \in {"listing", "indexing"} => load \in [display : Displays, spaces : Lists]
  /\ Prepared => /\ adapter \in Adapters /\ Loaded(adapter)
                 /\ adapter.kind = "Vertical" <=> request.axis = "vertical"
  /\ step \in {"waiting", "leaving"} => adapter.kind \in {"Horizontal", "Vertical"}

(* The space shown is one of its display's, however the two change.         *)
Displayed == \A d \in Displays : \E i \in 1 .. Len(spaces[d]) : spaces[d][i].id = showing[d]

(* The user has left spaces and displays alone: at all, since the latest    *)
(* wait, or since the one before the operation.                             *)
Undisturbed == changes = 0 \/ (Between /\ quiet) \/ (Operating /\ expected)

(* For so long what was read is as it was, and a jump's space there once it *)
(* has been looked up.                                                      *)
Readings ==
  Undisturbed =>
  /\ step \in {"listing", "indexing"} => load.display = mouse
  /\ step = "indexing" => load.spaces = spaces[mouse]
Snapshot ==
  Undisturbed /\ Prepared /\ adapter.kind # "AppExpose" =>
    adapter.state.display = mouse /\ adapter.state.spaces = spaces[mouse]
JumpInRange ==
  Undisturbed /\ step # "idle" /\ request.jump # None 
    /\ (step = "asking" \/ Prepared \/ adapter # None)
    => request.jump < Len(spaces[mouse])

(* The operation begins at one of the spaces that were loaded, and goes to  *)
(* others.                                                                  *)
OriginInRange ==
  Operating /\ adapter.kind \in {"Horizontal", "AppExpose_MacOS26"}
    => origin \in 0 .. Len(adapter.state.spaces) - 1
WayInRange ==
  Operating /\ expected /\ adapter.kind = "Horizontal" =>
    /\ position \in 0 .. Len(adapter.state.spaces) - 1
    /\ target \in 0 .. Len(adapter.state.spaces) - 1
NotYetCrossed == Operating /\ crossed = 0 => position = origin

(* After an operation that went as expected, or none, the Dock has no       *)
(* display left to flick.                                                   *)
NoneToFlick == \A i \in 1 .. Len(pending) : pending[i].axis = "vertical"
AtRest == Between /\ quiet => NoneToFlick

(* An operation that found the Dock at rest waits for no flicks but its     *)
(* own, and a single one of them is not done before the display changes.    *)
OwnFlicks ==
  Operating /\ quiet =>
  /\ adapter.kind = "Vertical" => NoneToFlick
  /\ adapter.kind = "AppExpose" => pending = <<>>
  /\ adapter.kind \in {"Horizontal", "AppExpose_MacOS26"} =>
       Len(pending) <= crossed
SeenWhenDone ==
  Operating /\ quiet /\ adapter.kind = "Horizontal" /\ crossed <= 1 =>
  /\ pending # <<>> \/ crossed = 0 =>
       adapter.state.spaces[origin + 1].id = showing[adapter.state.display]
  /\ step = "leaving" => pending = <<>>

IInv ==
  /\ Typed /\ Displayed /\ Readings /\ Snapshot /\ JumpInRange
  /\ OriginInRange /\ WayInRange /\ NotYetCrossed /\ AtRest /\ OwnFlicks /\ SeenWhenDone
  /\ DockWhereAsked /\ AbortExplained

-----------------------------------------------------------------------------
(* The spaces an adapter counts.                                            *)
LEMMA CountFacts ==
  ASSUME NEW a \in Adapters, Loaded(a)
  PROVE  /\ Count(a) \in Nat \ {0}
         /\ a.kind # "AppExpose" => Count(a) = Len(a.state.spaces)
         /\ a.kind = "AppExpose" => Count(a) = 2
  BY DEF Loaded, Count, Adapters, SpaceStates

-----------------------------------------------------------------------------
(* Induction, by the least number that is left out.                         *)
LEMMA Induction ==
  ASSUME NEW S, S \subseteq Nat, 0 \in S, \A n \in S : n + 1 \in S
  PROVE  S = Nat
  <1> DEFINE T == Nat \ S
  <1> SUFFICES ASSUME T # {} PROVE FALSE
    OBVIOUS
  <1>1. PICK n \in T : \A m \in T : ~(<<m, n>> \in OpToRel(<, Nat))
    BY NatLessThanWellFounded, WFMin, Zenon
  <1>2. \A m \in T : ~(m < n)
    BY <1>1 DEF OpToRel
  <1>3. n - 1 \in S
    BY <1>2
  <1>4. QED
    BY <1>3

(* The indices a display is at as its flicks are done.                      *)
Journey(g, flicks, d, count, start) ==
  /\ g \in [0 .. Len(flicks) -> Int] /\ g[0] = start
  /\ \A n \in 1 .. Len(flicks) : g[n] = Flicked(flicks[n], d, count, g[n - 1])

(* A flick leads to an index, inside of the spaces from inside of them.     *)
LEMMA FlickedFacts ==
  ASSUME NEW flick \in FlicksOfDock, NEW d, NEW count \in Nat, NEW i \in Int
  PROVE  /\ Flicked(flick, d, count, i) \in Int
         /\ i \in 0 .. count - 1 => Flicked(flick, d, count, i) \in 0 .. count - 1
         /\ flick.axis # "horizontal" => Flicked(flick, d, count, i) = i
  BY DEF Flicked, FlicksOfDock

(* Every journey can be begun, and gone to its end.                         *)
LEMMA JourneyExists ==
  ASSUME NEW flicks \in Seq(FlicksOfDock), NEW d, NEW count \in Nat, NEW start \in Int
  PROVE  \E g : Journey(g, flicks, d, count, start)
  <1> DEFINE To(g, k) == /\ g \in [0 .. k -> Int] /\ g[0] = start
                         /\ \A n \in 1 .. k : g[n] = Flicked(flicks[n], d, count, g[n - 1])
             S == {k \in Nat : k <= Len(flicks) => \E g : To(g, k)}
  <1>1. 0 \in S
    <2>1. To([n \in 0 .. 0 |-> start], 0)
      OBVIOUS
    <2> HIDE DEF To
    <2>2. QED
      BY <2>1
  <1> HIDE DEF To
  <1>2. ASSUME NEW k \in S PROVE k + 1 \in S
    <2> SUFFICES ASSUME k + 1 <= Len(flicks) PROVE \E g : To(g, k + 1)
      OBVIOUS
    <2>1. k \in Nat /\ k <= Len(flicks) /\ k + 1 \in 1 .. Len(flicks)
      OBVIOUS
    <2>2. PICK g : To(g, k)
      BY <2>1
    <2>3. flicks[k + 1] \in FlicksOfDock /\ g[k] \in Int
      BY <2>1, <2>2 DEF To
    <2> DEFINE last == Flicked(flicks[k + 1], d, count, g[k])
               h == [n \in 0 .. k + 1 |-> IF n = k + 1 THEN last ELSE g[n]]
    <2>4. last \in Int
      BY <2>3, FlickedFacts
    <2>5. h \in [0 .. k + 1 -> Int] /\ h[0] = start
      <3> HIDE DEF last
      <3>1. QED
        BY <2>1, <2>2, <2>4 DEF To
    <2>6. ASSUME NEW n \in 1 .. k + 1
          PROVE  h[n] = Flicked(flicks[n], d, count, h[n - 1])
      <3>1. CASE n = k + 1
        <4>1. h[n] = last /\ h[n - 1] = g[k]
          BY <2>1, <3>1
        <4>2. QED
          BY <3>1, <4>1
      <3>2. CASE n # k + 1
        <4>1. n \in 1 .. k /\ h[n] = g[n] /\ h[n - 1] = g[n - 1]
          BY <2>1, <3>2
        <4>2. QED
          BY <2>2, <4>1 DEF To
      <3>3. QED
        BY <3>1, <3>2
    <2>7. To(h, k + 1)
      <3> HIDE DEF h
      <3>1. QED
        BY <2>5, <2>6 DEF To
    <2>8. QED
      BY <2>7
  <1>3. S = Nat
    <2> HIDE DEF S
    <2>1. S \subseteq Nat
      BY DEF S
    <2>2. QED
      BY <1>1, <1>2, <2>1, Induction
  <1>4. PICK g : To(g, Len(flicks))
    <2>1. Len(flicks) \in S
      <3> HIDE DEF S
      <3>1. QED
        BY <1>3
    <2>2. QED
      BY <2>1
  <1>5. Journey(g, flicks, d, count, start)
    BY <1>4 DEF Journey, To
  <1>6. QED
    BY <1>5

(* There is one way to go it.                                               *)
LEMMA JourneyUnique ==
  ASSUME NEW flicks \in Seq(FlicksOfDock), NEW d, NEW count \in Nat, NEW start \in Int,
         NEW f, NEW g, Journey(g, flicks, d, count, start),
         f[0] = start, \A n \in 1 .. Len(flicks) : f[n] = Flicked(flicks[n], d, count, f[n - 1])
  PROVE  f[Len(flicks)] = g[Len(flicks)]
  <1> DEFINE S == {k \in Nat : k <= Len(flicks) => f[k] = g[k]}
  <1>1. 0 \in S
    BY DEF Journey
  <1>2. ASSUME NEW k \in S PROVE k + 1 \in S
    <2> SUFFICES ASSUME k + 1 <= Len(flicks) PROVE f[k + 1] = g[k + 1]
      OBVIOUS
    <2>1. k \in Nat /\ k + 1 \in 1 .. Len(flicks) /\ (k + 1) - 1 = k
      OBVIOUS
    <2>2. f[k] = g[k]
      BY <2>1
    <2>3. f[k + 1] = Flicked(flicks[k + 1], d, count, f[k])
      BY <2>1
    <2>4. g[k + 1] = Flicked(flicks[k + 1], d, count, g[k])
      BY <2>1 DEF Journey
    <2>5. QED
      BY <2>2, <2>3, <2>4
  <1>3. S = Nat
    <2> HIDE DEF S
    <2>1. S \subseteq Nat
      BY DEF S
    <2>2. QED
      BY <1>1, <1>2, <2>1, Induction
  <1>4. Len(flicks) \in S
    <2> HIDE DEF S
    <2>1. QED
      BY <1>3
  <1>5. QED
    BY <1>4

(* What the recursive function computes is where the journey ends.          *)
LEMMA ReachedFacts ==
  ASSUME NEW flicks \in Seq(FlicksOfDock), NEW d, NEW count \in Nat, NEW start \in Int,
         NEW g, Journey(g, flicks, d, count, start)
  PROVE  Reached(flicks, d, count, start) = g[Len(flicks)]
  <1>1. g = [n \in 0 .. Len(flicks) |->
               IF n = 0 THEN start ELSE Flicked(flicks[n], d, count, g[n - 1])]
    <2>1. \A n \in 0 .. Len(flicks) :
            g[n] = IF n = 0 THEN start ELSE Flicked(flicks[n], d, count, g[n - 1])
      BY DEF Journey
    <2>2. QED
      BY <2>1 DEF Journey
  <1>2. PICK f : /\ Reached(flicks, d, count, start) = f[Len(flicks)]
                 /\ f = [n \in 0 .. Len(flicks) |->
                           IF n = 0 THEN start ELSE Flicked(flicks[n], d, count, f[n - 1])]
    BY <1>1, Zenon DEF Reached
  <1>3. f[0] = start
    BY <1>2
  <1>4. \A n \in 1 .. Len(flicks) : f[n] = Flicked(flicks[n], d, count, f[n - 1])
    BY <1>2
  <1>5. f[Len(flicks)] = g[Len(flicks)]
    BY <1>3, <1>4, JourneyUnique
  <1>6. QED
    BY <1>2, <1>5

(* The first flick may be done before.                                      *)
LEMMA ReachedFirst ==
  ASSUME NEW flicks \in Seq(FlicksOfDock), flicks # <<>>, NEW d, NEW count \in Nat,
         NEW start \in Int
  PROVE  Reached(flicks, d, count, start) =
           Reached(Tail(flicks), d, count, Flicked(Head(flicks), d, count, start))
  <1> DEFINE next == Flicked(Head(flicks), d, count, start)
             rest == Tail(flicks)
  <1>1. PICK g : Journey(g, flicks, d, count, start)
    BY JourneyExists
  <1>2. /\ rest \in Seq(FlicksOfDock) /\ Len(flicks) = Len(rest) + 1 /\ Len(rest) \in Nat
        /\ Head(flicks) = flicks[1] /\ Head(flicks) \in FlicksOfDock
        /\ \A n \in 1 .. Len(rest) : rest[n] = flicks[n + 1]
    OBVIOUS
  <1>3. next \in Int /\ g[1] = next
    <2>1. next \in Int
      BY <1>2, FlickedFacts
    <2>2. g[1] = Flicked(flicks[1], d, count, g[1 - 1])
      BY <1>1, <1>2 DEF Journey
    <2>3. g[1 - 1] = start
      BY <1>1 DEF Journey
    <2>4. QED
      BY <1>2, <2>1, <2>2, <2>3
  <1> HIDE DEF next, rest
  <1> DEFINE h == [n \in 0 .. Len(rest) |-> g[n + 1]]
  <1>4. Journey(h, rest, d, count, next)
    <2>1. h \in [0 .. Len(rest) -> Int] /\ h[0] = next
      BY <1>1, <1>2, <1>3 DEF Journey
    <2>2. ASSUME NEW n \in 1 .. Len(rest)
          PROVE  h[n] = Flicked(rest[n], d, count, h[n - 1])
      <3>1. n + 1 \in 1 .. Len(flicks) /\ (n + 1) - 1 = n
        BY <1>2
      <3>2. g[n + 1] = Flicked(flicks[n + 1], d, count, g[n])
        BY <1>1, <3>1 DEF Journey
      <3>3. h[n] = g[n + 1] /\ h[n - 1] = g[n] /\ rest[n] = flicks[n + 1]
        BY <1>2
      <3>4. QED
        BY <3>2, <3>3
    <2> HIDE DEF h
    <2>3. QED
      BY <2>1, <2>2 DEF Journey
  <1>5. Reached(flicks, d, count, start) = g[Len(flicks)]
    BY <1>1, ReachedFacts
  <1>6. Reached(rest, d, count, next) = h[Len(rest)]
    <2> HIDE DEF h
    <2>1. QED
      BY <1>2, <1>3, <1>4, ReachedFacts
  <1>7. h[Len(rest)] = g[Len(flicks)]
    BY <1>2
  <1>8. QED
    BY <1>5, <1>6, <1>7 DEF next, rest

(* No flick for the display, no journey.                                    *)
LEMMA ReachedNone ==
  ASSUME NEW flicks \in Seq(FlicksOfDock), NEW d, NEW count \in Nat, NEW start \in Int,
         \A i \in 1 .. Len(flicks) : flicks[i].axis = "vertical"
  PROVE  Reached(flicks, d, count, start) = start
  <1> DEFINE g == [n \in 0 .. Len(flicks) |-> start]
  <1>1. \A n \in 1 .. Len(flicks) : flicks[n] \in FlicksOfDock
    OBVIOUS
  <1>2. \A n \in 1 .. Len(flicks) : Flicked(flicks[n], d, count, start) = start
    BY <1>1, FlickedFacts
  <1>3. Journey(g, flicks, d, count, start)
    BY <1>2 DEF Journey
  <1>4. QED
    BY <1>3, ReachedFacts

(* Some spaces to one side, and flicks that all go there.                   *)
Past(i, sign, n) == IF sign = 1 THEN i + n ELSE i - n
AllTo(flicks, d, sign) ==
  \A i \in 1 .. Len(flicks) :
    flicks[i].display = d /\ flicks[i].axis = "horizontal" /\ flicks[i].sign = sign

(* Flicks that stay inside of the spaces are all done.                      *)
LEMMA ReachedMore ==
  ASSUME NEW flicks \in Seq(FlicksOfDock), NEW d, NEW count \in Nat, NEW start \in Int,
         NEW sign \in {-1, 1}, NEW more \in Seq(FlicksOfDock), AllTo(more, d, sign),
         Reached(flicks, d, count, start) \in 0 .. count - 1,
         Past(Reached(flicks, d, count, start), sign, Len(more)) \in 0 .. count - 1
  PROVE  Reached(flicks \o more, d, count, start) =
           Past(Reached(flicks, d, count, start), sign, Len(more))
  <1> DEFINE all == flicks \o more
             r == Reached(flicks, d, count, start)
             n == Len(more)
             end == Past(r, sign, n)
             k == Len(flicks)
  <1>1. PICK g : Journey(g, flicks, d, count, start)
    BY JourneyExists
  <1>2. /\ r = g[k] /\ k \in Nat /\ n \in Nat /\ r \in 0 .. count - 1 /\ r \in Int
        /\ end \in 0 .. count - 1 /\ end = IF sign = 1 THEN r + n ELSE r - n
    BY <1>1, ReachedFacts DEF Past
  <1>3. \A m \in 1 .. n : more[m].display = d /\ more[m].axis = "horizontal" /\ more[m].sign = sign
    BY DEF AllTo
  <1>5. /\ all \in Seq(FlicksOfDock) /\ Len(all) = k + n
        /\ \A m \in 1 .. k : all[m] = flicks[m]
        /\ \A m \in k + 1 .. k + n : all[m] = more[m - k]
    OBVIOUS
  <1> HIDE DEF k, r, n, end
  <1> HIDE DEF all
  <1> DEFINE h == [m \in 0 .. k + n |->
                     IF m <= k THEN g[m] ELSE IF sign = 1 THEN r + (m - k) ELSE r - (m - k)]
  <1>6. g \in [0 .. k -> Int] /\ g[0] = start
    BY <1>1 DEF Journey, k
  <1>7. h \in [0 .. k + n -> Int] /\ h[0] = start
    BY <1>2, <1>6
  <1>8. ASSUME NEW m \in 1 .. k + n
        PROVE  h[m] = Flicked(all[m], d, count, h[m - 1])
    <2>1. CASE m <= k
      <3>1. h[m] = g[m] /\ h[m - 1] = g[m - 1] /\ all[m] = flicks[m] /\ m \in 1 .. k
        BY <1>2, <1>5, <2>1
      <3>2. g[m] = Flicked(flicks[m], d, count, g[m - 1])
        BY <1>1, <3>1 DEF Journey, k
      <3>3. QED
        BY <3>1, <3>2
    <2>2. CASE m > k
      <3> DEFINE i == IF sign = 1 THEN r + (m - 1 - k) ELSE r - (m - 1 - k)
      <3> DEFINE l == m - k
      <3>1. m \in Int /\ l \in 1 .. n /\ l - 1 = m - 1 - k /\ r \in Int
        BY <1>2, <2>2
      <3>2. h[m - 1] = i
        <4>1. CASE m - 1 <= k
          <5>1. m - 1 = k
            <6>1. k \in Int /\ m \in Int
              BY <1>2, <3>1
            <6>2. QED
              BY <2>2, <4>1, <6>1
          <5>2. h[k] = g[k] /\ i = r
            BY <1>2, <3>1, <5>1
          <5>3. QED
            BY <1>2, <5>1, <5>2
        <4>2. CASE ~(m - 1 <= k)
          BY <1>2, <3>1, <4>2
        <4>3. QED
          BY <4>1, <4>2
      <3>3. h[m] = IF sign = 1 THEN r + l ELSE r - l
        BY <1>2, <2>2, <3>1
      <3>4. i = IF sign = 1 THEN r + (l - 1) ELSE r - (l - 1)
        BY <3>1
      <3>5. /\ all[m].display = d /\ all[m].axis = "horizontal" /\ all[m].sign = sign
        <4>1. all[m] = more[l] /\ l \in 1 .. n
          BY <1>2, <1>5, <2>2, <3>1
        <4>2. QED
          BY <1>3, <4>1
      <3> HIDE DEF l, h, i
      <3>6. i + sign = h[m] /\ i + sign \in 0 .. count - 1
        <4>1. end \in 0 .. count - 1 /\ end = IF sign = 1 THEN r + n ELSE r - n
          BY <1>2
        <4>2. r \in 0 .. count - 1
          BY <1>2
        <4>3. /\ i + sign = (IF sign = 1 THEN r + l ELSE r - l)
              /\ i + sign \in 0 .. count - 1
          <5>1. l \in 1 .. n /\ n \in Int /\ r \in Int
            BY <1>2, <3>1
          <5>2. CASE sign = 1
            <6>1. i = r + (l - 1) /\ end = r + n
              BY <3>4, <4>1, <5>2
            <6>2. QED
              BY <4>1, <4>2, <5>1, <5>2, <6>1
          <5>3. CASE sign = -1
            <6>1. i = r - (l - 1) /\ end = r - n
              BY <3>4, <4>1, <5>3
            <6>2. QED
              BY <4>1, <4>2, <5>1, <5>3, <6>1
          <5>4. QED
            BY <5>2, <5>3
        <4>4. QED
          BY <3>3, <4>3
      <3>7. Flicked(all[m], d, count, i) = i + sign
        BY <3>5, <3>6 DEF Flicked
      <3>8. QED
        BY <3>2, <3>6, <3>7
    <2>3. QED
      BY <1>2, <2>1, <2>2
  <1>9. h[k + n] = end
    <2>1. CASE n = 0
      <3>1. k + n = k /\ k <= k /\ k \in 0 .. k + n
        BY <1>2, <2>1
      <3>2. h[k] = g[k] /\ end = r
        BY <1>2, <2>1, <3>1
      <3>3. QED
        BY <1>2, <3>1, <3>2
    <2>2. CASE n # 0
      <3>1. ~(k + n <= k) /\ (k + n) - k = n /\ k + n \in 0 .. k + n
        BY <1>2, <2>2
      <3>2. QED
        BY <1>2, <3>1
    <2>3. QED
      BY <2>1, <2>2
  <1> HIDE DEF h
  <1>10. Journey(h, all, d, count, start)
    BY <1>5, <1>7, <1>8 DEF Journey
  <1>11. Reached(all, d, count, start) = end
    BY <1>5, <1>9, <1>10, ReachedFacts
  <1>12. QED
    BY <1>11 DEF all, end, r, n

-----------------------------------------------------------------------------
(* A list of spaces.                                                        *)
LEMMA ListFacts ==
  ASSUME NEW list \in Lists
  PROVE  /\ list \in Seq(Known) /\ list \in Seq(Space) /\ Unique(list) /\ Len(list) \in Nat
         /\ \A i \in 1 .. Len(list) : list[i] \in Known /\ list[i].id \in Nat
  <1>1. list \in Seq(Known) /\ Unique(list) /\ Known \subseteq Space
    BY SpaceAssumption DEF Lists
  <1>2. \A i \in 1 .. Len(list) : list[i] \in Known /\ list[i] \in Space
    BY <1>1
  <1>3. \A i \in 1 .. Len(list) : list[i].id \in Nat
    BY <1>2 DEF Space
  <1>4. list \in Seq(Space)
    BY <1>1, <1>2
  <1>5. QED
    BY <1>1, <1>2, <1>3, <1>4

(* A space is found where it is.                                            *)
LEMMA Located ==
  ASSUME NEW list \in Lists, NEW id, NEW i \in 1 .. Len(list), list[i].id = id
  PROVE  (CHOOSE j \in 1 .. Len(list) : list[j].id = id) = i
  BY DEF Lists, Unique

(* A space that is new to it may be added to a list.                        *)
LEMMA AppendFacts ==
  ASSUME NEW list \in Lists, NEW s \in Known, ~Contains(list, s)
  PROVE  /\ Append(list, s) \in Lists
         /\ \A j \in 1 .. Len(list) :
              j \in 1 .. Len(Append(list, s)) /\ Append(list, s)[j] = list[j]
  <1> DEFINE more == Append(list, s)
  <1>1. list \in Seq(Known) /\ Unique(list) /\ Len(list) \in Nat
    BY ListFacts
  <1>2. /\ more \in Seq(Known) /\ Len(more) = Len(list) + 1
        /\ \A j \in 1 .. Len(list) : more[j] = list[j]
        /\ more[Len(list) + 1] = s
    BY <1>1
  <1>3. \A j \in 1 .. Len(list) : list[j].id # s.id
    <2>1. \A j \in 1 .. Len(list) : list[j] # s
      BY DEF Contains
    <2>2. \A j \in 1 .. Len(list) : list[j] \in Known
      BY ListFacts
    <2>3. QED
      BY <2>1, <2>2, SpaceAssumption
  <1> HIDE DEF more
  <1>4. Unique(more)
    <2> SUFFICES ASSUME NEW i \in 1 .. Len(more), NEW j \in 1 .. Len(more), more[i].id = more[j].id
                 PROVE  i = j
      BY DEF Unique
    <2>1. CASE i \in 1 .. Len(list) /\ j \in 1 .. Len(list)
      BY <1>1, <1>2, <2>1 DEF Unique
    <2>2. CASE i = Len(list) + 1 /\ j \in 1 .. Len(list)
      BY <1>2, <1>3, <2>2
    <2>3. CASE i \in 1 .. Len(list) /\ j = Len(list) + 1
      BY <1>2, <1>3, <2>3
    <2>4. QED
      BY <1>1, <1>2, <2>1, <2>2, <2>3
  <1>5. QED
    BY <1>1, <1>2, <1>4 DEF Lists, more

(* Any may be removed, and the others stay.                                 *)
LEMMA RemoveFacts ==
  ASSUME NEW list \in Lists, NEW i \in 1 .. Len(list)
  PROVE  /\ RemoveAt(list, i) \in Lists
         /\ \A j \in 1 .. Len(list) : j # i =>
              \E k \in 1 .. Len(RemoveAt(list, i)) : RemoveAt(list, i)[k] = list[j]
  <1> DEFINE rest == RemoveAt(list, i)
             From(k) == IF k < i THEN k ELSE k + 1
  <1>1. list \in Seq(Known) /\ Unique(list) /\ Len(list) \in Nat
    BY ListFacts
  <1> DEFINE before == SubSeq(list, 1, i - 1)
             after == SubSeq(list, i + 1, Len(list))
  <1>2. rest = before \o after
    BY DEF RemoveAt
  <1>3. /\ before \in Seq(Known) /\ Len(before) = i - 1
        /\ \A k \in 1 .. i - 1 : before[k] = list[k]
    BY <1>1
  <1>4. /\ after \in Seq(Known) /\ Len(after) = Len(list) - i
        /\ \A k \in 1 .. Len(list) - i : after[k] = list[k + i]
    BY <1>1
  <1> HIDE DEF rest, before, after
  <1>8. rest \in Seq(Known) /\ Len(rest) = Len(list) - 1
    BY <1>1, <1>2, <1>3, <1>4
  <1>9. \A k \in 1 .. Len(rest) : rest[k] = list[From(k)]
    <2>1. ASSUME NEW k \in 1 .. Len(rest), k < i PROVE rest[k] = list[k]
      BY <1>1, <1>2, <1>3, <1>4, <1>8, <2>1
    <2>2. ASSUME NEW k \in 1 .. Len(rest), ~(k < i) PROVE rest[k] = list[k + 1]
      <3>1. rest[k] = after[k - (i - 1)]
        BY <1>1, <1>2, <1>3, <1>4, <1>8, <2>2
      <3>2. k - (i - 1) \in 1 .. Len(list) - i /\ (k - (i - 1)) + i = k + 1
        BY <1>1, <1>8, <2>2
      <3>3. QED
        BY <1>4, <3>1, <3>2
    <2>3. QED
      BY <2>1, <2>2
  <1>5. Unique(rest)
    <2> SUFFICES ASSUME NEW k \in 1 .. Len(rest), NEW l \in 1 .. Len(rest), rest[k].id = rest[l].id
                 PROVE  k = l
      BY DEF Unique
    <2>1. From(k) \in 1 .. Len(list) /\ From(l) \in 1 .. Len(list)
      BY <1>1, <1>8
    <2>2. From(k) = From(l)
      <3> HIDE DEF From
      <3>1. QED
        BY <1>1, <1>9, <2>1 DEF Unique
    <2>3. QED
      BY <1>1, <1>8, <2>2
  <1>6. ASSUME NEW j \in 1 .. Len(list), j # i
        PROVE  \E k \in 1 .. Len(rest) : rest[k] = list[j]
    <2>1. CASE j < i
      <3>1. j \in 1 .. Len(rest) /\ From(j) = j
        BY <1>1, <1>8, <2>1
      <3>2. QED
        BY <1>9, <3>1
    <2>2. CASE j > i
      <3>1. j - 1 \in 1 .. Len(rest) /\ From(j - 1) = j
        BY <1>1, <1>8, <2>2
      <3>2. QED
        BY <1>9, <3>1
    <2>3. QED
      BY <1>6, <2>1, <2>2
  <1>7. QED
    BY <1>1, <1>8, <1>5, <1>6 DEF Lists, rest

(* What is found in a list of spaces is inside of it.                       *)
LEMMA IndexFacts ==
  ASSUME NEW list \in Lists, NEW id \in Nat, NEW i \in IndexIn(list, id)
  PROVE  i \in 0 .. Len(list) - 1 /\ list[i + 1].id = id
  <1>1. PICK j \in 1 .. Len(list) : list[j].id = id /\ i = j - 1
    BY DEF IndexIn
  <1>2. Len(list) \in Nat
    BY ListFacts
  <1>3. i + 1 = j
    BY <1>1, <1>2
  <1>4. QED
    BY <1>1, <1>2, <1>3

(* The space that a display shows.                                          *)
LEMMA AtFacts ==
  ASSUME Typed, Displayed, NEW d \in Displays
  PROVE  /\ spaces[d] \in Lists /\ Len(spaces[d]) \in Nat /\ showing[d] \in Nat
         /\ At(d) \in 1 .. Len(spaces[d]) /\ spaces[d][At(d)].id = showing[d]
         /\ At(d) - 1 \in 0 .. Len(spaces[d]) - 1
  <1>1. spaces[d] \in Lists /\ showing[d] \in Nat
    BY DEF Typed
  <1>2. Len(spaces[d]) \in Nat
    BY <1>1, ListFacts
  <1>3. At(d) \in 1 .. Len(spaces[d]) /\ spaces[d][At(d)].id = showing[d]
    BY DEF At, Displayed
  <1>4. QED
    BY <1>1, <1>2, <1>3

(* The spaces loaded are those of a display, and one of them is shown.      *)
LEMMA LoadFacts ==
  ASSUME Typed, step = "indexing", NEW i \in IndexIn(load.spaces, showing[load.display])
  PROVE  LET s == [display |-> load.display, spaces |-> load.spaces, index |-> i]
         IN  s \in SpaceStates /\ s.index < Len(s.spaces)
  <1>1. load.display \in Displays /\ load.spaces \in Lists /\ showing[load.display] \in Nat
    BY DEF Typed
  <1>2. i \in 0 .. Len(load.spaces) - 1 /\ Len(load.spaces) \in Nat
    BY <1>1, IndexFacts, ListFacts
  <1>3. QED
    BY <1>1, <1>2 DEF SpaceStates

(* The Dock has at most one overview.                                       *)
LEMMA OverviewFacts ==
  /\ ActiveMultitaskingWindow \subseteq -1 .. 1
  /\ ActiveMultitaskingWindow = {} =>
       ~macos27 /\ {"mission-control", "show-front"} \subseteq windows
  BY DEF ActiveMultitaskingWindow

(* Where an operation begins.                                               *)
LEMMA CommittedFacts ==
  ASSUME Typed, NEW a \in Adapters, Loaded(a), NEW p \in CommittedPosition(a)
  PROVE  /\ p \in Int
         /\ a.kind \in {"Horizontal", "AppExpose_MacOS26"} =>
              /\ p \in 0 .. Len(a.state.spaces) - 1
              /\ a.state.spaces[p + 1].id = showing[a.state.display]
  <1>1. CASE a.kind \in {"Horizontal", "AppExpose_MacOS26"}
    <2>1. p \in IndexIn(a.state.spaces, showing[a.state.display])
      BY <1>1 DEF CommittedPosition
    <2>2. a.state \in SpaceStates
      BY <1>1 DEF Loaded
    <2>3. a.state.spaces \in Lists /\ showing[a.state.display] \in Nat
      BY <2>2 DEF SpaceStates, Typed
    <2>4. p \in 0 .. Len(a.state.spaces) - 1 /\ a.state.spaces[p + 1].id = showing[a.state.display]
      BY <2>1, <2>3, IndexFacts
    <2>5. QED
      BY <2>4
  <1>2. CASE a.kind = "AppExpose"
    BY <1>2 DEF CommittedPosition
  <1>3. CASE a.kind = "Vertical"
    BY <1>3, OverviewFacts DEF CommittedPosition
  <1>4. QED
    BY <1>1, <1>2, <1>3 DEF Adapters

(* An operation is left without a committed position only by two overviews  *)
(* at once, or by other spaces than were loaded.                            *)
LEMMA CommittedExists ==
  ASSUME Typed, Displayed, Prepared, CommittedPosition(adapter) = {}
  PROVE  IF adapter.kind = "Vertical"
           THEN ~macos27 /\ {"mission-control", "show-front"} \subseteq windows
           ELSE adapter.state.spaces # spaces[adapter.state.display]
  <1>1. adapter \in Adapters /\ Loaded(adapter)
    BY DEF Typed
  <1>2. CASE adapter.kind \in {"Horizontal", "AppExpose_MacOS26"}
    <2> DEFINE d == adapter.state.display
    <2>1. d \in Displays
      BY <1>1, <1>2 DEF Loaded, SpaceStates
    <2>2. IndexIn(spaces[d], showing[d]) # {}
      BY <2>1 DEF Displayed, IndexIn
    <2>3. CommittedPosition(adapter) = IndexIn(adapter.state.spaces, showing[d])
      BY <1>2 DEF CommittedPosition
    <2>4. QED
      BY <1>2, <2>2, <2>3
  <1>3. CASE adapter.kind = "AppExpose"
    BY <1>3 DEF CommittedPosition
  <1>4. CASE adapter.kind = "Vertical"
    BY <1>4, OverviewFacts DEF CommittedPosition
  <1>5. QED
    BY <1>1, <1>2, <1>3, <1>4 DEF Adapters

-----------------------------------------------------------------------------
(* The first space of each display is the one shown, and the thread idle.   *)
LEMMA InitIInv == Init => IInv
  <1> SUFFICES ASSUME Init PROVE IInv
    OBVIOUS
  <1>1. ASSUME NEW d \in Displays
        PROVE  /\ InitialSpaces[d] \in Lists /\ 1 \in 1 .. Len(InitialSpaces[d])
               /\ InitialSpaces[d][1].id \in Nat
    <2> DEFINE list == InitialSpaces[d]
    <2>1. list \in Seq(Known) /\ list # <<>> /\ IsInjective(list)
      BY SpaceAssumption
    <2>2. DOMAIN list = 1 .. Len(list) /\ 1 \in 1 .. Len(list)
      BY <2>1
    <2> HIDE DEF list
    <2>3. Unique(list)
      <3> SUFFICES ASSUME NEW i \in 1 .. Len(list), NEW j \in 1 .. Len(list),
                          list[i].id = list[j].id
                   PROVE  i = j
        BY DEF Unique
      <3>1. list[i] \in Known /\ list[j] \in Known
        BY <2>1
      <3>2. list[i] = list[j]
        BY <3>1, SpaceAssumption
      <3>3. QED
        BY <2>1, <2>2, <3>2 DEF IsInjective
    <2>4. list \in Lists
      BY <2>1, <2>3 DEF Lists
    <2>5. list[1].id \in Nat
      BY <2>2, <2>4, ListFacts
    <2>6. QED
      BY <2>2, <2>4, <2>5 DEF list
  <1>2. Typed
    <2>1. spaces \in [Displays -> Lists]
      BY <1>1, SpaceAssumption DEF Init
    <2>2. showing \in [Displays -> Nat]
      BY <1>1 DEF Init
    <2>3. pending \in Seq(FlicksOfDock)
      BY DEF Init
    <2>4. quiet \in BOOLEAN /\ expected \in BOOLEAN
      BY Zenon DEF Init
    <2>5. QED
      BY <2>1, <2>2, <2>3, <2>4 DEF Init, Typed, Prepared, Operating, Loading
  <1>3. Displayed
    BY <1>1 DEF Init, Displayed
  <1>4. AtRest
    BY DEF Init, AtRest, NoneToFlick
  <1>5. ~Operating /\ ~Prepared /\ step = "idle"
    BY DEF Init, Operating, Prepared
  <1>6. QED
    BY <1>2, <1>3, <1>4, <1>5
       DEF Init, IInv, Readings, Snapshot, JumpInRange, OriginInRange, WayInRange,
           NotYetCrossed, OwnFlicks, SeenWhenDone, DockWhereAsked, AbortExplained

-----------------------------------------------------------------------------
(* One flick shows the neighbour, or nothing if there is none, and brings   *)
(* no display nearer to where it will end up, or farther from it.           *)
LEMMA DockFlicksFacts ==
  ASSUME IInv, DockFlicks
  PROVE  /\ showing' \in [Displays -> Nat] /\ pending' \in Seq(FlicksOfDock)
         /\ Len(pending) \in Nat /\ Len(pending) # 0 /\ Len(pending') = Len(pending) - 1
         /\ NoneToFlick => NoneToFlick'
         /\ Displayed'
         /\ \A d \in Displays : Destination(d)' = Destination(d)
  <1> DEFINE flick == Head(pending)
             d == flick.display
             next == Flicked(flick, d, Len(spaces[d]), At(d) - 1)
  <1>1. pending \in Seq(FlicksOfDock) /\ pending # <<>> /\ pending' = Tail(pending)
    BY DEF IInv, Typed, DockFlicks
  <1>2. /\ flick \in FlicksOfDock /\ pending' \in Seq(FlicksOfDock)
        /\ Len(pending) \in Nat /\ Len(pending) # 0 /\ Len(pending') = Len(pending) - 1
        /\ \A i \in 1 .. Len(pending') : i + 1 \in 1 .. Len(pending) /\ pending'[i] = pending[i + 1]
    BY <1>1
  <1>3. NoneToFlick => NoneToFlick'
    BY <1>2 DEF NoneToFlick
  <1>4. Typed /\ Displayed
    BY DEF IInv
  <1>5. showing \in [Displays -> Nat] /\ spaces' = spaces /\ d \in Displays
    BY <1>2, <1>4 DEF Typed, DockFlicks, FlicksOfDock
  <1>6. /\ flick.axis = "horizontal" => showing' = [showing EXCEPT ![d] = spaces[d][next + 1].id]
        /\ flick.axis # "horizontal" => showing' = showing
    BY DEF DockFlicks
  <1> HIDE DEF flick
  <1>7. next \in 0 .. Len(spaces[d]) - 1 /\ Len(spaces[d]) \in Nat
    <2>1. Len(spaces[d]) \in Nat /\ At(d) - 1 \in Int /\ At(d) - 1 \in 0 .. Len(spaces[d]) - 1
      BY <1>4, <1>5, AtFacts
    <2>2. QED
      BY <1>2, <2>1, FlickedFacts
  <1>8. next + 1 \in 1 .. Len(spaces[d]) /\ (next + 1) - 1 = next /\ next \in Int
    BY <1>7
  <1> HIDE DEF next
  <1>9. spaces[d][next + 1].id \in Nat
    BY <1>4, <1>5, <1>8, AtFacts, ListFacts
  <1>10. showing' \in [Displays -> Nat]
    BY <1>5, <1>6, <1>9
  (* Where a display is now, and where it was.                              *)
  <1>11. ASSUME NEW e \in Displays
         PROVE  LET i == Flicked(flick, e, Len(spaces[e]), At(e) - 1)
                IN  /\ i + 1 \in 1 .. Len(spaces[e]) /\ spaces[e][i + 1].id = showing'[e]
                    /\ i \in Int /\ (i + 1) - 1 = i
    <2>1. CASE e = d /\ flick.axis = "horizontal"
      <3>1. showing'[d] = spaces[d][next + 1].id
        BY <1>5, <1>6, <2>1
      <3>2. Flicked(flick, e, Len(spaces[e]), At(e) - 1) = next
        BY <2>1 DEF next
      <3>3. QED
        BY <1>8, <2>1, <3>1, <3>2
    <2>2. CASE ~(e = d /\ flick.axis = "horizontal")
      <3>1. showing'[e] = showing[e]
        BY <1>5, <1>6, <2>2
      <3>2. Flicked(flick, e, Len(spaces[e]), At(e) - 1) = At(e) - 1
        BY <2>2 DEF Flicked
      <3>3. At(e) \in 1 .. Len(spaces[e]) /\ spaces[e][At(e)].id = showing[e]
            /\ Len(spaces[e]) \in Nat
        BY <1>4, AtFacts
      <3>4. (At(e) - 1) + 1 = At(e) /\ At(e) - 1 \in Int
        BY <3>3
      <3>5. QED
        BY <3>1, <3>2, <3>3, <3>4
    <2>3. QED
      BY <2>1, <2>2
  <1>12. Displayed'
    BY <1>5, <1>11 DEF Displayed
  <1>13. ASSUME NEW e \in Displays
         PROVE  Destination(e)' = Destination(e)
    <2> DEFINE count == Len(spaces[e])
               i == Flicked(flick, e, count, At(e) - 1)
    <2>1. spaces[e] \in Lists /\ count \in Nat /\ At(e) - 1 \in Int
      BY <1>4, AtFacts
    <2>2. i + 1 \in 1 .. count /\ spaces[e][i + 1].id = showing'[e] /\ (i + 1) - 1 = i
      BY <1>11
    <2> HIDE DEF i, count
    <2>3. At(e)' = i + 1
      BY <1>5, <2>1, <2>2, Located DEF At, count
    <2>4. Destination(e)' = Reached(Tail(pending), e, count, i)
      BY <1>1, <1>5, <2>2, <2>3 DEF Destination, count
    <2>5. Destination(e) = Reached(Tail(pending), e, count, i)
      BY <1>1, <2>1, ReachedFirst DEF Destination, count, i, flick
    <2>6. QED
      BY <2>4, <2>5
  <1>14. QED
    BY <1>2, <1>3, <1>10, <1>12, <1>13

(* The Dock disturbs no more than what is shown, and nothing that the       *)
(* engine has still to learn of it.                                         *)
LEMMA SystemIInv ==
  ASSUME IInv, step # "aborted", System
  PROVE  IInv'
  <1>1. /\ UNCHANGED <<spaces, mouse, changes, step, request, load, adapter>>
        /\ UNCHANGED <<origin, position, target, crossed, quiet, expected>>
    BY DEF System, DockFlicks, DockWindows, operation, history
  <1>2. Typed
    BY DEF IInv
  <1>3. /\ showing' \in [Displays -> Nat] /\ pending' \in Seq(FlicksOfDock)
        /\ Displayed'
        /\ NoneToFlick => NoneToFlick'
        /\ \A d \in Displays : Destination(d)' = Destination(d)
    <2>1. CASE DockFlicks
      BY <2>1, DockFlicksFacts
    <2>2. CASE DockWindows
      <3>1. UNCHANGED <<showing, pending>>
        BY <2>2 DEF DockWindows
      <3>2. \A d \in Displays : Destination(d)' = Destination(d)
        BY <1>1, <3>1 DEF Destination, At
      <3>3. QED
        BY <1>1, <1>2, <3>1, <3>2 DEF IInv, Typed, Displayed, NoneToFlick
    <2>3. QED
      BY <2>1, <2>2 DEF System
  <1>4. Typed'
    BY <1>1, <1>2, <1>3 DEF Typed, Prepared, Operating, Loading, Loaded, LookingUp
  <1>5. Readings' /\ Snapshot' /\ JumpInRange'
    BY <1>1 DEF IInv, Readings, Snapshot, JumpInRange, Undisturbed, Between, Prepared,
                Operating, Loading
  <1>6. OriginInRange' /\ WayInRange' /\ NotYetCrossed'
    BY <1>1 DEF IInv, OriginInRange, WayInRange, NotYetCrossed, Operating
  <1>7. AtRest'
    BY <1>1, <1>3 DEF IInv, AtRest, Between, Loading
  <1>8. OwnFlicks' /\ SeenWhenDone'
    <2>1. CASE DockFlicks
      <3>1. Len(pending) \in Nat /\ Len(pending) # 0 /\ Len(pending') = Len(pending) - 1
        BY <2>1, DockFlicksFacts
      <3>2. pending # <<>>
        BY <2>1 DEF DockFlicks
      <3>3. crossed \in Nat
        BY <1>2 DEF Typed
      <3>4. OwnFlicks'
        <4>1. SUFFICES ASSUME Operating, quiet PROVE OwnFlicks'
          BY <1>1 DEF OwnFlicks, Operating
        <4>2. adapter.kind = "Vertical" => NoneToFlick'
          BY <1>3, <4>1 DEF IInv, OwnFlicks
        <4>3. adapter.kind # "AppExpose"
          BY <3>2, <4>1 DEF IInv, OwnFlicks
        <4>4. ASSUME adapter.kind \in {"Horizontal", "AppExpose_MacOS26"}
              PROVE  Len(pending') <= crossed
          <5>1. Len(pending) <= crossed
            BY <4>1, <4>4 DEF IInv, OwnFlicks
          <5>2. QED
            BY <3>1, <3>3, <5>1
        <4>5. QED
          BY <1>1, <4>2, <4>3, <4>4 DEF OwnFlicks
      <3>5. ASSUME Operating, quiet, adapter.kind = "Horizontal", crossed <= 1
            PROVE  pending' = <<>> /\ crossed # 0
        <4>1. Len(pending) <= crossed
          BY <3>5 DEF IInv, OwnFlicks
        <4>2. Len(pending') = 0 /\ crossed # 0
          BY <3>1, <3>3, <3>5, <4>1
        <4>3. QED
          BY <1>3, <4>2
      <3>6. SeenWhenDone'
        BY <1>1, <3>5 DEF SeenWhenDone, Operating
      <3>7. QED
        BY <3>4, <3>6
    <2>2. CASE DockWindows
      BY <1>1, <2>2 DEF DockWindows, IInv, OwnFlicks, SeenWhenDone, NoneToFlick, Operating
    <2>3. QED
      BY <2>1, <2>2 DEF System
  <1>9. DockWhereAsked'
    <2>1. ASSUME Operating, expected, adapter.kind = "Horizontal"
          PROVE  Destination(adapter.state.display)' = position
      <3> DEFINE d == adapter.state.display
      <3>1. d \in Displays
        BY <1>2, <2>1 DEF Typed, Prepared, Loaded, SpaceStates
      <3>2. Destination(d) = position
        BY <2>1 DEF IInv, DockWhereAsked, Operating
      <3> HIDE DEF d
      <3>3. d' = d
        BY <1>1 DEF d
      <3>4. Destination(d)' = Destination(d)
        BY <1>3, <3>1, <3>3 DEF Destination, At
      <3>5. QED
        BY <3>2, <3>4 DEF d
    <2>2. QED
      BY <1>1, <2>1 DEF DockWhereAsked, Operating
  <1>10. AbortExplained'
    BY <1>1 DEF AbortExplained
  <1>11. QED
    BY <1>3, <1>4, <1>5, <1>6, <1>7, <1>8, <1>9, <1>10 DEF IInv

(* The user leaves lists of spaces behind in which each space is once and   *)
(* the one shown there; the rest is no longer claimed.                      *)
LEMMA UserActsIInv ==
  ASSUME IInv, step # "aborted", UserActs
  PROVE  IInv'
  <1>1. /\ UNCHANGED <<pending, step, request, load, adapter, origin, position, target, crossed>>
        /\ quiet' = FALSE /\ expected' = FALSE
    BY DEF UserActs, operation
  <1>2. changes \in Nat /\ changes' = changes + 1
    BY DEF IInv, Typed, UserActs
  <1>3. /\ spaces \in [Displays -> Lists] /\ showing \in [Displays -> Nat]
        /\ mouse \in Displays
        /\ \A d \in Displays : \E i \in 1 .. Len(spaces[d]) : spaces[d][i].id = showing[d]
    BY DEF IInv, Typed, Displayed
  <1> DEFINE Kept == /\ spaces' \in [Displays -> Lists] /\ showing' \in [Displays -> Nat]
                     /\ mouse' \in Displays /\ Displayed'
  <1>4. Kept
    <2>1. CASE \E d \in Displays \ {mouse} : mouse' = d /\ UNCHANGED <<spaces, showing>>
      BY <1>3, <2>1 DEF Displayed
    <2>2. ASSUME NEW d \in Displays, NEW s \in NewSpaces,
                 \A e \in Displays : ~Contains(spaces[e], s),
                 spaces' = [spaces EXCEPT ![d] = Append(@, s)],
                 UNCHANGED <<showing, mouse>>
          PROVE  Kept
      <3> DEFINE more == Append(spaces[d], s)
      <3>1. s \in Known /\ spaces[d] \in Lists /\ ~Contains(spaces[d], s)
        BY <1>3, <2>2 DEF Known
      <3>2. /\ more \in Lists
            /\ \A j \in 1 .. Len(spaces[d]) : j \in 1 .. Len(more) /\ more[j] = spaces[d][j]
        BY <3>1, AppendFacts
      <3>3. spaces' = [spaces EXCEPT ![d] = more]
        BY <2>2
      <3> HIDE DEF more
      <3>4. spaces' \in [Displays -> Lists]
        BY <1>3, <3>2, <3>3
      <3>5. Displayed'
        BY <1>3, <2>2, <3>2, <3>3 DEF Displayed
      <3>6. QED
        BY <1>3, <2>2, <3>4, <3>5
    <2>3. ASSUME NEW d \in Displays, NEW i \in 1 .. Len(spaces[d]),
                 spaces[d][i].id # showing[d],
                 spaces' = [spaces EXCEPT ![d] = RemoveAt(@, i)],
                 UNCHANGED <<showing, mouse>>
          PROVE  Kept
      <3> DEFINE rest == RemoveAt(spaces[d], i)
      <3>1. spaces[d] \in Lists
        BY <1>3
      <3>2. /\ rest \in Lists
            /\ \A j \in 1 .. Len(spaces[d]) : j # i => \E k \in 1 .. Len(rest) : rest[k] = spaces[d][j]
        BY <3>1, RemoveFacts
      <3>3. spaces' = [spaces EXCEPT ![d] = rest]
        BY <2>3
      <3> HIDE DEF rest
      <3>4. spaces' \in [Displays -> Lists]
        BY <1>3, <3>2, <3>3
      <3>5. \E k \in 1 .. Len(rest) : rest[k].id = showing[d]
        <4>1. PICK j \in 1 .. Len(spaces[d]) : spaces[d][j].id = showing[d]
          BY <1>3
        <4>2. QED
          BY <2>3, <3>2, <4>1
      <3>6. Displayed'
        BY <1>3, <2>3, <3>3, <3>5 DEF Displayed
      <3>7. QED
        BY <1>3, <2>3, <3>4, <3>6
    <2>4. ASSUME NEW d \in Displays, NEW i \in 1 .. Len(spaces[d]),
                 showing' = [showing EXCEPT ![d] = spaces[d][i].id],
                 UNCHANGED <<spaces, mouse>>
          PROVE  Kept
      <3>1. spaces[d] \in Lists
        BY <1>3
      <3>2. spaces[d][i].id \in Nat
        BY <3>1, ListFacts
      <3>3. Displayed'
        BY <1>3, <2>4 DEF Displayed
      <3>4. QED
        BY <1>3, <2>4, <3>2, <3>3
    <2>5. QED
      BY <2>1, <2>2, <2>3, <2>4 DEF UserActs
  <1>5. Typed'
    <2>1. quiet' \in BOOLEAN /\ expected' \in BOOLEAN
      BY <1>1, Zenon
    <2>2. changes' \in Nat
      BY <1>2
    <2>3. QED
      BY <1>1, <1>4, <2>1, <2>2 DEF IInv, Typed, Prepared, Operating, Loading, Loaded, LookingUp
  <1>6. ~Undisturbed'
    BY <1>1, <1>2 DEF Undisturbed
  <1>7. Readings' /\ Snapshot' /\ JumpInRange'
    BY <1>6 DEF Readings, Snapshot, JumpInRange
  <1>8. OriginInRange' /\ WayInRange' /\ NotYetCrossed'
    BY <1>1 DEF IInv, OriginInRange, WayInRange, NotYetCrossed, Operating
  <1>9. AtRest' /\ OwnFlicks' /\ SeenWhenDone' /\ DockWhereAsked'
    BY <1>1 DEF AtRest, OwnFlicks, SeenWhenDone, DockWhereAsked
  <1>10. AbortExplained'
    BY <1>1 DEF AbortExplained
  <1>11. QED
    BY <1>4, <1>5, <1>7, <1>8, <1>9, <1>10 DEF IInv

-----------------------------------------------------------------------------
(* The engine's steps.  While there is no operation, little is claimed.     *)
LEMMA BetweenFacts ==
  ASSUME IInv, Between', UNCHANGED <<spaces, showing, mouse, changes>>,
         Between => UNCHANGED <<pending, quiet>>
  PROVE  /\ Displayed' /\ OriginInRange' /\ WayInRange' /\ NotYetCrossed'
         /\ OwnFlicks' /\ SeenWhenDone' /\ DockWhereAsked' /\ AbortExplained'
         /\ Between => AtRest'
         /\ Between /\ Undisturbed' => Undisturbed
  <1>1. ~Operating' /\ step' \notin {"ready", "running", "waiting", "leaving", "aborted"}
    BY DEF Between, Operating, Loading
  <1>2. Displayed'
    BY DEF IInv, Displayed
  <1>3. /\ OriginInRange' /\ WayInRange' /\ NotYetCrossed'
        /\ OwnFlicks' /\ SeenWhenDone' /\ DockWhereAsked' /\ AbortExplained'
    BY <1>1 DEF OriginInRange, WayInRange, NotYetCrossed, OwnFlicks, SeenWhenDone,
                DockWhereAsked, AbortExplained
  <1>4. Between => AtRest'
    BY DEF IInv, AtRest, NoneToFlick
  <1>5. Between /\ Undisturbed' => Undisturbed
    BY <1>1 DEF Undisturbed
  <1>6. QED
    BY <1>2, <1>3, <1>4, <1>5

(* A jump has still to look for its space.                                  *)
LEMMA RequestIInv ==
  ASSUME IInv, NEW axis \in {"horizontal", "vertical"}, NEW jump \in JumpTargets \cup {None},
         Request(axis, jump)
  PROVE  IInv'
  <1>1. /\ UNCHANGED <<spaces, showing, mouse, pending, changes>>
        /\ UNCHANGED <<load, adapter, origin, position, target, crossed, quiet, expected>>
        /\ request' = [axis |-> axis, jump |-> jump] /\ (jump # None => axis = "horizontal")
        /\ step = "idle" /\ adapter = None
        /\ step' = IF axis = "horizontal" /\ jump = None THEN "asking" ELSE "locating"
    BY DEF Request, operation, history, system, IInv, Typed
  <1>2. Between /\ Between' /\ ~Prepared' /\ step' \in {"asking", "locating"}
    BY <1>1 DEF Between, Prepared, Operating, Loading
  <1>3. Typed'
    <2>1. request' \in Requests /\ request'.jump = jump /\ request'.axis = axis
      BY <1>1 DEF Requests
    <2>2. Loading' /\ axis = "horizontal" => LookingUp'
      BY <1>1, <2>1 DEF Loading, LookingUp
    <2>3. QED
      BY <1>1, <1>2, <2>1, <2>2 DEF IInv, Typed
  <1>4. Readings' /\ Snapshot'
    BY <1>2 DEF Readings, Snapshot
  <1>5. JumpInRange'
    <2>1. request'.jump # None => step' # "asking" /\ ~Prepared' /\ adapter' = None
      BY <1>1, <1>2
    <2>2. QED
      BY <2>1 DEF JumpInRange
  <1>6. QED
    BY <1>1, <1>2, <1>3, <1>4, <1>5, BetweenFacts DEF IInv

(* Without an operation there is no adapter either.                         *)
LEMMA OverIInv ==
  ASSUME IInv, Over, UNCHANGED <<spaces, showing, mouse, changes>>,
         pending' \in Seq(FlicksOfDock), quiet' \in BOOLEAN, AtRest',
         Between => UNCHANGED <<pending, quiet>>
  PROVE  IInv'
  <1>1. /\ step' = "idle" /\ origin' = 0 /\ position' = 0 /\ target' = 0 /\ crossed' = 0
        /\ expected' = FALSE /\ adapter' = None
    BY DEF Over
  <1>2. Between' /\ ~Prepared' /\ ~Loading'
    BY <1>1 DEF Between, Prepared, Operating, Loading
  <1>3. Typed'
    <2>1. expected' \in BOOLEAN
      BY <1>1, Zenon
    <2>2. QED
      BY <1>1, <1>2, <2>1 DEF IInv, Typed
  <1>4. Readings' /\ Snapshot' /\ JumpInRange'
    BY <1>1, <1>2 DEF Readings, Snapshot, JumpInRange
  <1>5. QED
    BY <1>2, <1>3, <1>4, BetweenFacts DEF IInv

(* Steps that fail.                                                         *)
LEMMA FailIInv ==
  ASSUME IInv, Between, Fail
  PROVE  IInv'
  <1>1. Over /\ UNCHANGED <<spaces, showing, mouse, changes, pending, quiet>>
    BY DEF Fail, system
  <1>2. pending' \in Seq(FlicksOfDock) /\ quiet' \in BOOLEAN
    BY <1>1 DEF IInv, Typed
  <1>3. AtRest'
    BY <1>1 DEF IInv, AtRest, NoneToFlick
  <1>4. QED
    BY <1>1, <1>2, <1>3, OverIInv

(* Steps of the engine up to an operation that change nothing of the Dock,  *)
(* nor what is asked for.                                                   *)
LEMMA StageFacts ==
  ASSUME IInv, Between, Between', step # "idle", step' # "idle",
         UNCHANGED <<system, request, operation, late, history>>,
         step' = "asking" => request.axis = "horizontal",
         Loading' /\ request.axis = "horizontal" /\ ~LookingUp' =>
           adapter' \in Adapters /\ adapter'.kind \in {"Horizontal", "AppExpose_MacOS26"},
         step' \in {"listing", "indexing"} => load' \in [display : Displays, spaces : Lists],
         Prepared' => /\ adapter' \in Adapters /\ Loaded(adapter')
                      /\ adapter'.kind = "Vertical" <=> request.axis = "vertical",
         Readings', Snapshot', JumpInRange'
  PROVE  IInv'
  <1>1. /\ UNCHANGED <<spaces, showing, mouse, pending, changes>>
        /\ UNCHANGED <<request, origin, position, target, crossed, quiet, expected>>
    BY DEF system, operation, history
  <1>2. step' \in {"locating", "listing", "indexing", "asking", "creating"}
    BY DEF Between, Loading
  <1>3. Typed'
    <2>1. Loaded(adapter)' = Loaded(adapter')
      BY DEF Loaded
    <2>2. QED
      BY <1>1, <1>2, <2>1 DEF IInv, Typed
  <1>4. QED
    BY <1>1, <1>3, BetweenFacts DEF IInv

(* What is read is of the display under the mouse, and of its spaces.       *)
LEMMA LocateIInv ==
  ASSUME IInv, Locate
  PROVE  IInv'
  <1>1. /\ Between /\ Between' /\ Loading /\ Loading' /\ ~Prepared' /\ step' = "listing"
        /\ step = "locating" /\ load' = [display |-> mouse, spaces |-> <<>>]
        /\ UNCHANGED <<system, request, adapter, operation, late, history>>
    BY DEF Locate, Between, Loading, Prepared, Operating
  <1>2. UNCHANGED <<spaces, showing, mouse, pending, changes, quiet>>
    BY <1>1 DEF system, history
  <1>3. load' \in [display : Displays, spaces : Lists]
    <2>1. <<>> \in Lists
      BY DEF Lists, Unique
    <2>2. QED
      BY <1>1, <2>1 DEF IInv, Typed
  <1>4. Readings' /\ Snapshot'
    BY <1>1, <1>2 DEF Readings, Snapshot
  <1>5. JumpInRange'
    BY <1>1, <1>2, BetweenFacts DEF IInv, JumpInRange
  <1>6. Loading' /\ request.axis = "horizontal" /\ ~LookingUp' =>
          adapter' \in Adapters /\ adapter'.kind \in {"Horizontal", "AppExpose_MacOS26"}
    BY <1>1 DEF IInv, Typed, LookingUp
  <1>7. QED
    BY <1>1, <1>3, <1>4, <1>5, <1>6, StageFacts

LEMMA ListSpacesIInv ==
  ASSUME IInv, ListSpaces
  PROVE  IInv'
  <1>1. /\ Between /\ Between' /\ Loading /\ Loading' /\ ~Prepared' /\ step' = "indexing"
        /\ step = "listing" /\ load' = [load EXCEPT !.spaces = spaces[load.display]]
        /\ UNCHANGED <<system, request, adapter, operation, late, history>>
    BY DEF ListSpaces, Between, Loading, Prepared, Operating
  <1>2. UNCHANGED <<spaces, showing, mouse, pending, changes, quiet>>
    BY <1>1 DEF system, history
  <1>3. /\ load \in [display : Displays, spaces : Lists] /\ spaces[load.display] \in Lists
        /\ load'.display = load.display /\ load'.spaces = spaces[load.display]
        /\ load' \in [display : Displays, spaces : Lists]
    <2>1. load \in [display : Displays, spaces : Lists] /\ spaces \in [Displays -> Lists]
      BY <1>1 DEF IInv, Typed
    <2>2. QED
      BY <1>1, <2>1
  <1>4. Readings'
    <2>1. SUFFICES ASSUME Undisturbed PROVE load'.display = mouse /\ load'.spaces = spaces[mouse]
      BY <1>1, <1>2, BetweenFacts DEF Readings
    <2>2. load.display = mouse
      BY <1>1, <2>1 DEF IInv, Readings
    <2>3. QED
      BY <1>3, <2>2
  <1>5. Snapshot'
    BY <1>1 DEF Snapshot
  <1>6. JumpInRange'
    BY <1>1, <1>2, BetweenFacts DEF IInv, JumpInRange
  <1>7. Loading' /\ request.axis = "horizontal" /\ ~LookingUp' =>
          adapter' \in Adapters /\ adapter'.kind \in {"Horizontal", "AppExpose_MacOS26"}
    BY <1>1 DEF IInv, Typed, LookingUp
  <1>8. QED
    BY <1>1, <1>3, <1>4, <1>5, <1>6, <1>7, StageFacts

(* A jump that has looked up its space, or an adapter that keeps what was   *)
(* loaded.                                                                  *)
LEMMA LoadIInv ==
  ASSUME IInv, Load
  PROVE  IInv'
  <1> DEFINE found == IndexIn(load.spaces, showing[load.display])
             state(i) == [display |-> load.display, spaces |-> load.spaces, index |-> i]
  <1>0. step = "indexing" /\ Between /\ request \in Requests /\ Typed
        /\ load \in [display : Displays, spaces : Lists]
        /\ (Undisturbed => load.display = mouse /\ load.spaces = spaces[mouse])
    BY DEF Load, Between, Loading, IInv, Typed, Readings
  <1>1. CASE Fail
    BY <1>0, <1>1, FailIInv
  <1>2. ASSUME LookingUp, request.jump < Len(load.spaces), step' = "asking",
               UNCHANGED <<system, request, adapter, operation, late, history>>
        PROVE  IInv'
    <2>1. Between' /\ ~Loading' /\ ~Prepared'
      BY <1>2 DEF Between, Loading, Prepared, Operating
    <2>2. UNCHANGED <<spaces, showing, mouse, pending, changes, quiet>>
      BY <1>2 DEF system, history
    <2>3. request.axis = "horizontal"
      BY <1>0, <1>2 DEF Typed, LookingUp
    <2>4. Readings' /\ Snapshot'
      BY <1>2, <2>1 DEF Readings, Snapshot
    <2>5. JumpInRange'
      <3>1. Undisturbed => request.jump < Len(spaces[mouse])
        BY <1>0, <1>2
      <3>2. QED
        BY <1>0, <1>2, <2>1, <2>2, <3>1, BetweenFacts DEF JumpInRange
    <2>6. QED
      BY <1>0, <1>2, <2>1, <2>3, <2>4, <2>5, StageFacts
  <1>3. ASSUME ~LookingUp, NEW i \in found,
               adapter' = IF request.axis = "vertical"
                            THEN [kind |-> "Vertical", continuous |-> FALSE, state |-> state(i)]
                            ELSE [adapter EXCEPT !.state = state(i)],
               step' = "creating",
               UNCHANGED <<system, request, operation, late, history>>
        PROVE  IInv'
    <2> DEFINE s == state(i)
    <2>1. UNCHANGED <<spaces, showing, mouse, pending, changes, quiet>>
      BY <1>3 DEF system, history
    <2>2. s \in SpaceStates /\ s.index < Len(s.spaces)
      BY <1>0, LoadFacts
    <2>3. s.display = load.display /\ s.spaces = load.spaces
      OBVIOUS
    <2> HIDE DEF s
    <2>4. /\ adapter' \in Adapters /\ adapter'.state = s
          /\ adapter'.kind = "Vertical" <=> request.axis = "vertical"
      <3>1. CASE request.axis = "vertical"
        <4>1. adapter' = [kind |-> "Vertical", continuous |-> FALSE, state |-> s]
          BY <1>3, <3>1 DEF s
        <4>2. QED
          BY <2>2, <3>1, <4>1 DEF Adapters
      <3>2. CASE request.axis = "horizontal"
        <4>1. adapter \in Adapters /\ adapter.kind \in {"Horizontal", "AppExpose_MacOS26"}
          BY <1>0, <1>3, <3>2 DEF Typed, Loading
        <4>2. adapter' = [adapter EXCEPT !.state = s]
          BY <1>3, <3>2 DEF s
        <4>3. adapter'.kind = adapter.kind /\ adapter'.state = s /\ adapter' \in Adapters
          BY <2>2, <4>1, <4>2 DEF Adapters
        <4>4. QED
          BY <3>2, <4>1, <4>3
      <3>3. QED
        BY <1>0, <3>1, <3>2 DEF Requests
    <2>5. Between' /\ ~Loading' /\ ~Operating' /\ Loaded(adapter')
      BY <1>3, <2>2, <2>4 DEF Between, Loading, Operating, Loaded
    <2>6. Readings'
      BY <1>3 DEF Readings
    <2>7. Snapshot'
      <3>1. Undisturbed' => load.display = mouse /\ load.spaces = spaces[mouse]
        BY <1>0, <2>1, <2>5, BetweenFacts
      <3>2. QED
        BY <2>1, <2>3, <2>4, <3>1 DEF Snapshot
    <2>8. JumpInRange'
      <3>1. request.jump # None => adapter # None
        BY <1>3 DEF LookingUp
      <3>2. QED
        BY <1>0, <1>3, <2>1, <2>5, <3>1, BetweenFacts DEF IInv, JumpInRange
    <2>9. QED
      BY <1>0, <1>3, <2>4, <2>5, <2>6, <2>7, <2>8, StageFacts
  <1>4. QED
    BY <1>1, <1>2, <1>3 DEF Load

(* Of the adapters of the horizontal axis, App Expose's needs no spaces.    *)
LEMMA AskWindowIInv ==
  ASSUME IInv, AskWindow
  PROVE  IInv'
  <1>0. step = "asking" /\ Between /\ request.axis = "horizontal"
    BY DEF AskWindow, Between, IInv, Typed
  <1>1. CASE Fail
    BY <1>0, <1>1, FailIInv
  <1>2. ASSUME NEW w \in ActiveMultitaskingWindow,
               adapter' = [kind |-> IF w # -1 THEN "Horizontal"
                                    ELSE IF macos27 THEN "AppExpose" ELSE "AppExpose_MacOS26",
                           continuous |-> w = 0, state |-> None],
               step' = IF adapter'.kind = "AppExpose" THEN "creating" ELSE "locating",
               UNCHANGED <<system, request, load, operation, late, history>>
        PROVE  IInv'
    <2>1. UNCHANGED <<spaces, showing, mouse, pending, changes, quiet>>
      BY <1>2 DEF system, history
    <2>2. /\ adapter' \in Adapters
          /\ adapter'.kind \in {"Horizontal", "AppExpose_MacOS26", "AppExpose"}
      <3>1. (w = 0) \in BOOLEAN
        OBVIOUS
      <3>2. QED
        BY <1>2, <3>1 DEF Adapters
    <2>3. \/ adapter'.kind = "AppExpose" /\ step' = "creating"
          \/ adapter'.kind \in {"Horizontal", "AppExpose_MacOS26"} /\ step' = "locating"
      BY <1>2, <2>2
    <2>4. /\ Between' /\ ~Operating'
          /\ step' \notin {"idle", "asking", "listing", "indexing"}
          /\ Loading' => adapter'.kind \in {"Horizontal", "AppExpose_MacOS26"}
          /\ Prepared' => adapter'.kind = "AppExpose"
      BY <2>3 DEF Between, Operating, Loading, Prepared
    <2>5. adapter'.kind = "AppExpose" => Loaded(adapter')
      BY DEF Loaded
    <2>6. Readings' /\ Snapshot'
      BY <2>4 DEF Readings, Snapshot
    <2>7. JumpInRange'
      BY <1>0, <1>2, <2>1, <2>4, BetweenFacts DEF IInv, JumpInRange
    <2>8. QED
      BY <1>0, <1>2, <2>2, <2>4, <2>5, <2>6, <2>7, StageFacts
  <1>3. QED
    BY <1>1, <1>2 DEF AskWindow

(* The operation begins where its adapter says the Dock is; which is where  *)
(* it will stay, if the one before went as expected.                        *)
LEMMA CreateIInv ==
  ASSUME IInv, Create
  PROVE  IInv'
  <1>0. step = "creating" /\ Between /\ Prepared /\ ~Operating
    BY DEF Create, Between, Prepared, Operating
  <1>1. CASE Fail
    BY <1>0, <1>1, FailIInv
  <1>2. ASSUME NEW p \in CommittedPosition(adapter),
               origin' = p, position' = p, target' = p, step' = "ready",
               crossed' = 0, expected' = quiet, quiet' = (pending = <<>>),
               UNCHANGED <<system, request, load, adapter, late, failed>>
        PROVE  IInv'
    <2>1. UNCHANGED <<spaces, showing, mouse, pending, changes, request, adapter>>
      BY <1>2 DEF system
    <2>2. adapter \in Adapters /\ Loaded(adapter) /\ Typed /\ Displayed
      BY <1>0 DEF IInv, Typed
    <2>3. /\ p \in Int
          /\ adapter.kind \in {"Horizontal", "AppExpose_MacOS26"} =>
               /\ p \in 0 .. Len(adapter.state.spaces) - 1
               /\ adapter.state.spaces[p + 1].id = showing[adapter.state.display]
      BY <2>2, CommittedFacts
    <2>4. Operating' /\ ~Between' /\ Prepared' /\ ~Loading'
      BY <1>2 DEF Operating, Between, Prepared, Loading
    <2>5. Typed'
      <3>1. Loaded(adapter)'
        BY <2>1, <2>2 DEF Loaded
      <3>2. quiet' \in BOOLEAN /\ expected' \in BOOLEAN
        <4>1. quiet \in BOOLEAN
          BY <2>2 DEF Typed
        <4>2. QED
          BY <1>2, <4>1, Zenon
      <3>3. QED
        BY <1>0, <1>2, <2>1, <2>2, <2>3, <2>4, <3>1, <3>2 DEF Typed
    <2>6. Displayed'
      BY <2>1, <2>2 DEF Displayed
    <2>7. Undisturbed' => Undisturbed
      BY <1>0, <1>2, <2>1, <2>4, Zenon DEF Undisturbed
    <2>8. Readings' /\ Snapshot'
      BY <1>0, <1>2, <2>1, <2>7 DEF IInv, Readings, Snapshot
    <2>9. JumpInRange'
      BY <1>0, <1>2, <2>1, <2>7 DEF IInv, JumpInRange
    <2>10. OriginInRange' /\ WayInRange' /\ NotYetCrossed' /\ AtRest'
      BY <1>2, <2>1, <2>3, <2>4 DEF OriginInRange, WayInRange, NotYetCrossed, AtRest
    <2>11. OwnFlicks' /\ SeenWhenDone'
      <3>1. SUFFICES ASSUME quiet' PROVE OwnFlicks' /\ SeenWhenDone'
        BY DEF OwnFlicks, SeenWhenDone
      <3>2. pending = <<>> /\ pending' = <<>>
        BY <1>2, <2>1, <3>1, Zenon
      <3>3. Len(pending') = 0
        BY <3>2
      <3>4. NoneToFlick'
        BY <3>3 DEF NoneToFlick
      <3>5. QED
        BY <1>2, <2>1, <2>3, <3>2, <3>3, <3>4 DEF OwnFlicks, SeenWhenDone
    <2>12. DockWhereAsked'
      <3>1. SUFFICES ASSUME quiet, adapter.kind = "Horizontal"
                     PROVE  Destination(adapter.state.display)' = p
        BY <1>2, <2>1, Zenon DEF DockWhereAsked
      <3>2. adapter.state.display = mouse /\ adapter.state.spaces = spaces[mouse]
        BY <1>0, <3>1 DEF IInv, Snapshot, Undisturbed
      <3>3. NoneToFlick
        BY <1>0, <3>1 DEF IInv, AtRest
      <3>4. mouse \in Displays /\ pending \in Seq(FlicksOfDock)
        BY <2>2 DEF Typed
      <3>5. At(mouse) = p + 1
        <4>1. spaces[mouse] \in Lists /\ Len(spaces[mouse]) \in Nat
          BY <2>2, <3>4, AtFacts
        <4>2. p + 1 \in 1 .. Len(spaces[mouse]) /\ spaces[mouse][p + 1].id = showing[mouse]
          BY <2>3, <3>1, <3>2, <4>1
        <4>3. QED
          BY <4>1, <4>2, Located DEF At
      <3>6. At(mouse) - 1 = p /\ Len(spaces[mouse]) \in Nat
        BY <2>2, <2>3, <3>4, <3>5, AtFacts
      <3>7. Destination(mouse) = p
        BY <2>3, <3>3, <3>4, <3>6, ReachedNone DEF Destination, NoneToFlick
      <3>8. Destination(adapter.state.display)' = Destination(mouse)
        BY <2>1, <3>2 DEF Destination, At
      <3>9. QED
        BY <3>7, <3>8
    <2>13. AbortExplained'
      BY <1>2 DEF AbortExplained
    <2>14. QED
      BY <2>5, <2>6, <2>8, <2>9, <2>10, <2>11, <2>12, <2>13 DEF IInv
  <1>3. QED
    BY <1>1, <1>2 DEF Create

-----------------------------------------------------------------------------
(* What an operation keeps, unless it ends, wherever it goes.               *)
LEMMA OperatingFacts ==
  ASSUME IInv, Operating, Operating',
         UNCHANGED <<spaces, showing, mouse, changes, request, adapter, origin, quiet, expected>>
  PROVE  /\ Displayed' /\ Readings' /\ Snapshot' /\ JumpInRange' /\ OriginInRange' /\ AtRest'
         /\ AbortExplained'
  <1>1. /\ Undisturbed' => Undisturbed
        /\ Prepared /\ Prepared' /\ step # "idle" /\ step' \notin {"aborted", "listing", "indexing"}
        /\ ~Between' /\ step' # "asking"
    BY DEF Undisturbed, Operating, Prepared, Between, Loading
  <1>2. Displayed' /\ Readings' /\ Snapshot' /\ OriginInRange'
    BY <1>1 DEF IInv, Displayed, Readings, Snapshot, OriginInRange
  <1>3. JumpInRange'
    BY <1>1 DEF IInv, JumpInRange
  <1>4. AtRest' /\ AbortExplained'
    BY <1>1 DEF AtRest, AbortExplained
  <1>5. QED
    BY <1>2, <1>3, <1>4

(* And the Dock's destination, unless it posts flicks.                      *)
LEMMA NoFlickFacts ==
  ASSUME IInv, Operating, Operating', UNCHANGED <<spaces, showing, pending, adapter, expected>>,
         position' = position
  PROVE  DockWhereAsked'
  <1>1. SUFFICES ASSUME expected, adapter.kind = "Horizontal"
                 PROVE  Destination(adapter.state.display)' = position
    BY DEF DockWhereAsked
  <1>2. Destination(adapter.state.display) = position
    BY <1>1 DEF IInv, DockWhereAsked, Operating
  <1>3. Destination(adapter.state.display)' = Destination(adapter.state.display)
    BY DEF Destination, At
  <1>4. QED
    BY <1>2, <1>3

(* What is loaded of an operation's adapter.                                *)
LEMMA AdapterFacts ==
  ASSUME IInv, Operating
  PROVE  /\ adapter \in Adapters /\ Loaded(adapter) /\ request \in Requests /\ Prepared /\ Typed
         /\ adapter.kind # "AppExpose" =>
              /\ adapter.state \in SpaceStates /\ adapter.state.spaces \in Lists
              /\ adapter.state.index \in Nat /\ adapter.state.index < Len(adapter.state.spaces)
              /\ Len(adapter.state.spaces) \in Nat
  <1>1. /\ adapter \in Adapters /\ Loaded(adapter) /\ request \in Requests /\ Prepared /\ Typed
    BY DEF IInv, Typed, Prepared, Operating
  <1>2. QED
    BY <1>1, ListFacts DEF Loaded, SpaceStates

(* The soft limits are positions, and on the horizontal axis of spaces that *)
(* are there.                                                               *)
LEMMA LimitFacts ==
  ASSUME IInv, Operating, NEW t \in SoftLimits(adapter)
  PROVE  /\ t \in Int
         /\ adapter.kind \in {"Horizontal", "AppExpose_MacOS26"} =>
              t \in 0 .. Len(adapter.state.spaces) - 1
  <1>1. Count(adapter) \in Nat
    BY AdapterFacts, CountFacts
  <1>2. t \in Int
    BY <1>1, AdapterFacts DEF SoftLimits, Adapters
  <1>3. CASE adapter.kind = "Horizontal"
    BY <1>2, <1>3, AdapterFacts DEF SoftLimits, Count
  <1>4. CASE adapter.kind = "AppExpose_MacOS26"
    BY <1>2, <1>4, AdapterFacts DEF SoftLimits
  <1>5. QED
    BY <1>2, <1>3, <1>4

(* Every target is a space of those that are there, as long as a jump's     *)
(* space is one of them.                                                    *)
LEMMA TargetFacts ==
  ASSUME IInv, step = "ready", request # None,
         NEW t \in IF request.jump # None THEN {request.jump} ELSE SoftLimits(adapter)
  PROVE  /\ t \in Int
         /\ adapter.kind = "Horizontal" /\ Undisturbed => t \in 0 .. Len(adapter.state.spaces) - 1
  <1>1. Operating
    BY DEF Operating
  <1>2. CASE request.jump = None
    BY <1>1, <1>2, LimitFacts
  <1>3. CASE request.jump # None
    <2>1. t = request.jump /\ t \in Nat
      BY <1>1, <1>3, AdapterFacts, SpaceAssumption DEF Requests
    <2>2. ASSUME adapter.kind = "Horizontal", Undisturbed
          PROVE  t \in 0 .. Len(adapter.state.spaces) - 1
      <3>2. request.jump < Len(spaces[mouse])
        BY <1>1, <1>3, <2>2, AdapterFacts DEF IInv, JumpInRange
      <3>3. adapter.state.spaces = spaces[mouse]
        BY <1>1, <2>2, AdapterFacts DEF IInv, Snapshot
      <3>4. t < Len(adapter.state.spaces)
        BY <2>1, <3>2, <3>3, Zenon
      <3>5. QED
        BY <1>1, <2>1, <2>2, <3>4, AdapterFacts
    <2>3. QED
      BY <2>1, <2>2
  <1>4. QED
    BY <1>2, <1>3

(* The swipe runs to a target.                                              *)
LEMMA RunIInv ==
  ASSUME IInv, step = "ready", request # None,
         NEW t \in IF request.jump # None THEN {request.jump} ELSE SoftLimits(adapter),
         Run(t)
  PROVE  IInv'
  <1>1. /\ UNCHANGED <<spaces, showing, mouse, pending, changes>>
        /\ UNCHANGED <<request, adapter, origin, position, crossed, quiet, expected>>
        /\ target' = t /\ step' = "running"
    BY DEF Run, system, history
  <1>2. Operating /\ Operating' /\ Prepared /\ Prepared' /\ ~Loading'
    BY <1>1 DEF Operating, Prepared, Loading
  <1>3. /\ t \in Int
        /\ adapter.kind = "Horizontal" /\ Undisturbed => t \in 0 .. Len(adapter.state.spaces) - 1
    BY TargetFacts
  <1>4. Typed'
    BY <1>1, <1>2, <1>3 DEF IInv, Typed, Loaded
  <1>5. WayInRange'
    <2>1. ASSUME expected, adapter.kind = "Horizontal"
          PROVE  /\ t \in 0 .. Len(adapter.state.spaces) - 1
                 /\ position \in 0 .. Len(adapter.state.spaces) - 1
      BY <1>2, <1>3, <2>1 DEF IInv, WayInRange, Undisturbed
    <2>2. QED
      BY <1>1, <2>1 DEF WayInRange
  <1>6. NotYetCrossed' /\ OwnFlicks' /\ SeenWhenDone'
    BY <1>1, <1>2 DEF IInv, NotYetCrossed, OwnFlicks, SeenWhenDone, NoneToFlick
  <1>7. QED
    BY <1>1, <1>2, <1>4, <1>5, <1>6, OperatingFacts, NoFlickFacts DEF IInv

-----------------------------------------------------------------------------
(* Flicks are posted for the display under the mouse, along the axis that   *)
(* was asked for, and none in App Expose.                                   *)
LEMMA FlicksFacts ==
  ASSUME Typed, Operating, NEW n \in Nat, NEW sign \in {-1, 1}
  PROVE  LET all == pending \o Flicks(sign, n)
         IN  /\ all \in Seq(FlicksOfDock)
             /\ Len(pending) \in Nat /\ Len(all) \in Nat /\ Len(all) <= Len(pending) + n
             /\ n = 0 \/ adapter.kind = "AppExpose" => all = pending
             /\ adapter.kind = "Vertical" /\ NoneToFlick =>
                  \A i \in 1 .. Len(all) : all[i].axis = "vertical"
  <1> DEFINE flick == [display |-> mouse, axis |-> request.axis, sign |-> sign]
             more == Flicks(sign, n)
             all == pending \o more
  <1>1. /\ request \in Requests /\ mouse \in Displays /\ pending \in Seq(FlicksOfDock)
        /\ adapter.kind = "Vertical" <=> request.axis = "vertical"
    BY DEF Typed, Prepared, Operating
  <1>2. flick \in FlicksOfDock /\ flick.axis = request.axis
    BY <1>1 DEF FlicksOfDock, Requests
  <1>3. /\ adapter.kind = "AppExpose" => more = <<>>
        /\ adapter.kind # "AppExpose" => more = [i \in 1 .. n |-> flick]
    BY DEF Flicks
  <1> HIDE DEF flick, more
  <1>4. /\ more \in Seq(FlicksOfDock) /\ Len(more) \in Nat /\ Len(more) <= n
        /\ \A i \in 1 .. Len(more) : more[i] = flick
    <2>1. CASE adapter.kind = "AppExpose"
      BY <1>3, <2>1
    <2>2. CASE adapter.kind # "AppExpose"
      BY <1>2, <1>3, <2>2
    <2>3. QED
      BY <2>1, <2>2
  <1>5. /\ all \in Seq(FlicksOfDock) /\ Len(pending) \in Nat /\ Len(all) = Len(pending) + Len(more)
        /\ \A i \in 1 .. Len(pending) : all[i] = pending[i]
        /\ \A i \in Len(pending) + 1 .. Len(all) : all[i] = more[i - Len(pending)]
    BY <1>1, <1>4
  <1>6. n = 0 \/ adapter.kind = "AppExpose" => all = pending
    <2>1. Len(more) = 0 => more = <<>>
      BY <1>4
    <2>2. n = 0 \/ adapter.kind = "AppExpose" => more = <<>>
      BY <1>3, <1>4, <2>1
    <2>3. QED
      BY <1>1, <2>2
  <1> HIDE DEF all
  <1>7. ASSUME adapter.kind = "Vertical", NoneToFlick, NEW i \in 1 .. Len(all)
        PROVE  all[i].axis = "vertical"
    <2>1. CASE i \in 1 .. Len(pending)
      BY <1>5, <1>7, <2>1 DEF NoneToFlick
    <2>2. CASE i \notin 1 .. Len(pending)
      <3>1. i \in Len(pending) + 1 .. Len(all) /\ i - Len(pending) \in 1 .. Len(more)
        BY <1>4, <1>5, <2>2
      <3>2. all[i] = flick
        BY <1>4, <1>5, <3>1
      <3>3. QED
        BY <1>1, <1>2, <1>7, <3>2
    <2>3. QED
      BY <2>1, <2>2
  <1>8. QED
    BY <1>4, <1>5, <1>6, <1>7 DEF all, more

(* Flicks for spaces that are there take the Dock as far as they are many,  *)
(* if it was going to be where the operation is.                            *)
LEMMA PostFacts ==
  ASSUME IInv, Operating, expected, adapter.kind = "Horizontal",
         UNCHANGED <<spaces, showing, adapter>>,
         NEW n \in Nat, NEW sign \in {-1, 1}, pending' = pending \o Flicks(sign, n),
         NEW end, end = IF sign = 1 THEN position + n ELSE position - n,
         end \in 0 .. Len(adapter.state.spaces) - 1
  PROVE  Destination(adapter.state.display)' = end
  <1> DEFINE list == adapter.state.spaces
             start == At(mouse) - 1
             count == Len(spaces[mouse])
  <1>1. /\ Typed /\ Displayed /\ Prepared /\ Undisturbed /\ mouse \in Displays
        /\ position \in Int /\ origin \in Int /\ target \in Int
        /\ pending \in Seq(FlicksOfDock) /\ request \in Requests /\ request.axis # "vertical"
    BY DEF IInv, Typed, Prepared, Undisturbed, Operating
  <1>2. adapter.state.display = mouse /\ list = spaces[mouse]
    BY <1>1 DEF IInv, Snapshot
  <1>3. position \in 0 .. Len(list) - 1 /\ end \in 0 .. Len(list) - 1
    BY DEF IInv, WayInRange
  <1> HIDE DEF list
  <1>4. position \in 0 .. count - 1 /\ end \in 0 .. count - 1
    BY <1>2, <1>3
  <1>5. count \in Nat /\ start \in Int
    BY <1>1, AtFacts
  <1>6. Destination(mouse) = position
    BY <1>2 DEF IInv, DockWhereAsked, Operating
  <1>7. Reached(pending, mouse, count, start) = position
    BY <1>6 DEF Destination
  <1> HIDE DEF count, start
  <1>8. position \in 0 .. count - 1 /\ end \in 0 .. count - 1
    BY <1>4
  <1>9. request.axis = "horizontal"
    BY <1>1 DEF Requests
  <1> DEFINE more == Flicks(sign, n)
  <1>10. more = [i \in 1 .. n |-> [display |-> mouse, axis |-> "horizontal", sign |-> sign]]
    BY <1>9 DEF Flicks
  <1> HIDE DEF more
  <1>11. more \in Seq(FlicksOfDock) /\ Len(more) = n /\ AllTo(more, mouse, sign)
    BY <1>1, <1>10 DEF FlicksOfDock, AllTo
  <1>12. Past(position, sign, Len(more)) = end
    BY <1>11 DEF Past
  <1>13. Reached(pending \o more, mouse, count, start) = end
    <2>1. /\ pending \in Seq(FlicksOfDock) /\ count \in Nat /\ start \in Int
          /\ Reached(pending, mouse, count, start) \in 0 .. count - 1
          /\ Past(Reached(pending, mouse, count, start), sign, Len(more)) \in 0 .. count - 1
      BY <1>1, <1>5, <1>7, <1>8, <1>12
    <2>2. Reached(pending \o more, mouse, count, start) =
            Past(Reached(pending, mouse, count, start), sign, Len(more))
      BY <1>11, <2>1, ReachedMore
    <2>3. QED
      BY <1>7, <1>12, <2>2
  <1>14. Destination(adapter.state.display)' = Reached(pending', mouse, count, start)
    BY <1>2 DEF Destination, At, count, start
  <1>15. QED
    BY <1>13, <1>14 DEF more

(* What remains of the way.                                                 *)
LEMMA RestFacts ==
  ASSUME Typed
  PROVE  /\ Direction \in {-1, 1} /\ Distance(position, target) \in Nat
         /\ target = IF Direction = 1 THEN position + Distance(position, target)
                                      ELSE position - Distance(position, target)
         /\ Distance(position, target) = 0 <=> position = target
  <1>1. position \in Int /\ target \in Int
    BY DEF Typed
  <1>2. CASE target > position
    BY <1>1, <1>2 DEF Distance, Direction
  <1>3. CASE ~(target > position)
    BY <1>1, <1>3 DEF Distance, Direction
  <1>4. QED
    BY <1>2, <1>3

(* A gesture for each space on the way.                                     *)
LEMMA CrossToIInv ==
  ASSUME IInv, step \in {"ready", "running"}, NEW sign \in {-1, 1}, CrossTo(position + sign),
         expected /\ adapter.kind = "Horizontal" =>
           position + sign \in 0 .. Len(adapter.state.spaces) - 1
  PROVE  IInv'
  <1>0. position \in Int /\ (position + sign) - position = sign /\ crossed \in Nat
    BY DEF IInv, Typed
  <1>1. /\ UNCHANGED <<spaces, showing, mouse, changes>>
        /\ UNCHANGED <<step, request, load, adapter, origin, target, quiet, expected>>
        /\ position' = position + sign /\ crossed' = crossed + 1
        /\ pending' = pending \o Flicks(sign, 1)
    BY <1>0 DEF CrossTo
  <1>2. Operating /\ Operating' /\ Prepared /\ Prepared' /\ Typed
    BY <1>1 DEF Operating, Prepared, IInv
  <1>3. /\ pending' \in Seq(FlicksOfDock)
        /\ Len(pending) \in Nat /\ Len(pending') \in Nat /\ Len(pending') <= Len(pending) + 1
        /\ adapter.kind = "AppExpose" => pending' = pending
        /\ adapter.kind = "Vertical" /\ NoneToFlick => NoneToFlick'
    <2>1. 1 \in Nat
      OBVIOUS
    <2> DEFINE all == pending \o Flicks(sign, 1)
    <2>2. /\ all \in Seq(FlicksOfDock)
          /\ Len(pending) \in Nat /\ Len(all) \in Nat /\ Len(all) <= Len(pending) + 1
          /\ adapter.kind = "AppExpose" => all = pending
          /\ adapter.kind = "Vertical" /\ NoneToFlick =>
               \A i \in 1 .. Len(all) : all[i].axis = "vertical"
      BY <1>2, <2>1, FlicksFacts
    <2>3. pending' = all
      BY <1>1
    <2> HIDE DEF all
    <2>4. NoneToFlick' <=> \A i \in 1 .. Len(all) : all[i].axis = "vertical"
      BY <2>3 DEF NoneToFlick
    <2>5. QED
      BY <2>2, <2>3, <2>4
  <1>4. Typed'
    <2>1. position' \in Int /\ crossed' \in Nat
      BY <1>0, <1>1
    <2>2. ~Loading'
      BY <1>1 DEF Loading
    <2>3. QED
      BY <1>1, <1>2, <1>3, <2>1, <2>2 DEF Typed, Loaded
  <1>5. WayInRange' /\ NotYetCrossed'
    BY <1>0, <1>1, <1>2 DEF IInv, WayInRange, NotYetCrossed
  <1>6. OwnFlicks'
    <2>1. SUFFICES ASSUME quiet PROVE OwnFlicks'
      BY <1>1 DEF OwnFlicks
    <2>2. adapter.kind = "Vertical" => NoneToFlick'
      BY <1>2, <1>3, <2>1 DEF IInv, OwnFlicks
    <2>3. adapter.kind = "AppExpose" => pending' = <<>>
      BY <1>2, <1>3, <2>1 DEF IInv, OwnFlicks
    <2>4. ASSUME adapter.kind \in {"Horizontal", "AppExpose_MacOS26"}
          PROVE  Len(pending') <= crossed + 1
      <3>1. Len(pending) <= crossed
        BY <1>2, <2>1, <2>4 DEF IInv, OwnFlicks
      <3>2. QED
        BY <1>0, <1>3, <3>1
    <2>5. QED
      BY <1>1, <2>2, <2>3, <2>4 DEF OwnFlicks
  <1>7. SeenWhenDone'
    <2>1. ASSUME quiet, adapter.kind = "Horizontal", crossed + 1 <= 1
          PROVE  adapter.state.spaces[origin + 1].id = showing[adapter.state.display]
      <3>1. crossed = 0 /\ crossed <= 1
        BY <1>0, <2>1
      <3>2. QED
        BY <1>2, <2>1, <3>1 DEF IInv, SeenWhenDone
    <2>2. QED
      BY <1>1, <2>1 DEF SeenWhenDone
  <1>8. DockWhereAsked'
    <2>1. ASSUME expected, adapter.kind = "Horizontal"
          PROVE  Destination(adapter.state.display)' = position'
      <3>1. position' = IF sign = 1 THEN position + 1 ELSE position - 1
        BY <1>0, <1>1
      <3>2. QED
        BY <1>1, <1>2, <2>1, <3>1, PostFacts
    <2>2. QED
      BY <1>1, <2>1 DEF DockWhereAsked
  <1>9. QED
    BY <1>1, <1>2, <1>4, <1>5, <1>6, <1>7, <1>8, OperatingFacts DEF IInv

(* The fingers stay inside of the limits ...                                *)
LEMMA FollowIInv ==
  ASSUME IInv, NEW sign \in {-1, 1}, Follow(sign)
  PROVE  IInv'
  <1>1. /\ step = "ready" /\ position + sign \in SoftLimits(adapter) /\ CrossTo(position + sign)
    BY DEF Follow
  <1>2. Operating
    BY <1>1 DEF Operating
  <1>3. adapter.kind = "Horizontal" => position + sign \in 0 .. Len(adapter.state.spaces) - 1
    BY <1>1, <1>2, LimitFacts
  <1>4. QED
    BY <1>1, <1>3, CrossToIInv

(* ... and the swipe between where it is and its target.                    *)
LEMMA CrossIInv ==
  ASSUME IInv, Cross
  PROVE  IInv'
  <1>1. step = "running" /\ position # target /\ CrossTo(position + Direction)
    BY DEF Cross
  <1>2. Operating /\ position \in Int /\ target \in Int /\ Direction \in {-1, 1}
    BY <1>1, RestFacts DEF Operating, IInv, Typed
  <1>3. ASSUME expected, adapter.kind = "Horizontal"
        PROVE  position + Direction \in 0 .. Len(adapter.state.spaces) - 1
    <2> DEFINE last == Len(adapter.state.spaces) - 1
    <2>1. position \in 0 .. last /\ target \in 0 .. last
      BY <1>2, <1>3 DEF IInv, WayInRange
    <2>2. last \in Int
      BY <1>2, <1>3, AdapterFacts
    <2> HIDE DEF last
    <2>3. position + Direction \in 0 .. last
      BY <1>1, <1>2, <2>1, <2>2 DEF Direction
    <2>4. QED
      BY <2>3 DEF last
  <1>4. QED
    BY <1>1, <1>2, <1>3, CrossToIInv

(* The commit ends the operation, or begins the wait for it.                *)
LEMMA CommitIInv ==
  ASSUME IInv, Commit
  PROVE  IInv'
  <1> DEFINE n == Distance(position, target)
  <1>1. /\ UNCHANGED <<spaces, showing, mouse, changes>>
        /\ step = "running"
        /\ pending' = pending \o Flicks(Direction, n)
    BY DEF Commit
  <1>2. Operating /\ Prepared /\ ~Between /\ Typed /\ crossed \in Nat
    BY <1>1 DEF Operating, Prepared, Between, Loading, IInv, Typed
  <1>3. /\ Direction \in {-1, 1} /\ n \in Nat
        /\ target = IF Direction = 1 THEN position + n ELSE position - n
        /\ n = 0 <=> position = target
    BY <1>2, RestFacts
  <1>4. \/ Over /\ quiet' = (quiet /\ (crossed + n = 0 \/ adapter.kind = "AppExpose"))
        \/ /\ ~(target = origin \/ adapter.kind \in {"AppExpose", "AppExpose_MacOS26"})
           /\ step' = "waiting" /\ position' = target /\ crossed' = crossed + n
           /\ UNCHANGED <<request, load, adapter, origin, target, late, failed, quiet, expected>>
    BY DEF Commit
  <1> HIDE DEF n
  <1>5. /\ pending' \in Seq(FlicksOfDock)
        /\ Len(pending) \in Nat /\ Len(pending') \in Nat /\ Len(pending') <= Len(pending) + n
        /\ n = 0 \/ adapter.kind = "AppExpose" => pending' = pending
        /\ adapter.kind = "Vertical" /\ NoneToFlick => NoneToFlick'
    BY <1>1, <1>2, <1>3, FlicksFacts DEF NoneToFlick
  <1>6. CASE Over /\ quiet' = (quiet /\ (crossed + n = 0 \/ adapter.kind = "AppExpose"))
    <2>1. quiet \in BOOLEAN
      BY <1>2 DEF Typed
    <2>2. quiet' \in BOOLEAN
      BY <1>6, <2>1, Zenon
    <2>3. AtRest'
      <3>1. SUFFICES ASSUME quiet' PROVE NoneToFlick'
        BY DEF AtRest
      <3>2. quiet /\ (crossed + n = 0 \/ adapter.kind = "AppExpose")
        BY <1>6, <3>1, Zenon
      <3>3. adapter.kind \in {"Horizontal", "AppExpose_MacOS26", "AppExpose", "Vertical"}
        BY <1>2 DEF Typed, Adapters
      <3>4. CASE adapter.kind = "AppExpose"
        <4>1. pending' = <<>>
          BY <1>2, <1>5, <3>2, <3>4 DEF IInv, OwnFlicks
        <4>2. QED
          BY <4>1 DEF NoneToFlick
      <3>5. CASE adapter.kind = "Vertical"
        BY <1>2, <1>5, <3>2, <3>5 DEF IInv, OwnFlicks
      <3>6. CASE adapter.kind \in {"Horizontal", "AppExpose_MacOS26"}
        <4>1. Len(pending) <= crossed
          BY <1>2, <3>2, <3>6 DEF IInv, OwnFlicks
        <4>2. crossed = 0 /\ n = 0
          BY <1>2, <1>3, <3>2, <3>6
        <4>3. Len(pending') = 0
          BY <1>5, <4>1, <4>2
        <4>4. QED
          BY <4>3 DEF NoneToFlick
      <3>7. QED
        BY <3>3, <3>4, <3>5, <3>6
    <2>4. QED
      BY <1>1, <1>2, <1>5, <1>6, <2>2, <2>3, OverIInv
  <1>7. CASE /\ ~(target = origin \/ adapter.kind \in {"AppExpose", "AppExpose_MacOS26"})
             /\ step' = "waiting" /\ position' = target /\ crossed' = crossed + n
             /\ UNCHANGED <<request, load, adapter, origin, target, late, failed, quiet, expected>>
    <2>1. target \in Int /\ crossed' \in Nat
      BY <1>2, <1>3, <1>7 DEF Typed
    <2>2. Operating' /\ Prepared' /\ ~Loading' /\ adapter.kind \in {"Horizontal", "Vertical"}
      <3>1. adapter.kind \in {"Horizontal", "AppExpose_MacOS26", "AppExpose", "Vertical"}
        BY <1>2 DEF Typed, Adapters
      <3>2. QED
        BY <1>7, <3>1 DEF Operating, Prepared, Loading
    <2>3. Typed'
      BY <1>1, <1>2, <1>5, <1>7, <2>1, <2>2 DEF Typed, Loaded
    <2>4. WayInRange'
      BY <1>2, <1>7 DEF IInv, WayInRange
    <2>5. NotYetCrossed'
      <3>1. crossed' = 0 => crossed = 0 /\ n = 0
        BY <1>2, <1>3, <1>7
      <3>2. QED
        BY <1>2, <1>3, <1>7, <3>1 DEF IInv, NotYetCrossed
    <2>6. OwnFlicks'
      <3>1. SUFFICES ASSUME quiet PROVE OwnFlicks'
        BY <1>7 DEF OwnFlicks
      <3>2. adapter.kind = "Vertical" => NoneToFlick'
        BY <1>2, <1>5, <3>1 DEF IInv, OwnFlicks
      <3>3. ASSUME adapter.kind = "Horizontal" PROVE Len(pending') <= crossed + n
        <4>1. Len(pending) <= crossed
          BY <1>2, <3>1, <3>3 DEF IInv, OwnFlicks
        <4>2. QED
          BY <1>2, <1>3, <1>5, <4>1
      <3>4. QED
        BY <1>7, <2>2, <3>2, <3>3 DEF OwnFlicks
    <2>7. SeenWhenDone'
      <3>1. ASSUME quiet, adapter.kind = "Horizontal", crossed + n <= 1,
                   pending' # <<>> \/ crossed + n = 0
            PROVE  adapter.state.spaces[origin + 1].id = showing[adapter.state.display]
        <4>1. crossed <= 1 /\ (pending # <<>> \/ crossed = 0)
          <5>1. CASE n = 0
            BY <1>2, <1>5, <3>1, <5>1
          <5>2. CASE n # 0
            BY <1>2, <1>3, <3>1, <5>2
          <5>3. QED
            BY <5>1, <5>2
        <4>2. QED
          BY <1>2, <3>1, <4>1 DEF IInv, SeenWhenDone
      <3>2. QED
        BY <1>1, <1>7, <3>1 DEF SeenWhenDone
    <2>8. DockWhereAsked'
      <3>1. ASSUME expected, adapter.kind = "Horizontal"
            PROVE  Destination(adapter.state.display)' = target
        <4>1. target \in 0 .. Len(adapter.state.spaces) - 1
          BY <1>2, <3>1 DEF IInv, WayInRange
        <4>2. QED
          BY <1>1, <1>2, <1>3, <1>7, <3>1, <4>1, PostFacts
      <3>2. QED
        BY <1>7, <3>1 DEF DockWhereAsked
    <2>9. QED
      BY <1>1, <1>2, <1>7, <2>2, <2>3, <2>4, <2>5, <2>6, <2>7, <2>8, OperatingFacts DEF IInv
  <1>8. QED
    BY <1>4, <1>6, <1>7

(* Nothing is claimed of a process that has ended, but why.                 *)
LEMMA AbortedFacts ==
  ASSUME IInv, Operating, step' = "aborted", UNCHANGED <<system, request, load, adapter>>,
         UNCHANGED <<operation, crossed, quiet, expected>>, AbortExplained'
  PROVE  IInv'
  <1>1. ~Operating' /\ ~Prepared' /\ ~Between' /\ ~Loading'
    BY DEF Operating, Prepared, Between, Loading
  <1>2. UNCHANGED <<spaces, showing, mouse, pending, changes, origin, position, target>>
    BY DEF system, operation
  <1>3. Typed'
    BY <1>1, <1>2 DEF IInv, Typed, Operating
  <1>4. Displayed'
    BY <1>2 DEF IInv, Displayed
  <1>5. Readings' /\ Snapshot' /\ OriginInRange' /\ WayInRange' /\ NotYetCrossed'
    BY <1>1 DEF Readings, Snapshot, OriginInRange, WayInRange, NotYetCrossed
  <1>6. JumpInRange'
    BY <1>1, <1>2 DEF IInv, JumpInRange, Undisturbed, Operating
  <1>7. AtRest' /\ OwnFlicks' /\ SeenWhenDone' /\ DockWhereAsked'
    BY <1>1 DEF AtRest, OwnFlicks, SeenWhenDone, DockWhereAsked
  <1>8. QED
    BY <1>3, <1>4, <1>5, <1>6, <1>7 DEF IInv

(* An iteration of the wait.  The single flick of an operation is done when *)
(* the display shows another space than it did.                             *)
LEMMA PollIInv ==
  ASSUME IInv, Poll
  PROVE  IInv'
  <1>1. /\ UNCHANGED <<system, request, load, adapter, operation, history>>
        /\ step = "waiting"
        /\ \/ CommittedPosition(adapter) = {} /\ step' = "aborted"
           \/ (\E p \in CommittedPosition(adapter) : p # origin) /\ step' = "leaving"
    BY DEF Poll
  <1>2. /\ UNCHANGED <<spaces, showing, mouse, windows, macos27, pending, changes>>
        /\ UNCHANGED <<request, load, adapter, origin, position, target, crossed, failed>>
        /\ UNCHANGED <<quiet, expected>>
    BY <1>1 DEF system, operation, history
  <1>3. /\ Operating /\ Prepared /\ Typed /\ Displayed
        /\ adapter \in Adapters /\ Loaded(adapter)
    BY <1>1 DEF Operating, Prepared, IInv, Typed
  <1>4. CASE step' = "aborted" /\ CommittedPosition(adapter) = {}
    <2>1. AbortExplained'
      BY <1>2, <1>3, <1>4, CommittedExists DEF AbortExplained
    <2>2. QED
      BY <1>1, <1>2, <1>3, <1>4, <2>1, AbortedFacts
  <1>5. ASSUME step' = "leaving", NEW p \in CommittedPosition(adapter), p # origin
        PROVE  IInv'
    <2>1. Operating' /\ Prepared' /\ ~Loading'
      BY <1>5 DEF Operating, Prepared, Loading
    <2>2. Typed'
      BY <1>1, <1>2, <1>3, <1>5, <2>1 DEF Typed, Loaded
    <2>3. WayInRange' /\ NotYetCrossed' /\ OwnFlicks'
      BY <1>2, <1>3 DEF IInv, WayInRange, NotYetCrossed, OwnFlicks, NoneToFlick
    <2>4. SeenWhenDone'
      <3>1. SUFFICES ASSUME quiet, adapter.kind = "Horizontal", crossed <= 1, pending # <<>>
                     PROVE  FALSE
        BY <1>2, <1>3 DEF IInv, SeenWhenDone
      <3> DEFINE list == adapter.state.spaces
      <3>2. list[origin + 1].id = showing[adapter.state.display]
        BY <1>3, <3>1 DEF IInv, SeenWhenDone
      <3>3. p \in 0 .. Len(list) - 1 /\ list[p + 1].id = showing[adapter.state.display]
        BY <1>3, <1>5, <3>1, CommittedFacts
      <3>4. origin \in 0 .. Len(list) - 1
        BY <1>3, <3>1 DEF IInv, OriginInRange
      <3>5. list \in Lists
        BY <1>3, <3>1 DEF Loaded, SpaceStates
      <3> HIDE DEF list
      <3>6. Len(list) \in Nat /\ Unique(list)
        BY <3>5, ListFacts
      <3>7. p + 1 \in 1 .. Len(list) /\ origin + 1 \in 1 .. Len(list)
        BY <3>3, <3>4, <3>6
      <3>8. p + 1 = origin + 1
        BY <3>2, <3>3, <3>6, <3>7 DEF Unique
      <3>9. QED
        BY <1>5, <3>3, <3>4, <3>8
    <2>5. QED
      BY <1>2, <1>3, <2>1, <2>2, <2>3, <2>4, OperatingFacts, NoFlickFacts DEF IInv
  <1>6. QED
    BY <1>1, <1>4, <1>5

(* One that the OS does not answer.                                         *)
LEMMA PollFailsIInv ==
  ASSUME IInv, PollFails
  PROVE  IInv'
  <1>1. /\ step = "waiting" /\ adapter.kind = "Vertical" /\ step' = "aborted" /\ failed' = TRUE
        /\ UNCHANGED <<system, request, load, adapter, operation, crossed, quiet, expected>>
    BY DEF PollFails
  <1>2. Operating
    BY <1>1 DEF Operating
  <1>3. AbortExplained'
    BY <1>1 DEF AbortExplained
  <1>4. QED
    BY <1>1, <1>2, <1>3, AbortedFacts

(* The wait is over: the Dock is at rest again if it waited for one flick,  *)
(* and saw it.                                                              *)
LEMMA LeaveIInv ==
  ASSUME IInv, Leave
  PROVE  IInv'
  <1>1. /\ Over /\ UNCHANGED <<spaces, showing, mouse, changes, pending>>
        /\ step = "leaving" \/ (step = "waiting" /\ late)
        /\ quiet' = (quiet /\ ~late /\ crossed = 1)
    BY DEF Leave, system
  <1>2. /\ Operating /\ ~Between /\ Typed /\ quiet \in BOOLEAN
        /\ adapter.kind \in {"Horizontal", "Vertical"} /\ pending' \in Seq(FlicksOfDock)
    BY <1>1 DEF Operating, Between, Loading, IInv, Typed
  <1>3. quiet' \in BOOLEAN
    BY <1>1, <1>2, Zenon
  <1>4. AtRest'
    <2>1. SUFFICES ASSUME quiet' PROVE NoneToFlick
      BY <1>1 DEF AtRest, NoneToFlick
    <2>2. quiet /\ step = "leaving" /\ crossed = 1
      BY <1>1, <2>1, Zenon
    <2>3. CASE adapter.kind = "Vertical"
      BY <1>2, <2>2, <2>3 DEF IInv, OwnFlicks
    <2>4. CASE adapter.kind = "Horizontal"
      <3>1. crossed <= 1
        BY <2>2
      <3>2. pending = <<>>
        BY <1>2, <2>2, <2>4, <3>1 DEF IInv, SeenWhenDone
      <3>3. QED
        BY <3>2 DEF NoneToFlick
    <2>5. QED
      BY <1>2, <2>3, <2>4
  <1>5. QED
    BY <1>1, <1>2, <1>3, <1>4, OverIInv

(* Nothing that is claimed depends on the clock, nor on a step elsewhere.   *)
LEMMA ElsewhereIInv ==
  ASSUME IInv, UNCHANGED <<system, step, request, load, adapter, operation, history>>
  PROVE  IInv'
  <1>1. /\ UNCHANGED <<spaces, showing, mouse, windows, macos27, pending, changes>>
        /\ UNCHANGED <<step, request, load, adapter, origin, position, target, crossed, failed>>
        /\ UNCHANGED <<quiet, expected>>
    BY DEF system, operation, history
  <1>2. Typed'
    BY <1>1 DEF IInv, Typed, Prepared, Operating, Loading, Loaded, LookingUp
  <1>3. Displayed' /\ Readings' /\ Snapshot' /\ JumpInRange'
    BY <1>1 DEF IInv, Displayed, Readings, Snapshot, JumpInRange, Undisturbed, Between, Prepared,
                Operating, Loading
  <1>4. OriginInRange' /\ WayInRange' /\ NotYetCrossed'
    BY <1>1 DEF IInv, OriginInRange, WayInRange, NotYetCrossed, Operating
  <1>5. AtRest' /\ OwnFlicks' /\ SeenWhenDone'
    BY <1>1 DEF IInv, AtRest, OwnFlicks, SeenWhenDone, NoneToFlick, Between, Operating, Loading
  <1>6. DockWhereAsked'
    BY <1>1 DEF IInv, DockWhereAsked, Destination, At
  <1>7. AbortExplained'
    BY <1>1 DEF IInv, AbortExplained
  <1>8. QED
    BY <1>2, <1>3, <1>4, <1>5, <1>6, <1>7 DEF IInv

-----------------------------------------------------------------------------
(* No step breaks the invariant.                                            *)
LEMMA NextIInv == IInv /\ [Next]_vars => IInv'
  <1> SUFFICES ASSUME IInv, [Next]_vars PROVE IInv'
    OBVIOUS
  <1>1. CASE UNCHANGED vars
    BY <1>1, ElsewhereIInv DEF vars
  <1>2. CASE step # "aborted" /\ System
    BY <1>2, SystemIInv
  <1>3. CASE step # "aborted" /\ UserActs
    BY <1>3, UserActsIInv
  <1>4. CASE Deadline
    BY <1>4, ElsewhereIInv DEF Deadline
  <1>5. CASE Engine
    <2>1. ASSUME NEW axis \in {"horizontal", "vertical"}, NEW jump \in JumpTargets \cup {None},
                 Request(axis, jump)
          PROVE  IInv'
      BY <2>1, RequestIInv
    <2>2. CASE QueryFails
      <3>1. Between /\ Fail
        BY <2>2 DEF QueryFails, Query, Between, Loading
      <3>2. QED
        BY <3>1, FailIInv
    <2>3. CASE Locate
      BY <2>3, LocateIInv
    <2>4. CASE ListSpaces
      BY <2>4, ListSpacesIInv
    <2>5. CASE Load
      BY <2>5, LoadIInv
    <2>6. CASE AskWindow
      BY <2>6, AskWindowIInv
    <2>7. CASE Create
      BY <2>7, CreateIInv
    <2>8. ASSUME NEW sign \in {-1, 1}, Follow(sign) PROVE IInv'
      BY <2>8, FollowIInv
    <2>9. ASSUME NEW t \in IF request = None \/ step # "ready" THEN {}
                           ELSE IF request.jump # None THEN {request.jump} ELSE SoftLimits(adapter),
                 Run(t)
          PROVE  IInv'
      BY <2>9, RunIInv
    <2>10. CASE Cross
      BY <2>10, CrossIInv
    <2>11. CASE Commit
      BY <2>11, CommitIInv
    <2>12. CASE Poll
      BY <2>12, PollIInv
    <2>13. CASE PollFails
      BY <2>13, PollFailsIInv
    <2>14. CASE Leave
      BY <2>14, LeaveIInv
    <2>15. QED
      BY <1>5, <2>1, <2>2, <2>3, <2>4, <2>5, <2>6, <2>7, <2>8, <2>9, <2>10, <2>11, <2>12, <2>13,
         <2>14
         DEF Engine
  <1>6. QED
    BY <1>1, <1>2, <1>3, <1>4, <1>5 DEF Next

(* The inductive invariant holds.                                           *)
THEOREM Invariance == Spec => []IInv
  BY InitIInv, NextIInv, PTL DEF Spec

(* Whatever the Dock does and however long it takes, the wait for its       *)
(* commit ends the process only over spaces that were changed, a failure of *)
(* the OS, or the windows of two overviews before macOS 27.                 *)
THEOREM Explained == Spec => []AbortExplained
  <1>1. IInv => AbortExplained
    BY DEF IInv
  <1>2. QED
    BY Invariance, <1>1, PTL

(* However late the Dock does its flicks, after an operation that went as   *)
(* expected it ends up where the next one goes, whatever the spaces, as     *)
(* long as the user leaves them alone.                                      *)
THEOREM Asked == Spec => []DockWhereAsked
  <1>1. IInv => DockWhereAsked
    BY DEF IInv
  <1>2. QED
    BY Invariance, <1>1, PTL
=============================================================================
