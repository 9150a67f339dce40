--------------------- MODULE SpaceSwitchOperationProofs ---------------------
(***************************************************************************)
(* Proofs about SpaceSwitchOperation for any size of a space, any deferral *)
(* below half of it, any limits, start and targets.                        *)
(***************************************************************************)
EXTENDS SpaceSwitchOperation, TLAPS

(* TypeOK without the two instances.                                        *)
Typed ==
  /\ segmented \in BOOLEAN /\ moving \in BOOLEAN /\ committed \in BOOLEAN
  /\ active \in BOOLEAN /\ logged_error \in BOOLEAN /\ gesture_started \in BOOLEAN
  /\ turned \in BOOLEAN
  /\ position \in Position /\ dock \in Dock
  /\ gesture_origin \in Int /\ target \in Int
  /\ latest_direction \in {-1, 0, 1}

(* Never closer to a boundary than the deferral.                            *)
Clear(n) == \A m \in Int : OnBoundary(m) => n <= m - Defer \/ n >= m + Defer

(* A deferred position is that close to a boundary, and the one shown is    *)
(* just as far from it, on either side.                                     *)
NearBoundary(p) ==
  p.has_deferred => \E m \in Int : /\ OnBoundary(m)
                                   /\ p.deferred \in m - Defer .. m + Defer
                                   /\ p.effective \in {m - Defer, m + Defer}

(* Both kinds: SetPosition's loop leaves the position where it was asked,   *)
(* and the Dock between gestures in the limits or where it began.           *)
Settled ==
  /\ NearBoundary(position)
  /\ committed => ~moving
  /\ moving /\ position.deferred # target => position.effective # target
  /\ ~moving /\ ~committed => position.deferred = target \/ position.effective = target
  /\ ~dock.open /\ ~committed => dock.home \in SoftMin .. SoftMax \cup {Origin}

(* A segmented operation's gesture stays between the boundaries that end it, *)
(* and clear of all of them; between gestures the position is on one.       *)
GestureBetweenBoundaries ==
  /\ OnBoundary(gesture_origin)
  /\ ~gesture_started
  /\ active => ~committed
  /\ ~active => OnBoundary(position.effective) /\ ~position.has_deferred
  /\ active =>
       /\ Clear(position.effective)
       /\ \A b \in Segmented!NextBoundary(gesture_origin, TRUE) :
            position.effective < b /\ position.deferred < b
       /\ \A b \in Segmented!NextBoundary(gesture_origin, FALSE) :
            b < position.effective /\ b < position.deferred

(* A continuous operation's single gesture begins where the operation did.  *)
OneGesture ==
  /\ ~active /\ ~moving
  /\ ~gesture_started => position = At(Origin) /\ target = Origin /\ dock.home = Origin
  /\ gesture_started /\ ~committed => Clear(position.effective) /\ dock.home = Origin
  /\ ~committed => dock.moved = 0
  /\ ~turned /\ ~committed =>
       /\ position.deferred = target
       /\ target = Origin => position = At(Origin)
       /\ target > Origin => latest_direction = 1 /\ position.effective <= target
       /\ target < Origin => latest_direction = -1 /\ target <= position.effective

IInv ==
  /\ TypeOK /\ GesturesWellFormed /\ FlungForward /\ CommitLandsOnTarget
  /\ Settled
  /\ segmented => GestureBetweenBoundaries
  /\ ~segmented => OneGesture

-----------------------------------------------------------------------------
(* Division, for any divisor.                                               *)
LEMMA DivisionFacts ==
  ASSUME NEW n \in Int, NEW d \in Nat \ {0}
  PROVE  n = (n \div d) * d + (n % d) /\ n % d \in 0 .. d - 1 /\ n \div d \in Int
  OBVIOUS

(* A multiple leaves no remainder.                                          *)
LEMMA MultipleFacts ==
  ASSUME NEW k \in Int, NEW d \in Nat \ {0}
  PROVE  k * d \in Int /\ (k * d) % d = 0
  OBVIOUS

(* A remainder does not change the quotient.                                *)
LEMMA QuotientFacts ==
  ASSUME NEW k \in Int, NEW d \in Nat \ {0}, NEW r \in 0 .. d - 1
  PROVE  (k * d + r) \div d = k
  OBVIOUS

(* Multiples are a divisor apart.                                           *)
LEMMA OrderFacts ==
  ASSUME NEW j \in Int, NEW k \in Int, NEW d \in Nat \ {0}, j < k
  PROVE  j * d + d <= k * d
  OBVIOUS

(* What DeferAssumption says of a space and of the deferral.                *)
LEMMA OneFacts == One \in Nat \ {0} /\ Defer \in Nat \ {0} /\ 2 * Defer < One
  BY DeferAssumption

(* The boundaries are One apart, and the sum or difference of two is one.   *)
LEMMA BoundaryIndex ==
  ASSUME NEW n \in Int, OnBoundary(n)
  PROVE  \E k \in Int : n = k * One
  <1> DEFINE k == n \div One
  <1>1. n = k * One + (n % One) /\ k \in Int
    BY OneFacts, DivisionFacts
  <1>2. n % One = 0
    BY DEF OnBoundary
  <1> HIDE DEF k
  <1>3. k * One \in Int
    BY <1>1, OneFacts, MultipleFacts
  <1>4. n = k * One
    BY <1>1, <1>2, <1>3
  <1>5. QED
    BY <1>1, <1>4

(* A whole number of spaces is on a boundary.                               *)
LEMMA MultipleOnBoundary ==
  ASSUME NEW k \in Int
  PROVE  k * One \in Int /\ OnBoundary(k * One)
  BY OneFacts, MultipleFacts DEF OnBoundary

(* No two boundaries are closer than a space.                               *)
LEMMA BoundarySpacing ==
  ASSUME NEW m \in Int, NEW n \in Int, OnBoundary(m), OnBoundary(n), m < n
  PROVE  m + One <= n
  <1>1. PICK j \in Int : m = j * One
    BY BoundaryIndex
  <1>2. PICK k \in Int : n = k * One
    BY BoundaryIndex
  <1>3. j < k
    <2>1. CASE k = j
      BY <1>1, <1>2, <2>1
    <2>2. CASE k < j
      BY <1>1, <1>2, <2>2, OneFacts, OrderFacts
    <2>3. QED
      BY <2>1, <2>2
  <1>4. QED
    BY <1>1, <1>2, <1>3, OneFacts, OrderFacts

(* Boundaries are closed under sums, differences and steps of a space.      *)
LEMMA BoundaryArithmetic ==
  ASSUME NEW m \in Int, NEW n \in Int, OnBoundary(m), OnBoundary(n)
  PROVE  /\ OnBoundary(m + n) /\ OnBoundary(m - n)
         /\ OnBoundary(m + One) /\ OnBoundary(m - One) /\ OnBoundary(-m) /\ OnBoundary(0)
  <1>1. PICK j \in Int : m = j * One
    BY BoundaryIndex
  <1>2. PICK k \in Int : n = k * One
    BY BoundaryIndex
  <1>3. /\ m + n = (j + k) * One /\ m - n = (j - k) * One /\ m + One = (j + 1) * One
        /\ m - One = (j - 1) * One /\ -m = (-j) * One /\ 0 = 0 * One
    BY <1>1, <1>2, OneFacts
  <1>4. QED
    BY <1>3, MultipleOnBoundary

(* The boundary at or below a position, and truncation towards zero.        *)
LEMMA FloorFacts ==
  ASSUME NEW n \in Int
  PROVE  /\ (n \div One) * One \in Int /\ OnBoundary((n \div One) * One)
         /\ n % One \in 0 .. One - 1
         /\ n = (n \div One) * One + (n % One)
         /\ (n \div One) * One <= n /\ n < (n \div One) * One + One
  <1> DEFINE k == n \div One
             r == n % One
  <1>1. n = k * One + r /\ r \in 0 .. One - 1 /\ k \in Int
    BY OneFacts, DivisionFacts
  <1>2. k * One \in Int /\ OnBoundary(k * One)
    BY <1>1, MultipleOnBoundary
  <1> DEFINE f == k * One
  <1>3. n = f + r /\ f \in Int
    BY <1>1, <1>2
  <1> HIDE DEF f, r
  <1>4. f <= n /\ n < f + One
    BY <1>1, <1>3, OneFacts
  <1>5. QED
    BY <1>1, <1>2, <1>4 DEF f, r

(* Division truncates towards zero, by less than a space.                   *)
LEMMA TruncateFacts ==
  ASSUME NEW n \in Int
  PROVE  /\ TruncateToSpace(n) \in Int /\ OnBoundary(TruncateToSpace(n))
         /\ n >= 0 => TruncateToSpace(n) \in n - One + 1 .. n /\ TruncateToSpace(n) >= 0
         /\ n < 0 => TruncateToSpace(n) \in n .. n + One - 1 /\ TruncateToSpace(n) <= 0
  <1>1. CASE n >= 0
    <2> DEFINE f == (n \div One) * One
    <2>1. f \in Int /\ OnBoundary(f) /\ f <= n /\ n < f + One
      BY FloorFacts
    <2>2. f >= 0
      <3>1. CASE f < 0
        <4>1. OnBoundary(0)
          BY <2>1, BoundaryArithmetic
        <4>2. f + One <= 0
          BY <2>1, <3>1, <4>1, BoundarySpacing
        <4>3. QED
          BY <1>1, <2>1, <4>2, OneFacts
      <3>2. QED
        BY <2>1, <3>1
    <2>3. TruncateToSpace(n) = f
      BY <1>1 DEF TruncateToSpace
    <2> HIDE DEF f
    <2>4. QED
      BY <1>1, <2>1, <2>2, <2>3, OneFacts
  <1>2. CASE n < 0
    <2> DEFINE f == ((-n) \div One) * One
    <2>1. -n \in Int /\ -n > 0
      BY <1>2
    <2>2. f \in Int /\ OnBoundary(f) /\ f <= -n /\ -n < f + One
      BY <2>1, FloorFacts
    <2>3. f >= 0
      <3>1. CASE f < 0
        <4>1. OnBoundary(0)
          BY <2>2, BoundaryArithmetic
        <4>2. f + One <= 0
          BY <2>2, <3>1, <4>1, BoundarySpacing
        <4>3. QED
          BY <2>1, <2>2, <4>2, OneFacts
      <3>2. QED
        BY <2>2, <3>1
    <2>4. TruncateToSpace(n) = -f
      BY <1>2 DEF TruncateToSpace
    <2>5. OnBoundary(-f)
      BY <2>2, BoundaryArithmetic
    <2> HIDE DEF f
    <2>6. QED
      BY <1>2, <2>2, <2>3, <2>4, <2>5, OneFacts
  <1>3. QED
    BY <1>1, <1>2

(* DistanceToBoundary() tells which positions are near a boundary, and      *)
(* NearestBoundary() is then that one.                                      *)
LEMMA NearestOfNat ==
  ASSUME NEW n \in Nat, n % One <= Defer \/ One - (n % One) <= Defer
  PROVE  /\ ((n + Defer) \div One) * One \in Int
         /\ OnBoundary(((n + Defer) \div One) * One)
         /\ n \in ((n + Defer) \div One) * One - Defer .. ((n + Defer) \div One) * One + Defer
  <1> DEFINE f == ((n + Defer) \div One) * One
             g == (n \div One) * One
             r == n % One
  <1>0. n \in Int /\ n + Defer \in Int
    BY OneFacts
  <1>1. f \in Int /\ OnBoundary(f) /\ f <= n + Defer /\ n + Defer < f + One
    BY <1>0, FloorFacts
  <1>2. g \in Int /\ OnBoundary(g) /\ r \in 0 .. One - 1 /\ n = g + r
    BY FloorFacts
  <1>3. OnBoundary(g + One) /\ g + One \in Int /\ OnBoundary(g + One + One)
    <2>1. OnBoundary(g + One) /\ g + One \in Int
      BY <1>2, OneFacts, BoundaryArithmetic
    <2>2. QED
      BY <2>1, OneFacts, BoundaryArithmetic
  <1>4. r <= Defer \/ One - r <= Defer
    OBVIOUS
  <1> HIDE DEF f, g, r
  <1>5. CASE r <= Defer
    <2>1. ~(f < g) /\ ~(g < f)
      BY <1>1, <1>2, <1>5, OneFacts, BoundarySpacing
    <2>2. QED
      BY <1>1, <1>2, <1>5, <2>1, OneFacts DEF f
  <1>6. CASE One - r <= Defer
    <2>1. ~(f < g + One) /\ ~(g + One < f)
      BY <1>1, <1>2, <1>3, <1>6, OneFacts, BoundarySpacing
    <2>2. QED
      BY <1>1, <1>2, <1>6, <2>1, OneFacts DEF f
  <1>7. QED
    BY <1>4, <1>5, <1>6

(* A position further from its multiple of a space is near none.            *)
LEMMA FarOfNat ==
  ASSUME NEW n \in Nat, n % One > Defer, One - (n % One) > Defer,
         NEW m \in Int, OnBoundary(m)
  PROVE  n < m - Defer \/ n > m + Defer
  <1> DEFINE g == (n \div One) * One
             r == n % One
  <1>1. g \in Int /\ OnBoundary(g) /\ r \in 0 .. One - 1 /\ n = g + r
    BY FloorFacts
  <1>2. r > Defer /\ One - r > Defer
    OBVIOUS
  <1>3. g < m => g + One <= m
    BY <1>1, BoundarySpacing
  <1> HIDE DEF g, r
  <1>4. QED
    BY <1>1, <1>2, <1>3, OneFacts

(* The same for negative positions, where division truncates upwards.       *)
LEMMA NearestFacts ==
  ASSUME NEW n \in Int
  PROVE  /\ DistanceToBoundary(n) <= Defer =>
              /\ NearestBoundary(n) \in Int /\ OnBoundary(NearestBoundary(n))
              /\ n \in NearestBoundary(n) - Defer .. NearestBoundary(n) + Defer
         /\ ~(DistanceToBoundary(n) <= Defer) =>
              \A m \in Int : OnBoundary(m) => n < m - Defer \/ n > m + Defer
  <1>1. CASE n >= 0
    <2>1. n \in Nat /\ Abs(n) = n
      BY <1>1 DEF Abs
    <2>2. n % One \in 0 .. One - 1
      BY OneFacts, DivisionFacts
    <2>3. DistanceToBoundary(n) <= Defer <=> n % One <= Defer \/ One - (n % One) <= Defer
      BY <2>1, <2>2, OneFacts DEF DistanceToBoundary
    <2>4. NearestBoundary(n) = ((n + Defer) \div One) * One
      BY <1>1, OneFacts DEF NearestBoundary, TruncateToSpace
    <2>5. QED
      BY <2>1, <2>2, <2>3, <2>4, OneFacts, NearestOfNat, FarOfNat
  <1>2. CASE n < 0
    <2> DEFINE a == -n
    <2>1. a \in Nat /\ Abs(n) = a /\ n = -a
      BY <1>2 DEF Abs
    <2>2. a % One \in 0 .. One - 1
      BY <2>1, OneFacts, DivisionFacts
    <2>3. DistanceToBoundary(n) <= Defer <=> a % One <= Defer \/ One - (a % One) <= Defer
      BY <2>1, <2>2, OneFacts DEF DistanceToBoundary
    <2>4. NearestBoundary(n) = -(((a + Defer) \div One) * One)
      <3>1. -(n - Defer) = a + Defer /\ n - Defer < 0
        BY <1>2, OneFacts
      <3>2. NearestBoundary(n) = TruncateToSpace(n - Defer)
        BY <1>2 DEF NearestBoundary
      <3>3. TruncateToSpace(n - Defer) = -(((-(n - Defer)) \div One) * One)
        <4>1. ~(n - Defer >= 0)
          BY <3>1, OneFacts
        <4>2. QED
          BY <4>1 DEF TruncateToSpace
      <3>4. QED
        BY <3>1, <3>2, <3>3
    <2> HIDE DEF a
    <2>5. CASE DistanceToBoundary(n) <= Defer
      <3> DEFINE b == ((a + Defer) \div One) * One
      <3>1. b \in Int /\ OnBoundary(b) /\ a \in b - Defer .. b + Defer
        BY <2>1, <2>3, <2>5, NearestOfNat
      <3>2. OnBoundary(-b)
        BY <3>1, BoundaryArithmetic
      <3>3. NearestBoundary(n) = -b
        BY <2>4
      <3> HIDE DEF b
      <3>4. QED
        BY <2>1, <2>5, <3>1, <3>2, <3>3, OneFacts
    <2>6. CASE ~(DistanceToBoundary(n) <= Defer)
      <3>1. ASSUME NEW m \in Int, OnBoundary(m) PROVE n < m - Defer \/ n > m + Defer
        <4>1. OnBoundary(-m) /\ -m \in Int
          BY <3>1, BoundaryArithmetic
        <4>2. a % One > Defer /\ One - (a % One) > Defer
          BY <2>2, <2>3, <2>6, OneFacts
        <4>3. a < (-m) - Defer \/ a > (-m) + Defer
          BY <2>1, <4>1, <4>2, FarOfNat
        <4>4. QED
          BY <2>1, <4>3, OneFacts
      <3>2. QED
        BY <2>6, <3>1
    <2>7. QED
      BY <2>5, <2>6
  <1>3. QED
    BY <1>1, <1>2

-----------------------------------------------------------------------------
(* A distance of the deferral from a boundary is that far from the nearest.  *)
LEMMA DeferDistance ==
  ASSUME NEW m \in Int, OnBoundary(m), NEW n \in {m - Defer, m + Defer}
  PROVE  DistanceToBoundary(n) = Defer
  <1>1. n \in Int
    BY OneFacts
  <1> DEFINE a == Abs(n)
  <1>2. \E b \in Int : OnBoundary(b) /\ (a = b + Defer \/ a = b + (One - Defer))
    <2>1. /\ OnBoundary(m - One) /\ OnBoundary(-m) /\ -m \in Int /\ m - One \in Int
          /\ OnBoundary((-m) - One) /\ (-m) - One \in Int
      <3>1. OnBoundary(m - One) /\ OnBoundary(-m) /\ -m \in Int /\ m - One \in Int
        BY OneFacts, BoundaryArithmetic
      <3>2. QED
        BY <3>1, OneFacts, BoundaryArithmetic
    <2>2. CASE n >= 0
      <3>1. a = n
        BY <1>1, <2>2 DEF Abs
      <3>2. n = m + Defer \/ n = (m - One) + (One - Defer)
        BY OneFacts
      <3>3. QED
        BY <2>1, <3>1, <3>2
    <2>3. CASE n < 0
      <3>1. a = -n
        BY <1>1, <2>3 DEF Abs
      <3>2. -n = (-m) + Defer \/ -n = ((-m) - One) + (One - Defer)
        BY OneFacts
      <3>3. QED
        BY <2>1, <3>1, <3>2
    <2>4. QED
      BY <1>1, <2>2, <2>3
  <1>3. PICK b \in Int : OnBoundary(b) /\ (a = b + Defer \/ a = b + (One - Defer))
    BY <1>2
  <1>4. a \in Int
    BY <1>1 DEF Abs
  <1> HIDE DEF a
  <1>5. a % One \in {Defer, One - Defer}
    <2> DEFINE f == (a \div One) * One
               r == a % One
    <2>1. f \in Int /\ OnBoundary(f) /\ r \in 0 .. One - 1 /\ a = f + r
      BY <1>4, FloorFacts
    <2>2. (f < b => f + One <= b) /\ (b < f => b + One <= f)
      BY <1>3, <2>1, BoundarySpacing
    <2> HIDE DEF f, r
    <2>3. r \in {Defer, One - Defer}
      BY <1>3, <1>4, <2>1, <2>2, OneFacts
    <2>4. QED
      BY <2>3 DEF r
  <1>6. DistanceToBoundary(n) = IF a % One <= One - (a % One) THEN a % One ELSE One - (a % One)
    BY DEF DistanceToBoundary, a
  <1>7. QED
    BY <1>5, <1>6, OneFacts

(* Set() (deferred-position.cc:23-41): the position asked for is kept, the  *)
(* one shown is clear of every boundary, on the side it came from.          *)
LEMMA SetFacts ==
  ASSUME NEW p \in Position, NEW n \in Int, n # p.effective
  PROVE  /\ Set(p, n) \in Position /\ Set(p, n).deferred = n
         /\ Clear(Set(p, n).effective) /\ NearBoundary(Set(p, n))
         /\ \/ /\ Set(p, n).effective = n /\ ~Set(p, n).has_deferred
               /\ ~OnBoundary(n)
            \/ /\ Set(p, n).has_deferred
               /\ \E m \in Int :
                    /\ OnBoundary(m) /\ n \in m - Defer .. m + Defer
                    /\ Set(p, n).effective = IF n > p.effective THEN m - Defer ELSE m + Defer
  <1>1. p.effective \in Int
    BY DEF Position
  <1>2. CASE DistanceToBoundary(n) <= Defer
    <2> DEFINE m == NearestBoundary(n)
               e == m - (IF n > p.effective THEN Defer ELSE -Defer)
               q == [effective |-> e, deferred |-> n, has_deferred |-> TRUE]
    <2>1. m \in Int /\ OnBoundary(m) /\ n \in m - Defer .. m + Defer
      BY <1>2, NearestFacts
    <2>2. Set(p, n) = q
      BY <1>2 DEF Set
    <2> HIDE DEF m
    <2>3. e = (IF n > p.effective THEN m - Defer ELSE m + Defer) /\ e \in Int
            /\ e \in {m - Defer, m + Defer}
      BY <1>1, <2>1, OneFacts
    <2> HIDE DEF e
    <2>4. q.effective = e /\ q.deferred = n
      OBVIOUS
    <2>5. q.has_deferred = TRUE
      OBVIOUS
    <2>6. q \in Position
      <3>1. DistanceToBoundary(n) <= Defer
        BY <1>2
      <3>2. DistanceToBoundary(e) = Defer
        BY <2>1, <2>3, DeferDistance
      <3>3. Abs(e - n) <= 2 * Defer
        BY <2>1, <2>3, OneFacts DEF Abs
      <3>4. q \in [effective : Int, deferred : Int, has_deferred : BOOLEAN]
        BY <2>3
      <3>5. QED
        BY <2>4, <2>5, <3>1, <3>2, <3>3, <3>4 DEF Position
    <2>7. Clear(e)
      <3> SUFFICES ASSUME NEW k \in Int, OnBoundary(k)
                   PROVE  e <= k - Defer \/ e >= k + Defer
        BY DEF Clear
      <3>1. (k < m => k + One <= m) /\ (m < k => m + One <= k)
        BY <2>1, BoundarySpacing
      <3>2. QED
        BY <2>1, <2>3, <3>1, OneFacts
    <2> HIDE DEF q
    <2>8. NearBoundary(q)
      BY <2>1, <2>3, <2>4 DEF NearBoundary
    <2>9. \E k \in Int : /\ OnBoundary(k) /\ n \in k - Defer .. k + Defer
                        /\ q.effective = IF n > p.effective THEN k - Defer ELSE k + Defer
      BY <2>1, <2>3, <2>4
    <2>10. QED
      BY <2>2, <2>4, <2>5, <2>6, <2>7, <2>8, <2>9
  <1>3. CASE ~(DistanceToBoundary(n) <= Defer)
    <2>1. Set(p, n) = At(n)
      BY <1>3 DEF Set
    <2>2. At(n).effective = n /\ At(n).deferred = n
      BY DEF At
    <2>3. At(n).has_deferred = FALSE
      BY DEF At
    <2>4. At(n) \in Position
      BY DEF At, Position
    <2>5. \A m \in Int : OnBoundary(m) => n < m - Defer \/ n > m + Defer
      BY <1>3, NearestFacts
    <2>6. Clear(n)
      BY <2>5, OneFacts DEF Clear
    <2>7. ~OnBoundary(n)
      BY <2>5, OneFacts
    <2>8. NearBoundary(At(n))
      BY <2>3 DEF NearBoundary
    <2>9. QED
      BY <2>1, <2>2, <2>3, <2>4, <2>6, <2>7, <2>8
  <1>4. QED
    BY <1>2, <1>3

(* A boundary is always deferred: shown just short of it.                   *)
LEMMA SetOnBoundary ==
  ASSUME NEW p \in Position, NEW b \in Int, OnBoundary(b), b # p.effective
  PROVE  /\ Set(p, b).has_deferred = TRUE
         /\ Set(p, b).effective = IF b > p.effective THEN b - Defer ELSE b + Defer
  <1>1. Set(p, b).has_deferred \in BOOLEAN
    BY SetFacts DEF Position
  <1>2. PICK m \in Int : /\ OnBoundary(m) /\ b \in m - Defer .. m + Defer
                        /\ Set(p, b).effective = IF b > p.effective THEN m - Defer ELSE m + Defer
    BY SetFacts
  <1>3. (b < m => b + One <= m) /\ (m < b => m + One <= b)
    BY <1>2, BoundarySpacing
  <1>4. m = b
    BY <1>2, <1>3, OneFacts
  <1>5. QED
    BY <1>1, <1>2, <1>4, SetFacts

(* A position moved short of a boundary, from short of it, is shown there.  *)
LEMMA SetBelow ==
  ASSUME NEW p \in Position, NEW n \in Int, n # p.effective,
         NEW b \in Int, OnBoundary(b), n < b, p.effective <= b - Defer
  PROVE  Set(p, n).effective < b
  <1>1. p.effective \in Int
    BY DEF Position
  <1>2. CASE Set(p, n).effective = n
    BY <1>2
  <1>3. CASE Set(p, n).effective # n
    <2>1. PICK m \in Int :
            /\ OnBoundary(m) /\ n \in m - Defer .. m + Defer
            /\ Set(p, n).effective = IF n > p.effective THEN m - Defer ELSE m + Defer
      BY <1>3, SetFacts
    <2>2. (b < m => b + One <= m) /\ (m < b => m + One <= b)
      BY <2>1, BoundarySpacing
    <2>3. QED
      BY <1>1, <2>1, <2>2, OneFacts
  <1>4. QED
    BY <1>2, <1>3

(* The same from above the boundary.                                        *)
LEMMA SetAbove ==
  ASSUME NEW p \in Position, NEW n \in Int, n # p.effective,
         NEW b \in Int, OnBoundary(b), b < n, b + Defer <= p.effective
  PROVE  b < Set(p, n).effective
  <1>1. p.effective \in Int
    BY DEF Position
  <1>2. CASE Set(p, n).effective = n
    BY <1>2
  <1>3. CASE Set(p, n).effective # n
    <2>1. PICK m \in Int :
            /\ OnBoundary(m) /\ n \in m - Defer .. m + Defer
            /\ Set(p, n).effective = IF n > p.effective THEN m - Defer ELSE m + Defer
      BY <1>3, SetFacts
    <2>2. (b < m => b + One <= m) /\ (m < b => m + One <= b)
      BY <2>1, BoundarySpacing
    <2>3. QED
      BY <1>1, <2>1, <2>2, OneFacts
  <1>4. QED
    BY <1>2, <1>3

(* What is clear of the boundaries is on none.                              *)
LEMMA ClearOffBoundary ==
  ASSUME NEW n \in Int, Clear(n)
  PROVE  ~OnBoundary(n)
  BY OneFacts DEF Clear

(* GetNextBoundary (space-switch-operation.cc:30-62): at most one boundary, *)
(* within the limits and beyond the origin; none is beyond a limit, and     *)
(* inside of the limits it is the very next one.                            *)
LEMMA NextBoundaryFacts ==
  ASSUME NEW origin \in Int, OnBoundary(origin), NEW up \in BOOLEAN
  PROVE  /\ \A b \in Segmented!NextBoundary(origin, up) :
              /\ b \in SoftMin .. SoftMax /\ OnBoundary(b)
              /\ IF up THEN origin < b ELSE b < origin
              /\ up => b = origin + One \/ b = SoftMin
              /\ ~up => b = origin - One \/ b = SoftMax
              /\ Segmented!NextBoundary(origin, up) = {b}
         /\ Segmented!NextBoundary(origin, up) = {} =>
              IF up THEN SoftMax <= origin ELSE origin <= SoftMin
  <1> DEFINE above == ((origin + 1) \div One + 1) * One
             below == ((origin - 1) \div One) * One
  <1>1. PICK k \in Int : origin = k * One
    BY BoundaryIndex
  <1>2. above = origin + One
    <2>1. (origin + 1) \div One = k
      BY <1>1, OneFacts, QuotientFacts
    <2>2. QED
      BY <1>1, <2>1, OneFacts
  <1>3. below = origin - One
    <2>1. (k - 1) * One = origin - One /\ k - 1 \in Int /\ One - 1 \in 0 .. One - 1
      BY <1>1, OneFacts
    <2>2. origin - 1 = (k - 1) * One + (One - 1)
      BY <2>1, OneFacts
    <2>3. (origin - 1) \div One = k - 1
      BY <2>1, <2>2, OneFacts, QuotientFacts
    <2>4. QED
      BY <2>1, <2>3
  <1> DEFINE b == IF up THEN above ELSE below
  <1>4. Segmented!NextBoundary(origin, up) =
          IF b < SoftMin THEN IF up THEN {SoftMin} ELSE {}
          ELSE IF b > SoftMax THEN IF up THEN {} ELSE {SoftMax}
          ELSE {b}
    BY Zenon DEF Segmented!NextBoundary
  <1> HIDE DEF above, below
  <1>5. b = (IF up THEN origin + One ELSE origin - One) /\ OnBoundary(b) /\ b \in Int
    <2>1. OnBoundary(origin + One) /\ OnBoundary(origin - One)
      BY BoundaryArithmetic
    <2>2. CASE up
      BY <1>2, <2>1, <2>2, OneFacts
    <2>3. CASE ~up
      BY <1>3, <2>1, <2>3, OneFacts
    <2>4. QED
      BY <2>2, <2>3
  <1> HIDE DEF b
  <1>6. /\ SoftMin \in Int /\ SoftMax \in Int /\ SoftMin <= SoftMax
        /\ OnBoundary(SoftMin) /\ OnBoundary(SoftMax)
    BY OperationAssumption
  <1>7. (SoftMax < b /\ up => SoftMax <= origin) /\ (b < SoftMin /\ ~up => origin <= SoftMin)
    <2>1. (origin < SoftMax => origin + One <= SoftMax) /\ (SoftMin < origin => SoftMin + One <= origin)
      BY <1>6, BoundarySpacing
    <2>2. QED
      BY <1>5, <1>6, <2>1, OneFacts
  <1>8. CASE up
    <2>1. CASE b < SoftMin
      BY <1>4, <1>5, <1>6, <1>8, <2>1, OneFacts
    <2>2. CASE b > SoftMax
      BY <1>4, <1>5, <1>6, <1>7, <1>8, <2>2, OneFacts
    <2>3. CASE b \in SoftMin .. SoftMax
      BY <1>4, <1>5, <1>6, <1>8, <2>3, OneFacts
    <2>4. QED
      BY <1>5, <1>6, <2>1, <2>2, <2>3
  <1>9. CASE ~up
    <2>1. CASE b < SoftMin
      BY <1>4, <1>5, <1>6, <1>7, <1>9, <2>1, OneFacts
    <2>2. CASE b > SoftMax
      BY <1>4, <1>5, <1>6, <1>9, <2>2, OneFacts
    <2>3. CASE b \in SoftMin .. SoftMax
      BY <1>4, <1>5, <1>6, <1>9, <2>3, OneFacts
    <2>4. QED
      BY <1>5, <1>6, <2>1, <2>2, <2>3
  <1>10. QED
    BY <1>8, <1>9

(* The boundary above, when there is one.                                   *)
LEMMA NextAbove ==
  ASSUME NEW origin \in Int, OnBoundary(origin),
         NEW b \in Segmented!NextBoundary(origin, TRUE)
  PROVE  /\ b \in Int /\ b \in SoftMin .. SoftMax /\ OnBoundary(b) /\ origin < b
         /\ b = origin + One \/ b = SoftMin
         /\ Segmented!NextBoundary(origin, TRUE) = {b}
  <1>1. SoftMin \in Int /\ SoftMax \in Int
    BY OperationAssumption
  <1>2. /\ b \in SoftMin .. SoftMax /\ OnBoundary(b)
        /\ IF TRUE THEN origin < b ELSE b < origin
        /\ TRUE => b = origin + One \/ b = SoftMin
        /\ Segmented!NextBoundary(origin, TRUE) = {b}
    BY NextBoundaryFacts, Zenon
  <1>3. b \in Int
    BY <1>1, <1>2
  <1>4. QED
    BY <1>2, <1>3, Zenon

(* The boundary below, when there is one.                                   *)
LEMMA NextBelow ==
  ASSUME NEW origin \in Int, OnBoundary(origin),
         NEW b \in Segmented!NextBoundary(origin, FALSE)
  PROVE  /\ b \in Int /\ b \in SoftMin .. SoftMax /\ OnBoundary(b) /\ b < origin
         /\ b = origin - One \/ b = SoftMax
         /\ Segmented!NextBoundary(origin, FALSE) = {b}
  <1>1. SoftMin \in Int /\ SoftMax \in Int
    BY OperationAssumption
  <1>2. /\ b \in SoftMin .. SoftMax /\ OnBoundary(b)
        /\ IF FALSE THEN origin < b ELSE b < origin
        /\ ~FALSE => b = origin - One \/ b = SoftMax
        /\ Segmented!NextBoundary(origin, FALSE) = {b}
    BY NextBoundaryFacts, Zenon
  <1>3. b \in Int
    BY <1>1, <1>2
  <1>4. QED
    BY <1>2, <1>3, Zenon

-----------------------------------------------------------------------------
(* What the Dock makes of the events of a gesture that is in order.         *)
LEMMA BeganFacts ==
  ASSUME NEW d \in Dock, ~d.open, ~d.confused, ~d.lingered, NEW k \in {-1, 1}
  PROVE  /\ Began(d, k) \in Dock /\ Began(d, k).open = TRUE
         /\ Began(d, k).confused = FALSE /\ Began(d, k).lingered = FALSE
         /\ ~ShownOnBoundary(Began(d, k))
         /\ Began(d, k).home = d.home
         /\ Began(d, k).moved = d.moved /\ Began(d, k).flung = d.flung
  <1>1. (d.confused \/ d.open) = FALSE
    BY Zenon
  <1>2. Began(d, k) = [d EXCEPT !.open = TRUE, !.confused = FALSE, !.shown = 0, !.nudge = k]
    BY <1>1 DEF Began
  <1>3. d.lingered = FALSE
    BY DEF Dock
  <1>4. Began(d, k) = [open |-> TRUE, home |-> d.home, shown |-> 0, nudge |-> k,
                       lingered |-> FALSE, moved |-> d.moved, flung |-> d.flung,
                       confused |-> FALSE]
    BY <1>2, <1>3 DEF Dock
  <1>5. Began(d, k) \in Dock
    BY <1>4 DEF Dock
  <1>6. Began(d, k).nudge = k
    BY <1>4
  <1>7. ~ShownOnBoundary(Began(d, k))
    BY <1>6 DEF ShownOnBoundary
  <1>8. QED
    BY <1>4, <1>5, <1>7

(* A Changed of a gesture that is open shows its progress.                  *)
LEMMA ChangedFacts ==
  ASSUME NEW d \in Dock, d.open, ~d.confused, ~d.lingered, ~ShownOnBoundary(d),
         NEW n \in Int, NEW k \in {-1, 0, 1}
  PROVE  /\ Changed(d, n, k) \in Dock /\ Changed(d, n, k).open = TRUE
         /\ Changed(d, n, k).confused = FALSE /\ Changed(d, n, k).lingered = FALSE
         /\ ~OnBoundary(n) => ~ShownOnBoundary(Changed(d, n, k))
         /\ Changed(d, n, k).home = d.home
         /\ Changed(d, n, k).moved = d.moved /\ Changed(d, n, k).flung = d.flung
  <1>1. (d.confused \/ ~d.open) = FALSE
    BY Zenon
  <1>2. (d.lingered \/ ShownOnBoundary(d)) = FALSE
    BY Zenon
  <1>3. Changed(d, n, k) = [d EXCEPT !.shown = n, !.nudge = k, !.lingered = FALSE,
                                     !.confused = FALSE]
    BY <1>1, <1>2 DEF Changed
  <1>4. d.open = TRUE
    BY DEF Dock
  <1>5. Changed(d, n, k).shown = n
    BY <1>3 DEF Dock
  <1>6. QED
    BY <1>3, <1>4, <1>5 DEF Dock, ShownOnBoundary

(* An Ended of a gesture that is open moves the Dock by its progress.       *)
LEMMA EndedFacts ==
  ASSUME NEW d \in Dock, d.open, ~d.confused, ~d.lingered, NEW n \in Int, NEW v \in Int
  PROVE  /\ Ended(d, n, v) \in Dock /\ Ended(d, n, v).open = FALSE
         /\ Ended(d, n, v).confused = FALSE /\ Ended(d, n, v).lingered = FALSE
         /\ Ended(d, n, v).home = d.home + n
         /\ Ended(d, n, v).moved = n /\ Ended(d, n, v).flung = Sign(v)
  <1>1. (d.confused \/ ~d.open) = FALSE
    BY Zenon
  <1>2. Ended(d, n, v) = [d EXCEPT !.open = FALSE, !.confused = FALSE, !.home = @ + n,
                                   !.moved = n, !.flung = Sign(v)]
    BY <1>1 DEF Ended
  <1> DEFINE s == Sign(v)
  <1>3. s \in {-1, 0, 1}
    BY DEF Sign
  <1>4. d.home + n \in Int
    BY DEF Dock
  <1>5. d.lingered = FALSE
    BY DEF Dock
  <1> HIDE DEF s
  <1>6. QED
    BY <1>2, <1>3, <1>4, <1>5 DEF Dock, s

(* A Cancelled leaves the Dock where it was.                                *)
LEMMA CancelledFacts ==
  ASSUME NEW d \in Dock, ~d.lingered, NEW v \in Int
  PROVE  /\ Cancelled(d, v) \in Dock /\ Cancelled(d, v).open = FALSE
         /\ Cancelled(d, v).confused = (d.confused \/ ~d.open)
         /\ Cancelled(d, v).lingered = FALSE
         /\ Cancelled(d, v).home = d.home /\ Cancelled(d, v).moved = 0
  <1> DEFINE c == d.confused \/ ~d.open
             s == Sign(v)
  <1>1. c \in BOOLEAN
    BY Zenon
  <1>2. s \in {-1, 0, 1}
    BY DEF Sign
  <1>3. Cancelled(d, v) = [d EXCEPT !.open = FALSE, !.confused = c, !.moved = 0, !.flung = s]
    BY DEF Cancelled
  <1>4. d.lingered = FALSE
    BY DEF Dock
  <1> HIDE DEF c, s
  <1>5. Cancelled(d, v) = [open |-> FALSE, home |-> d.home, shown |-> d.shown,
                           nudge |-> d.nudge, lingered |-> FALSE, moved |-> 0,
                           flung |-> s, confused |-> c]
    BY <1>3, <1>4 DEF Dock
  <1>6. Cancelled(d, v) \in Dock
    BY <1>1, <1>2, <1>5 DEF Dock
  <1>7. Cancelled(d, v).confused = c
    BY <1>5
  <1>8. QED
    BY <1>5, <1>6, <1>7 DEF c

(* The two kinds name the same operators.                                   *)
LEMMA SameOperators ==
  /\ Segmented!Position = Position /\ Continuous!Position = Position
  /\ Segmented!Dock = Dock /\ Continuous!Dock = Dock
  /\ \A n : Segmented!At(n) = At(n) /\ Continuous!At(n) = At(n)
  /\ \A n : Segmented!DockAt(n) = DockAt(n) /\ Continuous!DockAt(n) = DockAt(n)
  /\ \A n : Segmented!OnBoundary(n) <=> OnBoundary(n)
  /\ \A n : Segmented!Sign(n) = Sign(n) /\ Continuous!Sign(n) = Sign(n)
  /\ \A n : Continuous!Abs(n) = Abs(n)
  /\ \A n : Continuous!TruncateToSpace(n) = TruncateToSpace(n)
  /\ \A p, n : Segmented!Set(p, n) = Set(p, n) /\ Continuous!Set(p, n) = Set(p, n)
  /\ \A p : Segmented!CommitDeferred(p) = At(p.deferred)
  /\ \A p : Continuous!CommitDeferred(p) = At(p.deferred)
  /\ \A d, k : Segmented!Began(d, k) = Began(d, k) /\ Continuous!Began(d, k) = Began(d, k)
  /\ \A d, n, k : /\ Segmented!Changed(d, n, k) = Changed(d, n, k)
                  /\ Continuous!Changed(d, n, k) = Changed(d, n, k)
  /\ \A d, n, v : Segmented!Ended(d, n, v) = Ended(d, n, v) /\ Continuous!Ended(d, n, v) = Ended(d, n, v)
  /\ \A d, v : /\ Segmented!Cancelled(d, v) = Cancelled(d, v)
              /\ Continuous!Cancelled(d, v) = Cancelled(d, v)
  <1>1. /\ \A n : Segmented!OnBoundary(n) <=> OnBoundary(n)
        /\ \A n : Continuous!OnBoundary(n) <=> OnBoundary(n)
        /\ \A n : Segmented!Sign(n) = Sign(n) /\ Continuous!Sign(n) = Sign(n)
        /\ \A n : Segmented!Abs(n) = Abs(n) /\ Continuous!Abs(n) = Abs(n)
        /\ \A n : /\ Segmented!TruncateToSpace(n) = TruncateToSpace(n)
                  /\ Continuous!TruncateToSpace(n) = TruncateToSpace(n)
    BY Zenon DEF OnBoundary, Segmented!OnBoundary, Continuous!OnBoundary, Sign, Segmented!Sign,
                 Continuous!Sign, Abs, Segmented!Abs, Continuous!Abs, TruncateToSpace,
                 Segmented!TruncateToSpace, Continuous!TruncateToSpace
  <1>2. \A n : /\ Segmented!DistanceToBoundary(n) = DistanceToBoundary(n)
              /\ Continuous!DistanceToBoundary(n) = DistanceToBoundary(n)
              /\ Segmented!NearestBoundary(n) = NearestBoundary(n)
              /\ Continuous!NearestBoundary(n) = NearestBoundary(n)
    BY <1>1, Zenon DEF DistanceToBoundary, Segmented!DistanceToBoundary,
                       Continuous!DistanceToBoundary, NearestBoundary,
                       Segmented!NearestBoundary, Continuous!NearestBoundary
  <1>3. /\ Segmented!Position = Position /\ Continuous!Position = Position
        /\ Segmented!Dock = Dock /\ Continuous!Dock = Dock
        /\ \A n : Segmented!At(n) = At(n) /\ Continuous!At(n) = At(n)
        /\ \A n : Segmented!DockAt(n) = DockAt(n) /\ Continuous!DockAt(n) = DockAt(n)
    BY <1>1, <1>2 DEF Position, Segmented!Position, Continuous!Position, Dock,
                 Segmented!Dock, Continuous!Dock, At, Segmented!At, Continuous!At, DockAt,
                 Segmented!DockAt, Continuous!DockAt
  <1>4. \A p, n : Segmented!Set(p, n) = Set(p, n) /\ Continuous!Set(p, n) = Set(p, n)
    BY <1>2, <1>3, Zenon DEF Set, Segmented!Set, Continuous!Set
  <1>5. /\ \A p : Segmented!CommitDeferred(p) = At(p.deferred)
        /\ \A p : Continuous!CommitDeferred(p) = At(p.deferred)
    BY <1>3, Zenon DEF Segmented!CommitDeferred, Continuous!CommitDeferred
  <1>6. /\ \A d, k : Segmented!Began(d, k) = Began(d, k) /\ Continuous!Began(d, k) = Began(d, k)
        /\ \A d : /\ Segmented!ShownOnBoundary(d) <=> ShownOnBoundary(d)
                  /\ Continuous!ShownOnBoundary(d) <=> ShownOnBoundary(d)
    BY <1>1, Zenon DEF Began, Segmented!Began, Continuous!Began, ShownOnBoundary,
                       Segmented!ShownOnBoundary, Continuous!ShownOnBoundary
  <1>7. \A d, n, k : /\ Segmented!Changed(d, n, k) = Changed(d, n, k)
                    /\ Continuous!Changed(d, n, k) = Changed(d, n, k)
    BY Zenon DEF Changed, Segmented!Changed, Continuous!Changed, ShownOnBoundary,
                 Segmented!ShownOnBoundary, Continuous!ShownOnBoundary, OnBoundary,
                 Segmented!OnBoundary, Continuous!OnBoundary
  <1>8. /\ \A d, n, v : /\ Segmented!Ended(d, n, v) = Ended(d, n, v)
                       /\ Continuous!Ended(d, n, v) = Ended(d, n, v)
        /\ \A d, v : /\ Segmented!Cancelled(d, v) = Cancelled(d, v)
                    /\ Continuous!Cancelled(d, v) = Cancelled(d, v)
    BY <1>1, Zenon DEF Ended, Segmented!Ended, Continuous!Ended, Cancelled,
                       Segmented!Cancelled, Continuous!Cancelled
  <1>9. QED
    BY <1>1, <1>3, <1>4, <1>5, <1>6, <1>7, <1>8, Zenon

(* Typed says what TypeOK does, in this state and in the next.              *)
LEMMA TypeFacts == (TypeOK <=> Typed) /\ (TypeOK' <=> Typed')
  BY SameOperators, Zenon DEF TypeOK, Typed, Segmented!TypeOK, Continuous!TypeOK

(* The fields of a position.                                                *)
LEMMA PositionFacts ==
  ASSUME NEW p \in Position
  PROVE  /\ p.effective \in Int /\ p.deferred \in Int /\ p.has_deferred \in BOOLEAN
         /\ ~p.has_deferred => p.deferred = p.effective
  BY DEF Position

(* A position with nothing deferred.                                        *)
LEMMA AtFacts ==
  ASSUME NEW n \in Int
  PROVE  /\ At(n) \in Position /\ At(n).effective = n /\ At(n).deferred = n
         /\ At(n).has_deferred = FALSE
         /\ NearBoundary(At(n))
  <1>1. At(n).effective = n /\ At(n).deferred = n
    BY DEF At
  <1>2. At(n).has_deferred = FALSE
    BY DEF At
  <1>3. At(n) \in Position
    BY DEF At, Position
  <1>4. QED
    BY <1>1, <1>2, <1>3 DEF NearBoundary

(* Sign by its three cases.                                                 *)
LEMMA SignFacts ==
  ASSUME NEW n \in Int
  PROVE  /\ Sign(n) \in {-1, 0, 1} /\ (n > 0 <=> Sign(n) = 1)
         /\ (n < 0 <=> Sign(n) = -1) /\ (n = 0 <=> Sign(n) = 0)
  BY DEF Sign

(* A position that is clear of the boundaries is shown clear of them.       *)
LEMMA ShownClear ==
  ASSUME NEW e \in Int, Clear(e), NEW o \in Int, OnBoundary(o)
  PROVE  ~OnBoundary(e - o)
  <1>1. ASSUME OnBoundary(e - o) PROVE FALSE
    <2>1. OnBoundary((e - o) + o) /\ e - o \in Int
      BY <1>1, BoundaryArithmetic
    <2>2. (e - o) + o = e
      OBVIOUS
    <2>3. QED
      BY <2>1, <2>2, ClearOffBoundary
  <1>2. QED
    BY <1>1

(* EndGesture (space-switch-operation.cc:306-357).                          *)
LEMMA EndGestureFacts ==
  ASSUME NEW p \in Position, p.has_deferred, NEW origin \in Int,
         NEW d \in Dock, d.open, ~d.confused, ~d.lingered, ~ShownOnBoundary(d),
         logged_error = FALSE, Segmented!EndGesture(p, origin, d)
  PROVE  /\ position' = At(p.deferred) /\ active' = FALSE /\ logged_error' = FALSE
         /\ dock' \in Dock /\ dock'.open = FALSE /\ dock'.confused = FALSE
         /\ dock'.lingered = FALSE
         /\ p.deferred = origin => dock'.home = d.home /\ dock'.moved = 0
         /\ p.deferred # origin =>
              /\ dock'.home = d.home + (p.deferred - origin)
              /\ dock'.moved = p.deferred - origin
              /\ dock'.flung = Sign(p.deferred - p.effective)
  <1> DEFINE progress == p.deferred - origin
             sign == Sign(p.deferred - p.effective)
             outside == \/ p.effective < SoftMin /\ sign > 0
                        \/ p.effective > SoftMax /\ sign < 0
             nudge == IF outside THEN -sign ELSE sign
  <1>1. /\ dock' = IF progress = 0 THEN Cancelled(Changed(d, 0, nudge), nudge)
                                  ELSE Ended(Changed(d, progress, 0), progress, sign)
        /\ position' = At(p.deferred) /\ active' = FALSE
        /\ logged_error' = (logged_error \/ ~p.has_deferred)
    BY SameOperators DEF Segmented!EndGesture
  <1>2. logged_error' = FALSE
    BY <1>1, Zenon
  <1>3. progress \in Int /\ sign \in {-1, 0, 1} /\ Sign(sign) = sign
    <2>1. progress \in Int /\ p.deferred - p.effective \in Int
      BY PositionFacts
    <2>2. sign \in {-1, 0, 1}
      BY <2>1, SignFacts
    <2> HIDE DEF sign, progress
    <2>3. Sign(sign) = sign
      BY <2>2 DEF Sign
    <2>4. QED
      BY <2>1, <2>2, <2>3
  <1> HIDE DEF outside, sign
  <1>4. nudge \in {-1, 0, 1}
    BY <1>3
  <1> HIDE DEF nudge
  <1>5. CASE progress = 0
    <2> DEFINE c == Changed(d, 0, nudge)
    <2>1. /\ c \in Dock /\ c.open = TRUE /\ c.confused = FALSE /\ c.lingered = FALSE
          /\ c.home = d.home
      <3>1. 0 \in Int
        OBVIOUS
      <3>2. QED
        BY <1>4, <3>1, ChangedFacts, Zenon
    <2>2. dock' = Cancelled(c, nudge)
      BY <1>1, <1>5
    <2> HIDE DEF c
    <2>3. (c.confused \/ ~c.open) = FALSE /\ ~c.lingered
      BY <2>1, Zenon
    <2>4. nudge \in Int
      BY <1>4
    <2>5. /\ dock' \in Dock /\ dock'.open = FALSE /\ dock'.confused = FALSE
          /\ dock'.lingered = FALSE /\ dock'.home = d.home /\ dock'.moved = 0
      BY <2>1, <2>2, <2>3, <2>4, CancelledFacts
    <2>6. p.deferred = origin
      BY <1>5, PositionFacts
    <2>7. QED
      BY <1>1, <1>2, <2>5, <2>6
  <1>6. CASE progress # 0
    <2> DEFINE c == Changed(d, progress, 0)
               e == Ended(c, progress, sign)
    <2>1. /\ c \in Dock /\ c.open = TRUE /\ c.confused = FALSE /\ c.lingered = FALSE
          /\ c.home = d.home
      BY <1>3, ChangedFacts
    <2>2. dock' = e /\ p.deferred # origin
      BY <1>1, <1>6, PositionFacts
    <2> HIDE DEF c
    <2>3. c.open
      BY <2>1, Zenon
    <2>4. ~c.confused
      BY <2>1, Zenon
    <2>5. ~c.lingered
      BY <2>1, Zenon
    <2> HIDE DEF progress
    <2>6. c \in Dock /\ progress \in Int /\ sign \in Int
      BY <1>3, <2>1
    <2>7. /\ e \in Dock /\ e.open = FALSE /\ e.confused = FALSE /\ e.lingered = FALSE
          /\ e.home = c.home + progress /\ e.moved = progress /\ e.flung = Sign(sign)
      <3>1. \A a \in Dock, n \in Int, v \in Int : a.open /\ ~a.confused /\ ~a.lingered =>
              /\ Ended(a, n, v) \in Dock /\ Ended(a, n, v).open = FALSE
              /\ Ended(a, n, v).confused = FALSE /\ Ended(a, n, v).lingered = FALSE
              /\ Ended(a, n, v).home = a.home + n
              /\ Ended(a, n, v).moved = n /\ Ended(a, n, v).flung = Sign(v)
        BY EndedFacts
      <3>2. QED
        BY <2>3, <2>4, <2>5, <2>6, <3>1
    <2> HIDE DEF e
    <2>8. QED
      BY <1>1, <1>2, <1>3, <2>1, <2>2, <2>7 DEF progress, sign
  <1>7. QED
    BY <1>5, <1>6

(* A new operation of either kind satisfies the invariant.                  *)
LEMMA InitIInv == Init => IInv
  <1> SUFFICES ASSUME Init PROVE IInv
    OBVIOUS
  <1>1. /\ segmented \in BOOLEAN /\ position = At(Origin) /\ active = FALSE
        /\ gesture_origin = Origin /\ moving = FALSE /\ target = Origin
        /\ committed = FALSE /\ logged_error = FALSE /\ dock = DockAt(Origin)
        /\ gesture_started = FALSE /\ latest_direction = 0 /\ turned = FALSE
    BY SameOperators DEF Init, Segmented!Init, Continuous!Init
  <1>2. Origin \in Int /\ OnBoundary(Origin)
    BY OperationAssumption
  <1>3. dock \in Dock /\ dock.home = Origin /\ dock.moved = 0
    BY <1>1, <1>2 DEF DockAt, Dock
  <1>4. dock.open = FALSE /\ dock.confused = FALSE /\ dock.lingered = FALSE
    BY <1>1 DEF DockAt
  <1>5. /\ position \in Position /\ position.effective = Origin /\ position.deferred = Origin
        /\ position.has_deferred = FALSE /\ NearBoundary(position)
    BY <1>1, <1>2, AtFacts
  <1>6. TypeOK
    BY <1>1, <1>2, <1>3, <1>5, TypeFacts DEF Typed
  <1>7. GesturesWellFormed
    BY <1>1, <1>2, <1>3, <1>4, <1>5 DEF GesturesWellFormed
  <1>8. FlungForward
    BY <1>3 DEF FlungForward
  <1>9. CommitLandsOnTarget
    BY <1>1 DEF CommitLandsOnTarget
  <1>10. Settled
    BY <1>1, <1>3, <1>4, <1>5 DEF Settled
  <1>11. GestureBetweenBoundaries /\ OneGesture
    <2>1. GestureBetweenBoundaries
      BY <1>1, <1>2, <1>5 DEF GestureBetweenBoundaries
    <2>2. ~(Origin < Origin)
      BY <1>2
    <2>3. OneGesture
      BY <1>1, <1>3, <1>5, <2>2 DEF OneGesture
    <2>4. QED
      BY <2>1, <2>3
  <1>12. QED
    BY <1>6, <1>7, <1>8, <1>9, <1>10, <1>11 DEF IInv

-----------------------------------------------------------------------------
(* A segmented operation's steps.                                           *)
LEMMA SegmentedSetPosition ==
  ASSUME IInv, segmented, NEW n \in Targets, Segmented!SetPosition(n),
         UNCHANGED ofContinuous, UNCHANGED segmented
  PROVE  IInv'
  <1>1. /\ ~moving /\ ~committed /\ target' = n /\ moving' = (n # position.effective)
        /\ UNCHANGED <<segmented, position, active, gesture_origin, committed, logged_error,
                       dock, gesture_started, latest_direction, turned>>
    BY DEF Segmented!SetPosition, ofContinuous
  <1>2. Typed
    BY TypeFacts DEF IInv
  <1>3. TypeOK'
    <2>1. n \in Int
      BY OperationAssumption
    <2>2. moving' \in BOOLEAN
      BY <1>1, Zenon
    <2>3. Typed'
      BY <1>1, <1>2, <2>1, <2>2 DEF Typed
    <2>4. QED
      BY <2>3, TypeFacts
  <1>4. GesturesWellFormed'
    BY <1>1 DEF IInv, GesturesWellFormed
  <1>5. FlungForward'
    BY <1>1 DEF IInv, FlungForward
  <1>6. CommitLandsOnTarget'
    BY <1>1 DEF CommitLandsOnTarget
  <1>7. Settled'
    BY <1>1 DEF IInv, Settled
  <1>8. GestureBetweenBoundaries'
    BY <1>1 DEF IInv, GestureBetweenBoundaries
  <1>9. segmented'
    BY <1>1
  <1>10. QED
    BY <1>3, <1>4, <1>5, <1>6, <1>7, <1>8, <1>9 DEF IInv

(* The loop has reached its target and returns.                             *)
LEMMA SegmentedMoveDone ==
  ASSUME IInv, segmented, Segmented!MoveDone, UNCHANGED <<segmented, ofContinuous>>
  PROVE  IInv'
  <1>1. /\ moving /\ position.deferred = target /\ moving' = FALSE
        /\ UNCHANGED <<segmented, position, active, gesture_origin, target, committed,
                       logged_error, dock, gesture_started, latest_direction, turned>>
    BY DEF Segmented!MoveDone, ofContinuous
  <1>2. Typed
    BY TypeFacts DEF IInv
  <1>3. TypeOK'
    <2>1. Typed'
      BY <1>1, <1>2 DEF Typed
    <2>2. QED
      BY <2>1, TypeFacts
  <1>4. GesturesWellFormed'
    BY <1>1 DEF IInv, GesturesWellFormed
  <1>5. FlungForward'
    BY <1>1 DEF IInv, FlungForward
  <1>6. CommitLandsOnTarget'
    BY <1>1 DEF IInv, CommitLandsOnTarget
  <1>7. Settled'
    BY <1>1 DEF IInv, Settled
  <1>8. GestureBetweenBoundaries'
    BY <1>1 DEF IInv, GestureBetweenBoundaries
  <1>9. segmented'
    BY <1>1
  <1>10. QED
    BY <1>3, <1>4, <1>5, <1>6, <1>7, <1>8, <1>9 DEF IInv

(* One iteration: either the gesture goes on, short of the boundary that    *)
(* would end it, or it ends on that boundary, which becomes the position.   *)
LEMMA SegmentedMove ==
  ASSUME IInv, segmented, Segmented!Move, UNCHANGED <<segmented, ofContinuous>>
  PROVE  IInv'
  <1> DEFINE up == target > position.effective
             origin == IF active THEN gesture_origin ELSE position.deferred
             k == IF up THEN 1 ELSE -1
             d == IF active THEN dock ELSE Began(dock, k)
             bounds == Segmented!NextBoundary(origin, up)
             passed == {b \in bounds : IF up THEN target >= b ELSE target <= b}
             n == IF passed = {} THEN target ELSE CHOOSE b \in passed : TRUE
             p == Set(position, n)
  <1>1. /\ moving /\ position.deferred # target
        /\ gesture_origin' = origin
        /\ p.deferred \in bounds => Segmented!EndGesture(p, origin, d)
        /\ p.deferred \notin bounds =>
             /\ active' = TRUE /\ position' = p /\ logged_error' = logged_error
             /\ dock' = Changed(d, p.effective - origin, 0)
        /\ UNCHANGED <<moving, target, committed>>
    BY SameOperators DEF Segmented!Move
  <1>2. UNCHANGED <<segmented, gesture_started, latest_direction, turned>>
    BY DEF ofContinuous
  <1>3. /\ Typed /\ GesturesWellFormed /\ FlungForward /\ Settled
        /\ GestureBetweenBoundaries /\ ~committed
    BY <1>1, TypeFacts DEF IInv, Settled
  <1>4. /\ position.effective \in Int /\ position.deferred \in Int /\ target \in Int
        /\ position \in Position /\ target # position.effective
    BY <1>1, <1>3, PositionFacts DEF Typed, Settled
  <1>5. origin \in Int /\ OnBoundary(origin)
    BY <1>3, <1>4, PositionFacts DEF Typed, GestureBetweenBoundaries
  <1>6. up \in BOOLEAN
    BY <1>4
  <1>7. /\ d \in Dock /\ d.open = TRUE /\ d.confused = FALSE /\ d.home = origin
        /\ d.moved = dock.moved /\ d.flung = dock.flung
        /\ d.lingered = FALSE /\ ~ShownOnBoundary(d)
    <2>1. dock \in Dock /\ ~dock.confused /\ ~dock.lingered
      BY <1>3 DEF Typed, GesturesWellFormed
    <2>2. CASE active
      <3>1. d = dock
        BY <2>2
      <3>2. dock.open = TRUE
        BY <1>3, <2>2 DEF GesturesWellFormed, Typed
      <3>3. dock.confused = FALSE /\ dock.lingered = FALSE
        BY <1>3 DEF GesturesWellFormed, Typed, Dock
      <3>4. dock.home = origin /\ ~ShownOnBoundary(dock)
        BY <1>3, <2>2 DEF GesturesWellFormed
      <3>5. QED
        BY <2>1, <3>1, <3>2, <3>3, <3>4
    <2>3. CASE ~active
      <3>1. d = Began(dock, k) /\ k \in {-1, 1}
        BY <2>3
      <3>2. ~dock.open
        BY <1>3, <2>3 DEF GesturesWellFormed, Typed
      <3>3. dock.home = origin
        BY <1>3, <2>3 DEF GesturesWellFormed
      <3>4. QED
        BY <2>1, <3>1, <3>2, <3>3, BeganFacts
    <2>4. QED
      BY <2>2, <2>3
  <1>8. /\ \A b \in Segmented!NextBoundary(origin, TRUE) :
             position.effective <= b - Defer
        /\ \A b \in Segmented!NextBoundary(origin, FALSE) :
             b + Defer <= position.effective
    <2>1. ASSUME NEW b \in Segmented!NextBoundary(origin, TRUE)
          PROVE  position.effective <= b - Defer
      <3>1. b \in Int /\ OnBoundary(b) /\ origin < b
        BY <1>5, NextAbove
      <3>2. CASE active
        <4>1. origin = gesture_origin
          BY <3>2
        <4>2. position.effective < b /\ Clear(position.effective)
          BY <1>3, <3>2, <4>1 DEF GestureBetweenBoundaries
        <4>3. QED
          BY <1>4, <3>1, <4>2, OneFacts DEF Clear
      <3>3. CASE ~active
        <4>1. position.effective = origin
          BY <1>3, <1>4, <3>3, PositionFacts DEF GestureBetweenBoundaries
        <4>2. origin + One <= b
          BY <1>5, <3>1, BoundarySpacing
        <4>3. QED
          BY <1>4, <1>5, <3>1, <4>1, <4>2, OneFacts
      <3>4. QED
        BY <3>2, <3>3
    <2>2. ASSUME NEW b \in Segmented!NextBoundary(origin, FALSE)
          PROVE  b + Defer <= position.effective
      <3>1. b \in Int /\ OnBoundary(b) /\ b < origin
        BY <1>5, NextBelow
      <3>2. CASE active
        <4>1. origin = gesture_origin
          BY <3>2
        <4>2. b < position.effective /\ Clear(position.effective)
          BY <1>3, <3>2, <4>1 DEF GestureBetweenBoundaries
        <4>3. QED
          BY <1>4, <3>1, <4>2, OneFacts DEF Clear
      <3>3. CASE ~active
        <4>1. position.effective = origin
          BY <1>3, <1>4, <3>3, PositionFacts DEF GestureBetweenBoundaries
        <4>2. b + One <= origin
          BY <1>5, <3>1, BoundarySpacing
        <4>3. QED
          BY <1>4, <1>5, <3>1, <4>1, <4>2, OneFacts
      <3>4. QED
        BY <3>2, <3>3
    <2>3. QED
      BY <2>1, <2>2
  <1>9. \A b \in bounds : /\ b \in Int /\ b \in SoftMin .. SoftMax /\ OnBoundary(b)
                          /\ (up => origin < b) /\ (~up => b < origin)
                          /\ \A c \in bounds : c = b
    <2>1. ASSUME up, NEW b \in bounds
          PROVE  /\ b \in Int /\ b \in SoftMin .. SoftMax /\ OnBoundary(b) /\ origin < b
                 /\ \A c \in bounds : c = b
      <3>1. bounds = Segmented!NextBoundary(origin, TRUE)
        BY <1>6, <2>1
      <3>2. bounds = {b}
        BY <1>5, <2>1, <3>1, NextAbove, Zenon
      <3>3. QED
        BY <1>5, <2>1, <3>1, <3>2, NextAbove, Zenon
    <2>2. ASSUME ~up, NEW b \in bounds
          PROVE  /\ b \in Int /\ b \in SoftMin .. SoftMax /\ OnBoundary(b) /\ b < origin
                 /\ \A c \in bounds : c = b
      <3>1. bounds = Segmented!NextBoundary(origin, FALSE)
        BY <1>6, <2>2
      <3>2. bounds = {b}
        BY <1>5, <2>2, <3>1, NextBelow, Zenon
      <3>3. QED
        BY <1>5, <2>2, <3>1, <3>2, NextBelow, Zenon
    <2>3. QED
      BY <2>1, <2>2, Zenon
  <1>10. CASE passed = {}
    <2>1. p = Set(position, target)
      BY <1>10
    <2>2. p \in Position /\ p.deferred = target /\ Clear(p.effective) /\ NearBoundary(p)
      BY <1>4, <2>1, SetFacts
    <2>3. \A b \in bounds : (up => target < b) /\ (~up => b < target)
      BY <1>4, <1>9, <1>10
    <2>4. target \notin bounds
      BY <1>4, <2>3
    <2> HIDE DEF p
    <2>5. /\ active' = TRUE /\ position' = p /\ logged_error' = logged_error
          /\ dock' = Changed(d, p.effective - origin, 0)
      BY <1>1, <2>2, <2>4
    <2>6. p.effective \in Int /\ p.effective - origin \in Int
      BY <1>5, <2>2, PositionFacts
    <2>7. /\ dock' \in Dock /\ dock'.open = TRUE /\ dock'.confused = FALSE
          /\ dock'.home = origin /\ dock'.lingered = FALSE /\ ~ShownOnBoundary(dock')
          /\ dock'.moved = dock.moved /\ dock'.flung = dock.flung
      <3>1. d.open /\ ~d.confused /\ ~d.lingered /\ ~ShownOnBoundary(d)
        BY <1>7, Zenon
      <3> DEFINE e == p.effective - origin
      <3>2. e \in Int /\ ~OnBoundary(e) /\ dock' = Changed(d, e, 0)
        BY <1>5, <2>2, <2>5, <2>6, ShownClear
      <3> HIDE DEF d, e, k
      <3>3. QED
        BY <1>7, <3>1, <3>2, ChangedFacts
    <2>8. \A b \in Segmented!NextBoundary(origin, TRUE) : p.effective < b /\ p.deferred < b
      <3> SUFFICES ASSUME NEW b \in Segmented!NextBoundary(origin, TRUE)
                   PROVE  p.effective < b /\ p.deferred < b
        OBVIOUS
      <3>1. b \in Int /\ OnBoundary(b) /\ position.effective <= b - Defer
        BY <1>5, <1>8, NextAbove
      <3>2. target < b
        <4>1. CASE up
          BY <1>6, <2>3, <4>1
        <4>2. CASE ~up
          BY <1>4, <3>1, <4>2, OneFacts
        <4>3. QED
          BY <4>1, <4>2
      <3>3. p.effective < b
        BY <1>4, <2>1, <3>1, <3>2, SetBelow
      <3>4. QED
        BY <2>2, <3>2, <3>3
    <2>9. \A b \in Segmented!NextBoundary(origin, FALSE) : b < p.effective /\ b < p.deferred
      <3> SUFFICES ASSUME NEW b \in Segmented!NextBoundary(origin, FALSE)
                   PROVE  b < p.effective /\ b < p.deferred
        OBVIOUS
      <3>1. b \in Int /\ OnBoundary(b) /\ b + Defer <= position.effective
        BY <1>5, <1>8, NextBelow
      <3>2. b < target
        <4>1. CASE ~up
          BY <1>6, <2>3, <4>1
        <4>2. CASE up
          BY <1>4, <3>1, <4>2, OneFacts
        <4>3. QED
          BY <4>1, <4>2
      <3>3. b < p.effective
        BY <1>4, <2>1, <3>1, <3>2, SetAbove
      <3>4. QED
        BY <2>2, <3>2, <3>3
    <2> HIDE DEF up, origin, d, bounds, passed, n, k
    <2>11. TypeOK'
      <3>1. Typed'
        BY <1>1, <1>2, <1>3, <1>5, <2>2, <2>5, <2>7 DEF Typed
      <3>2. QED
        BY <3>1, TypeFacts
    <2>12. GesturesWellFormed'
      <3>1. /\ ~dock'.confused /\ ~logged_error' /\ dock'.open = active' /\ active'
            /\ dock'.home = gesture_origin'
        BY <1>1, <1>2, <1>3, <2>5, <2>7, Zenon DEF GesturesWellFormed
      <3>2. segmented' /\ ~dock'.lingered
        BY <1>2, <2>7
      <3>3. QED
        BY <2>7, <3>1, <3>2, Zenon DEF GesturesWellFormed
    <2>13. FlungForward'
      BY <1>1, <1>2, <1>3, <2>7 DEF FlungForward
    <2>14. CommitLandsOnTarget'
      BY <1>1, <1>3 DEF CommitLandsOnTarget
    <2>15. Settled'
      BY <1>1, <1>3, <2>2, <2>5, <2>7 DEF Settled
    <2>16. GestureBetweenBoundaries'
      BY <1>1, <1>2, <1>3, <1>5, <2>2, <2>5, <2>7, <2>8, <2>9 DEF GestureBetweenBoundaries
    <2>17. QED
      BY <1>2, <2>11, <2>12, <2>13, <2>14, <2>15, <2>16 DEF IInv
  <1>11. CASE passed # {}
    <2>1. PICK b \in passed : TRUE
      BY <1>11
    <2>2. n = b
      <3>1. \A c \in passed : c = b
        BY <1>9, <2>1
      <3>2. n \in passed
        BY <1>11
      <3>3. QED
        BY <3>1, <3>2
    <2>3. /\ b \in Int /\ b \in SoftMin .. SoftMax /\ OnBoundary(b) /\ b \in bounds
          /\ (up => origin < b) /\ (~up => b < origin)
      BY <1>9, <2>1
    <2>4. (up => position.effective < b) /\ (~up => b < position.effective)
      <3>1. CASE up
        <4>1. bounds = Segmented!NextBoundary(origin, TRUE)
          BY <1>6, <3>1
        <4>2. position.effective <= b - Defer
          BY <1>8, <2>3, <4>1
        <4>3. QED
          BY <1>4, <2>3, <3>1, <4>2, OneFacts
      <3>2. CASE ~up
        <4>1. bounds = Segmented!NextBoundary(origin, FALSE)
          BY <1>6, <3>2
        <4>2. b + Defer <= position.effective
          BY <1>8, <2>3, <4>1
        <4>3. QED
          BY <1>4, <2>3, <3>2, <4>2, OneFacts
      <3>3. QED
        BY <3>1, <3>2
    <2>5. b # position.effective
      BY <1>4, <2>3, <2>4
    <2>6. p = Set(position, b)
      BY <2>2
    <2> HIDE DEF p
    <2>7. /\ p \in Position /\ p.deferred = b /\ p.has_deferred = TRUE
          /\ p.effective = IF b > position.effective THEN b - Defer ELSE b + Defer
      BY <1>4, <2>3, <2>5, <2>6, SetFacts, SetOnBoundary
    <2> HIDE DEF up, origin, d, bounds, passed, n, k
    <2>8. Segmented!EndGesture(p, origin, d)
      BY <1>1, <2>3, <2>7
    <2>9. logged_error = FALSE
      BY <1>3 DEF GesturesWellFormed, Typed
    <2>10. b # origin
      BY <1>5, <2>3
    <2>11. /\ position' = At(b) /\ active' = FALSE /\ logged_error' = FALSE
           /\ dock' \in Dock /\ dock'.open = FALSE /\ dock'.confused = FALSE
           /\ dock'.lingered = FALSE
           /\ dock'.home = d.home + (b - origin) /\ dock'.moved = b - origin
           /\ dock'.flung = Sign(b - p.effective)
      <3>1. p.has_deferred
        BY <2>7, Zenon
      <3>2. d.open /\ ~d.confused /\ ~d.lingered /\ ~ShownOnBoundary(d)
        BY <1>7, Zenon
      <3>3. QED
        BY <1>5, <1>7, <2>7, <2>8, <2>9, <2>10, <3>1, <3>2, EndGestureFacts
    <2>12. dock'.home = b
      BY <1>5, <1>7, <2>3, <2>11
    <2>13. dock'.flung = Sign(dock'.moved)
      <3>1. up => b - p.effective > 0 /\ b - origin > 0
        BY <1>4, <1>5, <2>3, <2>4, <2>7, OneFacts
      <3>2. ~up => b - p.effective < 0 /\ b - origin < 0
        BY <1>4, <1>5, <2>3, <2>4, <2>7, OneFacts
      <3>3. b - p.effective \in Int /\ b - origin \in Int
        BY <1>5, <2>3, <2>7, PositionFacts
      <3>4. Sign(b - p.effective) = Sign(b - origin)
        BY <3>1, <3>2, <3>3, SignFacts
      <3>5. QED
        BY <2>11, <3>4
    <2>14. /\ position' \in Position /\ position'.effective = b /\ position'.deferred = b
           /\ position'.has_deferred = FALSE /\ NearBoundary(position')
      BY <2>3, <2>11, AtFacts
    <2>15. TypeOK'
      <3>1. Typed'
        BY <1>1, <1>2, <1>3, <1>5, <2>11, <2>14 DEF Typed
      <3>2. QED
        BY <3>1, TypeFacts
    <2>16. GesturesWellFormed'
      BY <1>1, <1>2, <1>3, <2>3, <2>11, <2>12, <2>14
         DEF GesturesWellFormed, GestureBetweenBoundaries
    <2>17. FlungForward'
      BY <2>13 DEF FlungForward
    <2>18. CommitLandsOnTarget'
      BY <1>1, <1>3 DEF CommitLandsOnTarget
    <2>19. Settled'
      BY <1>1, <1>3, <2>3, <2>12, <2>14 DEF Settled
    <2>20. GestureBetweenBoundaries'
      BY <1>1, <1>2, <1>3, <1>5, <2>3, <2>11, <2>14 DEF GestureBetweenBoundaries
    <2>21. QED
      BY <1>2, <2>15, <2>16, <2>17, <2>18, <2>19, <2>20 DEF IInv
  <1>12. QED
    BY <1>10, <1>11

(* The commit of a gesture under way ends it on a boundary: the one its     *)
(* position is on, or the one below.                                        *)
LEMMA SegmentedCommit ==
  ASSUME IInv, segmented, Segmented!Commit, UNCHANGED ofContinuous, UNCHANGED segmented
  PROVE  IInv'
  <1>1. /\ ~moving /\ ~committed /\ committed' = TRUE
        /\ UNCHANGED <<gesture_origin, moving, target, segmented, gesture_started,
                       latest_direction, turned>>
    BY DEF Segmented!Commit, ofContinuous
  <1>2. /\ Typed /\ GesturesWellFormed /\ FlungForward /\ Settled
        /\ GestureBetweenBoundaries
    BY TypeFacts DEF IInv
  <1>3. /\ position.effective \in Int /\ position.deferred \in Int /\ target \in Int
        /\ position \in Position /\ dock \in Dock
    BY <1>2, PositionFacts DEF Typed
  <1>4. position.deferred = target \/ position.effective = target
    BY <1>1, <1>2 DEF Settled
  <1>5. CASE ~active
    <2>1. UNCHANGED <<position, active, logged_error, dock>>
      BY <1>5 DEF Segmented!Commit
    <2>2. /\ OnBoundary(dock.home) /\ dock.home = position.effective
          /\ dock.home = position.deferred /\ ~dock.open
      BY <1>2, <1>5 DEF GesturesWellFormed
    <2>3. TypeOK'
      <3>1. Typed'
        BY <1>1, <1>2, <2>1 DEF Typed
      <3>2. QED
        BY <3>1, TypeFacts
    <2>4. GesturesWellFormed'
      BY <1>1, <1>2, <2>1 DEF GesturesWellFormed
    <2>5. FlungForward'
      BY <1>1, <1>2, <2>1 DEF FlungForward
    <2>6. CommitLandsOnTarget'
      BY <1>1, <1>4, <2>1, <2>2 DEF CommitLandsOnTarget
    <2>7. Settled'
      BY <1>1, <1>2, <2>1 DEF Settled
    <2>8. GestureBetweenBoundaries'
      BY <1>1, <1>2, <1>5, <2>1 DEF GestureBetweenBoundaries
    <2>9. QED
      BY <1>1, <2>3, <2>4, <2>5, <2>6, <2>7, <2>8 DEF IInv
  <1>6. CASE active
    <2> DEFINE origin == gesture_origin
               below == (position.deferred \div One) * One
               p == IF OnBoundary(position.deferred) THEN position ELSE Set(position, below)
    <2>1. Segmented!EndGesture(p, origin, dock)
      BY <1>6, SameOperators DEF Segmented!Commit
    <2>2. /\ origin \in Int /\ OnBoundary(origin) /\ Clear(position.effective)
          /\ \A b \in Segmented!NextBoundary(origin, TRUE) :
               position.effective < b /\ position.deferred < b
          /\ \A b \in Segmented!NextBoundary(origin, FALSE) :
               b < position.effective /\ b < position.deferred
      BY <1>2, <1>6 DEF Typed, GestureBetweenBoundaries
    <2>3. /\ dock.open = TRUE /\ dock.confused = FALSE /\ logged_error = FALSE
          /\ dock.home = origin /\ dock.lingered = FALSE /\ ~ShownOnBoundary(dock)
      <3>1. dock.confused \in BOOLEAN /\ dock.lingered \in BOOLEAN
        BY <1>3 DEF Dock
      <3>2. QED
        BY <1>2, <1>6, <3>1, Zenon DEF GesturesWellFormed, Typed
    <2>4. ~OnBoundary(position.effective)
      BY <1>3, <2>2, ClearOffBoundary
    <2>5. /\ below \in Int /\ OnBoundary(below)
          /\ below <= position.deferred /\ position.deferred < below + One
      BY <1>3, FloorFacts
    <2>6. /\ p \in Position /\ p.has_deferred = TRUE
          /\ p.deferred \in Int /\ OnBoundary(p.deferred)
          /\ OnBoundary(position.deferred) => p.deferred = position.deferred
          /\ ~OnBoundary(position.deferred) =>
               /\ p.deferred = below
               /\ p.effective =
                    IF below > position.effective THEN below - Defer ELSE below + Defer
      <3>1. CASE OnBoundary(position.deferred)
        <4>1. p = position
          BY <3>1
        <4>2. position.has_deferred = TRUE
          BY <1>3, <2>4, <3>1, PositionFacts
        <4>3. QED
          BY <1>3, <3>1, <4>1, <4>2
      <3>2. CASE ~OnBoundary(position.deferred)
        <4>1. p = Set(position, below)
          BY <3>2
        <4>2. below # position.effective
          BY <2>4, <2>5
        <4> HIDE DEF below, p
        <4>3. QED
          BY <1>3, <2>5, <3>2, <4>1, <4>2, SetFacts, SetOnBoundary
      <3>3. QED
        BY <3>1, <3>2
    <2> HIDE DEF below, p
    <2>7. /\ position' = At(p.deferred) /\ active' = FALSE /\ logged_error' = FALSE
          /\ dock' \in Dock /\ dock'.open = FALSE /\ dock'.confused = FALSE
          /\ dock'.lingered = FALSE
          /\ p.deferred = origin => dock'.home = dock.home /\ dock'.moved = 0
          /\ p.deferred # origin =>
               /\ dock'.home = dock.home + (p.deferred - origin)
               /\ dock'.moved = p.deferred - origin
               /\ dock'.flung = Sign(p.deferred - p.effective)
      <3>1. p.has_deferred
        BY <2>6, Zenon
      <3>2. dock.open /\ ~dock.confused /\ ~dock.lingered
        BY <2>3, Zenon
      <3>3. QED
        BY <1>3, <2>1, <2>2, <2>3, <2>6, <3>1, <3>2, EndGestureFacts
    <2>8. dock'.home = p.deferred
      BY <2>2, <2>3, <2>6, <2>7
    <2>9. /\ position' \in Position /\ position'.effective = p.deferred
          /\ position'.deferred = p.deferred
          /\ position'.has_deferred = FALSE /\ NearBoundary(position')
      BY <2>6, <2>7, AtFacts
    <2>10. TypeOK'
      <3>1. Typed'
        BY <1>1, <1>2, <2>7, <2>9 DEF Typed
      <3>2. QED
        BY <3>1, TypeFacts
    <2>11. GesturesWellFormed'
      <3>1. /\ ~dock'.confused /\ ~logged_error' /\ dock'.open = active' /\ ~active'
            /\ ~dock'.lingered /\ ~dock'.open
        BY <1>1, <1>2, <2>7, Zenon
      <3>2. segmented'
        BY <1>1
      <3>3. QED
        BY <2>6, <2>8, <2>9, <3>1, <3>2, Zenon DEF GesturesWellFormed
    <2>12. FlungForward'
      <3> SUFFICES ASSUME target \in SoftMin .. SoftMax, dock'.moved # 0
                   PROVE  dock'.flung = Sign(dock'.moved)
        BY <1>1 DEF FlungForward
      <3> DEFINE D == p.deferred
                 x == position.deferred
                 e == position.effective
      <3>1. CASE D = origin
        BY <2>7, <3>1
      <3>2. CASE D # origin
        <4>1. /\ SoftMin \in Int /\ SoftMax \in Int
              /\ D \in Int /\ x \in Int /\ e \in Int /\ origin \in Int
          BY <1>3, <2>2, <2>6, OperationAssumption
        <4>2. x - e <= 2 * Defer /\ e - x <= 2 * Defer
          <5>1. CASE position.has_deferred
            <6>1. PICK m \in Int : x \in m - Defer .. m + Defer /\ e \in {m - Defer, m + Defer}
              BY <1>2, <5>1 DEF Settled, NearBoundary
            <6>2. QED
              BY <4>1, <6>1, OneFacts
          <5>2. CASE ~position.has_deferred
            BY <1>3, <4>1, <5>2, OneFacts, PositionFacts
          <5>3. QED
            BY <5>1, <5>2
        <4>3. D <= x /\ x < D + One
          BY <2>5, <2>6, <4>1, OneFacts
        <4>4. (D < origin => D + One <= origin) /\ (origin < D => origin + One <= D)
          BY <2>2, <2>6, BoundarySpacing
        <4>5. ~(origin < D)
          <5>1. CASE Segmented!NextBoundary(origin, TRUE) = {}
            <6>1. SoftMax <= origin
              BY <2>2, <5>1, NextBoundaryFacts, Zenon
            <6>2. QED
              BY <1>4, <4>1, <4>2, <4>3, <4>4, <6>1, OneFacts
          <5>2. CASE Segmented!NextBoundary(origin, TRUE) # {}
            <6>1. PICK b \in Segmented!NextBoundary(origin, TRUE) : TRUE
              BY <5>2
            <6>2. b \in Int /\ (b = origin + One \/ b = SoftMin) /\ e < b /\ x < b
              BY <2>2, <6>1, NextAbove
            <6>3. QED
              BY <1>4, <4>1, <4>2, <4>3, <4>4, <6>2, OneFacts
          <5>3. QED
            BY <5>1, <5>2
        <4>6. ~OnBoundary(x) /\ D < e
          <5>1. CASE Segmented!NextBoundary(origin, FALSE) = {}
            <6>1. origin <= SoftMin
              BY <2>2, <5>1, NextBoundaryFacts, Zenon
            <6>2. OnBoundary(x) => D = x
              BY <2>6
            <6>3. QED
              BY <1>4, <3>2, <4>1, <4>2, <4>3, <4>4, <4>5, <6>1, <6>2, OneFacts
          <5>2. CASE Segmented!NextBoundary(origin, FALSE) # {}
            <6>1. PICK b \in Segmented!NextBoundary(origin, FALSE) : TRUE
              BY <5>2
            <6>2. /\ b \in Int /\ OnBoundary(b) /\ b < e /\ b < x
                  /\ b = origin - One \/ b = SoftMax
              BY <2>2, <6>1, NextBelow
            <6>3. D < b => D + One <= b
              BY <2>6, <6>2, BoundarySpacing
            <6>4. OnBoundary(x) => D = x
              BY <2>6
            <6>5. QED
              BY <1>4, <3>2, <4>1, <4>2, <4>3, <4>4, <4>5, <6>2, <6>3, <6>4, OneFacts
          <5>3. QED
            BY <5>1, <5>2
        <4>7. p.effective = D + Defer
          BY <2>6, <4>1, <4>6, OneFacts
        <4>8. /\ D - origin \in Int /\ D - origin < 0
              /\ D - p.effective \in Int /\ D - p.effective < 0
          BY <3>2, <4>1, <4>5, <4>7, OneFacts
        <4>9. Sign(D - origin) = Sign(D - p.effective)
          BY <4>8, SignFacts
        <4>10. QED
          BY <2>7, <3>2, <4>9
      <3>3. QED
        BY <3>1, <3>2
    <2>13. CommitLandsOnTarget'
      <3>1. OnBoundary(target) => dock'.home = target
        BY <1>4, <2>4, <2>6, <2>8
      <3>2. QED
        BY <1>1, <2>6, <2>7, <2>8, <3>1 DEF CommitLandsOnTarget
    <2>14. Settled'
      BY <1>1, <2>9 DEF Settled
    <2>15. GestureBetweenBoundaries'
      BY <1>1, <1>2, <2>6, <2>7, <2>9 DEF GestureBetweenBoundaries
    <2>16. QED
      BY <1>1, <2>10, <2>11, <2>12, <2>13, <2>14, <2>15 DEF IInv
  <1>7. QED
    BY <1>5, <1>6

-----------------------------------------------------------------------------
(* A continuous operation's steps.                                          *)
LEMMA ContinuousSetPosition ==
  ASSUME IInv, ~segmented, NEW n \in Targets, Continuous!SetPosition(n),
         UNCHANGED ofSegmented, UNCHANGED segmented
  PROVE  IInv'
  <1> DEFINE back == turned \/ (Origin < target /\ n < target)
                            \/ (target < Origin /\ target < n)
  <1>1. /\ ~committed /\ target' = n /\ turned' = back
        /\ UNCHANGED <<committed, segmented, active, gesture_origin, moving, logged_error>>
    BY DEF Continuous!SetPosition, ofSegmented
  <1>2. Typed /\ GesturesWellFormed /\ Settled /\ OneGesture
    BY TypeFacts DEF IInv
  <1>3. /\ position \in Position /\ position.effective \in Int /\ dock \in Dock
        /\ n \in Int /\ Origin \in Int /\ OnBoundary(Origin) /\ target \in Int
    BY <1>2, PositionFacts, OperationAssumption DEF Typed
  <1>4. ~active /\ ~moving /\ dock.moved = 0
    BY <1>1, <1>2 DEF OneGesture
  <1>5. turned' \in BOOLEAN
    BY <1>1, Zenon
  <1>6. ~turned' => /\ ~turned /\ (Origin < target => target <= n)
                   /\ (target < Origin => n <= target)
    <2>1. ~turned' => /\ ~turned /\ ~(Origin < target /\ n < target)
                     /\ ~(target < Origin /\ target < n)
      BY <1>1, Zenon
    <2>2. QED
      BY <1>3, <2>1
  <1> HIDE DEF back
  <1>7. ~turned' =>
          /\ position.deferred = target
          /\ target = Origin => position = At(Origin)
          /\ target > Origin => latest_direction = 1 /\ position.effective <= target
          /\ target < Origin => latest_direction = -1 /\ target <= position.effective
    BY <1>1, <1>2, <1>6 DEF OneGesture
  <1>8. CASE n = position.effective
    <2>1. UNCHANGED <<position, gesture_started, latest_direction, dock>>
      BY <1>8 DEF Continuous!SetPosition
    <2>2. TypeOK'
      <3>1. Typed'
        BY <1>1, <1>2, <1>3, <1>5, <2>1 DEF Typed
      <3>2. QED
        BY <3>1, TypeFacts
    <2>3. GesturesWellFormed'
      BY <1>1, <1>2, <2>1 DEF GesturesWellFormed
    <2>4. Settled'
      BY <1>1, <1>2, <1>4, <1>8, <2>1 DEF Settled
    <2>5. OneGesture'
      <3>1. ~gesture_started => n = Origin
        BY <1>2, <1>3, <1>8, AtFacts DEF OneGesture
      <3>2. ~turned' => n = target
        <4>1. target = Origin => (~turned' => position.effective = Origin)
          BY <1>3, <1>7, AtFacts
        <4>2. QED
          BY <1>3, <1>6, <1>7, <1>8, <4>1
      <3>3. QED
        BY <1>1, <1>2, <1>7, <2>1, <3>1, <3>2 DEF OneGesture
    <2>6. FlungForward' /\ CommitLandsOnTarget'
      BY <1>1, <1>4, <2>1 DEF FlungForward, CommitLandsOnTarget
    <2>7. QED
      BY <1>1, <2>2, <2>3, <2>4, <2>5, <2>6 DEF IInv
  <1>9. CASE n # position.effective
    <2> DEFINE p == Set(position, n)
               k == Sign(n - position.effective)
               d == IF gesture_started THEN dock ELSE Began(dock, k)
               e == p.effective - Origin
    <2>1. /\ latest_direction' = k /\ position' = p /\ gesture_started' = TRUE
          /\ dock' = Changed(d, e, 0)
      BY <1>9, SameOperators DEF Continuous!SetPosition
    <2>2. p \in Position /\ p.deferred = n /\ Clear(p.effective) /\ NearBoundary(p)
      BY <1>3, <1>9, SetFacts
    <2>3. /\ k \in {-1, 1} /\ (n > position.effective => k = 1)
          /\ (n < position.effective => k = -1)
      BY <1>3, <1>9, SignFacts
    <2>4. /\ d \in Dock /\ d.open = TRUE /\ d.confused = FALSE /\ d.home = Origin
          /\ d.moved = 0 /\ d.lingered = FALSE /\ ~ShownOnBoundary(d)
      <3>1. ~dock.confused /\ dock.open = gesture_started /\ ~dock.lingered
        BY <1>1, <1>2, Zenon DEF GesturesWellFormed, Typed
      <3>2. dock.home = Origin
        BY <1>1, <1>2 DEF OneGesture
      <3>3. CASE gesture_started
        <4>1. dock.open = TRUE
          BY <1>2, <3>1, <3>3 DEF Typed
        <4>2. dock.confused = FALSE /\ dock.lingered = FALSE
          BY <1>3, <3>1 DEF Dock
        <4>3. d = dock
          BY <3>3
        <4>4. ~ShownOnBoundary(dock)
          BY <1>2, <4>1 DEF GesturesWellFormed
        <4>5. QED
          BY <1>3, <1>4, <3>2, <4>1, <4>2, <4>3, <4>4
      <3>4. CASE ~gesture_started
        <4>1. ~dock.open /\ ~dock.confused /\ ~dock.lingered
          BY <3>1, <3>4
        <4>2. d = Began(dock, k)
          BY <3>4
        <4> HIDE DEF k, d
        <4>3. QED
          BY <1>3, <1>4, <2>3, <3>2, <4>1, <4>2, BeganFacts
      <3>5. QED
        BY <3>3, <3>4
    <2>5. /\ ~turned' /\ n >= Origin => k = 1 /\ p.effective <= n
          /\ ~turned' /\ n <= Origin => k = -1 /\ n <= p.effective
      <3>1. /\ ~turned' /\ n >= Origin => n > position.effective
            /\ ~turned' /\ n <= Origin => n < position.effective
        <4>1. target = Origin => (~turned' => position.effective = Origin)
          BY <1>3, <1>7, AtFacts
        <4>2. QED
          BY <1>3, <1>6, <1>7, <1>9, <4>1
      <3>2. /\ n > position.effective => p.effective <= n
            /\ n < position.effective => n <= p.effective
        <4>1. CASE p.effective = n
          BY <1>3, <4>1
        <4>2. CASE p.effective # n
          <5>1. PICK m \in Int :
                  /\ OnBoundary(m) /\ n \in m - Defer .. m + Defer
                  /\ p.effective = IF n > position.effective THEN m - Defer ELSE m + Defer
            BY <1>3, <1>9, <4>2, SetFacts
          <5> HIDE DEF p
          <5>2. QED
            BY <1>3, <5>1, OneFacts
        <4>3. QED
          BY <4>1, <4>2
      <3> HIDE DEF k, p
      <3>3. QED
        BY <2>3, <3>1, <3>2
    <2>6. n # Origin \/ turned'
      <3>1. k # 1 \/ k # -1
        BY <2>3
      <3> HIDE DEF k, p
      <3>2. QED
        BY <1>3, <2>5, <3>1
    <2>7. p.effective \in Int /\ e \in Int
      BY <1>3, <2>2, PositionFacts
    <2> HIDE DEF p, k, d
    <2>8. ~OnBoundary(e)
      BY <1>3, <2>2, <2>7, ShownClear
    <2> HIDE DEF e
    <2>9. /\ dock' \in Dock /\ dock'.open = TRUE /\ dock'.confused = FALSE
          /\ dock'.lingered = FALSE /\ ~ShownOnBoundary(dock')
          /\ dock'.home = Origin /\ dock'.moved = 0
      <3>1. d.open /\ ~d.confused /\ ~d.lingered
        BY <2>4, Zenon
      <3>2. QED
        BY <2>1, <2>4, <2>7, <2>8, <3>1, ChangedFacts
    <2>10. TypeOK'
      <3>1. Typed'
        BY <1>1, <1>2, <1>3, <1>5, <2>1, <2>2, <2>3, <2>9 DEF Typed
      <3>2. QED
        BY <3>1, TypeFacts
    <2>11. GesturesWellFormed'
      <3>1. /\ ~segmented' /\ gesture_started' /\ ~committed' /\ ~active'
            /\ ~dock'.confused /\ dock'.open = TRUE /\ ~dock'.lingered
        BY <1>1, <1>4, <2>1, <2>9
      <3>2. dock'.open = (gesture_started' /\ ~committed')
        BY <3>1, Zenon
      <3>3. QED
        BY <2>9, <3>1, <3>2, Zenon DEF GesturesWellFormed
    <2>12. Settled'
      BY <1>1, <1>2, <1>4, <2>1, <2>2, <2>9 DEF Settled
    <2>13. OneGesture'
      BY <1>1, <1>3, <1>4, <2>1, <2>2, <2>5, <2>6, <2>9 DEF OneGesture
    <2>14. FlungForward' /\ CommitLandsOnTarget'
      BY <1>1, <2>9 DEF FlungForward, CommitLandsOnTarget
    <2>15. QED
      BY <1>1, <2>10, <2>11, <2>12, <2>13, <2>14 DEF IInv
  <1>10. QED
    BY <1>8, <1>9

(* The spaces the flicks of a commit cross: at least one, and else the whole *)
(* spaces of the distance, in its direction.                                *)
LEMMA FlickLength ==
  ASSUME NEW a \in Nat \ {0}, NEW t \in Nat, OnBoundary(t), t <= a, a < t + One,
         NEW spaces \in Int, spaces = IF t \div One > 1 THEN t \div One ELSE 1
  PROVE  /\ spaces * One \in Int /\ OnBoundary(spaces * One)
         /\ spaces * One - a < One /\ a - spaces * One < One
         /\ OnBoundary(a) => spaces * One = a
  <1>1. PICK q \in Int : t = q * One
    BY BoundaryIndex
  <1>2. t \div One = q
    <2>1. t = q * One + 0 /\ 0 \in 0 .. One - 1
      BY <1>1, OneFacts
    <2>2. QED
      BY <2>1, OneFacts, QuotientFacts
  <1>3. spaces * One \in Int /\ OnBoundary(spaces * One)
    BY MultipleOnBoundary
  <1>4. OnBoundary(a) => t = a
    <2>1. OnBoundary(a) /\ t < a => t + One <= a
      BY BoundarySpacing
    <2>2. QED
      BY <2>1, OneFacts
  <1>5. CASE q >= 1
    <2>1. spaces = q
      BY <1>2, <1>5
    <2>2. spaces * One = t
      BY <1>1, <2>1
    <2>3. QED
      BY <1>3, <1>4, <2>2, OneFacts
  <1>6. CASE q < 1
    <2>1. q * One + One <= 1 * One
      BY <1>6, OneFacts, OrderFacts
    <2>2. t = 0
      BY <1>1, <2>1, OneFacts
    <2>3. spaces = 1
      BY <1>2, <1>6
    <2>4. spaces * One = One
      BY <2>3, OneFacts
    <2>5. QED
      BY <1>3, <1>4, <2>2, <2>4, OneFacts
  <1>7. QED
    BY <1>5, <1>6

(* A commit's flicks end less than a space from the position, and on it     *)
(* when it is a boundary.                                                   *)
LEMMA FlickFacts ==
  ASSUME NEW distance \in Int, distance # 0, NEW spaces \in Int,
         spaces = LET count == Abs(TruncateToSpace(distance)) \div One
                  IN  IF count > 1 THEN count ELSE 1,
         NEW moved \in Int,
         moved = spaces * Sign(distance) * One
  PROVE  /\ OnBoundary(moved) /\ moved - distance < One /\ distance - moved < One
         /\ OnBoundary(distance) => moved = distance
  <1> DEFINE t == TruncateToSpace(distance)
             m == spaces * One
  <1>1. CASE distance > 0
    <2>1. Sign(distance) = 1
      BY <1>1, SignFacts
    <2>2. t \in Nat /\ Abs(t) = t /\ OnBoundary(t) /\ t <= distance /\ distance < t + One
      BY <1>1, TruncateFacts, OneFacts DEF Abs
    <2>3. moved = m
      BY <2>1, OneFacts
    <2>4. distance \in Nat \ {0}
      BY <1>1
    <2>5. spaces = IF t \div One > 1 THEN t \div One ELSE 1
      BY <2>2
    <2>6. /\ m \in Int /\ OnBoundary(m) /\ m - distance < One /\ distance - m < One
          /\ OnBoundary(distance) => m = distance
      BY <2>2, <2>4, <2>5, FlickLength
    <2>7. QED
      BY <2>3, <2>6
  <1>2. CASE distance < 0
    <2> DEFINE a == -distance
               u == -t
    <2>1. Sign(distance) = -1
      BY <1>2, SignFacts
    <2>2. /\ t \in Int /\ OnBoundary(t) /\ u \in Nat /\ Abs(t) = u
          /\ u <= a /\ a < u + One /\ a \in Nat \ {0}
      BY <1>2, TruncateFacts, OneFacts DEF Abs
    <2>3. OnBoundary(u)
      BY <2>2, BoundaryArithmetic
    <2>4. spaces = IF u \div One > 1 THEN u \div One ELSE 1
      BY <2>2
    <2> HIDE DEF t
    <2>5. OnBoundary(distance) => OnBoundary(a)
      BY BoundaryArithmetic
    <2> HIDE DEF a, u
    <2>6. /\ m \in Int /\ OnBoundary(m) /\ m - a < One /\ a - m < One
          /\ OnBoundary(a) => m = a
      BY <2>2, <2>3, <2>4, FlickLength
    <2>7. moved = -m
      BY <2>1, OneFacts
    <2>8. OnBoundary(-m)
      BY <2>6, BoundaryArithmetic
    <2> HIDE DEF m
    <2>9. distance = -a /\ a \in Int
      BY <2>2 DEF a
    <2>10. QED
      BY <2>5, <2>6, <2>7, <2>8, <2>9, OneFacts
  <1>3. QED
    BY <1>1, <1>2

(* The commit of a continuous operation replaces its gesture by flicks, or  *)
(* cancels it where it began.                                               *)
LEMMA ContinuousCommit ==
  ASSUME IInv, ~segmented, Continuous!Commit, UNCHANGED ofSegmented, UNCHANGED segmented
  PROVE  IInv'
  <1> DEFINE distance == position.deferred - Origin
             count == Abs(TruncateToSpace(distance)) \div One
             spaces == IF count > 1 THEN count ELSE 1
             s == Sign(distance)
             agree == latest_direction = s
  <1>1. Typed /\ GesturesWellFormed /\ Settled /\ OneGesture
    BY TypeFacts DEF IInv
  <1>2. /\ position \in Position /\ position.effective \in Int /\ position.deferred \in Int
        /\ dock \in Dock /\ target \in Int /\ Origin \in Int /\ OnBoundary(Origin)
        /\ latest_direction \in {-1, 0, 1}
    BY <1>1, PositionFacts, OperationAssumption DEF Typed
  <1>3. /\ ~committed /\ committed' = TRUE /\ position' = At(position.deferred)
        /\ UNCHANGED <<gesture_started, latest_direction, target, turned, segmented, active,
                       gesture_origin, moving, logged_error>>
    BY SameOperators DEF Continuous!Commit, ofSegmented
  <1>4. /\ distance = 0 => dock' = Cancelled(dock, latest_direction)
        /\ distance # 0 => dock' \in Continuous!Flicks(dock, s, spaces)
    <2>1. At(position.deferred).effective = position.deferred
      BY <1>2, AtFacts
    <2>2. QED
      BY <2>1, SameOperators DEF Continuous!Commit
  <1>5. ~active /\ ~moving /\ dock.home = Origin
    BY <1>1, <1>3 DEF OneGesture
  <1>6. distance \in Int
    BY <1>2
  <1>7. /\ ~dock.confused /\ dock.open = gesture_started /\ gesture_started \in BOOLEAN
        /\ ~dock.lingered
    BY <1>1, <1>3, Zenon DEF GesturesWellFormed, Typed
  <1>8. /\ position' \in Position /\ position'.effective = position.deferred
        /\ position'.deferred = position.deferred /\ NearBoundary(position')
    BY <1>2, <1>3, AtFacts
  <1>9. ~gesture_started => /\ position.deferred = Origin /\ target = Origin
                           /\ position' = At(Origin)
    BY <1>1, <1>2, <1>3, AtFacts DEF OneGesture
  <1>10. gesture_started => ~OnBoundary(position.effective)
    BY <1>1, <1>2, <1>3, ClearOffBoundary DEF OneGesture
  <1>11. OnBoundary(target) => position.deferred = target
    BY <1>1, <1>3, <1>5, <1>9, <1>10 DEF Settled
  <1>12. ~turned /\ distance # 0 => agree
    <2>1. ~turned =>
            /\ position.deferred = target
            /\ target > Origin => latest_direction = 1
            /\ target < Origin => latest_direction = -1
      BY <1>1, <1>3 DEF OneGesture
    <2>2. (distance > 0 => s = 1) /\ (distance < 0 => s = -1)
      BY <1>6, SignFacts
    <2> HIDE DEF s
    <2>3. QED
      BY <1>2, <2>1, <2>2
  <1>13. /\ dock' \in Dock /\ dock'.open = FALSE /\ ~dock'.lingered
         /\ dock'.confused => ~gesture_started
         /\ OnBoundary(dock'.home)
         /\ ~gesture_started => dock'.home = Origin
         /\ distance = 0 => dock'.moved = 0
         /\ distance # 0 /\ dock'.flung = Sign(dock'.moved) => agree
         /\ distance # 0 /\ agree => dock'.flung = Sign(dock'.moved)
         /\ distance = 0 \/ agree =>
              /\ dock'.home - position.deferred < One
              /\ position.deferred - dock'.home < One
              /\ OnBoundary(position.deferred) => dock'.home = position.deferred
    <2>1. CASE distance = 0
      <3>1. dock' = Cancelled(dock, latest_direction) /\ position.deferred = Origin
        BY <1>2, <1>4, <2>1
      <3>2. latest_direction \in Int
        BY <1>2
      <3> DEFINE c == Cancelled(dock, latest_direction)
      <3>3. /\ c \in Dock /\ c.open = FALSE /\ c.confused = (dock.confused \/ ~dock.open)
            /\ c.home = dock.home /\ c.lingered = FALSE /\ c.moved = 0
        BY <1>2, <1>7, <3>2, CancelledFacts, Zenon
      <3> HIDE DEF c
      <3>4. dock'.confused => ~gesture_started
        BY <1>7, <3>1, <3>3, Zenon DEF c
      <3>5. /\ dock' \in Dock /\ dock'.open = FALSE /\ ~dock'.lingered /\ dock'.moved = 0
            /\ dock'.home = Origin
        BY <1>5, <3>1, <3>3 DEF c
      <3>6. QED
        BY <1>2, <2>1, <3>1, <3>4, <3>5, OneFacts
    <2>2. CASE distance # 0
      <3> DEFINE way == s * One
                 first == Ended(dock, way, latest_direction)
                 far == spaces * s * One
      <3>1. gesture_started
        BY <1>2, <1>9, <2>2
      <3>2. s \in {-1, 1} /\ Sign(latest_direction) = latest_direction
        <4>1. s \in {-1, 1}
          BY <1>6, <2>2, SignFacts
        <4>2. Sign(latest_direction) = latest_direction
          BY <1>2 DEF Sign
        <4>3. QED
          BY <4>1, <4>2
      <3>3. spaces \in Int
        <4>1. TruncateToSpace(distance) \in Int
          BY <1>6, TruncateFacts
        <4>2. Abs(TruncateToSpace(distance)) \in Int
          BY <4>1 DEF Abs
        <4>3. count \in Int
          BY <4>2, OneFacts, DivisionFacts
        <4> HIDE DEF count
        <4>4. QED
          BY <4>3
      <3>4. spaces * s \in Int /\ far \in Int /\ way \in Int
        <4> HIDE DEF spaces, s
        <4>1. spaces * s \in Int
          BY <3>2, <3>3
        <4>2. QED
          BY <3>2, <4>1, OneFacts
      <3>5. /\ OnBoundary(far) /\ far - distance < One /\ distance - far < One
            /\ OnBoundary(distance) => far = distance
        BY <1>6, <2>2, <3>3, <3>4, FlickFacts
      <3>6. PICK home \in IF agree THEN {dock.home + far}
                           ELSE {dock.home + k * One : k \in -spaces .. spaces} :
              dock' = [first EXCEPT !.home = home]
        BY <1>4, <2>2, SameOperators DEF Continuous!Flicks
      <3>7. home \in Int /\ OnBoundary(home) /\ (agree => home = Origin + far)
        <4>1. CASE agree
          <5>1. home = Origin + far
            BY <1>5, <3>6, <4>1
          <5> HIDE DEF far
          <5>2. QED
            BY <1>2, <3>4, <3>5, <5>1, BoundaryArithmetic
        <4>2. CASE ~agree
          <5> HIDE DEF spaces, agree
          <5>1. PICK k \in -spaces .. spaces : home = Origin + k * One
            BY <1>5, <3>6, <4>2
          <5>2. k * One \in Int /\ OnBoundary(k * One)
            BY <3>3, <5>1, MultipleOnBoundary
          <5>3. QED
            BY <1>2, <4>2, <5>1, <5>2, BoundaryArithmetic
        <4>3. QED
          BY <4>1, <4>2
      <3>8. way # 0 /\ Sign(way) = s
        <4>1. (s = 1 => way > 0) /\ (s = -1 => way < 0)
          BY <3>2, OneFacts
        <4> HIDE DEF way, s
        <4>2. QED
          BY <3>2, <3>4, <4>1 DEF Sign
      <3> HIDE DEF spaces, s, far, way, agree
      <3>9. /\ first \in Dock /\ first.open = FALSE /\ first.confused = FALSE
            /\ first.moved = way /\ first.flung = latest_direction
            /\ first.lingered = FALSE
        <4>1. dock.open /\ ~dock.confused /\ ~dock.lingered
          BY <1>7, <3>1
        <4>2. dock \in Dock /\ way \in Int /\ latest_direction \in Int
          BY <1>2, <3>4
        <4>3. first.flung = latest_direction
          BY <3>2, <4>1, <4>2, EndedFacts
        <4>4. /\ first \in Dock /\ first.open = FALSE /\ first.confused = FALSE
              /\ first.moved = way /\ first.lingered = FALSE
          BY <4>1, <4>2, EndedFacts
        <4>5. QED
          BY <4>3, <4>4
      <3> HIDE DEF first
      <3>10. /\ dock' \in Dock /\ dock'.open = FALSE /\ dock'.confused = FALSE
             /\ dock'.lingered = FALSE /\ dock'.home = home /\ dock'.moved = way
             /\ dock'.flung = latest_direction
        BY <3>6, <3>7, <3>9 DEF Dock
      <3>11. dock'.flung = Sign(dock'.moved) <=> agree
        BY <3>8, <3>10 DEF agree
      <3>12. OnBoundary(position.deferred) => OnBoundary(distance)
        BY <1>2, BoundaryArithmetic
      <3>13. ~dock'.confused /\ ~dock'.lingered
        BY <3>10, Zenon
      <3>14. agree => /\ home - position.deferred < One /\ position.deferred - home < One
                      /\ OnBoundary(position.deferred) => home = position.deferred
        BY <1>2, <3>4, <3>5, <3>7, <3>12
      <3> HIDE DEF distance
      <3>15. QED
        BY <2>2, <3>1, <3>7, <3>8, <3>10, <3>11, <3>13, <3>14
    <2>3. QED
      BY <2>1, <2>2
  <1> HIDE DEF distance, count, spaces, s, agree
  <1>14. dock'.home \in Int
    BY <1>13 DEF Dock
  <1>15. TypeOK'
    <2>1. Typed'
      BY <1>1, <1>3, <1>8, <1>13 DEF Typed
    <2>2. QED
      BY <2>1, TypeFacts
  <1>16. GesturesWellFormed'
    <2>1. dock'.open = (gesture_started' /\ ~committed')
      BY <1>3, <1>13, Zenon
    <2>2. dock'.confused => committed' /\ ~gesture_started' /\ position'.effective = Origin
      BY <1>3, <1>8, <1>9, <1>13
    <2>3. ~dock'.lingered /\ ~dock'.open
      BY <1>13
    <2>4. ~segmented'
      BY <1>3
    <2>5. QED
      BY <2>1, <2>2, <2>3, <2>4, Zenon DEF GesturesWellFormed
  <1>17. FlungForward'
    BY <1>3, <1>12, <1>13 DEF FlungForward
  <1>18. CommitLandsOnTarget'
    <2>1. dock'.flung = Sign(dock'.moved) => distance = 0 \/ agree
      BY <1>13
    <2>2. distance = 0 \/ agree => /\ OnBoundary(target) => dock'.home = target
                                   /\ Abs(dock'.home - position'.effective) < One
      BY <1>2, <1>8, <1>11, <1>13, <1>14 DEF Abs
    <2>3. QED
      BY <1>3, <1>13, <2>1, <2>2 DEF CommitLandsOnTarget
  <1>19. Settled'
    BY <1>3, <1>5, <1>8 DEF Settled
  <1>20. OneGesture'
    BY <1>3, <1>5, <1>9, <1>13 DEF OneGesture
  <1>21. QED
    BY <1>3, <1>15, <1>16, <1>17, <1>18, <1>19, <1>20 DEF IInv

(* Every step of either kind preserves the invariant.                       *)
LEMMA NextIInv == IInv /\ [Next]_vars => IInv'
  <1> SUFFICES ASSUME IInv, [Next]_vars PROVE IInv'
    OBVIOUS
  <1>1. ASSUME NEW n \in Targets, SetPosition(n) PROVE IInv'
    BY <1>1, SegmentedSetPosition, ContinuousSetPosition, Zenon DEF SetPosition
  <1>2. CASE Move
    BY <1>2, SegmentedMove DEF Move
  <1>3. CASE MoveDone
    BY <1>3, SegmentedMoveDone DEF MoveDone
  <1>4. CASE Commit
    BY <1>4, SegmentedCommit, ContinuousCommit, Zenon DEF Commit
  <1>5. CASE UNCHANGED vars
    <2>1. UNCHANGED <<segmented, position, target, committed, dock, active, gesture_origin,
                      moving, logged_error, gesture_started, latest_direction, turned>>
      BY <1>5 DEF vars, ofSegmented, ofContinuous
    <2>2. TypeOK'
      <3>1. Typed'
        BY <2>1, TypeFacts DEF IInv, Typed
      <3>2. QED
        BY <3>1, TypeFacts
    <2>3. GesturesWellFormed' /\ FlungForward' /\ CommitLandsOnTarget' /\ Settled'
      BY <2>1 DEF IInv, GesturesWellFormed, FlungForward, CommitLandsOnTarget, Settled
    <2>4. (segmented => GestureBetweenBoundaries)' /\ (~segmented => OneGesture)'
      BY <2>1 DEF IInv, GestureBetweenBoundaries, OneGesture
    <2>5. QED
      BY <2>2, <2>3, <2>4 DEF IInv
  <1>6. QED
    BY <1>1, <1>2, <1>3, <1>4, <1>5 DEF Next

(* A gesture that goes back to its origin is flung out of the limits, as    *)
(* long as it is less than a space away.                                    *)
LEMMA CancelOutward ==
  ASSUME NEW p \in Position, NEW origin \in Int, p.deferred = origin,
         p.effective \in origin - 2 * Defer .. origin + 2 * Defer,
         NEW d \in Dock, d.home = origin, Segmented!EndGesture(p, origin, d),
         SoftMin < SoftMax
  PROVE  /\ dock'.home = origin
         /\ origin = SoftMin => dock'.flung \in {-1, 0}
         /\ origin = SoftMax => dock'.flung \in {0, 1}
  <1> DEFINE sign == Sign(p.deferred - p.effective)
             outside == \/ p.effective < SoftMin /\ sign > 0
                        \/ p.effective > SoftMax /\ sign < 0
             nudge == IF outside THEN -sign ELSE sign
  <1>1. dock' = IF p.deferred - origin = 0
                  THEN Cancelled(Changed(d, 0, nudge), nudge)
                  ELSE Ended(Changed(d, p.deferred - origin, 0), p.deferred - origin, sign)
    BY SameOperators DEF Segmented!EndGesture
  <1>2. p.effective \in Int /\ p.deferred \in Int /\ p.deferred - origin = 0
    BY PositionFacts
  <1>3. SoftMin \in Int /\ SoftMax \in Int /\ SoftMin + One <= SoftMax
    BY OperationAssumption, BoundarySpacing
  <1>4. /\ sign \in {-1, 0, 1} /\ (sign = 1 <=> p.effective < origin)
        /\ (sign = -1 <=> origin < p.effective)
    <2>1. p.deferred - p.effective \in Int
      BY <1>2
    <2>2. QED
      BY <1>2, <2>1, SignFacts
  <1> HIDE DEF sign
  <1>5. /\ nudge \in {-1, 0, 1}
        /\ origin = SoftMin => nudge \in {-1, 0}
        /\ origin = SoftMax => nudge \in {0, 1}
    <2>1. nudge \in {-1, 0, 1}
      BY <1>4
    <2>2. ASSUME origin = SoftMin PROVE nudge \in {-1, 0}
      BY <1>2, <1>3, <1>4, <2>2, OneFacts
    <2>3. ASSUME origin = SoftMax PROVE nudge \in {0, 1}
      BY <1>2, <1>3, <1>4, <2>3, OneFacts
    <2>4. QED
      BY <2>1, <2>2, <2>3
  <1> HIDE DEF nudge
  <1>6. dock' = Cancelled(Changed(d, 0, nudge), nudge)
    BY <1>1, <1>2
  <1>7. dock'.home = origin /\ dock'.flung = Sign(nudge)
    BY <1>6 DEF Cancelled, Changed, Dock
  <1>8. Sign(nudge) = nudge
    BY <1>5 DEF Sign
  <1>9. QED
    BY <1>5, <1>7, <1>8

(* An iteration of the loop cancels nothing: the boundary that ends a       *)
(* gesture is not the one it began on.                                      *)
LEMMA MoveOutward ==
  ASSUME IInv, segmented, CancelledOutward, Segmented!Move,
         UNCHANGED <<segmented, ofContinuous>>
  PROVE  CancelledOutward'
  <1> DEFINE up == target > position.effective
             origin == IF active THEN gesture_origin ELSE position.deferred
             d == IF active THEN dock ELSE Began(dock, IF up THEN 1 ELSE -1)
             bounds == Segmented!NextBoundary(origin, up)
             passed == {b \in bounds : IF up THEN target >= b ELSE target <= b}
             n == IF passed = {} THEN target ELSE CHOOSE b \in passed : TRUE
             p == Set(position, n)
  <1>1. /\ p.deferred \in bounds => Segmented!EndGesture(p, origin, d)
        /\ p.deferred \notin bounds => dock' = Changed(d, p.effective - origin, 0)
    BY SameOperators DEF Segmented!Move
  <1>2. /\ Typed /\ GesturesWellFormed /\ GestureBetweenBoundaries
    BY TypeFacts DEF IInv
  <1>3. position \in Position /\ target \in Int /\ dock \in Dock
    BY <1>2 DEF Typed
  <1>4. origin \in Int /\ OnBoundary(origin) /\ up \in BOOLEAN
    BY <1>2, <1>3, PositionFacts DEF Typed, GestureBetweenBoundaries
  <1>5. d \in Dock /\ d.open = TRUE
    <2>1. CASE active
      <3>1. d = dock /\ dock.open = TRUE
        BY <1>2, <1>3, <2>1 DEF GesturesWellFormed, Typed, Dock
      <3>2. QED
        BY <1>3, <3>1
    <2>2. CASE ~active
      <3>1. /\ d = Began(dock, IF up THEN 1 ELSE -1)
            /\ ~dock.open /\ ~dock.confused /\ ~dock.lingered
        BY <1>2, <1>3, <2>2 DEF GesturesWellFormed, Typed
      <3>2. (IF up THEN 1 ELSE -1) \in {-1, 1}
        OBVIOUS
      <3> HIDE DEF up, d
      <3>3. QED
        BY <1>3, <3>1, <3>2, BeganFacts
    <2>3. QED
      BY <2>1, <2>2
  <1>6. CASE p.deferred \notin bounds
    <2>1. dock' = Changed(d, p.effective - origin, 0)
      BY <1>1, <1>6
    <2> HIDE DEF d, p, origin
    <2>2. dock'.open = TRUE
      BY <1>5, <2>1 DEF Changed, Dock
    <2>3. QED
      BY <2>2 DEF CancelledOutward
  <1>7. CASE p.deferred \in bounds
    <2>1. Segmented!EndGesture(p, origin, d)
      BY <1>1, <1>7
    <2> HIDE DEF d, p, up
    <2>2. p.deferred \in Int /\ p.deferred - origin # 0
      <3>1. /\ p.deferred \in SoftMin .. SoftMax
            /\ IF up THEN origin < p.deferred ELSE p.deferred < origin
        BY <1>4, <1>7, NextBoundaryFacts
      <3>2. p.deferred \in Int
        BY <3>1, OperationAssumption
      <3> HIDE DEF origin
      <3>3. QED
        BY <1>4, <3>1, <3>2
    <2> HIDE DEF origin
    <2>3. \E v : dock' = Ended(Changed(d, p.deferred - origin, 0), p.deferred - origin, v)
      BY <2>1, <2>2, SameOperators DEF Segmented!EndGesture
    <2>4. dock'.moved # 0
      BY <1>5, <2>2, <2>3 DEF Ended, Changed, Dock
    <2>5. QED
      BY <2>4 DEF CancelledOutward
  <1>8. QED
    BY <1>6, <1>7

(* A commit of an open gesture ends it on the boundary below, at most twice *)
(* the deferral away.                                                       *)
LEMMA CommitOutward ==
  ASSUME IInv, segmented, CancelledOutward, Segmented!Commit,
         UNCHANGED ofContinuous, UNCHANGED segmented
  PROVE  CancelledOutward'
  <1>1. /\ Typed /\ GesturesWellFormed /\ GestureBetweenBoundaries
    BY TypeFacts DEF IInv
  <1>2. /\ position \in Position /\ dock \in Dock
        /\ position.effective \in Int /\ position.deferred \in Int
    BY <1>1, PositionFacts DEF Typed
  <1>3. CASE ~active
    <2>1. UNCHANGED dock
      BY <1>3 DEF Segmented!Commit
    <2>2. QED
      BY <2>1 DEF CancelledOutward
  <1>4. CASE active
    <2> DEFINE origin == gesture_origin
               below == (position.deferred \div One) * One
               p == IF OnBoundary(position.deferred) THEN position ELSE Set(position, below)
    <2>1. Segmented!EndGesture(p, origin, dock)
      BY <1>4, SameOperators DEF Segmented!Commit
    <2>2. dock.home = origin /\ origin \in Int
      BY <1>1, <1>4 DEF GesturesWellFormed, Typed
    <2>3. p \in Position
      <3>1. below \in Int
        BY <1>2, FloorFacts
      <3> HIDE DEF below
      <3>2. CASE OnBoundary(position.deferred) \/ below = position.effective
        BY <1>2, <3>2 DEF Set
      <3>3. CASE ~OnBoundary(position.deferred) /\ below # position.effective
        BY <1>2, <3>1, <3>3, SetFacts
      <3>4. QED
        BY <3>2, <3>3
    <2> HIDE DEF p
    <2>4. p.effective \in p.deferred - 2 * Defer .. p.deferred + 2 * Defer
      BY <2>3, OneFacts, PositionFacts DEF Position, Abs
    <2>5. CASE p.deferred = origin
      <3>1. SoftMin < SoftMax =>
              /\ dock'.home = origin
              /\ origin = SoftMin => dock'.flung \in {-1, 0}
              /\ origin = SoftMax => dock'.flung \in {0, 1}
        BY <1>2, <2>1, <2>2, <2>3, <2>4, <2>5, CancelOutward
      <3>2. QED
        BY <3>1, OperationAssumption DEF CancelledOutward
    <2>6. CASE p.deferred # origin
      <3>1. p.deferred \in Int /\ p.deferred - origin # 0 /\ p.deferred - origin \in Int
        BY <2>2, <2>3, <2>6, PositionFacts
      <3> HIDE DEF origin
      <3>2. \E v : dock' = Ended(Changed(dock, p.deferred - origin, 0), p.deferred - origin, v)
        BY <2>1, <3>1, SameOperators DEF Segmented!EndGesture
      <3>3. dock'.moved # 0
        BY <1>2, <3>1, <3>2 DEF Ended, Changed, Dock
      <3>4. QED
        BY <3>3 DEF CancelledOutward
    <2>7. QED
      BY <2>5, <2>6
  <1>5. QED
    BY <1>3, <1>4

-----------------------------------------------------------------------------
(* The inductive invariant holds of both kinds of operation.                *)
THEOREM Invariance == Spec => []IInv
  BY InitIInv, NextIInv, PTL DEF Spec

(* Type correctness.                                                        *)
THEOREM TypeCorrect == Spec => []TypeOK
  <1>1. IInv => TypeOK
    BY DEF IInv
  <1>2. QED
    BY <1>1, Invariance, PTL

(* Whatever SetPosition and Commit are called with, the Dock gets gestures  *)
(* that begin, change and end in order, one at a time, and a Changed that   *)
(* is directly on a boundary is followed by the end of its gesture only.    *)
THEOREM WellFormed == Spec => []GesturesWellFormed
  <1>1. IInv => GesturesWellFormed
    BY DEF IInv
  <1>2. QED
    BY <1>1, Invariance, PTL

(* The velocity of a gesture that is ended points the way it moved, unless  *)
(* a segmented operation is committed outside of the limits or a continuous *)
(* one has been asked for a position nearer to its origin than the last.    *)
THEOREM Flung == Spec => []FlungForward
  <1>1. IInv => FlungForward
    BY DEF IInv
  <1>2. QED
    BY <1>1, Invariance, PTL

(* Commit leaves the Dock on a boundary, the target when it is one; of a    *)
(* continuous operation when progress and velocity of its flicks agree.     *)
THEOREM CommitLands == Spec => []CommitLandsOnTarget
  <1>1. IInv => CommitLandsOnTarget
    BY DEF IInv
  <1>2. QED
    BY <1>1, Invariance, PTL

(* A gesture cancelled on the first or the last space is flung out of the   *)
(* limits, from whichever side it came back.                                *)
THEOREM Outward == Spec => []CancelledOutward
  <1>1. Init => CancelledOutward
    <2> SUFFICES ASSUME Init PROVE CancelledOutward
      OBVIOUS
    <2>1. dock = DockAt(Origin)
      BY SameOperators DEF Init, Segmented!Init
    <2>2. dock.flung = 0
      BY <2>1 DEF DockAt
    <2>3. QED
      BY <2>2 DEF CancelledOutward
  <1>2. IInv /\ CancelledOutward /\ [Next]_vars => CancelledOutward'
    <2> SUFFICES ASSUME IInv, CancelledOutward, [Next]_vars PROVE CancelledOutward'
      OBVIOUS
    <2>1. CASE ~segmented
      <3>1. UNCHANGED segmented
        BY Zenon DEF Next, SetPosition, Move, MoveDone, Commit, vars
      <3>2. QED
        BY <2>1, <3>1 DEF CancelledOutward
    <2>2. CASE segmented
      <3>1. ASSUME NEW n \in Targets, SetPosition(n) PROVE CancelledOutward'
        BY <2>2, <3>1 DEF CancelledOutward, SetPosition, Segmented!SetPosition
      <3>2. CASE Move
        BY <2>2, <3>2, MoveOutward DEF Move
      <3>3. CASE MoveDone
        BY <3>3 DEF CancelledOutward, MoveDone, Segmented!MoveDone
      <3>4. CASE Commit
        BY <2>2, <3>4, CommitOutward, Zenon DEF Commit
      <3>5. CASE UNCHANGED vars
        BY <3>5 DEF CancelledOutward, vars
      <3>6. QED
        BY <3>1, <3>2, <3>3, <3>4, <3>5 DEF Next
    <2>3. QED
      BY <2>1, <2>2
  <1>3. QED
    BY <1>1, <1>2, Invariance, PTL DEF Spec

(* SetPosition leaves the position shown within twice the deferral of the   *)
(* one it was asked for.                                                    *)
THEOREM Close == Spec => []CloseToTarget
  <1>1. IInv => CloseToTarget
    <2> SUFFICES ASSUME IInv, ~moving, ~committed PROVE CloseToTarget
      BY DEF CloseToTarget
    <2>1. /\ position.deferred = target \/ position.effective = target
          /\ NearBoundary(position) /\ position \in Position
      BY TypeFacts DEF IInv, Settled, Typed
    <2>2. position.effective \in Int /\ position.deferred \in Int
      BY <2>1, PositionFacts
    <2>3. CASE position.has_deferred
      <3>1. PICK m \in Int : /\ position.deferred \in m - Defer .. m + Defer
                             /\ position.effective \in {m - Defer, m + Defer}
        BY <2>1, <2>3 DEF NearBoundary
      <3>2. QED
        BY <2>1, <2>2, <3>1, OneFacts DEF CloseToTarget, Abs
    <2>4. CASE ~position.has_deferred
      BY <2>1, <2>2, <2>4, OneFacts, PositionFacts DEF CloseToTarget, Abs
    <2>5. QED
      BY <2>3, <2>4
  <1>2. QED
    BY <1>1, Invariance, PTL

(* An operation that began inside of the soft limits never rests the Dock   *)
(* outside of them before its commit, however far it is dragged.            *)
THEOREM Limits == Origin \in SoftMin .. SoftMax => (Spec => []WithinLimits)
  <1> SUFFICES ASSUME Origin \in SoftMin .. SoftMax PROVE Spec => []WithinLimits
    OBVIOUS
  <1>1. IInv => WithinLimits
    BY DEF IInv, Settled, WithinLimits
  <1>2. QED
    BY <1>1, Invariance, PTL
=============================================================================
