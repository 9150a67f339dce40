-------------------------- MODULE DeferredPosition --------------------------
(***************************************************************************)
(* engine/deferred-position.cc: a position that, near a space boundary,    *)
(* stays Defer nanoswipes short of it until it is committed.  A value is a *)
(* record of effective_, deferred() and has_deferred().                    *)
(***************************************************************************)
EXTENDS Integers

CONSTANTS One,     \* kOneSwipeInNanoswipes
          Defer    \* kDeferAbsThreshold

ASSUME DeferAssumption ==
  One \in Nat /\ Defer \in Nat \ {0} /\ 2 * Defer < One

At(p) == [effective |-> p, deferred |-> p, has_deferred |-> FALSE]

Abs(n) == IF n < 0 THEN -n ELSE n

\* C++ integer division truncates: n / One * One.
TruncateToSpace(n) == IF n >= 0 THEN (n \div One) * One
                                ELSE -(((-n) \div One) * One)

OnBoundary(n) == n % One = 0

\* std::min(remainder, kOneSwipeInNanoswipes - remainder)
DistanceToBoundary(n) ==
  LET remainder == Abs(n) % One
  IN  IF remainder <= One - remainder THEN remainder ELSE One - remainder

\* Mutant: a negative position is rounded like the others, towards zero.
NearestBoundaryFromBelow(n) == TruncateToSpace(n + Defer)

NearestBoundary(n) ==
  TruncateToSpace(IF n >= 0 THEN n + Defer ELSE n - Defer)

\* A deferred value is near a boundary, and what is shown in its place is just
\* outside of that, on either side of the boundary.
Position ==
  {p \in [effective : Int, deferred : Int, has_deferred : BOOLEAN] :
     IF p.has_deferred
       THEN /\ DistanceToBoundary(p.deferred) <= Defer
            /\ DistanceToBoundary(p.effective) = Defer
            /\ Abs(p.effective - p.deferred) <= 2 * Defer
       ELSE p.deferred = p.effective}

\* Mutant: effective_ is put on the other side of the boundary.
SetBeyond(position, n) ==
  IF position.effective = n THEN position
  ELSE IF DistanceToBoundary(n) <= Defer
    THEN [effective    |-> NearestBoundary(n)
                             + (IF n > position.effective THEN Defer ELSE -Defer),
          deferred     |-> n,
          has_deferred |-> TRUE]
  ELSE At(n)

\* Set(): effective_ is kept on the side of the boundary it comes from.
Set(position, n) ==
  IF position.effective = n THEN position
  ELSE IF DistanceToBoundary(n) <= Defer
    THEN [effective    |-> NearestBoundary(n)
                             - (IF n > position.effective THEN Defer ELSE -Defer),
          deferred     |-> n,
          has_deferred |-> TRUE]
  ELSE At(n)

CommitDeferred(position) == At(position.deferred)
=============================================================================
