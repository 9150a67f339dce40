--------------------------- MODULE LibraryProofs ---------------------------
(***************************************************************************)
(* Proofs about the two parts of the library that the engine stands on:    *)
(* about PeriodicTimer for any set of threads that cancel it, and about    *)
(* GestureSerialization for any size of a cell and of the numbers, any     *)
(* serialized events of the OS and any gestures.  The parts share nothing; *)
(* no fact about one is used for the other.                                *)
(***************************************************************************)
EXTENDS PeriodicTimer, GestureSerialization, SequenceTheorems, WellFoundedInduction, TLAPS

-----------------------------------------------------------------------------
(* PeriodicTimer                                                           *)

(* Exactly one side wins the test-and-set, and between winning and          *)
(* cancelling the source it is the only writer of stop_reason.              *)
OneStopper ==
  /\ stop_requested <=> winner # "none"
  /\ source_cancelled => stop_requested
  /\ queue \in {"finish_reason", "finish_source"} =>
       winner = "queue" /\ ~source_cancelled
  /\ \A c \in Callers : pc[c] \in {"reason", "source"} =>
       /\ winner = "caller" /\ ~source_cancelled
       /\ \A d \in Callers : pc[d] \in {"reason", "source"} => d = c

(* The reason is the winner's by the time the source is cancelled.          *)
ReasonStored ==
  /\ queue = "finish_source" => stop_reason = "kFinished"
  /\ \A c \in Callers : pc[c] = "source" => stop_reason = "kCancelled"
  /\ source_cancelled /\ winner = "queue" => stop_reason = "kFinished"
  /\ source_cancelled /\ winner = "caller" => stop_reason = "kCancelled"
  /\ queue = "finish_tas" \/ winner = "queue" => finish_asked
  /\ finish_asked /\ queue # "finish_tas" => stop_requested
  /\ winner = "caller" => CancelAsked

(* Where the queue's thread is decides what has been reported.              *)
HandlerProgress ==
  /\ queue # "fatal"
  /\ queue \in CancelHandler \cup {"done"} => source_cancelled
  /\ queue \in {"store", "notify", "done"} => reports = <<stop_reason>>
  /\ queue \notin {"store", "notify", "done"} => reports = <<>>
  /\ stopped <=> queue \in {"notify", "done"}
  /\ cancel_returned => stopped

TimerIInv == TypeOK /\ OneStopper /\ ReasonStored /\ HandlerProgress

-----------------------------------------------------------------------------
(* The constructor (periodic-timer.cc:13-46) establishes the inductive       *)
(* invariant.                                                               *)
LEMMA InitTimerIInv == Init => TimerIInv
  <1> SUFFICES ASSUME Init PROVE TimerIInv
    OBVIOUS
  <1> USE DEF Init, Reasons, QueuePlaces, CallerPlaces, CancelHandler, TickHandler
  <1>0. reports \in Seq(Reasons) /\ winner \in {"none", "queue", "caller"}
    OBVIOUS
  <1>1. TypeOK
    BY <1>0 DEF TypeOK
  <1>2. OneStopper
    BY DEF OneStopper
  <1>3. ReasonStored
    BY DEF ReasonStored
  <1>4. HandlerProgress
    BY DEF HandlerProgress
  <1>5. QED
    BY <1>1, <1>2, <1>3, <1>4 DEF TimerIInv

(* Every access of the queue's thread and of the cancelling threads         *)
(* preserves it.                                                            *)
LEMMA NextTimerIInv == TimerIInv /\ [Next]_vars => TimerIInv'
  <1> SUFFICES ASSUME TimerIInv, [Next]_vars PROVE TimerIInv'
    OBVIOUS
  <1> USE DEF TimerIInv, TypeOK, OneStopper, ReasonStored, HandlerProgress, Reasons,
              QueuePlaces, CallerPlaces, CancelHandler, TickHandler, flags, history,
              CancelAsked
  <1>1. CASE FireTick
    BY <1>1 DEF FireTick
  <1>2. CASE FireCancelHandler
    BY <1>2 DEF FireCancelHandler
  <1>3. CASE TestStopRequested
    BY <1>3 DEF TestStopRequested
  <1>4. ASSUME NEW finish \in BOOLEAN, TickCallback(finish) PROVE TimerIInv'
    BY <1>4 DEF TickCallback
  <1>5. CASE FinishTestAndSet
    BY <1>5 DEF FinishTestAndSet
  <1>6. CASE FinishStoreReason
    BY <1>6 DEF FinishStoreReason
  <1>7. CASE FinishCancelSource
    BY <1>7 DEF FinishCancelSource
  <1>8. CASE CheckStopRequested
    BY <1>8 DEF CheckStopRequested
  <1>9. CASE StoppedCallback
    BY <1>9 DEF StoppedCallback
  <1>10. CASE StoreStopped
    BY <1>10 DEF StoreStopped
  <1>11. CASE NotifyAll
    BY <1>11 DEF NotifyAll
  <1>12. ASSUME NEW c \in Callers, CallCancel(c) PROVE TimerIInv'
    BY <1>12 DEF CallCancel, Goto
  <1>13. ASSUME NEW c \in Callers, CallDestructor(c) PROVE TimerIInv'
    BY <1>13 DEF CallDestructor, Goto
  <1>14. ASSUME NEW c \in Callers, CancelTestAndSet(c) PROVE TimerIInv'
    BY <1>14 DEF CancelTestAndSet, Goto
  <1>15. ASSUME NEW c \in Callers, CancelStoreReason(c) PROVE TimerIInv'
    BY <1>15 DEF CancelStoreReason, Goto
  <1>16. ASSUME NEW c \in Callers, CancelSource(c) PROVE TimerIInv'
    BY <1>16 DEF CancelSource, Goto
  <1>17. ASSUME NEW c \in Callers, WaitSleep(c) PROVE TimerIInv'
    BY <1>17 DEF WaitSleep, Goto
  <1>18. ASSUME NEW c \in Callers, WaitReturn(c) PROVE TimerIInv'
    BY <1>18 DEF WaitReturn, Goto
  <1>19. CASE UNCHANGED vars
    BY <1>19 DEF vars
  <1>20. QED
    BY <1>1, <1>2, <1>3, <1>4, <1>5, <1>6, <1>7, <1>8, <1>9, <1>10, <1>11, <1>12,
       <1>13, <1>14, <1>15, <1>16, <1>17, <1>18, <1>19
       DEF Next, Tick, Stop, Cancel

(* In every state of a timer one side at most is stopping it, the reason is *)
(* stored before the source is cancelled, and reports follow the handler.   *)
THEOREM TimerInvariance == Spec => []TimerIInv
  BY InitTimerIInv, NextTimerIInv, PTL DEF Spec

-----------------------------------------------------------------------------
(* The members always hold values of their types.                           *)
THEOREM TimerTypeCorrect == Spec => []TypeOK
  <1>1. TimerIInv => TypeOK
    BY DEF TimerIInv
  <1>2. QED
    BY TimerInvariance, <1>1, PTL

(* Once a call of Cancel() has returned, the stopped callback has been run  *)
(* exactly once and no callback is running or will run.                     *)
THEOREM Quiet == Spec => []QuietAfterCancel
  <1>1. TimerIInv => QuietAfterCancel
    BY DEF TimerIInv, HandlerProgress, QuietAfterCancel, InCallback
  <1>2. QED
    BY TimerInvariance, <1>1, PTL

(* The stopped callback is given the reason of the side that won the        *)
(* test-and-set, and kFinished only if a tick callback asked for it.        *)
THEOREM Winner == Spec => []ReportsTheWinner
  <1>1. ASSUME TimerIInv PROVE ReportsTheWinner
    <2> USE <1>1 DEF TimerIInv, HandlerProgress, ReportsTheWinner
    <2>1. CASE queue \notin {"store", "notify", "done"}
      BY <2>1
    <2>2. CASE queue \in {"store", "notify", "done"}
      <3>1. reports = <<stop_reason>> /\ source_cancelled
        BY <2>2 DEF CancelHandler
      <3>2. winner # "none" /\ (stop_reason = "kFinished") = (winner = "queue")
        BY <3>1 DEF TypeOK, OneStopper, ReasonStored
      <3>3. winner = "queue" => finish_asked
        BY DEF ReasonStored
      <3>4. QED
        BY <3>1, <3>2, <3>3
    <2>3. QED
      BY <2>1, <2>2
  <1>2. QED
    BY TimerInvariance, <1>1, PTL

(* The LOG(FATAL) of the cancel handler (periodic-timer.cc:30) is dead code. *)
THEOREM FatalUnreachable == Spec => []NeverFatal
  <1>1. TimerIInv => NeverFatal
    BY DEF TimerIInv, HandlerProgress, NeverFatal
  <1>2. QED
    BY TimerInvariance, <1>1, PTL

-----------------------------------------------------------------------------
(* Every step of the detailed timer is a step of its contract or leaves the *)
(* contract's state alone.                                                  *)
LEMMA TimerStepRefines == TimerIInv /\ [Next]_vars => [Contract!Next]_(Contract!contractVars)
  <1> SUFFICES ASSUME TimerIInv, [Next]_vars
               PROVE  Contract!Next \/ UNCHANGED Contract!contractVars
    BY DEF Contract!contractVars
  <1> USE DEF Running, Outcome, CancelAsked, flags, history, Contract!contractVars
  <1>0. TypeOK /\ OneStopper /\ ReasonStored /\ HandlerProgress
    BY DEF TimerIInv
  <1>1. CASE FireTick \/ FireCancelHandler
    BY <1>1 DEF FireTick, FireCancelHandler
  <1>2. CASE TestStopRequested
    BY <1>0, <1>2 DEF TestStopRequested, ReasonStored, HandlerProgress, Contract!Next, Contract!BeginTick
  <1>3. ASSUME NEW finish \in BOOLEAN, TickCallback(finish)
        PROVE  Contract!Next
    BY <1>0, <1>3 DEF TickCallback, Contract!Next, Contract!EndTick
  <1>4. CASE FinishTestAndSet \/ FinishStoreReason \/ FinishCancelSource
    BY <1>4 DEF FinishTestAndSet, FinishStoreReason, FinishCancelSource
  <1>5. CASE CheckStopRequested
    <2>1. Contract!BeginStopped(stop_reason)
      BY <1>0, <1>5 DEF CheckStopRequested, TypeOK, OneStopper, ReasonStored,
         HandlerProgress, CancelHandler, Contract!BeginStopped
    <2>2. QED
      BY <1>0, <2>1 DEF TypeOK, Reasons, Contract!Next
  <1>6. CASE StoppedCallback
    <2>1. reports = <<>> /\ reports' = <<stop_reason>>
      BY <1>0, <1>6 DEF StoppedCallback, HandlerProgress
    <2>2. Contract!EndStopped
      BY <1>6, <2>1 DEF StoppedCallback, Contract!EndStopped
    <2>3. QED
      BY <2>2 DEF Contract!Next
  <1>7. CASE StoreStopped
    BY <1>7 DEF StoreStopped
  <1>8. CASE NotifyAll
    BY <1>0, <1>8 DEF NotifyAll, TypeOK
  <1>9. ASSUME NEW c \in Callers, CallCancel(c) \/ CallDestructor(c)
        PROVE  Contract!AskCancel
    BY <1>0, <1>9 DEF CallCancel, CallDestructor, Goto, TypeOK, Contract!AskCancel
  <1>10. ASSUME NEW c \in Callers,
                CancelTestAndSet(c) \/ CancelStoreReason(c) \/ CancelSource(c) \/ WaitSleep(c)
         PROVE  UNCHANGED Contract!contractVars
    BY <1>0, <1>10 DEF CancelTestAndSet, CancelStoreReason, CancelSource, WaitSleep,
       Goto, TypeOK, OneStopper, HandlerProgress, CancelHandler
  <1>11. ASSUME NEW c \in Callers, WaitReturn(c)
         PROVE  Contract!ReturnFromCancel
    <2>1. queue \in {"notify", "done"} /\ queue' = queue /\ reports = <<stop_reason>>
      BY <1>0, <1>11 DEF WaitReturn, HandlerProgress
    <2>2. CancelAsked /\ CancelAsked' /\ UNCHANGED CancelAsked
      BY <1>11 DEF WaitReturn
    <2>3. Running = "none" /\ Outcome # "none" /\ UNCHANGED <<Running, Outcome>>
      BY <1>0, <1>11, <2>1 DEF WaitReturn, TypeOK, Reasons
    <2>4. QED
      BY <1>11, <2>2, <2>3 DEF WaitReturn, Contract!ReturnFromCancel
  <1>12. CASE UNCHANGED vars
    BY <1>12 DEF vars
  <1>13. QED
    BY <1>1, <1>2, <1>3, <1>4, <1>5, <1>6, <1>7, <1>8, <1>9, <1>10, <1>11, <1>12
       DEF Next, Tick, Stop, Cancel, Contract!Next

(* The timer implements its contract.                                       *)
THEOREM TimerRefinement == Spec => ImplementsContract
  <1>1. Init => Contract!Init
    BY DEF Init, Contract!Init, Running, Outcome, CancelAsked
  <1>2. QED
    BY TimerInvariance, TimerStepRefines, <1>1, PTL DEF Spec, ImplementsContract, Contract!Spec

-----------------------------------------------------------------------------
(* GestureSerialization                                                    *)

Cells == 0 .. Cell - 1
Bytes == Seq(Cells)
Types == {"int32", "int64", "float", "double", "blob"}
Elements == [type : Types, value : Bytes]

(* What a reader may hold, and the writer may be given: the fields of an    *)
(* event, each with a value of its type's width.                            *)
IsMap(f) ==
  /\ f = [x \in DOMAIN f |-> f[x]] /\ DOMAIN f \subseteq 0 .. Cell \div 4 - 1
  /\ \A x \in DOMAIN f : f[x] \in Elements /\ Legal(f[x])

-----------------------------------------------------------------------------
(* Induction, by the least number that is left out.                         *)
LEMMA Induction ==
  ASSUME NEW S, S \subseteq Nat, 0 \in S, \A n \in S : n + 1 \in S
  PROVE  S = Nat
  <1> DEFINE T == Nat \ S
  <1> SUFFICES ASSUME T # {} PROVE FALSE
    OBVIOUS
  <1>1. PICK n \in T : \A m \in T : ~(<<m, n>> \in OpToRel(<, Nat))
    BY NatLessThanWellFounded, WFMin, Zenon
  <1>2. \A m \in T : ~(m < n)
    BY <1>1 DEF OpToRel
  <1>3. n - 1 \in S
    BY <1>2
  <1>4. QED
    BY <1>3

(* What is left of a sequence without its first n elements.                 *)
LEMMA DropFacts ==
  ASSUME NEW S, NEW d \in Seq(S), NEW n \in 0 .. Len(d)
  PROVE  /\ Drop(d, n) \in Seq(S) /\ Len(Drop(d, n)) = Len(d) - n
         /\ \A i \in 1 .. Len(d) - n : Drop(d, n)[i] = d[i + n]
  <1>1. \A i \in n + 1 .. Len(d) : d[i] \in S
    OBVIOUS
  <1>2. n + 1 \in Int /\ Len(d) \in Int
    OBVIOUS
  <1>3. QED
    BY <1>1, <1>2, SubSeqProperties DEF Drop

(* The first n elements of a sequence.                                      *)
LEMMA TakeFacts ==
  ASSUME NEW S, NEW d \in Seq(S), NEW n \in 0 .. Len(d)
  PROVE  /\ SubSeq(d, 1, n) \in Seq(S) /\ Len(SubSeq(d, 1, n)) = n
         /\ \A i \in 1 .. n : SubSeq(d, 1, n)[i] = d[i]
  <1>1. \A i \in 1 .. n : d[i] \in S
    OBVIOUS
  <1>2. QED
    BY <1>1, SubSeqProperties

(* What comes first is taken off.                                           *)
LEMMA DropConcat ==
  ASSUME NEW S, NEW s \in Seq(S), NEW t \in Seq(S)
  PROVE  SubSeq(s \o t, 1, Len(s)) = s /\ Drop(s \o t, Len(s)) = t
  <1>1. /\ s \o t \in Seq(S) /\ Len(s \o t) = Len(s) + Len(t)
        /\ \A i \in 1 .. Len(s) + Len(t) :
             (s \o t)[i] = IF i <= Len(s) THEN s[i] ELSE t[i - Len(s)]
    BY ConcatProperties
  <1>2. Len(s) \in Nat /\ Len(t) \in Nat /\ Len(s) \in 0 .. Len(s \o t)
    BY <1>1
  <1>3. SubSeq(s \o t, 1, Len(s)) = s
    <2>1. /\ SubSeq(s \o t, 1, Len(s)) \in Seq(S) /\ Len(SubSeq(s \o t, 1, Len(s))) = Len(s)
          /\ \A i \in 1 .. Len(s) : SubSeq(s \o t, 1, Len(s))[i] = (s \o t)[i]
      BY <1>1, <1>2, TakeFacts
    <2>2. \A i \in 1 .. Len(s) : SubSeq(s \o t, 1, Len(s))[i] = s[i]
      BY <1>1, <1>2, <2>1
    <2>3. QED
      BY <2>1, <2>2, SeqEqual
  <1>4. Drop(s \o t, Len(s)) = t
    <2>1. /\ Drop(s \o t, Len(s)) \in Seq(S) /\ Len(Drop(s \o t, Len(s))) = Len(t)
          /\ \A i \in 1 .. Len(t) : Drop(s \o t, Len(s))[i] = (s \o t)[i + Len(s)]
      <3> DEFINE w == s \o t
                 n == Len(s)
      <3>1. w \in Seq(S) /\ n \in 0 .. Len(w) /\ Len(w) - n = Len(t)
        BY <1>1, <1>2
      <3> HIDE DEF w, n
      <3>2. /\ Drop(w, n) \in Seq(S) /\ Len(Drop(w, n)) = Len(w) - n
            /\ \A i \in 1 .. Len(w) - n : Drop(w, n)[i] = w[i + n]
        BY <3>1, DropFacts
      <3>3. QED
        BY <3>1, <3>2 DEF w, n
    <2>2. \A i \in 1 .. Len(t) : Drop(s \o t, Len(s))[i] = t[i]
      BY <1>1, <1>2, <2>1
    <2>3. QED
      BY <2>1, <2>2, SeqEqual
  <1>5. QED
    BY <1>3, <1>4

(* A sequence is what was taken and what is left.                           *)
LEMMA TakeAndDrop ==
  ASSUME NEW S, NEW d \in Seq(S), NEW n \in 0 .. Len(d)
  PROVE  d = SubSeq(d, 1, n) \o Drop(d, n)
  <1>1. d = SubSeq(d, 1, Len(d))
    BY SubSeqFull
  <1>2. 1 \in 1 .. Len(d) + 1 /\ n \in 1 - 1 .. Len(d) /\ Len(d) \in n .. Len(d)
    OBVIOUS
  <1>3. SubSeq(d, 1, n) \o SubSeq(d, n + 1, Len(d)) = SubSeq(d, 1, Len(d))
    BY <1>2, ConcatAdjacentSubSeq
  <1>4. QED
    BY <1>1, <1>3 DEF Drop

(* Swapping the bytes twice, in the writer and in the reader, gives back    *)
(* the number.                                                              *)
LEMMA SwappedTwice ==
  ASSUME NEW type, NEW s \in Bytes
  PROVE  /\ Swapped(type, s) \in Bytes /\ Len(Swapped(type, s)) = Len(s)
         /\ Swapped(type, Swapped(type, s)) = s
  BY DEF Swapped, Reverse, Bytes

-----------------------------------------------------------------------------
(* FlattenSeq, by the pieces it has put together so far.                    *)
Flattening(g, s) == g = [i \in 1 .. Len(s) |-> IF i = 1 THEN s[i] ELSE g[i - 1] \o s[i]]

Extends(t, s) ==
  /\ Len(s) \in Nat /\ Len(t) \in Nat /\ Len(s) <= Len(t)
  /\ \A i \in 1 .. Len(s) : t[i] = s[i]

(* Any number of pieces can be put together.                                *)
LEMMA FlatteningExists ==
  ASSUME NEW S, NEW s \in Seq(Seq(S))
  PROVE  \E g : Flattening(g, s) /\ \A i \in 1 .. Len(s) : g[i] \in Seq(S)
  <1> DEFINE To(g, k) ==
        /\ g = [i \in 1 .. k |-> IF i = 1 THEN s[i] ELSE g[i - 1] \o s[i]]
        /\ \A i \in 1 .. k : g[i] \in Seq(S)
             N == {k \in Nat : k <= Len(s) => \E g : To(g, k)}
  <1> HIDE DEF To
  <1>1. 0 \in N
    <2>1. To([i \in 1 .. 0 |-> s[i]], 0)
      BY DEF To
    <2>2. QED
      BY <2>1
  <1>2. ASSUME NEW k \in N PROVE k + 1 \in N
    <2> SUFFICES ASSUME k + 1 <= Len(s) PROVE \E g : To(g, k + 1)
      OBVIOUS
    <2>1. k \in Nat /\ k + 1 \in 1 .. Len(s)
      OBVIOUS
    <2>2. PICK g : To(g, k)
      BY <2>1
    <2> DEFINE piece == IF k = 0 THEN s[1] ELSE g[k] \o s[k + 1]
               h == [i \in 1 .. k + 1 |-> IF i = k + 1 THEN piece ELSE g[i]]
    <2>3. piece \in Seq(S)
      <3>1. s[k + 1] \in Seq(S) /\ s[1] \in Seq(S)
        BY <2>1, ElementOfSeq
      <3>2. ASSUME k # 0 PROVE g[k] \in Seq(S)
        <4>1. k \in 1 .. k
          BY <2>1, <3>2
        <4>2. QED
          BY <2>2, <4>1 DEF To
      <3>3. QED
        BY <3>1, <3>2, ConcatProperties
    <2>4. \A i \in 1 .. k : g[i] = IF i = 1 THEN s[i] ELSE g[i - 1] \o s[i]
      BY <2>2 DEF To
    <2>5. ASSUME NEW i \in 1 .. k + 1
          PROVE  h[i] \in Seq(S) /\ h[i] = IF i = 1 THEN s[i] ELSE h[i - 1] \o s[i]
      <3>1. CASE i = k + 1
        <4>1. h[i] = piece /\ (k # 0 => h[i - 1] = g[k])
          BY <2>1, <3>1
        <4>2. QED
          BY <2>1, <2>3, <3>1, <4>1
      <3>2. CASE i # k + 1
        <4>1. i \in 1 .. k /\ h[i] = g[i] /\ (i # 1 => h[i - 1] = g[i - 1])
          BY <2>1, <3>2
        <4>2. QED
          BY <2>2, <2>4, <4>1 DEF To
      <3>3. QED
        BY <3>1, <3>2
    <2>6. To(h, k + 1)
      <3>1. h = [i \in 1 .. k + 1 |-> IF i = 1 THEN s[i] ELSE h[i - 1] \o s[i]]
        BY <2>5
      <3>2. QED
        BY <2>5, <3>1 DEF To
    <2>7. QED
      BY <2>6
  <1>3. N = Nat
    <2> HIDE DEF N
    <2>1. N \subseteq Nat
      BY DEF N
    <2>2. QED
      BY <1>1, <1>2, <2>1, Induction
  <1>4. PICK g : To(g, Len(s))
    <2>1. Len(s) \in N
      <3> HIDE DEF N
      <3>1. QED
        BY <1>3
    <2>2. QED
      BY <2>1
  <1>5. QED
    BY <1>4 DEF Flattening, To

(* The pieces put together depend only on the pieces there are.             *)
LEMMA FlatteningAgrees ==
  ASSUME NEW f, NEW t, Flattening(f, t), NEW g, NEW s, Flattening(g, s), Extends(t, s)
  PROVE  \A i \in 1 .. Len(s) : f[i] = g[i]
  <1> DEFINE N == {k \in Nat : k + 1 <= Len(s) => f[k + 1] = g[k + 1]}
  <1> USE DEF Extends
  <1>0. /\ \A i \in 1 .. Len(t) : f[i] = IF i = 1 THEN t[i] ELSE f[i - 1] \o t[i]
        /\ \A i \in 1 .. Len(s) : g[i] = IF i = 1 THEN s[i] ELSE g[i - 1] \o s[i]
    BY DEF Flattening
  <1>1. 0 \in N
    <2> SUFFICES ASSUME 1 <= Len(s) PROVE f[1] = g[1]
      OBVIOUS
    <2>1. 1 \in 1 .. Len(s) /\ 1 \in 1 .. Len(t)
      OBVIOUS
    <2>2. QED
      BY <1>0, <2>1
  <1>2. ASSUME NEW k \in N PROVE k + 1 \in N
    <2> SUFFICES ASSUME k + 2 <= Len(s) PROVE f[k + 2] = g[k + 2]
      OBVIOUS
    <2>1. k \in Nat /\ k + 2 \in 1 .. Len(s) /\ k + 2 \in 1 .. Len(t) /\ k + 2 # 1
          /\ (k + 2) - 1 = k + 1
      OBVIOUS
    <2>2. f[k + 1] = g[k + 1]
      BY <2>1
    <2>3. f[k + 2] = f[k + 1] \o t[k + 2] /\ g[k + 2] = g[k + 1] \o s[k + 2]
      BY <1>0, <2>1
    <2>4. QED
      BY <2>1, <2>2, <2>3
  <1>3. N = Nat
    <2> HIDE DEF N
    <2>1. N \subseteq Nat
      BY DEF N
    <2>2. QED
      BY <1>1, <1>2, <2>1, Induction
  <1>4. ASSUME NEW i \in 1 .. Len(s) PROVE f[i] = g[i]
    <2>1. i - 1 \in N
      <3> HIDE DEF N
      <3>1. QED
        BY <1>3
    <2>2. QED
      BY <2>1
  <1>5. QED
    BY <1>4

(* What FlattenSeq computes.                                                *)
LEMMA FlattenFacts ==
  ASSUME NEW S, NEW s \in Seq(Seq(S)), s # <<>>,
         NEW g, Flattening(g, s), \A i \in 1 .. Len(s) : g[i] \in Seq(S)
  PROVE  FlattenSeq(s) = g[Len(s)] /\ FlattenSeq(s) \in Seq(S)
  <1>1. Len(s) \in Nat \ {0}
    BY EmptySeq
  <1>2. g = [i \in 1 .. Len(s) |-> IF i = 1 THEN s[i] ELSE g[i - 1] \o s[i]]
    BY DEF Flattening
  <1>3. PICK f : /\ FlattenSeq(s) = f[Len(s)]
                 /\ f = [i \in 1 .. Len(s) |-> IF i = 1 THEN s[i] ELSE f[i - 1] \o s[i]]
    <2>1. Len(s) # 0
      BY <1>1
    <2>2. QED
      BY <1>2, <2>1, Zenon DEF FlattenSeq
  <1>4. Flattening(f, s)
    BY <1>3 DEF Flattening
  <1>5. Len(s) \in 1 .. Len(s) /\ Extends(s, s)
    BY <1>1 DEF Extends
  <1>6. f[Len(s)] = g[Len(s)]
    <2>1. \A i \in 1 .. Len(s) : f[i] = g[i]
      BY <1>4, <1>5, FlatteningAgrees
    <2>2. QED
      BY <1>5, <2>1
  <1>7. g[Len(s)] \in Seq(S)
    BY <1>5
  <1>8. QED
    BY <1>3, <1>6, <1>7

(* No pieces make nothing, and a piece that is added comes last.            *)
LEMMA FlattenAppend ==
  ASSUME NEW S, NEW s \in Seq(Seq(S)), NEW x \in Seq(S)
  PROVE  /\ FlattenSeq(<<>>) = <<>> /\ FlattenSeq(s) \in Seq(S)
         /\ FlattenSeq(Append(s, x)) = FlattenSeq(s) \o x
  <1>1. FlattenSeq(<<>>) = <<>>
    BY DEF FlattenSeq
  <1>2. PICK g : Flattening(g, s) /\ \A i \in 1 .. Len(s) : g[i] \in Seq(S)
    BY FlatteningExists
  <1>3. FlattenSeq(s) \in Seq(S)
    BY <1>1, <1>2, FlattenFacts, EmptySeq
  <1> DEFINE t == Append(s, x)
  <1>4. /\ t \in Seq(Seq(S)) /\ t # <<>> /\ Len(t) = Len(s) + 1 /\ Len(s) \in Nat
        /\ t[Len(s) + 1] = x /\ \A i \in 1 .. Len(s) : t[i] = s[i]
    BY AppendProperties, LenProperties
  <1> HIDE DEF t
  <1>5. PICK f : Flattening(f, t) /\ \A i \in 1 .. Len(t) : f[i] \in Seq(S)
    BY <1>4, FlatteningExists
  <1>6. FlattenSeq(t) = f[Len(s) + 1]
    BY <1>4, <1>5, FlattenFacts
  <1>7. FlattenSeq(t) = FlattenSeq(s) \o x
    <2>1. CASE s = <<>>
      <3>1. Len(s) = 0 /\ f[1] = t[1]
        BY <1>4, <1>5, <2>1, EmptySeq DEF Flattening
      <3>2. QED
        BY <1>1, <1>4, <1>6, <2>1, <3>1, ConcatEmptySeq
    <2>2. CASE s # <<>>
      <3>1. Len(s) \in Nat \ {0}
        BY <2>2, EmptySeq
      <3>2. FlattenSeq(s) = g[Len(s)]
        BY <1>2, <2>2, FlattenFacts
      <3>3. f[Len(s)] = g[Len(s)]
        <4>1. \A i \in 1 .. Len(s) : f[i] = g[i]
          <5>1. Extends(t, s)
            BY <1>4 DEF Extends
          <5>2. QED
            BY <1>2, <1>5, <5>1, FlatteningAgrees
        <4>2. QED
          BY <3>1, <4>1
      <3>4. f[Len(s) + 1] = f[Len(s)] \o t[Len(s) + 1]
        <4>1. Len(s) + 1 \in 1 .. Len(t) /\ Len(s) + 1 # 1 /\ (Len(s) + 1) - 1 = Len(s)
          BY <1>4, <3>1
        <4>2. QED
          BY <1>5, <4>1 DEF Flattening
      <3>5. QED
        BY <1>4, <1>6, <3>2, <3>3, <3>4
    <2>3. QED
      BY <2>1, <2>2
  <1>8. QED
    BY <1>1, <1>3, <1>7 DEF t

(* One more piece in the second of two runs of them.                        *)
LEMMA FlattenConcatAppend ==
  ASSUME NEW S, NEW s \in Seq(Seq(S)), NEW v \in Seq(Seq(S)), NEW x \in Seq(S),
         FlattenSeq(s \o v) = FlattenSeq(s) \o FlattenSeq(v)
  PROVE  FlattenSeq(s \o Append(v, x)) = FlattenSeq(s) \o FlattenSeq(Append(v, x))
  <1>1. s \o Append(v, x) = Append(s \o v, x) /\ s \o v \in Seq(Seq(S))
    <2>1. <<x>> \in Seq(Seq(S))
      OBVIOUS
    <2>2. Append(v, x) = v \o <<x>>
      BY AppendIsConcat
    <2>6. (s \o v) \o <<x>> = s \o (v \o <<x>>)
      BY <2>1, ConcatAssociative
    <2>3. s \o v \in Seq(Seq(S))
      BY ConcatProperties
    <2>4. Append(s \o v, x) = (s \o v) \o <<x>>
      BY <2>3, AppendIsConcat
    <2>5. QED
      BY <2>2, <2>3, <2>4, <2>6
  <1>2. FlattenSeq(Append(s \o v, x)) = FlattenSeq(s \o v) \o x
    BY <1>1, FlattenAppend
  <1>3. FlattenSeq(Append(v, x)) = FlattenSeq(v) \o x
    BY FlattenAppend
  <1> DEFINE a == FlattenSeq(s)
             b == FlattenSeq(v)
  <1>4. a \in Seq(S) /\ b \in Seq(S)
    BY FlattenAppend
  <1> HIDE DEF a, b
  <1>5. (a \o b) \o x = a \o (b \o x)
    BY <1>4, ConcatAssociative
  <1>6. QED
    BY <1>1, <1>2, <1>3, <1>5 DEF a, b

(* What two runs of pieces make follows one another.                        *)
LEMMA FlattenConcat ==
  ASSUME NEW S, NEW s \in Seq(Seq(S)), NEW t \in Seq(Seq(S))
  PROVE  FlattenSeq(s \o t) = FlattenSeq(s) \o FlattenSeq(t)
  <1> DEFINE Holds(u) == FlattenSeq(s \o u) = FlattenSeq(s) \o FlattenSeq(u)
             N == {k \in Nat : \A u \in Seq(Seq(S)) : Len(u) = k => Holds(u)}
  <1>1. 0 \in N
    <2> SUFFICES ASSUME NEW u \in Seq(Seq(S)), Len(u) = 0 PROVE Holds(u)
      OBVIOUS
    <2>1. u = <<>>
      BY EmptySeq
    <2>2. FlattenSeq(<<>>) = <<>> /\ FlattenSeq(s) \in Seq(S)
      BY FlattenAppend, EmptySeq
    <2>3. s \o <<>> = s /\ FlattenSeq(s) \o <<>> = FlattenSeq(s)
      BY <2>2, ConcatEmptySeq
    <2>4. QED
      BY <2>1, <2>2, <2>3
  <1>2. ASSUME NEW k \in N PROVE k + 1 \in N
    <2> SUFFICES ASSUME NEW u \in Seq(Seq(S)), Len(u) = k + 1 PROVE Holds(u)
      OBVIOUS
    <2>1. k \in Nat /\ u # <<>>
      BY EmptySeq
    <2>2. PICK v \in Seq(Seq(S)), x \in Seq(S) : u = Append(v, x)
      BY <2>1, SequenceEmptyOrAppend
    <2>3. Len(v) = k
      BY <2>1, <2>2, AppendProperties, LenProperties
    <2>4. FlattenSeq(s \o v) = FlattenSeq(s) \o FlattenSeq(v)
      BY <2>3
    <2> HIDE DEF N
    <2>5. FlattenSeq(s \o Append(v, x)) = FlattenSeq(s) \o FlattenSeq(Append(v, x))
      BY <2>4, FlattenConcatAppend
    <2>6. QED
      BY <2>2, <2>5
  <1>3. N = Nat
    <2> HIDE DEF N
    <2>1. N \subseteq Nat
      BY DEF N
    <2>2. QED
      BY <1>1, <1>2, <2>1, Induction
  <1>4. Len(t) \in N
    <2> HIDE DEF N
    <2>1. QED
      BY <1>3, LenProperties
  <1>5. QED
    BY <1>4

(* A piece alone is what it makes.                                          *)
LEMMA FlattenOne ==
  ASSUME NEW S, NEW x \in Seq(S)
  PROVE  <<x>> \in Seq(Seq(S)) /\ FlattenSeq(<<x>>) = x
  <1>1. <<>> \in Seq(Seq(S)) /\ <<>> \o x = x
    BY EmptySeq, ConcatEmptySeq
  <1>2. Append(<<>>, x) = <<x>>
    OBVIOUS
  <1>3. FlattenSeq(Append(<<>>, x)) = x
    BY <1>1, FlattenAppend
  <1>4. QED
    BY <1>2, <1>3

-----------------------------------------------------------------------------
(* Half of the values of a cell, and a quarter of them.                     *)
LEMMA CellFacts ==
  /\ Cell \in Nat /\ Cell \div 4 \in Nat \ {0} /\ 4 * (Cell \div 4) = Cell
  /\ Cell \div 2 \in Nat /\ 2 * (Cell \div 2) = Cell /\ 12 < Cell \div 2
  BY SerializationAssumption

(* What a 16-bit word of a tag and a field gives.                           *)
LEMMA WordFacts ==
  /\ \A f \in 0 .. Cell \div 4 - 1 : \A t \in {0, 1, 3} :
       /\ (t * (Cell \div 4) + f) \div (Cell \div 4) = t
       /\ (t * (Cell \div 4) + f) % (Cell \div 4) = f
       /\ f % (Cell \div 4) = f /\ t * (Cell \div 4) + f \in Cells
  /\ \A c \in Cells :
       /\ c \div (Cell \div 4) \in 0 .. 3 /\ c % (Cell \div 4) \in 0 .. Cell \div 4 - 1
       /\ c = (c \div (Cell \div 4)) * (Cell \div 4) + (c % (Cell \div 4))
       /\ (c % (Cell \div 4)) % (Cell \div 4) = c % (Cell \div 4)
  <1> DEFINE q == Cell \div 4
  <1>1. Cell \in Nat /\ q \in Nat \ {0} /\ 4 * q = Cell
    BY CellFacts
  <1> HIDE DEF q
  <1>2. ASSUME NEW f \in 0 .. q - 1, NEW t \in {0, 1, 3}
        PROVE  /\ (t * q + f) \div q = t /\ (t * q + f) % q = f
               /\ f % q = f /\ t * q + f \in Cells
    <2>1. (t * q + f) \div q = t
      BY <1>1
    <2>2. (t * q + f) % q = f
      BY <1>1
    <2>3. f % q = f
      BY <1>1
    <2>4. t * q + f \in Cells
      BY <1>1 DEF Cells
    <2>5. QED
      BY <2>1, <2>2, <2>3, <2>4
  <1>3. ASSUME NEW c \in Cells
        PROVE  /\ c \div q \in 0 .. 3 /\ c % q \in 0 .. q - 1
               /\ c = (c \div q) * q + (c % q) /\ (c % q) % q = c % q
    <2>1. c \div q \in 0 .. 3
      BY <1>1 DEF Cells
    <2>2. c % q \in 0 .. q - 1
      BY <1>1 DEF Cells
    <2>3. c = (c \div q) * q + (c % q)
      BY <1>1 DEF Cells
    <2>4. (c % q) % q = c % q
      <3> DEFINE r == c % q
      <3>1. r \in 0 .. q - 1
        BY <2>2
      <3> HIDE DEF r
      <3>2. r % q = r
        BY <1>1, <3>1
      <3>3. QED
        BY <3>2 DEF r
    <2>5. QED
      BY <2>1, <2>2, <2>3, <2>4
  <1>4. QED
    BY <1>1, <1>2, <1>3 DEF q

(* The size of a blob that may be written is read as it is, and any other   *)
(* size that is read for a blob is no more than zero, or one.               *)
LEMMA SizeFacts ==
  /\ 1 \in Cells /\ 2 \in Cells
  /\ \A n \in 0 .. Cell \div 2 - 1 : (n % Cell) = n /\ n \in Cells /\ Int16(n) = n
  /\ \A n \in Cells : Int16(n) > 0 => n \in 1 .. Cell \div 2 - 1 /\ Int16(n) = n
  <1> DEFINE half == Cell \div 2
  <1>1. Cell \in Nat /\ half \in Nat /\ 2 * half = Cell /\ 10 < half
    BY CellFacts
  <1> HIDE DEF half
  <1>2. 1 \in Cells /\ 2 \in Cells
    BY <1>1 DEF Cells
  <1>3. ASSUME NEW n \in 0 .. half - 1
        PROVE  (n % Cell) = n /\ n \in Cells /\ Int16(n) = n
    <2>1. n \in 0 .. Cell - 1 /\ ~(n >= half)
      BY <1>1
    <2>2. (n % Cell) = n
      BY <1>1, <2>1
    <2>3. QED
      BY <2>1, <2>2 DEF Int16, Cells, half
  <1>4. ASSUME NEW n \in Cells, Int16(n) > 0
        PROVE  n \in 1 .. half - 1 /\ Int16(n) = n
    <2>1. ~(n >= half)
      BY <1>1, <1>4 DEF Int16, Cells, half
    <2>2. Int16(n) = n
      BY <2>1 DEF Int16, half
    <2>3. QED
      BY <1>1, <1>4, <2>1, <2>2 DEF Cells
  <1>5. QED
    BY <1>2, <1>3, <1>4 DEF half

(* A record: its header, and what follows it.                               *)
LEMMA RecordParts ==
  ASSUME NEW field \in 0 .. Cell \div 4 - 1, NEW e \in Elements, Legal(e)
  PROVE  LET p == WriteField(field, e) IN
         /\ p \in Bytes /\ Len(p) = Len(e.value) + 2 /\ Len(e.value) \in Nat \ {0}
         /\ p[1] = SizeOf(e) /\ p[1] \in Cells
         /\ p[2] = TagOf(e) * (Cell \div 4) + field /\ p[2] \in Cells
         /\ TagOf(e) \in {0, 1, 3}
         /\ SubSeq(p, 3, Len(p)) = Swapped(e.type, e.value)
  <1> DEFINE p == WriteField(field, e)
             head == <<SizeOf(e), TagOf(e) * (Cell \div 4) + (field % (Cell \div 4))>>
             tail == Swapped(e.type, e.value)
  <1>1. e.value \in Bytes /\ e.type \in Types
    BY DEF Elements
  <1>2. Len(e.value) \in Nat \ {0} /\ (e.type = "blob" => Len(e.value) \in 2 .. Cell \div 2 - 1)
    BY <1>1, SerializationAssumption DEF Legal, Types
  <1>3. SizeOf(e) \in Cells
    <2>1. CASE e.type = "blob"
      <3>1. Len(e.value) \in 0 .. Cell \div 2 - 1
        BY <1>2, <2>1, CellFacts
      <3>2. (Len(e.value) % Cell) \in Cells
        BY <3>1, SizeFacts
      <3>3. QED
        BY <2>1, <3>2 DEF SizeOf
    <2>2. CASE e.type # "blob"
      BY <2>2, SizeFacts DEF SizeOf
    <2>3. QED
      BY <2>1, <2>2
  <1>4. TagOf(e) \in {0, 1, 3}
    BY DEF TagOf
  <1>5. /\ TagOf(e) * (Cell \div 4) + (field % (Cell \div 4)) \in Cells
        /\ field % (Cell \div 4) = field
    BY <1>4, WordFacts
  <1>6. head \in Bytes /\ Len(head) = 2 /\ head[1] = SizeOf(e)
        /\ head[2] = TagOf(e) * (Cell \div 4) + field
    BY <1>3, <1>5 DEF Bytes
  <1>7. tail \in Bytes /\ Len(tail) = Len(e.value)
    BY <1>1, SwappedTwice
  <1>8. p = head \o tail
    BY DEF WriteField
  <1> HIDE DEF p, head, tail
  <1>9. /\ p \in Bytes /\ Len(p) = Len(e.value) + 2
        /\ p[1] = head[1] /\ p[2] = head[2]
    <2>5. head \in Seq(Cells) /\ tail \in Seq(Cells)
      BY <1>6, <1>7 DEF Bytes
    <2>1. /\ head \o tail \in Seq(Cells) /\ Len(head \o tail) = Len(head) + Len(tail)
          /\ \A i \in 1 .. Len(head) + Len(tail) :
               (head \o tail)[i] = IF i <= Len(head) THEN head[i] ELSE tail[i - Len(head)]
      BY <2>5, ConcatProperties
    <2>2. 1 \in 1 .. Len(head) + Len(tail) /\ 2 \in 1 .. Len(head) + Len(tail)
      BY <1>2, <1>6, <1>7
    <2>3. Len(p) = Len(e.value) + 2
      BY <1>2, <1>6, <1>7, <1>8, <2>1
    <2>4. QED
      BY <1>6, <1>8, <2>1, <2>2, <2>3 DEF Bytes
  <1>10. Drop(p, 2) = tail
    BY <1>6, <1>7, <1>8, DropConcat DEF Bytes
  <1>11. SubSeq(p, 3, Len(p)) = tail
    BY <1>10 DEF Drop
  <1>12. QED
    BY <1>2, <1>3, <1>4, <1>5, <1>6, <1>9, <1>11 DEF p, tail

(* Of a record that may be written, the reader is told the type and the     *)
(* length it has.                                                           *)
LEMMA RecordAnnounced ==
  ASSUME NEW field \in 0 .. Cell \div 4 - 1, NEW e \in Elements, Legal(e),
         NEW d, d[1] = SizeOf(e), d[2] = TagOf(e) * (Cell \div 4) + field
  PROVE  /\ Header(d).field = field
         /\ Announced(Header(d)) = [type |-> e.type, cells |-> Len(e.value)]
  <1>1. /\ Header(d).field = field /\ Header(d).tag = TagOf(e)
        /\ Header(d).size = SizeOf(e)
    <2>1. TagOf(e) \in {0, 1, 3}
      BY DEF TagOf
    <2>2. QED
      BY <2>1, WordFacts DEF Header
  <1>2. e.type \in Types /\ Len(e.value) \in Nat
    BY DEF Elements, Bytes
  <1>3. CASE e.type = "blob"
    <2>1. Len(e.value) \in 2 .. Cell \div 2 - 1
      BY <1>3 DEF Legal
    <2>2. (Len(e.value) % Cell) = Len(e.value) /\ Int16(Len(e.value)) = Len(e.value)
      <3>1. Len(e.value) \in 0 .. Cell \div 2 - 1
        BY <2>1, CellFacts
      <3>2. QED
        BY <3>1, SizeFacts
    <2>3. SizeOf(e) = Len(e.value) /\ TagOf(e) = 0
      BY <1>3, <2>2 DEF SizeOf, TagOf
    <2>4. Int16(SizeOf(e)) = Len(e.value)
      BY <2>2, <2>3
    <2>5. QED
      BY <1>1, <1>3, <2>1, <2>3, <2>4 DEF Announced
  <1>4. CASE e.type = "int64"
    <2>1. SizeOf(e) = 1 /\ TagOf(e) = 0 /\ Int16(1) = 1 /\ Len(e.value) = Wide
      <3>1. 1 \in 0 .. Cell \div 2 - 1
        BY CellFacts
      <3>2. QED
        BY <1>4, <3>1, SizeFacts DEF SizeOf, TagOf, Legal
    <2>2. QED
      BY <1>1, <1>4, <2>1 DEF Announced
  <1>5. CASE e.type = "int32"
    BY <1>1, <1>5 DEF SizeOf, TagOf, Legal, Announced
  <1>6. CASE e.type = "float"
    BY <1>1, <1>6 DEF SizeOf, TagOf, Legal, Announced
  <1>7. CASE e.type = "double"
    BY <1>1, <1>7 DEF SizeOf, TagOf, Legal, Announced
  <1>8. QED
    BY <1>2, <1>3, <1>4, <1>5, <1>6, <1>7 DEF Types

(* What is told of a record that the reader accepts fits a value that may   *)
(* be written, with this header.                                            *)
LEMMA AnnouncedLegal ==
  ASSUME NEW d \in Bytes, Len(d) >= 2, Announced(Header(d)).cells \in Nat \ {0},
         NEW v \in Bytes, Len(v) = Announced(Header(d)).cells
  PROVE  LET e == [type |-> Announced(Header(d)).type, value |-> v] IN
         /\ Header(d).field \in 0 .. Cell \div 4 - 1
         /\ e \in Elements /\ Legal(e)
         /\ d[1] = SizeOf(e) /\ d[2] = TagOf(e) * (Cell \div 4) + Header(d).field
  <1> DEFINE h == Header(d)
             a == Announced(h)
             e == [type |-> a.type, value |-> v]
  <1>1. d[1] \in Cells /\ d[2] \in Cells
    BY DEF Bytes
  <1>2. /\ h.size = d[1] /\ h.field \in 0 .. Cell \div 4 - 1
        /\ d[2] = h.tag * (Cell \div 4) + h.field /\ h.tag \in 0 .. 3
    BY <1>1, WordFacts DEF Header
  <1> HIDE DEF h
  <1>3. CASE h.tag = 0 /\ Int16(h.size) = 1
    <2>1. a = [type |-> "int64", cells |-> Wide] /\ h.size = 1
      <3>1. Int16(h.size) > 0
        BY <1>3
      <3>2. Int16(h.size) = h.size
        BY <1>1, <1>2, <3>1, SizeFacts
      <3>3. QED
        BY <1>3, <3>2 DEF Announced
    <2>2. QED
      BY <1>2, <1>3, <2>1 DEF Elements, Types, Legal, SizeOf, TagOf, h
  <1>4. CASE h.tag = 0 /\ Int16(h.size) > 1
    <2>1. a = [type |-> "blob", cells |-> h.size] /\ h.size \in 2 .. Cell \div 2 - 1
      <3>1. Int16(h.size) \in Int
        BY <1>1, <1>2, CellFacts DEF Int16, Cells
      <3>2. Int16(h.size) = h.size /\ h.size \in 1 .. Cell \div 2 - 1
        BY <1>1, <1>2, <1>4, <3>1, SizeFacts
      <3>3. Int16(h.size) # 1
        BY <1>4, <3>1
      <3>4. h.size \in 2 .. Cell \div 2 - 1
        BY <1>4, <3>2, CellFacts
      <3>5. QED
        BY <1>4, <3>3, <3>4 DEF Announced
    <2>2. (h.size % Cell) = h.size
      <3>1. h.size \in 0 .. Cell \div 2 - 1
        BY <2>1, CellFacts
      <3>2. QED
        BY <3>1, SizeFacts
    <2>3. QED
      BY <1>2, <1>4, <2>1, <2>2 DEF Elements, Types, Legal, SizeOf, TagOf, h
  <1>5. CASE h.tag = 1 /\ h.size = 1
    <2>1. a = [type |-> "int32", cells |-> Narrow]
      BY <1>5 DEF Announced
    <2>2. QED
      BY <1>2, <1>5, <2>1 DEF Elements, Types, Legal, SizeOf, TagOf, h
  <1>6. CASE h.tag = 3 /\ h.size = 1
    <2>1. a = [type |-> "float", cells |-> Narrow]
      BY <1>6 DEF Announced
    <2>2. QED
      BY <1>2, <1>6, <2>1 DEF Elements, Types, Legal, SizeOf, TagOf, h
  <1>7. CASE h.tag = 3 /\ h.size = 2
    <2>1. a = [type |-> "double", cells |-> Wide]
      BY <1>7 DEF Announced
    <2>2. QED
      BY <1>2, <1>7, <2>1 DEF Elements, Types, Legal, SizeOf, TagOf, h
  <1>8. CASE /\ ~(h.tag = 0 /\ Int16(h.size) = 1) /\ ~(h.tag = 0 /\ Int16(h.size) > 1)
             /\ ~(h.tag = 1 /\ h.size = 1) /\ ~(h.tag = 3 /\ h.size = 1)
             /\ ~(h.tag = 3 /\ h.size = 2)
    <2>1. a.cells = 0
      BY <1>8 DEF Announced
    <2>2. QED
      BY <2>1 DEF h
  <1>9. QED
    BY <1>3, <1>4, <1>5, <1>6, <1>7, <1>8

-----------------------------------------------------------------------------
(* What the reader does with the record at the head of d.                   *)
Accepts(d) == Len(d) >= 2 /\ Announced(Header(d)).cells \in 1 .. Len(d) - 2
Length(d) == 2 + Announced(Header(d)).cells
Record(d) ==
  [field |-> Header(d).field,
   e |-> [type |-> Announced(Header(d)).type,
          value |-> Swapped(Announced(Header(d)).type, SubSeq(d, 3, Length(d)))]]

(* The payload of the first k cells.                                        *)
LEMMA PayloadFacts ==
  ASSUME NEW d \in Bytes, NEW k \in 2 .. Len(d)
  PROVE  /\ SubSeq(d, 3, k) \in Bytes /\ Len(SubSeq(d, 3, k)) = k - 2
         /\ \A i \in 1 .. k - 2 : SubSeq(d, 3, k)[i] = d[i + 2]
         /\ Drop(SubSeq(d, 1, k), 2) = SubSeq(d, 3, k)
  <1>1. /\ SubSeq(d, 3, k) \in Seq(Cells) /\ Len(SubSeq(d, 3, k)) = k - 2
        /\ \A i \in 1 .. k - 2 : SubSeq(d, 3, k)[i] = d[i + 2]
    <2>1. \A i \in 3 .. k : d[i] \in Cells
      BY DEF Bytes
    <2>2. 3 \in Int /\ k \in Int
      OBVIOUS
    <2>3. /\ SubSeq(d, 3, k) \in Seq(Cells)
          /\ Len(SubSeq(d, 3, k)) = IF 3 <= k THEN k - 3 + 1 ELSE 0
          /\ \A i \in 1 .. k - 3 + 1 : SubSeq(d, 3, k)[i] = d[3 + i - 1]
      BY <2>1, <2>2, SubSeqProperties
    <2>4. QED
      BY <2>3
  <1> DEFINE p == SubSeq(d, 1, k)
  <1>2. p \in Seq(Cells) /\ Len(p) = k /\ \A i \in 1 .. k : p[i] = d[i]
    BY TakeFacts DEF Bytes
  <1> HIDE DEF p
  <1>3. /\ Drop(p, 2) \in Seq(Cells) /\ Len(Drop(p, 2)) = k - 2
        /\ \A i \in 1 .. k - 2 : Drop(p, 2)[i] = p[i + 2]
    <2>1. 2 \in 0 .. Len(p)
      BY <1>2
    <2>2. QED
      BY <1>2, <2>1, DropFacts
  <1>4. Drop(p, 2) = SubSeq(d, 3, k)
    <2>1. \A i \in 1 .. k - 2 : Drop(p, 2)[i] = SubSeq(d, 3, k)[i]
      BY <1>1, <1>2, <1>3
    <2>2. QED
      BY <1>1, <1>3, <2>1, SeqEqual
  <1>5. QED
    BY <1>1, <1>4 DEF p, Bytes

(* What the reader takes for a record is what the writer writes for it.     *)
LEMMA RecordRead ==
  ASSUME NEW d \in Bytes, Accepts(d)
  PROVE  /\ Length(d) \in 3 .. Len(d)
         /\ Record(d).field \in 0 .. Cell \div 4 - 1
         /\ Record(d).e \in Elements /\ Legal(Record(d).e)
         /\ WriteField(Record(d).field, Record(d).e) = SubSeq(d, 1, Length(d))
  <1> DEFINE a == Announced(Header(d))
             k == Length(d)
             payload == SubSeq(d, 3, k)
             v == Swapped(a.type, payload)
             field == Header(d).field
             e == [type |-> a.type, value |-> v]
             p == WriteField(field, e)
             q == SubSeq(d, 1, k)
  <1>1. a.cells \in Nat \ {0} /\ k = 2 + a.cells /\ k \in 3 .. Len(d) /\ Len(d) \in Nat
        /\ Len(d) >= 2
    BY DEF Accepts, Length, Bytes
  <1>2. payload \in Bytes /\ Len(payload) = a.cells
        /\ \A i \in 1 .. k - 2 : payload[i] = d[i + 2]
    <2>1. k \in 2 .. Len(d) /\ k - 2 = a.cells
      BY <1>1
    <2> HIDE DEF k, a
    <2>2. QED
      BY <2>1, PayloadFacts
  <1>3. v \in Bytes /\ Len(v) = a.cells /\ Swapped(a.type, v) = payload
    BY <1>2, SwappedTwice
  <1>4. /\ field \in 0 .. Cell \div 4 - 1 /\ e \in Elements /\ Legal(e)
        /\ d[1] = SizeOf(e) /\ d[2] = TagOf(e) * (Cell \div 4) + field
    <2> HIDE DEF v
    <2>1. QED
      BY <1>1, <1>3, AnnouncedLegal
  <1>5. Record(d) = [field |-> field, e |-> e]
    BY DEF Record
  <1>6. e.value = v /\ e.type = a.type
    OBVIOUS
  <1> HIDE DEF a, k, payload, v, field, e, p, q
  <1>7. /\ p \in Bytes /\ Len(p) = k /\ p[1] = d[1] /\ p[2] = d[2]
        /\ SubSeq(p, 3, Len(p)) = payload
    BY <1>1, <1>3, <1>4, <1>6, RecordParts DEF p
  <1>8. q \in Seq(Cells) /\ Len(q) = k /\ \A i \in 1 .. k : q[i] = d[i]
    <2>1. k \in 0 .. Len(d)
      BY <1>1
    <2>2. QED
      BY <2>1, TakeFacts DEF Bytes, q
  <1>9. ASSUME NEW i \in 1 .. Len(p) PROVE p[i] = q[i]
    <2>1. CASE i \in {1, 2}
      BY <1>7, <1>8, <2>1
    <2>2. CASE i \notin {1, 2}
      <3>1. i - 2 \in 1 .. k - 2 /\ i \in 1 .. k /\ (i - 2) + 2 = i
        BY <1>1, <1>7, <2>2
      <3>2. payload[i - 2] = d[i]
        BY <1>2, <3>1
      <3>3. SubSeq(p, 3, k)[i - 2] = p[i]
        <4>1. k \in 2 .. Len(p)
          BY <1>1, <1>7
        <4>2. QED
          BY <1>7, <3>1, <4>1, PayloadFacts
      <3>4. QED
        BY <1>7, <1>8, <3>1, <3>2, <3>3
    <2>3. QED
      BY <2>1, <2>2
  <1>10. p = q
    BY <1>7, <1>8, <1>9, SeqEqual DEF Bytes
  <1>11. QED
    BY <1>1, <1>4, <1>5, <1>10 DEF k, p, q

(* The first k cells are a record if and only if the reader takes them for  *)
(* one, and then it reads what was written.                                 *)
LEMMA WrittenFacts ==
  ASSUME NEW d \in Bytes, NEW k \in 3 .. Len(d)
  PROVE  Written(SubSeq(d, 1, k)) =
           IF Accepts(d) /\ k = Length(d) THEN {Record(d)} ELSE {}
  <1> DEFINE p == SubSeq(d, 1, k)
             payload == SubSeq(d, 3, k)
  <1>1. /\ p \in Bytes /\ Len(p) = k /\ p[1] = d[1] /\ p[2] = d[2]
        /\ p[2] \in Cells /\ k \in Nat /\ k >= 3 /\ Len(d) \in Nat /\ k <= Len(d)
    <2>1. k \in 0 .. Len(d) /\ 1 \in 1 .. k /\ 2 \in 1 .. k /\ Len(d) \in Nat
      BY DEF Bytes
    <2>2. p \in Seq(Cells) /\ Len(p) = k /\ \A i \in 1 .. k : p[i] = d[i]
      BY <2>1, TakeFacts DEF Bytes
    <2> HIDE DEF p
    <2>3. p[2] \in Cells
      BY <2>1, <2>2
    <2>4. QED
      BY <2>1, <2>2, <2>3 DEF Bytes
  <1>2. payload \in Bytes /\ Len(payload) = k - 2 /\ Drop(p, 2) = payload
    <2>1. k \in 2 .. Len(d)
      BY <1>1
    <2>2. QED
      BY <2>1, PayloadFacts
  <1> HIDE DEF p, payload
  <1>3. ASSUME NEW w \in Written(p)
        PROVE  Accepts(d) /\ k = Length(d) /\ w = Record(d)
    <2>1. PICK t \in Types :
            w = [field |-> p[2] % (Cell \div 4), e |-> [type |-> t, value |-> Swapped(t, payload)]]
      BY <1>2 DEF Written, Types
    <2>2. Legal(w.e) /\ WriteField(w.field, w.e) = p
      BY DEF Written
    <2>3. Swapped(t, payload) \in Bytes /\ Len(Swapped(t, payload)) = k - 2
      BY <1>2, SwappedTwice
    <2>4. w.e \in Elements /\ w.e.type = t /\ w.e.value = Swapped(t, payload)
      BY <2>1, <2>3 DEF Elements
    <2>5. w.field \in 0 .. Cell \div 4 - 1
      BY <1>1, <2>1, WordFacts
    <2>6. d[1] = SizeOf(w.e) /\ d[2] = TagOf(w.e) * (Cell \div 4) + w.field
      BY <1>1, <2>2, <2>4, <2>5, RecordParts
    <2>7. /\ Header(d).field = w.field
          /\ Announced(Header(d)) = [type |-> w.e.type, cells |-> Len(w.e.value)]
      BY <2>2, <2>4, <2>5, <2>6, RecordAnnounced
    <2>8. Length(d) = k /\ Accepts(d)
      BY <1>1, <2>3, <2>4, <2>7 DEF Length, Accepts
    <2>9. Record(d) = [field |-> w.field, e |-> [type |-> t, value |-> Swapped(t, payload)]]
      BY <2>4, <2>7, <2>8 DEF Record, payload
    <2>10. QED
      BY <2>1, <2>8, <2>9
  <1>4. ASSUME Accepts(d), k = Length(d) PROVE Record(d) \in Written(p)
    <2>1. /\ Record(d).e \in Elements /\ Legal(Record(d).e)
          /\ WriteField(Record(d).field, Record(d).e) = p
      BY <1>4, RecordRead DEF p
    <2>2. PICK t \in Types : t = Record(d).e.type
      BY <2>1 DEF Elements
    <2>3. Record(d) = [field |-> p[2] % (Cell \div 4),
                       e |-> [type |-> t, value |-> Swapped(t, Drop(p, 2))]]
      BY <1>1, <1>2, <1>4, <2>2 DEF Record, Header, payload
    <2>4. QED
      BY <2>1, <2>2, <2>3 DEF Written, Types
  <1>5. QED
    BY <1>3, <1>4 DEF p

-----------------------------------------------------------------------------
(* The last n cells of d begin with a record, or hold nothing.              *)
LEMMA FirstRecordFacts ==
  ASSUME NEW d \in Bytes, NEW n \in 1 .. Len(d), NEW from,
         NEW tail, tail = Drop(d, Len(d) - n)
  PROVE  FirstRecord(d, n, from) =
           IF Accepts(tail) THEN {Before(Record(tail), f) : f \in from[n - Length(tail)]}
           ELSE {}
  <1> DEFINE piece(k) == SubSeq(d, Len(d) - n + 1, Len(d) - n + k)
  <1>1. Len(d) \in Nat /\ n \in Nat /\ Len(d) - n \in 0 .. Len(d)
    BY DEF Bytes
  <1>2. /\ tail \in Bytes /\ Len(tail) = n
        /\ \A i \in 1 .. n : tail[i] = d[i + (Len(d) - n)]
    <2>1. Len(d) - (Len(d) - n) = n
      BY <1>1
    <2>2. QED
      BY <1>1, <2>1, DropFacts DEF Bytes
  <1>3. ASSUME NEW k \in 3 .. n PROVE piece(k) = SubSeq(tail, 1, k)
    <2>1. k \in 0 .. Len(tail) /\ k \in Nat
      BY <1>1, <1>2
    <2>2. /\ SubSeq(tail, 1, k) \in Seq(Cells) /\ Len(SubSeq(tail, 1, k)) = k
          /\ \A i \in 1 .. k : SubSeq(tail, 1, k)[i] = tail[i]
      BY <1>2, <2>1, TakeFacts DEF Bytes
    <2>3. /\ piece(k) \in Seq(Cells) /\ Len(piece(k)) = k
          /\ \A i \in 1 .. k : piece(k)[i] = d[i + (Len(d) - n)]
      <3> DEFINE a == Len(d) - n + 1
                 b == Len(d) - n + k
      <3>1. a \in Int /\ b \in Int /\ a <= b /\ b - a + 1 = k
            /\ \A i \in a .. b : d[i] \in Cells
        BY <1>1, <2>1 DEF Bytes
      <3>2. \A i \in 1 .. k : a + i - 1 = i + (Len(d) - n)
        BY <1>1
      <3> HIDE DEF a, b
      <3>3. /\ SubSeq(d, a, b) \in Seq(Cells)
            /\ Len(SubSeq(d, a, b)) = IF a <= b THEN b - a + 1 ELSE 0
            /\ \A i \in 1 .. b - a + 1 : SubSeq(d, a, b)[i] = d[a + i - 1]
        BY <3>1, SubSeqProperties
      <3>4. QED
        BY <3>1, <3>2, <3>3 DEF a, b
    <2> HIDE DEF piece
    <2>4. ASSUME NEW i \in 1 .. k PROVE piece(k)[i] = SubSeq(tail, 1, k)[i]
      <3>1. i \in 1 .. n
        BY <1>1, <2>1
      <3>2. QED
        BY <1>2, <2>2, <2>3, <3>1
    <2>5. QED
      BY <2>2, <2>3, <2>4, SeqEqual
  <1>4. ASSUME NEW k \in 3 .. n
        PROVE  Written(piece(k)) =
                 IF Accepts(tail) /\ k = Length(tail) THEN {Record(tail)} ELSE {}
    <2>1. k \in 3 .. Len(tail)
      BY <1>2
    <2>2. QED
      BY <1>2, <1>3, <2>1, WrittenFacts
  <1>5. FirstRecord(d, n, from) =
          UNION {{Before(w, f) : f \in from[n - k], w \in Written(piece(k))} : k \in 3 .. n}
    BY DEF FirstRecord
  <1> HIDE DEF piece
  <1>6. CASE Accepts(tail)
    <2>1. Length(tail) \in 3 .. n
      BY <1>2, <1>6, RecordRead
    <2>3. ASSUME NEW k \in 3 .. n, k # Length(tail)
          PROVE  {Before(w, f) : f \in from[n - k], w \in Written(piece(k))} = {}
      BY <1>4, <2>3
    <2> DEFINE part(k) == {Before(w, f) : f \in from[n - k], w \in Written(piece(k))}
    <2>4. \A k \in 3 .. n : k # Length(tail) => part(k) = {}
      BY <2>3
    <2>5. FirstRecord(d, n, from) = UNION {part(k) : k \in 3 .. n}
      BY <1>5
    <2>6. part(Length(tail)) = {Before(Record(tail), f) : f \in from[n - Length(tail)]}
      <3>1. Written(piece(Length(tail))) = {Record(tail)}
        BY <1>4, <1>6, <2>1
      <3>2. QED
        BY <3>1
    <2> HIDE DEF part
    <2>7. UNION {part(k) : k \in 3 .. n} = part(Length(tail))
      BY <2>1, <2>4
    <2>8. QED
      BY <1>6, <2>5, <2>6, <2>7
  <1>7. CASE ~Accepts(tail)
    <2>1. ASSUME NEW k \in 3 .. n
          PROVE  {Before(w, f) : f \in from[n - k], w \in Written(piece(k))} = {}
      BY <1>4, <1>7
    <2>2. QED
      BY <1>5, <1>7, <2>1
  <1>8. QED
    BY <1>6, <1>7

(* Readings, by what each of the ends of d holds.                           *)
Reads(g, d) ==
  g = [n \in 0 .. Len(d) |-> IF n = 0 THEN {NoFields} ELSE FirstRecord(d, n, g)]

(* There is such a function, since a record is not empty.                   *)
LEMMA ReadsExists ==
  ASSUME NEW d \in Bytes
  PROVE  \E g : Reads(g, d)
  <1> DEFINE To(g, k) ==
               g = [n \in 0 .. k |-> IF n = 0 THEN {NoFields} ELSE FirstRecord(d, n, g)]
             N == {k \in Nat : k <= Len(d) => \E g : To(g, k)}
  <1> HIDE DEF To
  <1>1. 0 \in N
    <2>1. To([n \in 0 .. 0 |-> {NoFields}], 0)
      BY DEF To
    <2>2. QED
      BY <2>1
  <1>2. ASSUME NEW k \in N PROVE k + 1 \in N
    <2> SUFFICES ASSUME k + 1 <= Len(d) PROVE \E g : To(g, k + 1)
      OBVIOUS
    <2>1. k \in Nat /\ Len(d) \in Nat
      BY DEF Bytes
    <2>2. PICK g : To(g, k)
      BY <2>1
    <2> HIDE DEF N
    <2> DEFINE h == [n \in 0 .. k + 1 |-> IF n = k + 1 THEN FirstRecord(d, n, g) ELSE g[n]]
    <2>3. ASSUME NEW n \in 1 .. k + 1 PROVE FirstRecord(d, n, h) = FirstRecord(d, n, g)
      <3>1. \A j \in 3 .. n : h[n - j] = g[n - j]
        BY <2>1
      <3> HIDE DEF h
      <3>2. QED
        BY <3>1 DEF FirstRecord
    <2>4. \A n \in 0 .. k : g[n] = IF n = 0 THEN {NoFields} ELSE FirstRecord(d, n, g)
      BY <2>2 DEF To
    <2>5. ASSUME NEW n \in 0 .. k + 1
          PROVE  h[n] = IF n = 0 THEN {NoFields} ELSE FirstRecord(d, n, h)
      <3>1. CASE n = k + 1
        BY <2>1, <2>3, <3>1
      <3>2. CASE n # k + 1
        <4>1. n \in 0 .. k /\ h[n] = g[n] /\ (n # 0 => n \in 1 .. k + 1)
          BY <2>1, <3>2
        <4> HIDE DEF h
        <4>2. QED
          BY <2>3, <2>4, <4>1
      <3>3. QED
        BY <3>1, <3>2
    <2>6. h = [n \in 0 .. k + 1 |-> IF n = 0 THEN {NoFields} ELSE FirstRecord(d, n, h)]
      BY <2>5
    <2>7. To(h, k + 1)
      BY <2>6 DEF To
    <2>8. QED
      BY <2>7
  <1>3. N = Nat
    <2> HIDE DEF N
    <2>1. N \subseteq Nat
      BY DEF N
    <2>2. QED
      BY <1>1, <1>2, <2>1, Induction
  <1>4. PICK g : To(g, Len(d))
    <2>1. Len(d) \in N
      <3> HIDE DEF N
      <3>1. QED
        BY <1>3 DEF Bytes
    <2>2. QED
      BY <2>1
  <1>5. QED
    BY <1>4 DEF Reads, To

(* What Readings computes.                                                  *)
LEMMA ReadingsFacts ==
  ASSUME NEW d \in Bytes
  PROVE  \E g : Reads(g, d) /\ Readings(d) = g[Len(d)]
  <1>1. PICK g : Reads(g, d)
    BY ReadsExists
  <1>2. g = [n \in 0 .. Len(d) |-> IF n = 0 THEN {NoFields} ELSE FirstRecord(d, n, g)]
    BY <1>1 DEF Reads
  <1>3. PICK f : /\ Readings(d) = f[Len(d)]
                 /\ f = [n \in 0 .. Len(d) |->
                           IF n = 0 THEN {NoFields} ELSE FirstRecord(d, n, f)]
    BY <1>2, Zenon DEF Readings
  <1>4. QED
    BY <1>3 DEF Reads

-----------------------------------------------------------------------------
(* The fields of f, and those of g that f has not.                          *)
Over(f, g) == [x \in DOMAIN f \cup DOMAIN g |-> IF x \in DOMAIN f THEN f[x] ELSE g[x]]

Below(f, k) == [x \in {y \in DOMAIN f : y < k} |-> f[x]]

(* What the OS was given for the event of a gesture.                        *)
Sent == Generate(gesture)
Augmented ==
  Put(original, IOHIDField, [type |-> "blob", value |-> SerializeElement(Sent)])

Versioned == IsPrefix(Version, input)
Body == Drop(input, Narrow)

Typed ==
  /\ reader \in {"engine", "recorder"}
  /\ stage \in {"version", "fields", "read", "failed", "dropped", "aborted", "header",
                "events", "skipped", "recorded"}
  /\ input \in Bytes /\ data \in Bytes /\ IsMap(fields)
  /\ stage \in {"header", "events", "recorded"} => IOHIDField \in DOMAIN fields
  /\ stage \in {"events", "recorded"} =>
       element = [header |-> element.header, events |-> element.events]
         /\ element.header \in Bytes /\ Len(element.header) = HeaderSize
         /\ element.events \in Seq(Bytes)

(* Reading what is left and then putting it over what has been read gives   *)
(* what the data holds.                                                     *)
ReadSoFar ==
  /\ stage = "version" => data = input /\ fields = NoFields
  /\ stage = "fields" =>
       /\ Versioned /\ Len(data) <= Len(Body) /\ data = Drop(Body, Len(Body) - Len(data))
       /\ \A g : Reads(g, Body) => g[Len(Body)] = {Over(f, fields) : f \in g[Len(data)]}
  /\ stage = "read" => Versioned /\ Readings(Body) = {fields}
  /\ stage = "failed" /\ Versioned => Readings(Body) = {}

(* The queue element is the structs that have been taken off and what is    *)
(* left.                                                                    *)
TakenSoFar ==
  /\ stage = "header" => data = fields[IOHIDField].value
  /\ stage = "events" => fields[IOHIDField].value = SerializeElement(element) \o data
  /\ stage = "recorded" => fields[IOHIDField].value = SerializeElement(element)

(* Nobody has augmented an event, or the reader is on its way through what  *)
(* the engine wrote: so many records and structs behind it, the others      *)
(* before it.                                                               *)
OnTheWay ==
  /\ reader = "recorder" /\ gesture \in Gestures /\ IsMap(original)
  /\ stage \in {"version", "fields", "read", "header", "events", "recorded"}
  /\ stage = "version" => data = Serialize(Augmented)
  /\ stage = "fields" =>
       \E k \in 0 .. Cell \div 4 :
         data = FlattenSeq(Drop(Records(Augmented), k)) /\ fields = Below(Augmented, k)
  /\ stage \in {"read", "header", "events", "recorded"} => fields = Augmented
  /\ stage = "events" =>
       /\ element.header = Sent.header /\ Len(element.events) <= Len(Sent.events)
       /\ element.events = SubSeq(Sent.events, 1, Len(element.events))
       /\ data = FlattenSeq(Drop(Sent.events, Len(element.events)))
  /\ stage = "recorded" => element = Sent

EventIInv ==
  /\ Typed /\ ReadSoFar /\ TakenSoFar
  /\ (original = None /\ gesture = None) \/ OnTheWay

-----------------------------------------------------------------------------
(* What is left of what is left.                                            *)
LEMMA DropTwice ==
  ASSUME NEW S, NEW d \in Seq(S), NEW m \in Nat, NEW n \in Nat, m + n <= Len(d)
  PROVE  Drop(Drop(d, m), n) = Drop(d, m + n)
  <1> DEFINE b == Drop(d, m)
  <1>1. Len(d) \in Nat /\ m \in 0 .. Len(d) /\ m + n \in 0 .. Len(d)
    OBVIOUS
  <1>2. /\ b \in Seq(S) /\ Len(b) = Len(d) - m
        /\ \A i \in 1 .. Len(d) - m : b[i] = d[i + m]
    BY <1>1, DropFacts
  <1> HIDE DEF b
  <1>3. n \in 0 .. Len(b)
    BY <1>1, <1>2
  <1>4. /\ Drop(b, n) \in Seq(S) /\ Len(Drop(b, n)) = Len(b) - n
        /\ \A i \in 1 .. Len(b) - n : Drop(b, n)[i] = b[i + n]
    BY <1>2, <1>3, DropFacts
  <1>5. /\ Drop(d, m + n) \in Seq(S) /\ Len(Drop(d, m + n)) = Len(d) - (m + n)
        /\ \A i \in 1 .. Len(d) - (m + n) : Drop(d, m + n)[i] = d[i + (m + n)]
    BY <1>1, DropFacts
  <1>6. ASSUME NEW i \in 1 .. Len(b) - n PROVE Drop(b, n)[i] = Drop(d, m + n)[i]
    <2>1. /\ i + n \in 1 .. Len(d) - m /\ i \in 1 .. Len(d) - (m + n)
          /\ (i + n) + m = i + (m + n)
      BY <1>1, <1>2
    <2>2. QED
      BY <1>2, <1>4, <1>5, <2>1
  <1>7. Len(b) - n = Len(d) - (m + n)
    BY <1>1, <1>2
  <1>8. Drop(b, n) = Drop(d, m + n)
    BY <1>4, <1>5, <1>6, <1>7, SeqEqual
  <1>9. QED
    BY <1>8 DEF b

(* Nothing is taken off.                                                    *)
LEMMA DropNothing ==
  ASSUME NEW S, NEW d \in Seq(S)
  PROVE  Drop(d, 0) = d /\ Drop(d, Len(d)) = <<>>
  <1>1. Drop(d, 0) = d
    BY SubSeqFull DEF Drop
  <1>2. Drop(d, Len(d)) = <<>>
    BY SubSeqEmpty DEF Drop
  <1>3. QED
    BY <1>1, <1>2

(* The reader's steps one record on in Readings.                            *)
LEMMA OverBefore ==
  ASSUME NEW w, NEW f, NEW m
  PROVE  Over(Before(w, f), m) = Over(f, Put(m, w.field, w.e))
  <1> DEFINE left == Over(Before(w, f), m)
             right == Over(f, Put(m, w.field, w.e))
  <1>1. DOMAIN left = DOMAIN right
    BY DEF Over, Before, Put
  <1>2. \A x \in DOMAIN left : left[x] = right[x]
    BY DEF Over, Before, Put
  <1>3. left = [x \in DOMAIN left |-> left[x]] /\ right = [x \in DOMAIN right |-> right[x]]
    BY DEF Over
  <1> HIDE DEF left, right
  <1>4. left = right
    BY <1>1, <1>2, <1>3
  <1>5. QED
    BY <1>4 DEF left, right

(* The ends of the map of an event, and what is read.                       *)
LEMMA OverNothing ==
  ASSUME NEW f, f = [x \in DOMAIN f |-> f[x]]
  PROVE  Over(NoFields, f) = f /\ Over(f, NoFields) = f
  <1>1. DOMAIN NoFields = {}
    BY DEF NoFields
  <1>2. Over(NoFields, f) = [x \in DOMAIN f |-> f[x]]
    BY <1>1 DEF Over
  <1>3. Over(f, NoFields) = [x \in DOMAIN f |-> f[x]]
    BY <1>1 DEF Over
  <1>4. QED
    BY <1>2, <1>3

(* Maps stay maps as a field is put.                                        *)
LEMMA PutMap ==
  ASSUME NEW m, IsMap(m), NEW field \in 0 .. Cell \div 4 - 1, NEW e \in Elements, Legal(e)
  PROVE  IsMap(Put(m, field, e))
  <1> DEFINE p == Put(m, field, e)
  <1>1. DOMAIN p = DOMAIN m \cup {field} /\ p = [x \in DOMAIN p |-> p[x]]
    BY DEF Put
  <1>2. \A x \in DOMAIN p : p[x] = IF x = field THEN e ELSE m[x]
    BY DEF Put
  <1> HIDE DEF p
  <1>3. IsMap(p)
    BY <1>1, <1>2 DEF IsMap
  <1>4. QED
    BY <1>3 DEF p

-----------------------------------------------------------------------------
(* A record that may be written is read back, and what follows it is left.  *)
LEMMA ReadBack ==
  ASSUME NEW field \in 0 .. Cell \div 4 - 1, NEW e \in Elements, Legal(e), NEW rest \in Bytes
  PROVE  LET d == WriteField(field, e) \o rest IN
         /\ d \in Bytes /\ Accepts(d) /\ Record(d) = [field |-> field, e |-> e]
         /\ Drop(d, Length(d)) = rest
  <1> DEFINE p == WriteField(field, e)
             d == p \o rest
             k == Len(e.value) + 2
  <1>1. /\ p \in Bytes /\ Len(p) = k /\ Len(e.value) \in Nat \ {0} /\ k \in Nat
        /\ p[1] = SizeOf(e) /\ p[2] = TagOf(e) * (Cell \div 4) + field
        /\ SubSeq(p, 3, k) = Swapped(e.type, e.value)
    BY RecordParts
  <1>2. e = [type |-> e.type, value |-> e.value] /\ e.value \in Bytes
    BY DEF Elements
  <1> HIDE DEF p
  <1>3. /\ d \in Bytes /\ Len(d) = k + Len(rest) /\ Len(rest) \in Nat
        /\ d[1] = p[1] /\ d[2] = p[2] /\ SubSeq(d, 1, k) = p /\ Drop(d, k) = rest
    <2>1. p \in Seq(Cells) /\ rest \in Seq(Cells)
      BY <1>1 DEF Bytes
    <2>2. /\ d \in Seq(Cells) /\ Len(d) = Len(p) + Len(rest)
          /\ \A i \in 1 .. Len(p) + Len(rest) :
               d[i] = IF i <= Len(p) THEN p[i] ELSE rest[i - Len(p)]
      BY <2>1, ConcatProperties
    <2>3. SubSeq(d, 1, Len(p)) = p /\ Drop(d, Len(p)) = rest
      BY <2>1, DropConcat
    <2> HIDE DEF d
    <2>4. 1 \in 1 .. Len(p) + Len(rest) /\ 2 \in 1 .. Len(p) + Len(rest) /\ Len(rest) \in Nat
          /\ 1 <= Len(p) /\ 2 <= Len(p)
      BY <1>1, <2>1
    <2>5. QED
      BY <1>1, <2>2, <2>3, <2>4 DEF Bytes
  <1> HIDE DEF d
  <1>4. /\ Header(d).field = field
        /\ Announced(Header(d)) = [type |-> e.type, cells |-> Len(e.value)]
    BY <1>1, <1>3, RecordAnnounced
  <1>5. Length(d) = k /\ Accepts(d)
    BY <1>1, <1>3, <1>4 DEF Length, Accepts
  <1>6. SubSeq(d, 3, k) = Swapped(e.type, e.value)
    <2>1. k \in 2 .. Len(d) /\ k \in 2 .. Len(p)
      BY <1>1, <1>3
    <2>2. Drop(p, 2) = SubSeq(d, 3, k)
      BY <1>3, <2>1, PayloadFacts
    <2>3. Drop(p, 2) = SubSeq(p, 3, k)
      BY <1>1 DEF Drop
    <2>4. QED
      BY <1>1, <2>2, <2>3
  <1>7. Record(d) = [field |-> field, e |-> e]
    <2>1. Swapped(e.type, SubSeq(d, 3, k)) = e.value
      BY <1>2, <1>6, SwappedTwice
    <2>2. QED
      BY <1>2, <1>4, <1>5, <2>1 DEF Record
  <1>8. QED
    BY <1>3, <1>5, <1>7 DEF d, p

(* The records of a map, one for every field there may be.                  *)
LEMMA RecordsFacts ==
  ASSUME NEW m, IsMap(m)
  PROVE  /\ Records(m) \in Seq(Bytes) /\ Len(Records(m)) = Cell \div 4
         /\ \A k \in 0 .. Cell \div 4 - 1 :
              Records(m)[k + 1] = IF k \in DOMAIN m THEN WriteField(k, m[k]) ELSE <<>>
  <1> DEFINE q == Cell \div 4
             r == Records(m)
  <1>1. q \in Nat \ {0}
    BY CellFacts
  <1>2. r = [i \in 1 .. q |-> IF i - 1 \in DOMAIN m THEN WriteField(i - 1, m[i - 1]) ELSE <<>>]
    BY DEF Records
  <1>3. ASSUME NEW i \in 1 .. q
        PROVE  (IF i - 1 \in DOMAIN m THEN WriteField(i - 1, m[i - 1]) ELSE <<>>) \in Bytes
    <2>1. CASE i - 1 \in DOMAIN m
      <3>1. i - 1 \in 0 .. q - 1 /\ m[i - 1] \in Elements /\ Legal(m[i - 1])
        BY <1>1, <2>1 DEF IsMap
      <3>2. WriteField(i - 1, m[i - 1]) \in Bytes
        BY <3>1, RecordParts
      <3>3. QED
        BY <2>1, <3>2
    <2>2. CASE i - 1 \notin DOMAIN m
      BY <2>2, EmptySeq DEF Bytes
    <2>3. QED
      BY <2>1, <2>2
  <1> HIDE DEF q, r
  <1>4. r \in Seq(Bytes) /\ Len(r) = q
    BY <1>1, <1>2, <1>3
  <1>5. ASSUME NEW k \in 0 .. q - 1
        PROVE  r[k + 1] = IF k \in DOMAIN m THEN WriteField(k, m[k]) ELSE <<>>
    <2>1. k + 1 \in 1 .. q /\ (k + 1) - 1 = k
      BY <1>1
    <2>2. QED
      BY <1>2, <2>1
  <1>6. QED
    BY <1>4, <1>5 DEF q, r

(* What comes from field k on begins with the record of field k.            *)
LEMMA RecordsFrom ==
  ASSUME NEW m, IsMap(m)
  PROVE  /\ FlattenSeq(Drop(Records(m), Cell \div 4)) = <<>>
         /\ \A k \in 0 .. Cell \div 4 : FlattenSeq(Drop(Records(m), k)) \in Bytes
         /\ \A k \in 0 .. Cell \div 4 - 1 :
              FlattenSeq(Drop(Records(m), k)) =
                Records(m)[k + 1] \o FlattenSeq(Drop(Records(m), k + 1))
  <1> DEFINE q == Cell \div 4
             r == Records(m)
  <1>1. q \in Nat /\ r \in Seq(Seq(Cells)) /\ Len(r) = q
    BY CellFacts, RecordsFacts DEF Bytes
  <1> HIDE DEF q, r
  <1>2. FlattenSeq(Drop(r, q)) = <<>>
    <2>1. Drop(r, q) = <<>>
      BY <1>1, DropNothing
    <2>2. FlattenSeq(<<>>) = <<>>
      BY DEF FlattenSeq
    <2>3. QED
      BY <2>1, <2>2
  <1>3. ASSUME NEW k \in 0 .. q PROVE FlattenSeq(Drop(r, k)) \in Bytes
    <2>1. Drop(r, k) \in Seq(Seq(Cells)) /\ <<>> \in Seq(Cells)
      BY <1>1, DropFacts, EmptySeq
    <2>2. QED
      BY <2>1, FlattenAppend DEF Bytes
  <1>4. ASSUME NEW k \in 0 .. q - 1
        PROVE  FlattenSeq(Drop(r, k)) = r[k + 1] \o FlattenSeq(Drop(r, k + 1))
    <2>1. k + 1 \in 1 .. Len(r) /\ Len(r) \in k + 1 .. Len(r) /\ k + 1 \in 0 .. Len(r)
      BY <1>1
    <2>2. Drop(r, k) = <<r[k + 1]>> \o Drop(r, k + 1)
      BY <1>1, <2>1, SubSeqRecursiveFirst DEF Drop
    <2>3. r[k + 1] \in Seq(Cells) /\ Drop(r, k + 1) \in Seq(Seq(Cells))
      BY <1>1, <2>1, ElementOfSeq, DropFacts
    <2>4. <<r[k + 1]>> \in Seq(Seq(Cells)) /\ FlattenSeq(<<r[k + 1]>>) = r[k + 1]
      BY <2>3, FlattenOne
    <2>5. QED
      BY <2>2, <2>3, <2>4, FlattenConcat
  <1>5. QED
    BY <1>2, <1>3, <1>4 DEF q, r

(* From field k on comes the record of the next field there is, or nothing. *)
LEMMA NextRecord ==
  ASSUME NEW m, IsMap(m), NEW k \in 0 .. Cell \div 4
  PROVE  \E j \in k .. Cell \div 4 :
           /\ j = Cell \div 4 \/ j \in DOMAIN m
           /\ FlattenSeq(Drop(Records(m), k)) = FlattenSeq(Drop(Records(m), j))
           /\ Below(m, k) = Below(m, j)
  <1> DEFINE q == Cell \div 4
             from(i) == FlattenSeq(Drop(Records(m), i))
             Found(i) == \E j \in i .. q : /\ j = q \/ j \in DOMAIN m
                                           /\ from(i) = from(j) /\ Below(m, i) = Below(m, j)
             N == {n \in Nat : n <= q => Found(q - n)}
  <1>1. q \in Nat
    BY CellFacts
  <1>2. ASSUME NEW i \in 0 .. q - 1, i \notin DOMAIN m
        PROVE  from(i) = from(i + 1) /\ Below(m, i) = Below(m, i + 1)
    <2>1. Records(m)[i + 1] = <<>>
      BY <1>2, RecordsFacts
    <2>2. from(i) = <<>> \o from(i + 1)
      BY <2>1, RecordsFrom
    <2>3. from(i + 1) \in Seq(Cells)
      <3>1. i + 1 \in 0 .. q
        BY <1>1
      <3>2. QED
        BY <3>1, RecordsFrom DEF Bytes
    <2> HIDE DEF from
    <2>4. from(i) = from(i + 1)
      BY <2>2, <2>3, ConcatEmptySeq
    <2>5. {y \in DOMAIN m : y < i} = {y \in DOMAIN m : y < i + 1}
      <3>1. DOMAIN m \subseteq 0 .. q - 1
        BY DEF IsMap
      <3>2. QED
        BY <1>1, <1>2, <3>1
    <2>6. QED
      BY <2>4, <2>5 DEF Below
  <1> HIDE DEF q, from
  <1>3. 0 \in N
    BY <1>1
  <1>4. ASSUME NEW n \in N PROVE n + 1 \in N
    <2> SUFFICES ASSUME n + 1 <= q PROVE Found(q - (n + 1))
      OBVIOUS
    <2> DEFINE i == q - (n + 1)
    <2>1. n \in Nat /\ i \in 0 .. q - 1 /\ i + 1 = q - n /\ n <= q
      BY <1>1
    <2>2. Found(i + 1)
      BY <2>1
    <2> HIDE DEF i
    <2>3. CASE i \in DOMAIN m
      BY <1>1, <2>1, <2>3 DEF i
    <2>4. CASE i \notin DOMAIN m
      <3>1. PICK j \in i + 1 .. q : /\ j = q \/ j \in DOMAIN m
                                    /\ from(i + 1) = from(j) /\ Below(m, i + 1) = Below(m, j)
        BY <2>2
      <3>2. from(i) = from(j) /\ Below(m, i) = Below(m, j) /\ j \in i .. q
        BY <1>1, <1>2, <2>1, <2>4, <3>1
      <3>3. Found(i)
        BY <3>1, <3>2
      <3>4. QED
        BY <3>3 DEF i
    <2>5. QED
      BY <2>3, <2>4
  <1>5. N = Nat
    <2> HIDE DEF N
    <2>1. N \subseteq Nat
      BY DEF N
    <2>2. QED
      BY <1>3, <1>4, <2>1, Induction
  <1>6. q - k \in N /\ q - (q - k) = k /\ q - k <= q
    <2>1. q - k \in Nat /\ q - (q - k) = k /\ q - k <= q
      BY <1>1 DEF q
    <2> HIDE DEF N
    <2>2. QED
      BY <1>5, <2>1
  <1>7. Found(k)
    BY <1>6
  <1>8. QED
    BY <1>7 DEF q, from

-----------------------------------------------------------------------------
(* The version is a byte string of its own.                                 *)
LEMMA VersionFacts == Version \in Bytes /\ Len(Version) = Narrow /\ Narrow \in Nat
  <1>1. Narrow \in Nat
    BY SerializationAssumption
  <1>2. 0 \in Cells /\ 2 \in Cells
    BY CellFacts DEF Cells
  <1>3. QED
    BY <1>1, <1>2 DEF Version, Bytes

(* What the engine writes begins with the version; then come the records.   *)
LEMMA SerializeFacts ==
  ASSUME NEW m, IsMap(m)
  PROVE  /\ Serialize(m) \in Bytes /\ IsPrefix(Version, Serialize(m))
         /\ Drop(Serialize(m), Narrow) = FlattenSeq(Drop(Records(m), 0))
  <1> DEFINE body == FlattenSeq(Drop(Records(m), 0))
  <1>1. Drop(Records(m), 0) = Records(m)
    BY RecordsFacts, DropNothing
  <1>2. Serialize(m) = Version \o body
    BY <1>1 DEF Serialize
  <1>3. body \in Seq(Cells)
    <2>1. 0 \in 0 .. Cell \div 4
      BY CellFacts
    <2>2. QED
      BY <2>1, RecordsFrom DEF Bytes
  <1>4. Version \in Seq(Cells) /\ Len(Version) = Narrow /\ Narrow \in Nat
    BY VersionFacts DEF Bytes
  <1> HIDE DEF body
  <1> DEFINE d == Version \o body
  <1>5. /\ d \in Seq(Cells) /\ Len(d) = Narrow + Len(body) /\ Len(body) \in Nat
    <2>1. d \in Seq(Cells) /\ Len(d) = Len(Version) + Len(body)
      BY <1>3, <1>4, ConcatProperties
    <2>2. Len(body) \in Nat
      BY <1>3, LenProperties
    <2>3. QED
      BY <1>4, <2>1, <2>2
  <1>6. SubSeq(d, 1, Narrow) = Version /\ Drop(d, Narrow) = body
    BY <1>3, <1>4, DropConcat
  <1>7. SubSeq(Version, 1, Narrow) = Version
    BY <1>4, SubSeqFull
  <1> HIDE DEF d
  <1>8. IsPrefix(Version, d)
    BY <1>4, <1>5, <1>6, <1>7 DEF IsPrefix
  <1>9. QED
    BY <1>2, <1>5, <1>6, <1>8 DEF body, d, Bytes

(* A number that is not zero keeps its sign in FixedFP1616.                 *)
LEMMA FixedFacts ==
  ASSUME NEW v \in Int, -Grain * (Cell \div 2) < v, v < Grain * (Cell \div 2)
  PROVE  FixedFP1616(v) \in Cells /\ Sign(FixedFP1616(v)) = SignOf(v)
  <1> DEFINE half == Cell \div 2
             size == IF v < 0 THEN -v ELSE v
             magnitude == size \div Grain
             fixed == IF magnitude = 0 /\ v # 0 THEN 1 ELSE magnitude
  <1>1. Cell \in Nat /\ half \in Nat /\ 2 * half = Cell /\ 10 < half
    BY CellFacts
  <1>2. Grain \in Nat \ {0}
    BY SerializationAssumption
  <1>3. size \in Nat /\ size < Grain * half /\ (v = 0 <=> size = 0)
    BY <1>1, <1>2
  <1>4. FixedFP1616(v) = IF v < 0 THEN Cell - fixed ELSE fixed
    BY DEF FixedFP1616
  <1> HIDE DEF half, size
  <1>5. magnitude \in 0 .. half - 1 /\ (size = 0 => magnitude = 0)
    <2>1. magnitude \in 0 .. half - 1
      BY <1>1, <1>2, <1>3
    <2>2. 0 \div Grain = 0
      BY <1>2
    <2>3. QED
      BY <2>1, <2>2
  <1> HIDE DEF magnitude
  <1>6. fixed \in 0 .. half - 1 /\ (v = 0 <=> fixed = 0)
    BY <1>1, <1>3, <1>5
  <1> HIDE DEF fixed
  <1>7. FixedFP1616(v) \in Cells
    BY <1>1, <1>4, <1>6 DEF Cells
  <1>8. CASE v < 0
    <2>1. FixedFP1616(v) = Cell - fixed /\ Cell - fixed >= half /\ Cell - fixed # 0
          /\ ~((Cell - fixed) - Cell > 0)
      BY <1>1, <1>4, <1>6, <1>8
    <2>2. Int16(Cell - fixed) = (Cell - fixed) - Cell
      BY <2>1 DEF Int16, half
    <2>3. QED
      BY <1>7, <1>8, <2>1, <2>2 DEF Sign, SignOf
  <1>9. CASE v = 0
    BY <1>4, <1>6, <1>7, <1>9 DEF Sign, SignOf
  <1>10. CASE v > 0
    <2>1. FixedFP1616(v) = fixed /\ ~(fixed >= half) /\ fixed > 0 /\ fixed # 0
      BY <1>1, <1>4, <1>6, <1>10
    <2>2. Int16(fixed) = fixed
      BY <2>1 DEF Int16, half
    <2>3. QED
      BY <1>7, <1>10, <2>1, <2>2 DEF Sign, SignOf
  <1>11. QED
    BY <1>8, <1>9, <1>10

(* The structs of the element of a gesture.                                 *)
Touch(g) == <<FluidSize, FluidTouchGesture, g.phase, g.motion, FixedFP1616(g.progress)>>
Flick(g) == <<VelocitySize, Velocity, FixedFP1616(g.velocity_x), FixedFP1616(g.velocity_y)>>

(* They hold cells, and the gesture as the Dock reads it.                   *)
LEMMA StructFacts ==
  ASSUME NEW g \in Gestures
  PROVE  /\ Touch(g) \in Bytes /\ Len(Touch(g)) = FluidSize
         /\ Flick(g) \in Bytes /\ Len(Flick(g)) = VelocitySize
         /\ Touch(g)[3] = g.phase /\ Touch(g)[4] = g.motion
         /\ Sign(Touch(g)[5]) = SignOf(g.progress)
         /\ Sign(Flick(g)[3]) = SignOf(g.velocity_x)
         /\ Sign(Flick(g)[4]) = SignOf(g.velocity_y)
  <1>1. FluidSize \in Cells /\ VelocitySize \in Cells /\ FluidTouchGesture \in Cells
        /\ Velocity \in Cells
    <2>1. Cell >= 24
      BY SerializationAssumption
    <2>2. QED
      BY <2>1, CellFacts DEF Cells, FluidSize, VelocitySize, FluidTouchGesture, Velocity
  <1>2. g.phase \in Cells /\ g.motion \in Cells
    BY SerializationAssumption DEF Cells
  <1>3. \A v \in {g.progress, g.velocity_x, g.velocity_y} :
          FixedFP1616(v) \in Cells /\ Sign(FixedFP1616(v)) = SignOf(v)
    <2>1. ASSUME NEW v \in {g.progress, g.velocity_x, g.velocity_y}
          PROVE  v \in Int /\ -Grain * (Cell \div 2) < v /\ v < Grain * (Cell \div 2)
      BY SerializationAssumption
    <2>2. QED
      BY <2>1, FixedFacts
  <1>4. Touch(g) \in Bytes /\ Flick(g) \in Bytes
    BY <1>1, <1>2, <1>3 DEF Touch, Flick, Bytes
  <1>5. QED
    BY <1>3, <1>4 DEF Touch, Flick, FluidSize, VelocitySize

(* A struct is found where it begins, by its size and its type.             *)
LEMMA StructFound ==
  ASSUME NEW g \in Gestures, NEW s \in {Touch(g), Flick(g)}, NEW rest \in Bytes
  PROVE  /\ s \o rest \in Bytes /\ StructAt(s \o rest) = Len(s)
         /\ Len(s) # 0
         /\ SubSeq(s \o rest, 1, Len(s)) = s /\ Drop(s \o rest, Len(s)) = rest
  <1> DEFINE d == s \o rest
  <1>1. s \in Seq(Cells) /\ rest \in Seq(Cells) /\ Len(s) \in {4, 5}
    BY StructFacts DEF Bytes, FluidSize, VelocitySize
  <1>2. /\ s[1] = Len(s)
        /\ \/ s[2] = FluidTouchGesture /\ Len(s) = FluidSize
           \/ s[2] = Velocity /\ Len(s) = VelocitySize
    <2>1. CASE s = Touch(g)
      <3>1. Touch(g)[1] = FluidSize /\ Touch(g)[2] = FluidTouchGesture
        BY DEF Touch
      <3>2. QED
        BY <2>1, <3>1, StructFacts
    <2>2. CASE s = Flick(g)
      <3>1. Flick(g)[1] = VelocitySize /\ Flick(g)[2] = Velocity
        BY DEF Flick
      <3>2. QED
        BY <2>2, <3>1, StructFacts
    <2>3. QED
      BY <2>1, <2>2
  <1>3. /\ d \in Seq(Cells) /\ Len(d) = Len(s) + Len(rest) /\ Len(rest) \in Nat
        /\ d[1] = s[1] /\ d[2] = s[2]
    <2>1. /\ d \in Seq(Cells) /\ Len(d) = Len(s) + Len(rest)
          /\ \A i \in 1 .. Len(s) + Len(rest) :
               d[i] = IF i <= Len(s) THEN s[i] ELSE rest[i - Len(s)]
      BY <1>1, ConcatProperties
    <2>2. Len(rest) \in Nat
      BY <1>1, LenProperties
    <2>3. 1 \in 1 .. Len(s) + Len(rest) /\ 2 \in 1 .. Len(s) + Len(rest)
          /\ 1 <= Len(s) /\ 2 <= Len(s)
      <3> DEFINE a == Len(s)
                 b == Len(rest)
      <3>1. a \in {4, 5} /\ b \in Nat
        BY <1>1, <2>2
      <3> HIDE DEF a, b
      <3>2. 1 \in 1 .. a + b /\ 2 \in 1 .. a + b /\ 1 <= a /\ 2 <= a
        BY <3>1
      <3>3. QED
        BY <3>2 DEF a, b
    <2> HIDE DEF d
    <2>4. QED
      BY <2>1, <2>2, <2>3
  <1>4. SubSeq(d, 1, Len(s)) = s /\ Drop(d, Len(s)) = rest
    BY <1>1, DropConcat
  <1> HIDE DEF d
  <1>5. StructAt(d) = Len(s)
    <2>1. ~(Len(d) < 2) /\ Len(s) <= Len(d)
      BY <1>1, <1>3
    <2>2. CASE s[2] = FluidTouchGesture /\ Len(s) = FluidSize
      <3>1. d[1] = FluidSize /\ d[2] = FluidTouchGesture /\ FluidSize <= Len(d)
        BY <1>2, <1>3, <2>1, <2>2
      <3>2. StructAt(d) = FluidSize
        BY <2>1, <3>1 DEF StructAt, FluidTouchGesture, Velocity
      <3>3. QED
        BY <2>2, <3>2
    <2>3. CASE s[2] = Velocity /\ Len(s) = VelocitySize
      <3>1. d[1] = VelocitySize /\ d[2] = Velocity /\ VelocitySize <= Len(d)
        BY <1>2, <1>3, <2>1, <2>3
      <3>2. StructAt(d) = VelocitySize
        BY <2>1, <3>1 DEF StructAt, FluidTouchGesture, Velocity
      <3>3. QED
        BY <2>3, <3>2
    <2>4. QED
      BY <1>2, <2>2, <2>3
  <1>6. QED
    BY <1>1, <1>3, <1>4, <1>5 DEF d, Bytes

(* What the engine generates: one struct or both, and their number.         *)
LEMMA GenerateFacts ==
  ASSUME NEW g \in Gestures, NEW s, s = Generate(g)
  PROVE  /\ s.events \in Seq(Seq(Cells)) /\ Len(s.events) \in {1, 2}
         /\ s.events \in {<<Touch(g)>>, <<Touch(g), Flick(g)>>}
         /\ s.events = <<Touch(g)>> =>
              g.velocity_x = 0 /\ g.velocity_y = 0 /\ g.phase # kGestureEnded
         /\ EventCount(s) = Len(s.events)
         /\ s.header \in Seq(Cells) /\ Len(s.header) = HeaderSize
         /\ s = [header |-> s.header, events |-> s.events]
  <1> DEFINE events == IF g.velocity_x # 0 \/ g.velocity_y # 0 \/ g.phase = kGestureEnded
                         THEN <<Touch(g), Flick(g)>> ELSE <<Touch(g)>>
  <1>1. s = [header |-> <<0, 0, Len(events)>>, events |-> events]
    BY DEF Generate, Touch, Flick
  <1>2. Touch(g) \in Seq(Cells) /\ Flick(g) \in Seq(Cells)
    BY StructFacts DEF Bytes
  <1>3. events \in Seq(Seq(Cells)) /\ Len(events) \in {1, 2}
    <2>1. <<Touch(g), Flick(g)>> \in Seq(Seq(Cells)) /\ <<Touch(g)>> \in Seq(Seq(Cells))
      BY <1>2
    <2>2. Len(<<Touch(g), Flick(g)>>) = 2 /\ Len(<<Touch(g)>>) = 1
      OBVIOUS
    <2>3. QED
      BY <2>1, <2>2
  <1>4. /\ events \in {<<Touch(g)>>, <<Touch(g), Flick(g)>>}
        /\ events = <<Touch(g)>> =>
             g.velocity_x = 0 /\ g.velocity_y = 0 /\ g.phase # kGestureEnded
    <2>1. <<Touch(g)>> # <<Touch(g), Flick(g)>>
      OBVIOUS
    <2>2. QED
      BY <2>1
  <1> HIDE DEF events
  <1>5. Len(events) \in Cells
    BY <1>3, SizeFacts
  <1>6. s.events = events /\ s.header = <<0, 0, Len(events)>>
    BY <1>1
  <1>7. EventCount(s) = Len(events)
    BY <1>6 DEF EventCount, HeaderSize
  <1>8. s.header \in Seq(Cells) /\ Len(s.header) = HeaderSize
    <2>1. 0 \in Cells
      BY CellFacts DEF Cells
    <2>2. <<0, 0, Len(events)>> \in Seq(Cells) /\ Len(<<0, 0, Len(events)>>) = 3
      BY <1>5, <2>1
    <2>3. QED
      BY <1>6, <2>2 DEF HeaderSize
  <1>9. QED
    BY <1>1, <1>3, <1>4, <1>6, <1>7, <1>8

(* A blob of both structs and the header is one that the reader understands. *)
LEMMA ElementFacts ==
  ASSUME NEW g \in Gestures, NEW e,
         e = [type |-> "blob", value |-> SerializeElement(Generate(g))]
  PROVE  e \in Elements /\ Legal(e)
  <1> DEFINE s == Generate(g)
             f == FlattenSeq(s.events)
             t == Touch(g)
             v == Flick(g)
             head == s.header
  <1>1. t \in Seq(Cells) /\ Len(t) = 5 /\ v \in Seq(Cells) /\ Len(v) = 4
    BY StructFacts DEF Bytes, FluidSize, VelocitySize
  <1>2. s.events \in {<<t>>, <<t, v>>} /\ head \in Seq(Cells) /\ Len(head) = 3
    BY GenerateFacts DEF HeaderSize
  <1> HIDE DEF s, t, v
  <1>3. FlattenSeq(<<t>>) = t /\ <<t>> \in Seq(Seq(Cells))
    BY <1>1, FlattenOne
  <1>4. FlattenSeq(<<t, v>>) = t \o v
    <2>1. FlattenSeq(Append(<<t>>, v)) = t \o v
      BY <1>1, <1>3, FlattenAppend
    <2>2. Append(<<t>>, v) = <<t, v>>
      <3>1. <<t>> \in Seq(Seq(Cells)) /\ <<t, v>> \in Seq(Seq(Cells)) /\ Len(<<t, v>>) = 2
            /\ Len(<<t>>) = 1 /\ <<t>>[1] = t /\ <<t, v>>[1] = t /\ <<t, v>>[2] = v
        BY <1>1
      <3> DEFINE one == <<t>>
                 both == <<t, v>>
                 added == Append(one, v)
      <3> HIDE DEF one, both
      <3>2. /\ added \in Seq(Seq(Cells)) /\ Len(added) = Len(one) + 1
            /\ \A i \in 1 .. Len(one) : added[i] = one[i]
            /\ added[Len(one) + 1] = v
        BY <1>1, <3>1, AppendProperties DEF one
      <3> HIDE DEF added
      <3>3. Len(added) = 2 /\ added[1] = t /\ added[2] = v
        BY <3>1, <3>2 DEF one
      <3>4. \A i \in 1 .. 2 : added[i] = both[i]
        BY <3>1, <3>3 DEF both
      <3>5. added = both
        BY <3>1, <3>2, <3>3, <3>4, SeqEqual DEF both
      <3>6. QED
        BY <3>5 DEF added, both, one
    <2>3. QED
      BY <2>1, <2>2
  <1>5. t \o v \in Seq(Cells) /\ Len(t \o v) = 9
    <2>1. t \o v \in Seq(Cells) /\ Len(t \o v) = Len(t) + Len(v)
      BY <1>1, ConcatProperties
    <2>2. QED
      BY <1>1, <2>1
  <1>6. f \in Seq(Cells) /\ (Len(f) = 5 \/ Len(f) = 9)
    BY <1>1, <1>2, <1>3, <1>4, <1>5
  <1>7. head \in Seq(Cells) /\ Len(head) = 3
    BY <1>2
  <1> HIDE DEF f, head
  <1> DEFINE w == head \o f
  <1>8. w \in Seq(Cells) /\ Len(w) = Len(head) + Len(f)
    BY <1>6, <1>7, ConcatProperties
  <1>9. e = [type |-> "blob", value |-> w]
    BY DEF SerializeElement, s, f, head
  <1> HIDE DEF w
  <1>10. e.type = "blob" /\ e.value = w
    BY <1>9
  <1>11. Len(e.value) \in 2 .. Cell \div 2 - 1
    <2> DEFINE n == Len(w)
               half == Cell \div 2
    <2>1. n = 3 + Len(f)
      BY <1>7, <1>8
    <2>2. half \in Nat /\ 12 < half
      BY CellFacts
    <2> HIDE DEF n, half
    <2>3. n = 8 \/ n = 12
      <3>1. CASE Len(f) = 5
        BY <2>1, <3>1
      <3>2. CASE Len(f) = 9
        BY <2>1, <3>2
      <3>3. QED
        BY <1>6, <3>1, <3>2
    <2>4. n \in 2 .. half - 1
      BY <2>2, <2>3
    <2>5. QED
      BY <1>10, <2>4 DEF n, half
  <1>12. e \in Elements
    BY <1>8, <1>9 DEF Elements, Types, Bytes
  <1>13. Legal(e)
    BY <1>10, <1>11 DEF Legal
  <1>14. QED
    BY <1>12, <1>13

(* So an event stays a map as the element is put, and only that changes.    *)
LEMMA AugmentedFacts ==
  ASSUME NEW m, IsMap(m), NEW g \in Gestures, NEW e, NEW a,
         e = [type |-> "blob", value |-> SerializeElement(Generate(g))],
         a = Put(m, IOHIDField, e)
  PROVE  /\ IsMap(a) /\ DOMAIN a = DOMAIN m \cup {IOHIDField} /\ a[IOHIDField] = e
         /\ \A f \in DOMAIN m \ {IOHIDField} : a[f] = m[f]
  <1>1. e \in Elements /\ Legal(e)
    BY ElementFacts
  <1>2. IOHIDField \in 0 .. Cell \div 4 - 1
    BY SerializationAssumption
  <1>3. IsMap(a)
    BY <1>1, <1>2, PutMap
  <1>4. /\ DOMAIN a = DOMAIN m \cup {IOHIDField}
        /\ \A x \in DOMAIN a : a[x] = IF x = IOHIDField THEN e ELSE m[x]
    BY DEF Put
  <1>5. a[IOHIDField] = e /\ \A f \in DOMAIN m \ {IOHIDField} : a[f] = m[f]
    BY <1>4
  <1>6. QED
    BY <1>3, <1>4, <1>5

(* What the reader is given of an augmented event.                          *)
LEMMA SentFacts ==
  ASSUME gesture \in Gestures, IsMap(original)
  PROVE  /\ IsMap(Augmented) /\ DOMAIN Augmented = DOMAIN original \cup {IOHIDField}
         /\ Augmented[IOHIDField] = [type |-> "blob", value |-> SerializeElement(Sent)]
         /\ \A f \in DOMAIN original \ {IOHIDField} : Augmented[f] = original[f]
  <1> DEFINE e == [type |-> "blob", value |-> SerializeElement(Generate(gesture))]
  <1>1. Augmented = Put(original, IOHIDField, e) /\ e = [type |-> "blob", value |-> SerializeElement(Sent)]
    BY DEF Augmented, Sent
  <1> HIDE DEF e
  <1>2. /\ IsMap(Augmented) /\ DOMAIN Augmented = DOMAIN original \cup {IOHIDField}
        /\ Augmented[IOHIDField] = e
        /\ \A f \in DOMAIN original \ {IOHIDField} : Augmented[f] = original[f]
    BY <1>1, AugmentedFacts DEF e
  <1>3. QED
    BY <1>1, <1>2

(* An event without fields is a map.                                        *)
LEMMA NoFieldsMap == IsMap(NoFields) /\ \A m : IsMap(m) => Below(m, 0) = NoFields
  <1>1. DOMAIN NoFields = {} /\ NoFields = [x \in DOMAIN NoFields |-> NoFields[x]]
    BY DEF NoFields
  <1>2. IsMap(NoFields)
    BY <1>1 DEF IsMap
  <1>3. ASSUME NEW m, IsMap(m) PROVE Below(m, 0) = NoFields
    <2>1. {y \in DOMAIN m : y < 0} = {}
      BY <1>3, CellFacts DEF IsMap
    <2>2. QED
      BY <2>1 DEF Below, NoFields
  <1>4. QED
    BY <1>2, <1>3

(* What data holds are maps.                                                *)
LEMMA ReadsMaps ==
  ASSUME NEW d \in Bytes, NEW g, Reads(g, d), NEW n \in 0 .. Len(d), NEW f \in g[n]
  PROVE  f = [x \in DOMAIN f |-> f[x]]
  <1>1. g[n] = IF n = 0 THEN {NoFields} ELSE FirstRecord(d, n, g)
    BY DEF Reads
  <1>2. CASE n = 0
    BY <1>1, <1>2 DEF NoFields
  <1>3. CASE n # 0
    <2>1. PICK w, h : f = Before(w, h)
      BY <1>1, <1>3 DEF FirstRecord
    <2>2. QED
      BY <2>1 DEF Before
  <1>4. QED
    BY <1>2, <1>3

(* A step of the reader in what the engine has written: it is over, or the  *)
(* record of the next field is there.                                       *)
LEMMA StepOnTheWay ==
  ASSUME NEW m, IsMap(m), NEW k \in 0 .. Cell \div 4,
         NEW d, d = FlattenSeq(Drop(Records(m), k))
  PROVE  \/ d = <<>> /\ Below(m, k) = m
         \/ /\ d # <<>> /\ Accepts(d)
            /\ \E j \in 0 .. Cell \div 4 :
                 /\ Drop(d, Length(d)) = FlattenSeq(Drop(Records(m), j))
                 /\ Put(Below(m, k), Record(d).field, Record(d).e) = Below(m, j)
  <1> DEFINE q == Cell \div 4
  <1>1. PICK j \in k .. q : /\ j = q \/ j \in DOMAIN m
                            /\ d = FlattenSeq(Drop(Records(m), j)) /\ Below(m, k) = Below(m, j)
    BY NextRecord
  <1>2. q \in Nat /\ DOMAIN m \subseteq 0 .. q - 1 /\ m = [x \in DOMAIN m |-> m[x]] /\ k \in Nat
    BY CellFacts DEF IsMap
  <1>3. CASE j = q
    <2>1. d = <<>>
      BY <1>1, <1>3, RecordsFrom
    <2>2. {y \in DOMAIN m : y < q} = DOMAIN m
      <3> HIDE DEF q
      <3>1. \A y \in 0 .. q - 1 : y < q
        BY <1>2
      <3>2. \A y \in DOMAIN m : y < q
        BY <1>2, <3>1
      <3>3. QED
        BY <3>2
    <2>3. Below(m, q) = m
      BY <1>2, <2>2 DEF Below
    <2>4. QED
      BY <1>1, <1>3, <2>1, <2>3
  <1>4. CASE j # q
    <2> DEFINE rest == FlattenSeq(Drop(Records(m), j + 1))
    <2>1. j \in DOMAIN m /\ j \in 0 .. q - 1 /\ j + 1 \in 0 .. q
      BY <1>1, <1>2, <1>4
    <2>2. m[j] \in Elements /\ Legal(m[j])
      BY <2>1 DEF IsMap
    <2>3. d = WriteField(j, m[j]) \o rest /\ rest \in Bytes
      BY <1>1, <2>1, RecordsFacts, RecordsFrom
    <2> HIDE DEF rest, q
    <2>4. /\ Accepts(d) /\ Record(d) = [field |-> j, e |-> m[j]]
          /\ Drop(d, Length(d)) = rest /\ d \in Bytes
      BY <2>1, <2>2, <2>3, ReadBack DEF q
    <2>5. d # <<>>
      BY <2>4 DEF Accepts, Bytes
    <2>6. Put(Below(m, j), j, m[j]) = Below(m, j + 1)
      <3>1. {y \in DOMAIN m : y < j} \cup {j} = {y \in DOMAIN m : y < j + 1}
        BY <1>2, <2>1
      <3>2. j \notin {y \in DOMAIN m : y < j}
        BY <1>2, <2>1
      <3>3. QED
        BY <3>1, <3>2 DEF Put, Below
    <2>7. Put(Below(m, k), Record(d).field, Record(d).e) = Below(m, j + 1)
      BY <1>1, <2>4, <2>6
    <2>8. QED
      BY <2>1, <2>4, <2>5, <2>7 DEF rest, q
  <1>5. QED
    BY <1>3, <1>4

-----------------------------------------------------------------------------
(* The steps, each with the conjuncts it can disturb.                       *)

(* At first there is an event of the OS and nothing has been read.          *)
LEMMA InitEventIInv == SerializationInit => EventIInv
  <1> SUFFICES ASSUME SerializationInit PROVE EventIInv
    OBVIOUS
  <1>1. input \in Bytes
    BY SerializationAssumption DEF SerializationInit, Bytes, Cells
  <1>2. Typed
    BY <1>1, NoFieldsMap DEF SerializationInit, Typed
  <1>3. ReadSoFar /\ TakenSoFar
    BY DEF SerializationInit, ReadSoFar, TakenSoFar
  <1>4. QED
    BY <1>2, <1>3 DEF SerializationInit, EventIInv

(* The version is taken off; nothing of what the data holds has been read.  *)
LEMMA ReadVersionEventIInv == EventIInv /\ ReadVersion => EventIInv'
  <1> SUFFICES ASSUME EventIInv, ReadVersion PROVE EventIInv'
    OBVIOUS
  <1>1. /\ stage = "version" /\ Typed /\ data = input /\ input \in Bytes /\ fields = NoFields
        /\ UNCHANGED <<reader, fields, element, input, original, gesture>>
    BY DEF EventIInv, ReadVersion, Typed, ReadSoFar
  <1>2. /\ Body' = Body /\ Augmented' = Augmented /\ (Versioned' <=> Versioned)
        /\ Sent' = Sent
    BY <1>1 DEF Body, Augmented, Versioned, Sent
  <1>3. CASE IsPrefix(Version, data)
    <2>1. stage' = "fields" /\ data' = Body /\ Versioned
      BY <1>1, <1>3 DEF ReadVersion, Body, Versioned
    <2>2. Body \in Bytes /\ Len(Body) \in Nat
      <3>1. Narrow \in 0 .. Len(input)
        BY <1>1, <1>3, VersionFacts DEF IsPrefix, Bytes
      <3>2. Body \in Seq(Cells)
        BY <1>1, <3>1, DropFacts DEF Body, Bytes
      <3>3. QED
        BY <3>2 DEF Bytes
    <2>3. Typed'
      BY <1>1, <2>1, <2>2 DEF Typed
    <2>4. ReadSoFar'
      <3>1. Body = Drop(Body, Len(Body) - Len(Body))
        <4>1. Len(Body) - Len(Body) = 0
          BY <2>2
        <4>2. QED
          BY <2>2, <4>1, DropNothing DEF Bytes
      <3>2. ASSUME NEW g, Reads(g, Body)
            PROVE  g[Len(Body)] = {Over(f, NoFields) : f \in g[Len(Body)]}
        <4>1. Len(Body) \in 0 .. Len(Body)
          BY <2>2
        <4>2. \A f \in g[Len(Body)] : Over(f, NoFields) = f
          BY <2>2, <3>2, <4>1, ReadsMaps, OverNothing
        <4>3. QED
          BY <4>2
      <3>3. QED
        BY <1>1, <1>2, <2>1, <2>2, <3>1, <3>2 DEF ReadSoFar
    <2>5. TakenSoFar'
      BY <2>1 DEF TakenSoFar
    <2>6. ASSUME OnTheWay PROVE OnTheWay'
      <3>1. data = Serialize(Augmented) /\ IsMap(Augmented)
        BY <1>1, <2>6, SentFacts DEF OnTheWay
      <3>2. Body = FlattenSeq(Drop(Records(Augmented), 0)) /\ Below(Augmented, 0) = NoFields
        BY <1>1, <3>1, SerializeFacts, NoFieldsMap DEF Body
      <3>3. 0 \in 0 .. Cell \div 4
        BY CellFacts
      <3>4. QED
        BY <1>1, <1>2, <2>1, <2>6, <3>2, <3>3 DEF OnTheWay
    <2>7. QED
      BY <1>1, <2>3, <2>4, <2>5, <2>6 DEF EventIInv
  <1>4. CASE ~IsPrefix(Version, data)
    <2>1. stage' = "failed" /\ data' = data /\ ~Versioned
      BY <1>1, <1>4 DEF ReadVersion, Versioned
    <2>2. ~OnTheWay
      <3> SUFFICES ASSUME OnTheWay PROVE FALSE
        OBVIOUS
      <3>1. data = Serialize(Augmented) /\ IsMap(Augmented)
        BY <1>1, SentFacts DEF OnTheWay
      <3>2. QED
        BY <1>4, <3>1, SerializeFacts
    <2>3. Typed'
      BY <1>1, <2>1 DEF Typed
    <2>4. ReadSoFar' /\ TakenSoFar'
      BY <1>2, <2>1 DEF ReadSoFar, TakenSoFar
    <2>5. QED
      BY <1>1, <2>2, <2>3, <2>4 DEF EventIInv
  <1>5. QED
    BY <1>3, <1>4

(* A record is moved from what is left to what has been read, or there is   *)
(* none, and the data holds nothing.                                        *)
LEMMA ReadFieldEventIInv == EventIInv /\ ReadField => EventIInv'
  <1> SUFFICES ASSUME EventIInv, ReadField PROVE EventIInv'
    OBVIOUS
  <1>1. /\ stage = "fields" /\ data # <<>> /\ Typed /\ ReadSoFar
        /\ UNCHANGED <<reader, element, input, original, gesture>>
    BY DEF EventIInv, ReadField
  <1>2. /\ Body' = Body /\ Augmented' = Augmented /\ (Versioned' <=> Versioned)
        /\ Sent' = Sent
    BY <1>1 DEF Body, Augmented, Versioned, Sent
  <1>3. /\ Versioned /\ Len(data) <= Len(Body) /\ data = Drop(Body, Len(Body) - Len(data))
        /\ \A g : Reads(g, Body) => g[Len(Body)] = {Over(f, fields) : f \in g[Len(data)]}
        /\ data \in Bytes /\ Len(data) \in Nat \ {0} /\ IsMap(fields) /\ input \in Bytes
    <2>1. Len(data) \in Nat \ {0}
      BY <1>1, EmptySeq DEF Typed, Bytes
    <2>2. QED
      BY <1>1, <2>1 DEF Typed, ReadSoFar
  <1>4. Body \in Bytes /\ Len(Body) \in Nat
    <2>1. Narrow \in 0 .. Len(input)
      BY <1>3, VersionFacts DEF IsPrefix, Versioned, Bytes
    <2>2. Body \in Seq(Cells)
      BY <1>3, <2>1, DropFacts DEF Body, Bytes
    <2>3. QED
      BY <2>2 DEF Bytes
  <1>5. ASSUME NEW g, Reads(g, Body)
        PROVE  g[Len(data)] =
                 IF Accepts(data) THEN {Before(Record(data), f) : f \in g[Len(data) - Length(data)]}
                 ELSE {}
    <2>1. Len(data) \in 1 .. Len(Body)
      BY <1>3, <1>4
    <2>2. g[Len(data)] = FirstRecord(Body, Len(data), g)
      BY <1>5, <2>1 DEF Reads
    <2>3. QED
      BY <1>3, <1>4, <2>1, <2>2, FirstRecordFacts
  <1>6. CASE Accepts(data)
    <2> DEFINE n == Length(data)
               w == Record(data)
    <2>1. /\ fields' = Put(fields, w.field, w.e) /\ data' = Drop(data, n)
          /\ stage' = stage
      BY <1>6 DEF ReadField, Accepts, Length, Record
    <2>2. /\ n \in 3 .. Len(data) /\ w.field \in 0 .. Cell \div 4 - 1
          /\ w.e \in Elements /\ Legal(w.e)
      BY <1>3, <1>6, RecordRead
    <2> HIDE DEF n, w
    <2>3. data' \in Bytes /\ Len(data') = Len(data) - n
      <3>1. n \in 0 .. Len(data)
        BY <1>3, <2>2
      <3>2. QED
        BY <1>3, <2>1, <3>1, DropFacts DEF Bytes
    <2>4. Typed'
      <3>1. IsMap(fields')
        BY <1>3, <2>1, <2>2, PutMap
      <3>2. QED
        BY <1>1, <2>1, <2>3, <3>1 DEF Typed
    <2>5. ReadSoFar'
      <3>1. data' = Drop(Body, Len(Body) - Len(data')) /\ Len(data') <= Len(Body)
        <4> DEFINE m == Len(Body) - Len(data)
        <4>1. m \in Nat /\ n \in Nat /\ m + n <= Len(Body) /\ m + n = Len(Body) - Len(data')
          BY <1>3, <1>4, <2>2, <2>3
        <4>2. data' = Drop(Drop(Body, m), n)
          BY <1>3, <2>1
        <4> HIDE DEF m
        <4>3. data' = Drop(Body, m + n)
          BY <1>4, <4>1, <4>2, DropTwice DEF Bytes
        <4>4. QED
          BY <1>3, <1>4, <2>2, <2>3, <4>1, <4>3
      <3>2. ASSUME NEW g, Reads(g, Body)
            PROVE  g[Len(Body)] = {Over(f, fields') : f \in g[Len(data')]}
        <4>1. g[Len(Body)] = {Over(f, fields) : f \in g[Len(data)]}
          BY <1>3, <3>2
        <4>2. g[Len(data)] = {Before(w, f) : f \in g[Len(data')]}
          BY <1>5, <1>6, <2>3, <3>2 DEF n, w
        <4>3. \A f \in g[Len(data')] : Over(Before(w, f), fields) = Over(f, fields')
          BY <2>1, OverBefore
        <4>4. {Over(f, fields) : f \in {Before(w, h) : h \in g[Len(data')]}} =
                {Over(f, fields') : f \in g[Len(data')]}
          BY <4>3
        <4>5. QED
          BY <4>1, <4>2, <4>4
      <3>3. QED
        BY <1>1, <1>2, <1>3, <2>1, <3>1, <3>2 DEF ReadSoFar
    <2>6. TakenSoFar'
      BY <1>1, <2>1 DEF TakenSoFar
    <2>7. ASSUME OnTheWay PROVE OnTheWay'
      <3>1. PICK k \in 0 .. Cell \div 4 :
              data = FlattenSeq(Drop(Records(Augmented), k)) /\ fields = Below(Augmented, k)
        BY <1>1, <2>7 DEF OnTheWay
      <3>2. IsMap(Augmented)
        BY <2>7, SentFacts DEF OnTheWay
      <3>3. PICK j \in 0 .. Cell \div 4 :
              /\ Drop(data, n) = FlattenSeq(Drop(Records(Augmented), j))
              /\ Put(Below(Augmented, k), w.field, w.e) = Below(Augmented, j)
        BY <1>1, <3>1, <3>2, StepOnTheWay DEF n, w
      <3>4. QED
        BY <1>1, <1>2, <2>1, <2>7, <3>1, <3>3 DEF OnTheWay
    <2>8. QED
      BY <1>1, <2>4, <2>5, <2>6, <2>7 DEF EventIInv
  <1>7. CASE ~Accepts(data)
    <2>1. stage' = "failed" /\ data' = data /\ fields' = fields
      BY <1>7 DEF ReadField, Accepts
    <2>2. Readings(Body) = {}
      <3>1. PICK g : Reads(g, Body) /\ Readings(Body) = g[Len(Body)]
        BY <1>4, ReadingsFacts
      <3>2. g[Len(data)] = {}
        BY <1>5, <1>7, <3>1
      <3>3. g[Len(Body)] = {}
        BY <1>3, <3>1, <3>2
      <3>4. QED
        BY <3>1, <3>3
    <2>3. ~OnTheWay
      <3> SUFFICES ASSUME OnTheWay PROVE FALSE
        OBVIOUS
      <3>1. PICK k \in 0 .. Cell \div 4 : data = FlattenSeq(Drop(Records(Augmented), k))
        BY <1>1 DEF OnTheWay
      <3>2. IsMap(Augmented)
        BY SentFacts DEF OnTheWay
      <3>3. QED
        BY <1>1, <1>7, <3>1, <3>2, StepOnTheWay
    <2>4. Typed'
      BY <1>1, <2>1 DEF Typed
    <2>5. ReadSoFar' /\ TakenSoFar'
      BY <1>2, <2>1, <2>2 DEF ReadSoFar, TakenSoFar
    <2>6. QED
      BY <1>1, <2>3, <2>4, <2>5 DEF EventIInv
  <1>8. QED
    BY <1>6, <1>7

(* Nothing is left: what has been read is what the data holds.              *)
LEMMA EndOfFieldsEventIInv == EventIInv /\ EndOfFields => EventIInv'
  <1> SUFFICES ASSUME EventIInv, EndOfFields PROVE EventIInv'
    OBVIOUS
  <1>1. /\ stage = "fields" /\ data = <<>> /\ stage' = "read" /\ Typed /\ ReadSoFar
        /\ UNCHANGED <<reader, data, fields, element, input, original, gesture>>
    BY DEF EventIInv, EndOfFields
  <1>2. /\ Body' = Body /\ Augmented' = Augmented /\ (Versioned' <=> Versioned)
        /\ Sent' = Sent
    BY <1>1 DEF Body, Augmented, Versioned, Sent
  <1>3. Typed'
    BY <1>1 DEF Typed
  <1>4. ReadSoFar'
    <2>1. /\ Versioned /\ input \in Bytes /\ IsMap(fields) /\ Len(data) = 0
          /\ \A g : Reads(g, Body) => g[Len(Body)] = {Over(f, fields) : f \in g[Len(data)]}
      <3>1. Len(data) = 0
        BY <1>1, EmptySeq
      <3>2. QED
        BY <1>1, <3>1 DEF Typed, ReadSoFar
    <2>2. Body \in Bytes /\ Len(Body) \in Nat
      <3>1. Narrow \in 0 .. Len(input)
        BY <2>1, VersionFacts DEF IsPrefix, Versioned, Bytes
      <3>2. Body \in Seq(Cells)
        BY <2>1, <3>1, DropFacts DEF Body, Bytes
      <3>3. QED
        BY <3>2 DEF Bytes
    <2>3. PICK g : Reads(g, Body) /\ Readings(Body) = g[Len(Body)]
      BY <2>2, ReadingsFacts
    <2>4. g[0] = {NoFields}
      BY <2>2, <2>3 DEF Reads
    <2>5. Over(NoFields, fields) = fields
      BY <2>1, OverNothing DEF IsMap
    <2>6. g[Len(Body)] = {Over(f, fields) : f \in {NoFields}}
      BY <2>1, <2>3, <2>4
    <2>7. Readings(Body) = {fields}
      BY <2>3, <2>5, <2>6
    <2>8. QED
      BY <1>1, <1>2, <2>1, <2>7 DEF ReadSoFar
  <1>5. TakenSoFar'
    BY <1>1 DEF TakenSoFar
  <1>6. ASSUME OnTheWay PROVE OnTheWay'
    <2>1. PICK k \in 0 .. Cell \div 4 :
            data = FlattenSeq(Drop(Records(Augmented), k)) /\ fields = Below(Augmented, k)
      BY <1>1, <1>6 DEF OnTheWay
    <2>2. IsMap(Augmented)
      BY <1>6, SentFacts DEF OnTheWay
    <2>3. fields = Augmented
      BY <1>1, <2>1, <2>2, StepOnTheWay
    <2>4. QED
      BY <1>1, <1>2, <1>6, <2>3 DEF OnTheWay
  <1>7. QED
    BY <1>1, <1>3, <1>4, <1>5, <1>6 DEF EventIInv

(* The engine's event goes to the recorder, or nowhere.                     *)
LEMMA AugmentEventIInv == ASSUME EventIInv, NEW g \in Gestures, Augment(g) PROVE EventIInv'
  <1>1. reader = "engine" /\ stage = "read" /\ Typed /\ IsMap(fields) /\ element' = element
    BY DEF EventIInv, Augment, Typed
  <1>2. CASE /\ reader' = "recorder" /\ stage' = "version"
             /\ data' = Serialize(Put(fields, IOHIDField,
                          [type |-> "blob", value |-> SerializeElement(Generate(g))]))
             /\ input' = data' /\ fields' = NoFields
             /\ original' = fields /\ gesture' = g
    <2>1. data' = Serialize(Augmented')
      BY <1>2 DEF Augmented, Sent
    <2>2. data' \in Bytes
      BY <1>1, <1>2, AugmentedFacts, SerializeFacts
    <2>3. Typed'
      BY <1>1, <1>2, <2>2, NoFieldsMap DEF Typed
    <2>4. ReadSoFar' /\ TakenSoFar'
      BY <1>2 DEF ReadSoFar, TakenSoFar
    <2>5. OnTheWay'
      BY <1>1, <1>2, <2>1 DEF OnTheWay
    <2>6. QED
      BY <2>3, <2>4, <2>5 DEF EventIInv
  <1>3. CASE /\ stage' = "dropped"
             /\ UNCHANGED <<reader, data, input, fields, original, gesture>>
    <2>1. Typed' /\ ReadSoFar' /\ TakenSoFar'
      BY <1>1, <1>3 DEF Typed, ReadSoFar, TakenSoFar
    <2>2. ~OnTheWay
      BY <1>1 DEF OnTheWay
    <2>3. QED
      BY <1>3, <2>1, <2>2 DEF EventIInv
  <1>4. QED
    BY <1>2, <1>3 DEF Augment

(* The recorder takes the element from the fields.                          *)
LEMMA TakeElementEventIInv == EventIInv /\ TakeElement => EventIInv'
  <1> SUFFICES ASSUME EventIInv, TakeElement PROVE EventIInv'
    OBVIOUS
  <1>1. /\ reader = "recorder" /\ stage = "read" /\ Typed /\ IsMap(fields)
        /\ UNCHANGED <<reader, fields, element, input, original, gesture>>
    BY DEF EventIInv, TakeElement, Typed
  <1>2. Augmented' = Augmented /\ Sent' = Sent
    BY <1>1 DEF Augmented, Sent
  <1>3. CASE IOHIDField \in DOMAIN fields /\ fields[IOHIDField].type = "blob"
    <2>1. stage' = "header" /\ data' = fields[IOHIDField].value
      BY <1>3 DEF TakeElement
    <2>2. fields[IOHIDField].value \in Bytes
      BY <1>1, <1>3 DEF IsMap, Elements
    <2>3. Typed'
      BY <1>1, <1>3, <2>1, <2>2 DEF Typed
    <2>4. ReadSoFar' /\ TakenSoFar'
      BY <1>1, <2>1 DEF ReadSoFar, TakenSoFar
    <2>5. OnTheWay => OnTheWay'
      BY <1>1, <1>2, <2>1 DEF OnTheWay
    <2>6. QED
      BY <1>1, <2>3, <2>4, <2>5 DEF EventIInv
  <1>4. CASE ~(IOHIDField \in DOMAIN fields /\ fields[IOHIDField].type = "blob")
    <2>1. stage' = "aborted" /\ data' = data
      BY <1>4 DEF TakeElement
    <2>2. ~OnTheWay
      <3> SUFFICES ASSUME OnTheWay PROVE FALSE
        OBVIOUS
      <3>1. fields = Augmented /\ gesture \in Gestures /\ IsMap(original)
        BY <1>1 DEF OnTheWay
      <3>2. IOHIDField \in DOMAIN Augmented /\ Augmented[IOHIDField].type = "blob"
        BY <3>1, SentFacts
      <3>3. QED
        BY <1>4, <3>1, <3>2
    <2>3. Typed' /\ ReadSoFar' /\ TakenSoFar'
      BY <1>1, <2>1 DEF Typed, ReadSoFar, TakenSoFar
    <2>4. QED
      BY <1>1, <2>2, <2>3 DEF EventIInv
  <1>5. QED
    BY <1>3, <1>4

(* The header is taken off, and what the engine wrote is long enough for it. *)
LEMMA ReadHeaderEventIInv == EventIInv /\ ReadHeader => EventIInv'
  <1> SUFFICES ASSUME EventIInv, ReadHeader PROVE EventIInv'
    OBVIOUS
  <1>1. /\ stage = "header" /\ Typed /\ data \in Seq(Cells)
        /\ data = fields[IOHIDField].value
        /\ UNCHANGED <<reader, fields, input, original, gesture>>
    BY DEF EventIInv, ReadHeader, Typed, TakenSoFar, Bytes
  <1>2. Augmented' = Augmented /\ Sent' = Sent
    BY <1>1 DEF Augmented, Sent
  <1>3. ASSUME OnTheWay
        PROVE  /\ Len(data) >= HeaderSize /\ SubSeq(data, 1, HeaderSize) = Sent.header
               /\ Drop(data, HeaderSize) = FlattenSeq(Sent.events)
               /\ Sent.events \in Seq(Seq(Cells)) /\ fields = Augmented
    <2> DEFINE h == Sent.header
               f == FlattenSeq(Sent.events)
    <2>1. gesture \in Gestures /\ IsMap(original) /\ fields = Augmented
      BY <1>1, <1>3 DEF OnTheWay
    <2>2. data = h \o f
      <3>1. Augmented[IOHIDField].value = SerializeElement(Sent)
        BY <2>1, SentFacts
      <3>2. QED
        BY <1>1, <2>1, <3>1 DEF SerializeElement
    <2>3. /\ Sent.events \in Seq(Seq(Cells)) /\ h \in Seq(Cells) /\ Len(h) = HeaderSize
      <3>1. Sent = Generate(gesture)
        BY DEF Sent
      <3>2. QED
        BY <2>1, <3>1, GenerateFacts
    <2>4. f \in Seq(Cells)
      <3>1. <<>> \in Seq(Cells)
        BY EmptySeq
      <3>2. QED
        BY <2>3, <3>1, FlattenAppend
    <2> HIDE DEF h, f
    <2>5. /\ SubSeq(data, 1, Len(h)) = h /\ Drop(data, Len(h)) = f
          /\ Len(data) = Len(h) + Len(f)
      <3>1. SubSeq(h \o f, 1, Len(h)) = h /\ Drop(h \o f, Len(h)) = f
        BY <2>3, <2>4, DropConcat
      <3>2. Len(h \o f) = Len(h) + Len(f)
        BY <2>3, <2>4, ConcatProperties
      <3>3. QED
        BY <2>2, <3>1, <3>2
    <2>6. Len(f) \in Nat /\ Len(h) \in Nat
      BY <2>3, <2>4
    <2>7. Len(data) >= Len(h)
      BY <2>5, <2>6
    <2>8. QED
      BY <2>1, <2>3, <2>5, <2>7 DEF h, f
  <1>4. CASE Len(data) >= HeaderSize
    <2> DEFINE h == SubSeq(data, 1, HeaderSize)
               rest == Drop(data, HeaderSize)
    <2>1. stage' = "events" /\ data' = rest /\ element' = [header |-> h, events |-> <<>>]
      BY <1>1, <1>4 DEF ReadHeader
    <2>2. h \in Seq(Cells) /\ Len(h) = HeaderSize /\ rest \in Seq(Cells) /\ data = h \o rest
      <3>1. HeaderSize \in 0 .. Len(data)
        BY <1>1, <1>4 DEF HeaderSize
      <3>2. QED
        BY <1>1, <3>1, TakeFacts, DropFacts, TakeAndDrop
    <2> HIDE DEF h, rest
    <2>3. SerializeElement(element') = h
      <3>1. FlattenSeq(<<>>) = <<>>
        BY DEF FlattenSeq
      <3>2. h \o <<>> = h
        BY <2>2, ConcatEmptySeq
      <3>3. QED
        BY <2>1, <3>1, <3>2 DEF SerializeElement
    <2>4. element'.header = h /\ element'.events = <<>>
          /\ element' = [header |-> element'.header, events |-> element'.events]
      BY <2>1
    <2>5. Typed'
      <3>1. <<>> \in Seq(Bytes)
        BY EmptySeq
      <3>2. QED
        BY <1>1, <2>1, <2>2, <2>4, <3>1 DEF Typed, Bytes
    <2>6. ReadSoFar' /\ TakenSoFar'
      <3>1. fields'[IOHIDField].value = SerializeElement(element') \o data'
        BY <1>1, <2>1, <2>2, <2>3
      <3>2. QED
        BY <2>1, <3>1 DEF ReadSoFar, TakenSoFar
    <2>7. ASSUME OnTheWay PROVE OnTheWay'
      <3> DEFINE ev == Sent.events
      <3>1. ev \in Seq(Seq(Cells)) /\ h = Sent.header /\ rest = FlattenSeq(ev) /\ fields = Augmented
        BY <1>3, <2>7 DEF h, rest
      <3> HIDE DEF ev
      <3>2. /\ Len(<<>>) = 0 /\ 0 <= Len(ev) /\ SubSeq(ev, 1, 0) = <<>> /\ Drop(ev, 0) = ev
        BY <3>1, EmptySeq, SubSeqEmpty, DropNothing
      <3>3. /\ element'.header = Sent.header /\ Len(element'.events) = 0
            /\ element'.events = SubSeq(ev, 1, 0) /\ data' = FlattenSeq(Drop(ev, 0))
        BY <2>1, <2>4, <3>1, <3>2
      <3>4. reader = "recorder" /\ gesture \in Gestures /\ IsMap(original)
        BY <2>7 DEF OnTheWay
      <3>5. QED
        BY <1>1, <1>2, <2>1, <3>1, <3>2, <3>3, <3>4 DEF OnTheWay, ev
    <2>8. QED
      BY <1>1, <2>5, <2>6, <2>7 DEF EventIInv
  <1>5. CASE ~(Len(data) >= HeaderSize)
    <2>1. stage' = "skipped" /\ data' = data /\ element' = element
      BY <1>5 DEF ReadHeader
    <2>2. ~OnTheWay
      BY <1>3, <1>5
    <2>3. Typed' /\ ReadSoFar' /\ TakenSoFar'
      BY <1>1, <2>1 DEF Typed, ReadSoFar, TakenSoFar
    <2>4. QED
      BY <1>1, <2>2, <2>3 DEF EventIInv
  <1>6. QED
    BY <1>4, <1>5

(* A struct is moved from what is left to the element.                      *)
LEMMA ReadEventEventIInv == EventIInv /\ ReadEvent => EventIInv'
  <1> SUFFICES ASSUME EventIInv, ReadEvent PROVE EventIInv'
    OBVIOUS
  <1> DEFINE count == EventCount(element)
             head == element.header
             events == element.events
             n == StructAt(data)
             x == SubSeq(data, 1, n)
  <1>1. /\ stage = "events" /\ Typed /\ data \in Seq(Cells) /\ Len(events) < count
        /\ element = [header |-> head, events |-> events]
        /\ head \in Seq(Cells) /\ Len(head) = HeaderSize /\ events \in Seq(Seq(Cells))
        /\ fields[IOHIDField].value = SerializeElement(element) \o data
        /\ UNCHANGED <<reader, fields, input, original, gesture>>
    BY DEF EventIInv, ReadEvent, Typed, TakenSoFar, Bytes
  <1>2. Augmented' = Augmented /\ Sent' = Sent
    BY <1>1 DEF Augmented, Sent
  <1>3. ASSUME OnTheWay
        PROVE  LET m == Len(events)
                   ev == Sent.events
               IN  /\ n # 0 /\ reader = "recorder" /\ m + 1 <= Len(ev) /\ head = Sent.header
                   /\ Append(events, x) = SubSeq(ev, 1, m + 1)
                   /\ Drop(data, n) = FlattenSeq(Drop(ev, m + 1))
    <2> DEFINE m == Len(events)
               ev == Sent.events
               rest == FlattenSeq(Drop(ev, m + 1))
    <2>1. /\ reader = "recorder" /\ gesture \in Gestures /\ head = Sent.header /\ m <= Len(ev)
          /\ events = SubSeq(ev, 1, m) /\ data = FlattenSeq(Drop(ev, m))
      BY <1>1, <1>3 DEF OnTheWay
    <2>2. /\ ev \in Seq(Seq(Cells)) /\ Len(ev) \in Nat
          /\ ev \in {<<Touch(gesture)>>, <<Touch(gesture), Flick(gesture)>>}
          /\ count = Len(ev)
      <3>1. Sent = Generate(gesture)
        BY DEF Sent
      <3>2. count = EventCount(Sent)
        BY <2>1 DEF EventCount
      <3>3. QED
        BY <2>1, <3>1, <3>2, GenerateFacts
    <2>3. m \in Nat /\ m + 1 \in 1 .. Len(ev)
      BY <1>1, <2>1, <2>2
    <2> HIDE DEF m, ev, count, events, n
    <2>4. ev[m + 1] \in {Touch(gesture), Flick(gesture)} /\ ev[m + 1] \in Seq(Cells)
      <3>1. ev[m + 1] \in Seq(Cells)
        BY <2>2, <2>3, ElementOfSeq
      <3>2. CASE ev = <<Touch(gesture)>>
        <4>1. m + 1 = 1
          BY <2>3, <3>2
        <4>2. QED
          BY <3>1, <3>2, <4>1
      <3>3. CASE ev = <<Touch(gesture), Flick(gesture)>>
        <4>1. m + 1 \in {1, 2}
          BY <2>3, <3>3
        <4>2. QED
          BY <3>1, <3>3, <4>1
      <3>4. QED
        BY <2>2, <3>2, <3>3
    <2>5. Drop(ev, m) = <<ev[m + 1]>> \o Drop(ev, m + 1)
      <3>1. Len(ev) \in m + 1 .. Len(ev)
        BY <2>2, <2>3
      <3>2. QED
        BY <2>2, <2>3, <3>1, SubSeqRecursiveFirst DEF Drop
    <2>6. Drop(ev, m + 1) \in Seq(Seq(Cells))
      BY <2>2, <2>3, DropFacts
    <2>7. rest \in Seq(Cells)
      BY <2>4, <2>6, FlattenAppend
    <2>8. data = ev[m + 1] \o rest
      <3>1. <<ev[m + 1]>> \in Seq(Seq(Cells)) /\ FlattenSeq(<<ev[m + 1]>>) = ev[m + 1]
        BY <2>4, FlattenOne
      <3>2. QED
        BY <2>1, <2>5, <2>6, <3>1, FlattenConcat DEF m, events, ev
    <2> HIDE DEF rest
    <2>9. n = Len(ev[m + 1]) /\ n # 0 /\ x = ev[m + 1] /\ Drop(data, n) = rest
      BY <2>1, <2>4, <2>7, <2>8, StructFound DEF Bytes, n
    <2>10. Append(SubSeq(ev, 1, m), ev[m + 1]) = SubSeq(ev, 1, m + 1)
      <3>1. 1 \in 1 .. Len(ev) /\ m + 1 \in 1 .. Len(ev) /\ (m + 1) - 1 = m /\ m \in 0 .. Len(ev)
        BY <2>2, <2>3
      <3>2. SubSeq(ev, 1, m + 1) = SubSeq(ev, 1, m) \o <<ev[m + 1]>>
        BY <2>2, <3>1, SubSeqRecursiveSecond
      <3>3. SubSeq(ev, 1, m) \in Seq(Seq(Cells))
        BY <2>2, <3>1, TakeFacts
      <3>4. QED
        BY <2>4, <3>2, <3>3, AppendIsConcat
    <2>11. m + 1 <= Len(ev)
      BY <2>3
    <2>12. Append(events, x) = SubSeq(ev, 1, m + 1)
      BY <2>1, <2>9, <2>10
    <2>13. QED
      BY <2>1, <2>9, <2>11, <2>12 DEF rest, m, ev, events, count
  <1>4. CASE n # 0
    <2>1. data' = Drop(data, n) /\ stage' = "events"
      BY <1>1, <1>4 DEF ReadEvent
    <2>2. element' = [header |-> head, events |-> Append(events, x)]
      BY <1>1, <1>4 DEF ReadEvent
    <2>3. n \in 0 .. Len(data)
      BY <1>1, <1>4 DEF StructAt, FluidSize, VelocitySize
    <2>4. x \in Seq(Cells) /\ Drop(data, n) \in Seq(Cells) /\ data = x \o Drop(data, n)
      BY <1>1, <2>3, TakeFacts, DropFacts, TakeAndDrop
    <2> HIDE DEF n, x
    <2>5. Append(events, x) \in Seq(Seq(Cells))
      BY <1>1, <2>4
    <2>6. Typed'
      BY <1>1, <2>1, <2>2, <2>4, <2>5 DEF Typed, Bytes
    <2>7. TakenSoFar'
      <3> DEFINE f == FlattenSeq(events)
                 h == head
                 r == Drop(data, n)
      <3>1. h \in Seq(Cells) /\ f \in Seq(Cells) /\ r \in Seq(Cells)
        BY <1>1, <2>4, FlattenAppend
      <3>2. FlattenSeq(Append(events, x)) = f \o x
        BY <1>1, <2>4, FlattenAppend
      <3>3. SerializeElement(element) = h \o f /\ SerializeElement(element') = h \o (f \o x)
        BY <2>2, <3>2 DEF SerializeElement
      <3> HIDE DEF f, h, r
      <3>4. h \o (f \o x) = (h \o f) \o x
        BY <2>4, <3>1, ConcatAssociative
      <3>5. ((h \o f) \o x) \o r = (h \o f) \o (x \o r)
        <4> DEFINE k == h \o f
        <4>1. k \in Seq(Cells)
          BY <3>1, ConcatProperties
        <4> HIDE DEF k
        <4>2. (k \o x) \o r = k \o (x \o r)
          BY <2>4, <3>1, <4>1, ConcatAssociative
        <4>3. QED
          BY <4>2 DEF k
      <3>6. fields'[IOHIDField].value = SerializeElement(element') \o data'
        BY <1>1, <2>1, <2>4, <3>3, <3>4, <3>5 DEF r
      <3>7. QED
        BY <2>1, <3>6 DEF TakenSoFar
    <2>8. ReadSoFar'
      BY <2>1 DEF ReadSoFar
    <2>9. ASSUME OnTheWay PROVE OnTheWay'
      <3> DEFINE m == Len(events)
                 ev == Sent.events
      <3>1. /\ reader = "recorder" /\ m + 1 <= Len(ev) /\ head = Sent.header
            /\ Append(events, x) = SubSeq(ev, 1, m + 1)
            /\ Drop(data, n) = FlattenSeq(Drop(ev, m + 1))
        BY <1>3, <2>9 DEF n, x
      <3>2. Len(Append(events, x)) = m + 1
        BY <1>1, <2>4
      <3>3. /\ element'.header = Sent.header /\ Len(element'.events) = m + 1
            /\ element'.events = SubSeq(ev, 1, m + 1) /\ data' = FlattenSeq(Drop(ev, m + 1))
        BY <2>1, <2>2, <3>1, <3>2
      <3>4. fields = Augmented /\ gesture \in Gestures /\ IsMap(original)
        BY <1>1, <2>9 DEF OnTheWay
      <3> HIDE DEF m
      <3>5. QED
        BY <1>1, <1>2, <2>1, <3>1, <3>3, <3>4 DEF OnTheWay
    <2>10. QED
      BY <1>1, <2>6, <2>7, <2>8, <2>9 DEF EventIInv
  <1>5. CASE n = 0
    <2>1. stage' = "skipped" /\ data' = data /\ element' = element
      BY <1>5 DEF ReadEvent
    <2>2. ~OnTheWay
      BY <1>3, <1>5
    <2>3. Typed' /\ ReadSoFar' /\ TakenSoFar'
      BY <1>1, <2>1 DEF Typed, ReadSoFar, TakenSoFar
    <2>4. QED
      BY <1>1, <2>2, <2>3 DEF EventIInv
  <1>6. QED
    BY <1>4, <1>5

(* All structs have been taken off; then nothing may be left.               *)
LEMMA EndOfEventsEventIInv == EventIInv /\ EndOfEvents => EventIInv'
  <1> SUFFICES ASSUME EventIInv, EndOfEvents PROVE EventIInv'
    OBVIOUS
  <1> DEFINE count == EventCount(element)
             head == element.header
             events == element.events
  <1>1. /\ stage = "events" /\ Typed /\ Len(events) >= count
        /\ element = [header |-> head, events |-> events]
        /\ head \in Seq(Cells) /\ Len(head) = HeaderSize /\ events \in Seq(Seq(Cells))
        /\ fields[IOHIDField].value = SerializeElement(element) \o data
        /\ stage' = IF data = <<>> THEN "recorded" ELSE "skipped"
        /\ UNCHANGED <<reader, data, fields, element, input, original, gesture>>
    BY DEF EventIInv, EndOfEvents, Typed, TakenSoFar, Bytes
  <1>2. Augmented' = Augmented /\ Sent' = Sent
    BY <1>1 DEF Augmented, Sent
  <1>3. ASSUME OnTheWay PROVE data = <<>> /\ element = Sent
    <2> DEFINE ev == Sent.events
    <2>1. /\ gesture \in Gestures /\ head = Sent.header /\ Len(events) <= Len(ev)
          /\ events = SubSeq(ev, 1, Len(events)) /\ data = FlattenSeq(Drop(ev, Len(events)))
      BY <1>1, <1>3 DEF OnTheWay
    <2>2. /\ ev \in Seq(Seq(Cells)) /\ Len(ev) \in Nat /\ count = Len(ev)
          /\ Sent = [header |-> Sent.header, events |-> ev]
      <3>1. Sent = Generate(gesture)
        BY DEF Sent
      <3>2. count = EventCount(Sent)
        BY <2>1 DEF EventCount
      <3>3. QED
        BY <2>1, <3>1, <3>2, GenerateFacts
    <2>3. Len(events) = Len(ev)
      BY <1>1, <2>1, <2>2
    <2>4. events = ev
      BY <2>1, <2>2, <2>3, SubSeqFull
    <2>5. data = <<>>
      <3>1. Drop(ev, Len(ev)) = <<>>
        BY <2>2, DropNothing
      <3>2. FlattenSeq(<<>>) = <<>>
        BY DEF FlattenSeq
      <3>3. QED
        BY <2>1, <2>3, <3>1, <3>2
    <2> HIDE DEF ev
    <2>6. QED
      BY <1>1, <2>1, <2>2, <2>4, <2>5
  <1>4. Typed'
    BY <1>1 DEF Typed
  <1>5. TakenSoFar'
    <2>1. SerializeElement(element) \in Seq(Cells)
      <3>1. <<>> \in Seq(Cells) /\ head \in Seq(Cells)
        BY <1>1
      <3>2. FlattenSeq(events) \in Seq(Cells)
        BY <1>1, <3>1, FlattenAppend
      <3>3. QED
        BY <3>1, <3>2, ConcatProperties DEF SerializeElement
    <2>2. data = <<>> => fields[IOHIDField].value = SerializeElement(element)
      BY <1>1, <2>1, ConcatEmptySeq
    <2>3. QED
      BY <1>1, <2>2 DEF TakenSoFar
  <1>6. ReadSoFar'
    BY <1>1 DEF ReadSoFar
  <1>7. OnTheWay => OnTheWay'
    BY <1>1, <1>2, <1>3 DEF OnTheWay
  <1>8. QED
    BY <1>1, <1>4, <1>5, <1>6, <1>7 DEF EventIInv

-----------------------------------------------------------------------------
(* Whatever the OS hands over and whatever is posted, the reader is where   *)
(* EventIInv says in what it was given.                                          *)
THEOREM EventInvariance == SerializationSpec => []EventIInv
  <1>1. ASSUME EventIInv, [SerializationNext]_serializationVars PROVE EventIInv'
    <2>1. CASE ReadVersion
      BY <1>1, <2>1, ReadVersionEventIInv
    <2>2. CASE ReadField
      BY <1>1, <2>2, ReadFieldEventIInv
    <2>3. CASE EndOfFields
      BY <1>1, <2>3, EndOfFieldsEventIInv
    <2>4. ASSUME NEW g \in Gestures, Augment(g) PROVE EventIInv'
      BY <1>1, <2>4, AugmentEventIInv
    <2>5. CASE TakeElement
      BY <1>1, <2>5, TakeElementEventIInv
    <2>6. CASE ReadHeader
      BY <1>1, <2>6, ReadHeaderEventIInv
    <2>7. CASE ReadEvent
      BY <1>1, <2>7, ReadEventEventIInv
    <2>8. CASE EndOfEvents
      BY <1>1, <2>8, EndOfEventsEventIInv
    <2>9. CASE UNCHANGED serializationVars
      <3>1. /\ Body' = Body /\ (Versioned' <=> Versioned) /\ Sent' = Sent
            /\ Augmented' = Augmented
        BY <2>9 DEF serializationVars, Body, Versioned, Sent, Augmented
      <3>2. Typed' /\ TakenSoFar'
        BY <1>1, <2>9 DEF EventIInv, serializationVars, Typed, TakenSoFar
      <3>3. ReadSoFar'
        BY <1>1, <2>9, <3>1 DEF EventIInv, serializationVars, ReadSoFar
      <3>4. OnTheWay => OnTheWay'
        BY <2>9, <3>1 DEF serializationVars, OnTheWay
      <3>5. QED
        BY <1>1, <2>9, <3>2, <3>3, <3>4 DEF EventIInv, serializationVars
    <2>10. QED
      BY <1>1, <2>1, <2>2, <2>3, <2>4, <2>5, <2>6, <2>7, <2>8, <2>9 DEF SerializationNext
  <1>2. QED
    BY <1>1, InitEventIInv, PTL DEF SerializationSpec

(* The reader of CGEventData, and the recorder's of the queue element,      *)
(* accept exactly what SerializeCGEventData() and the element's writer may  *)
(* write, and read from it what was written.                                *)
THEOREM ReadsOnlyWhatIsWritten == SerializationSpec => []ReadsWhatIsWritten
  <1>1. EventIInv => ReadsWhatIsWritten
    <2> SUFFICES ASSUME EventIInv PROVE ReadsWhatIsWritten
      OBVIOUS
    <2> DEFINE readings == IF IsPrefix(Version, input) THEN Readings(Drop(input, Narrow)) ELSE {}
    <2>1. readings = IF Versioned THEN Readings(Body) ELSE {}
      BY DEF Versioned, Body
    <2> HIDE DEF readings
    <2>2. stage = "read" => fields \in readings
      BY <2>1 DEF EventIInv, ReadSoFar
    <2>3. stage = "failed" => readings = {}
      BY <2>1 DEF EventIInv, ReadSoFar
    <2>4. stage = "recorded" => SerializeElement(element) = fields[IOHIDField].value
      BY DEF EventIInv, TakenSoFar
    <2>5. QED
      BY <2>2, <2>3, <2>4 DEF ReadsWhatIsWritten, readings
  <1>2. QED
    BY <1>1, EventInvariance, PTL

(* What the engine has augmented is read back without error, and only the   *)
(* queue element has changed.                                               *)
THEOREM AugmentedKeepsRest == SerializationSpec => []AugmentKeepsRest
  <1>1. EventIInv => AugmentKeepsRest
    <2> SUFFICES ASSUME EventIInv, original # None PROVE AugmentKeepsRest
      BY DEF AugmentKeepsRest
    <2>1. OnTheWay
      BY DEF EventIInv
    <2>2. stage \notin {"failed", "aborted", "skipped"}
      BY <2>1 DEF OnTheWay
    <2>3. stage = "read" => fields = Augmented
      BY <2>1 DEF OnTheWay
    <2>4. /\ DOMAIN Augmented = DOMAIN original \cup {IOHIDField}
          /\ \A f \in DOMAIN original \ {IOHIDField} : Augmented[f] = original[f]
      BY <2>1, SentFacts DEF OnTheWay
    <2>5. QED
      BY <2>2, <2>3, <2>4 DEF AugmentKeepsRest
  <1>2. QED
    BY <1>1, EventInvariance, PTL

(* The Dock gets the phase, the axis and the directions of the gesture that *)
(* was posted, for any precision of FixedFP1616 and any values.             *)
THEOREM ElementTellsTheGesture == SerializationSpec => []ElementTellsGesture
  <1>1. EventIInv => ElementTellsGesture
    <2> SUFFICES ASSUME EventIInv, stage = "recorded", gesture # None PROVE ElementTellsGesture
      BY DEF ElementTellsGesture
    <2>1. OnTheWay
      BY DEF EventIInv
    <2>2. element = Sent /\ gesture \in Gestures
      BY <2>1 DEF OnTheWay
    <2>3. /\ element.events \in {<<Touch(gesture)>>, <<Touch(gesture), Flick(gesture)>>}
          /\ element.events = <<Touch(gesture)>> =>
               gesture.velocity_x = 0 /\ gesture.velocity_y = 0 /\ gesture.phase # kGestureEnded
      <3>1. Sent = Generate(gesture)
        BY DEF Sent
      <3>2. QED
        BY <2>2, <3>1, GenerateFacts
    <2>4. /\ Touch(gesture)[3] = gesture.phase /\ Touch(gesture)[4] = gesture.motion
          /\ Sign(Touch(gesture)[5]) = SignOf(gesture.progress)
          /\ Sign(Flick(gesture)[3]) = SignOf(gesture.velocity_x)
          /\ Sign(Flick(gesture)[4]) = SignOf(gesture.velocity_y)
      BY <2>2, StructFacts
    <2>5. element.events[1] = Touch(gesture)
      BY <2>3
    <2>6. CASE element.events = <<Touch(gesture)>>
      <3>1. Len(element.events) = 1
        BY <2>6
      <3>2. QED
        BY <2>3, <2>4, <2>5, <2>6, <3>1 DEF ElementTellsGesture
    <2>7. CASE element.events = <<Touch(gesture), Flick(gesture)>>
      <3>1. element.events[2] = Flick(gesture) /\ Len(element.events) = 2
        BY <2>7
      <3>2. QED
        BY <2>4, <2>5, <3>1 DEF ElementTellsGesture
    <2>8. QED
      BY <2>3, <2>6, <2>7
  <1>2. QED
    BY <1>1, EventInvariance, PTL
=============================================================================
