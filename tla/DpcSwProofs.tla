---------------------------- MODULE DpcSwProofs ----------------------------
(***************************************************************************)
(* Proofs about DpcSw for every capacity, batch size and number of events. *)
(*                                                                         *)
(* The ring is tied to the history by serial numbers: the window of count  *)
(* slots from tail holds the youngest count events, in order, so what is   *)
(* taken from tail is always the next number after all that left before.   *)
(***************************************************************************)
EXTENDS DpcSw, TLAPS, SequenceTheorems

InCallback == IF Dispatching THEN 1 ELSE 0

\* The producer index follows from the other two.
HeadAtEnd == head = At(tail, count)

\* The window holds consecutive serials, the last one accepted at its end.
WindowHolds ==
  \A k \in Nat : k < count => queue[At(tail, k)] = enqueued - count + k + 1

\* The running callback has the event after the last processed one.
CurrentIsNext ==
  Dispatching => /\ current = processed + 1
                 /\ reclaimed = 0

\* An open queue never failed and gave nothing back.
OpenIsClean == accepting => reclaimed = 0 /\ ~failed

\* What the histories hold.
DeliveredAre ==
  /\ Len(delivered) = processed + InCallback
  /\ \A k \in 1 .. Len(delivered) : delivered[k] = k
ReturnedAre ==
  /\ Len(returned) = reclaimed
  /\ \A k \in 1 .. Len(returned) : returned[k] = processed + InCallback + k

FailedIsOver == failed => ~Dispatching /\ failedToken = processed

IInv ==
  /\ TypeOK
  /\ Conserved
  /\ HeadAtEnd
  /\ WindowHolds
  /\ CurrentIsNext
  /\ OpenIsClean
  /\ DeliveredAre
  /\ ReturnedAre
  /\ FailedIsOver

-----------------------------------------------------------------------------
\* Ring positions: in range, distinct within one turn, and additive.
LEMMA AtInIndex ==
  ASSUME NEW i \in Index, NEW k \in 0 .. Capacity
  PROVE  At(i, k) \in Index
BY DpcAssumption, SMT DEF At, Index

\* Two positions less than one turn apart differ.
LEMMA AtDistinct ==
  ASSUME NEW i \in Index, NEW j \in 0 .. Capacity - 1, NEW k \in 0 .. Capacity - 1,
         j # k
  PROVE  At(i, j) # At(i, k)
BY DpcAssumption, SMT DEF At, Index

\* Going on from a position adds up.
LEMMA AtAdds ==
  ASSUME NEW i \in Index, NEW j \in 0 .. Capacity, NEW k \in 0 .. Capacity,
         j + k <= Capacity
  PROVE  At(At(i, j), k) = At(i, j + k)
BY DpcAssumption, SMT DEF At, Index

\* ob_dpc_sw_advance goes one position on.
LEMMA AdvanceIsAt ==
  ASSUME NEW i \in Index, NEW k \in 0 .. Capacity - 1
  PROVE  /\ Advance(i) = At(i, 1)
         /\ Advance(At(i, k)) = At(i, k + 1)
         /\ Advance(i) \in Index
BY DpcAssumption, SMT DEF Advance, At, Index

\* Zero positions on is where one started.
LEMMA AtZero ==
  ASSUME NEW i \in Index
  PROVE  At(i, 0) = i
BY DpcAssumption, SMT DEF At, Index

-----------------------------------------------------------------------------
\* A fresh queue satisfies the invariant.
LEMMA InitIInv == Init => IInv
<1> SUFFICES ASSUME Init PROVE IInv
  OBVIOUS
<1>1. TypeOK
  <2>1. 0 \in Index /\ 0 \in 0 .. Capacity /\ 0 \in 0 .. MaxEvents /\ 0 \in 0 .. MaxBatch
    BY DpcAssumption DEF Index
  <2>2. <<>> \in Seq(Serial)
    OBVIOUS
  <2> QED
    BY <2>1, <2>2 DEF Init, TypeOK, NoEvent
<1>2. HeadAtEnd
  BY DpcAssumption DEF Init, HeadAtEnd, At
<1> QED
  BY <1>1, <1>2 DEF Init, IInv, Conserved, WindowHolds, CurrentIsNext, OpenIsClean,
     DeliveredAre, ReturnedAre, FailedIsOver, InCallback, Dispatching, NoEvent

\* The oldest event of a queue that is not empty is the one after all that left.
LEMMA OldestIsNext ==
  ASSUME IInv, count > 0
  PROVE  /\ queue[tail] = enqueued - count + 1
         /\ queue[tail] \in Serial
         /\ queue[tail] # NoEvent
<1>1. At(tail, 0) = tail
  BY AtZero DEF IInv, TypeOK
<1>2. queue[tail] = enqueued - count + 0 + 1
  BY <1>1 DEF IInv, WindowHolds
<1>3. enqueued - count \in Nat
  BY DEF IInv, TypeOK, Conserved
<1> QED
  BY <1>2, <1>3, DpcAssumption DEF IInv, TypeOK, Serial, NoEvent

\* Taking the oldest event off the ring keeps the window.
LEMMA TakeWindow ==
  ASSUME IInv, count > 0, NEW b, Take(b), UNCHANGED <<queue, head, enqueued>>
  PROVE  /\ HeadAtEnd'
         /\ WindowHolds'
         /\ tail' \in Index
         /\ count' \in 0 .. Capacity
<1>1. tail \in Index /\ count \in 0 .. Capacity
  BY DEF IInv, TypeOK
<1>2. tail' = At(tail, 1) /\ tail' \in Index
  BY <1>1, AdvanceIsAt, DpcAssumption DEF Take
<1>3. count' = count - 1 /\ count' \in 0 .. Capacity
  BY <1>1, DpcAssumption DEF Take
<1>4. \A k \in Nat : k <= count' => At(tail', k) = At(tail, k + 1)
  BY <1>1, <1>2, <1>3, AtAdds, DpcAssumption
<1>5. HeadAtEnd'
  BY <1>1, <1>3, <1>4 DEF HeadAtEnd, IInv
<1>6. ASSUME NEW k \in Nat, k < count'
      PROVE  queue'[At(tail', k)] = enqueued' - count' + k + 1
  <2>1. At(tail', k) = At(tail, k + 1)
    BY <1>3, <1>4, <1>6
  <2>2. queue[At(tail, k + 1)] = enqueued - count + (k + 1) + 1
    BY <1>1, <1>3, <1>6 DEF IInv, WindowHolds
  <2> QED
    BY <1>1, <1>3, <2>1, <2>2 DEF IInv, TypeOK
<1> QED
  BY <1>2, <1>3, <1>5, <1>6 DEF WindowHolds

-----------------------------------------------------------------------------
\* Accepting an event extends the window at the head.
LEMMA EnqueueIInv == IInv /\ Enqueue => IInv'
<1> SUFFICES ASSUME IInv, Enqueue PROVE IInv'
  OBVIOUS
<1> USE DEF IInv, Enqueue, MayEnqueue
<1>1. /\ tail \in Index /\ head \in Index /\ count \in 0 .. Capacity - 1
      /\ enqueued \in 0 .. MaxEvents - 1
  BY DpcAssumption DEF TypeOK
<1>2. head = At(tail, count)
  BY DEF HeadAtEnd
<1>3. HeadAtEnd' /\ head' \in Index
  BY <1>1, <1>2, AdvanceIsAt DEF HeadAtEnd
<1>4. TypeOK'
  BY <1>1, <1>3, DpcAssumption DEF TypeOK, Serial
<1>5. ASSUME NEW k \in Nat, k < count'
      PROVE  queue'[At(tail', k)] = enqueued' - count' + k + 1
  <2>1. At(tail, k) \in Index
    BY <1>1, <1>5, AtInIndex, DpcAssumption
  <2>2. CASE k = count
    BY <1>1, <1>2, <2>1, <2>2 DEF TypeOK
  <2>3. CASE k < count
    <3>1. At(tail, k) # head
      BY <1>1, <1>2, <2>3, AtDistinct, DpcAssumption
    <3>2. queue'[At(tail, k)] = queue[At(tail, k)]
      BY <2>1, <3>1 DEF TypeOK
    <3> QED
      BY <1>1, <2>3, <3>2 DEF WindowHolds
  <2> QED
    BY <1>1, <1>5, <2>2, <2>3
<1>6. WindowHolds'
  BY <1>5 DEF WindowHolds
<1>7. Conserved'
  BY <1>1 DEF Conserved, Dispatching, TypeOK, NoEvent
<1>8. CurrentIsNext' /\ OpenIsClean' /\ DeliveredAre' /\ ReturnedAre' /\ FailedIsOver'
  BY DEF CurrentIsNext, OpenIsClean, DeliveredAre, ReturnedAre, FailedIsOver,
         InCallback, Dispatching
<1> QED
  BY <1>3, <1>4, <1>6, <1>7, <1>8

\* Handing out the oldest event shortens the window at the tail.
LEMMA DispatchIInv ==
  ASSUME NEW budget \in 1 .. MaxBatch + 1, IInv, Dispatch(budget)
  PROVE  IInv'
<1> USE DEF IInv, Dispatch, GoesOn
<1>1. /\ count > 0 /\ accepting /\ ~failed /\ current = NoEvent
      /\ count \in 0 .. Capacity /\ reclaimed = 0
  BY DEF TypeOK, Dispatching, OpenIsClean
<1>2. Take(Limit(budget)) /\ Limit(budget) \in 1 .. MaxBatch
  BY DpcAssumption DEF Limit
<1>3. HeadAtEnd' /\ WindowHolds' /\ tail' \in Index /\ count' \in 0 .. Capacity
  BY <1>1, <1>2, TakeWindow
<1>4. /\ current' = processed + 1 /\ current' \in Serial /\ current' # NoEvent
      /\ count' = count - 1 /\ left' \in 0 .. MaxBatch
  BY <1>1, <1>2, OldestIsNext, DpcAssumption
     DEF Take, Conserved, TypeOK, Dispatching, NoEvent
<1>5. /\ delivered \in Seq(Serial)
      /\ delivered' = Append(delivered, current')
      /\ Len(delivered) = processed
  BY <1>1, <1>2 DEF TypeOK, Take, DeliveredAre, InCallback, Dispatching
<1>6. TypeOK'
  BY <1>3, <1>4, <1>5 DEF TypeOK
<1>7. Conserved'
  BY <1>1, <1>4 DEF Conserved, Dispatching, TypeOK
<1>8. DeliveredAre'
  BY <1>4, <1>5 DEF DeliveredAre, InCallback, Dispatching, TypeOK
<1>9. CurrentIsNext' /\ OpenIsClean' /\ FailedIsOver'
  BY <1>1, <1>4 DEF CurrentIsNext, OpenIsClean, FailedIsOver
<1>10. ReturnedAre'
  BY <1>1 DEF ReturnedAre, TypeOK
<1> QED
  BY <1>3, <1>6, <1>7, <1>8, <1>9, <1>10

\* A callback that returns is counted, and the next event may be handed out.
LEMMA ProcessSucceedsIInv == IInv /\ ProcessSucceeds => IInv'
<1> SUFFICES ASSUME IInv, ProcessSucceeds PROVE IInv'
  OBVIOUS
<1> USE DEF IInv, ProcessSucceeds
<1>1. /\ current # NoEvent /\ current = processed + 1 /\ ~failed /\ reclaimed = 0
      /\ enqueued = processed + count + 1
  BY DEF CurrentIsNext, Dispatching, FailedIsOver, Conserved, TypeOK
<1>2. /\ processed' = processed + 1 /\ processed' \in 0 .. MaxEvents
      /\ processed' = Len(delivered)
      /\ enqueued' = processed' + count
  <2>1. /\ processed \in Nat /\ count \in Nat /\ enqueued <= MaxEvents
        /\ MaxEvents \in Nat
    BY DpcAssumption DEF TypeOK
  <2>2. Len(delivered) = processed + 1
    BY <1>1 DEF DeliveredAre, InCallback, Dispatching
  <2> QED
    BY <1>1, <2>1, <2>2
<1>3. CASE GoesOn(left)
  <2>1. Take(left) /\ count > 0 /\ left > 0
    BY <1>3 DEF GoesOn
  <2>2. HeadAtEnd' /\ WindowHolds' /\ tail' \in Index /\ count' \in 0 .. Capacity
    BY <2>1, TakeWindow
  <2>3. /\ current' = processed' + 1 /\ current' \in Serial /\ current' # NoEvent
        /\ count' = count - 1 /\ left' \in 0 .. MaxBatch
    BY <1>1, <1>2, <2>1, OldestIsNext, DpcAssumption DEF Take, TypeOK
  <2>4. delivered \in Seq(Serial) /\ delivered' = Append(delivered, current')
    BY <2>1 DEF TypeOK, Take
  <2>5. TypeOK'
    BY <1>2, <2>2, <2>3, <2>4 DEF TypeOK
  <2>6. Conserved'
    BY <1>1, <1>2, <2>3 DEF Conserved, Dispatching, TypeOK
  <2>7. DeliveredAre'
    BY <1>2, <2>3, <2>4 DEF DeliveredAre, InCallback, Dispatching, TypeOK
  <2>8. CurrentIsNext' /\ OpenIsClean' /\ FailedIsOver'
    BY <1>1, <2>3 DEF CurrentIsNext, OpenIsClean, FailedIsOver
  <2>9. ReturnedAre'
    BY <1>1 DEF ReturnedAre, TypeOK
  <2> QED
    BY <2>2, <2>5, <2>6, <2>7, <2>8, <2>9
<1>4. CASE ~GoesOn(left)
  <2>1. current' = NoEvent /\ left' = 0 /\ UNCHANGED <<tail, count, delivered>>
    BY <1>4
  <2>2. TypeOK'
    BY <1>2, <2>1, DpcAssumption DEF TypeOK
  <2>3. HeadAtEnd' /\ WindowHolds'
    BY <2>1 DEF HeadAtEnd, WindowHolds
  <2>4. Conserved'
    BY <1>1, <1>2, <2>1 DEF Conserved, Dispatching, TypeOK
  <2>5. DeliveredAre'
    BY <1>2, <2>1 DEF DeliveredAre, InCallback, Dispatching, TypeOK
  <2>6. CurrentIsNext' /\ OpenIsClean' /\ FailedIsOver'
    BY <1>1, <2>1 DEF CurrentIsNext, OpenIsClean, FailedIsOver, Dispatching
  <2>7. ReturnedAre'
    BY <1>1 DEF ReturnedAre, TypeOK
  <2> QED
    BY <2>2, <2>3, <2>4, <2>5, <2>6, <2>7
<1> QED
  BY <1>3, <1>4

\* A callback that fails closes the queue and keeps its token.
LEMMA ProcessFailsIInv == IInv /\ ProcessFails => IInv'
<1> SUFFICES ASSUME IInv, ProcessFails PROVE IInv'
  OBVIOUS
<1> USE DEF IInv, ProcessFails
<1>1. /\ current # NoEvent /\ current = processed + 1 /\ reclaimed = 0
      /\ enqueued = processed + count + 1
  BY DEF CurrentIsNext, Dispatching, Conserved, TypeOK
<1>2. /\ processed' = processed + 1 /\ processed' \in 0 .. MaxEvents
      /\ processed' = Len(delivered)
  <2>1. /\ processed \in Nat /\ count \in Nat /\ enqueued <= MaxEvents
        /\ MaxEvents \in Nat
    BY DpcAssumption DEF TypeOK
  <2>2. Len(delivered) = processed + 1
    BY <1>1 DEF DeliveredAre, InCallback, Dispatching
  <2> QED
    BY <1>1, <2>1, <2>2
<1>3. TypeOK'
  <2>1. 0 \in 0 .. MaxBatch
    BY DpcAssumption
  <2> QED
    BY <1>2, <2>1 DEF TypeOK
<1>4. HeadAtEnd' /\ WindowHolds'
  BY DEF HeadAtEnd, WindowHolds
<1>5. Conserved'
  BY <1>1, <1>2 DEF Conserved, Dispatching, TypeOK
<1>6. DeliveredAre'
  BY <1>2 DEF DeliveredAre, InCallback, Dispatching, TypeOK
<1>7. CurrentIsNext' /\ OpenIsClean' /\ FailedIsOver'
  BY <1>1 DEF CurrentIsNext, OpenIsClean, FailedIsOver, Dispatching
<1>8. ReturnedAre'
  BY <1>1 DEF ReturnedAre, TypeOK
<1> QED
  BY <1>3, <1>4, <1>5, <1>6, <1>7, <1>8

\* Stopping the queue moves no event.
LEMMA StopIInv == IInv /\ (Quiesce \/ MarkDevLost) => IInv'
<1> SUFFICES ASSUME IInv, Quiesce \/ MarkDevLost PROVE IInv'
  OBVIOUS
<1> USE DEF IInv, Quiesce, MarkDevLost
<1>1. TypeOK'
  BY DEF TypeOK
<1>2. HeadAtEnd' /\ WindowHolds' /\ Conserved'
  BY DEF HeadAtEnd, WindowHolds, Conserved, Dispatching
<1>3. /\ CurrentIsNext' /\ OpenIsClean' /\ FailedIsOver'
      /\ DeliveredAre' /\ ReturnedAre'
  BY DEF CurrentIsNext, OpenIsClean, FailedIsOver, DeliveredAre, ReturnedAre,
         InCallback, Dispatching
<1> QED
  BY <1>1, <1>2, <1>3

\* Taking events back shortens the window from the tail, in order.
LEMMA CancelIInv ==
  ASSUME NEW n \in 1 .. Capacity, IInv, Cancel(n)
  PROVE  IInv'
<1> DEFINE m == Moved(n)
<1>1. /\ m \in 1 .. Capacity /\ m <= count /\ count \in 0 .. Capacity
      /\ tail \in Index /\ current = NoEvent
      /\ enqueued = processed + reclaimed + count
  BY DpcAssumption DEF IInv, Cancel, MayCancel, Moved, TypeOK, Dispatching, Conserved
<1> HIDE DEF m
<1>2. /\ tail' = At(tail, m)
      /\ count' = count - m
      /\ reclaimed' = reclaimed + m
      /\ returned' = returned \o Oldest(m)
      /\ UNCHANGED <<queue, head, processed, enqueued>>
  BY DEF m, Cancel
<1>3. /\ tail' \in Index
      /\ count' \in 0 .. Capacity /\ m + count' = count
      /\ reclaimed' \in 0 .. MaxEvents
      /\ enqueued' = processed' + reclaimed' + count'
  <2>1. tail' \in Index
    BY <1>1, <1>2, AtInIndex, DpcAssumption
  <2>2. /\ processed \in Nat /\ reclaimed \in Nat
        /\ enqueued \in 0 .. MaxEvents /\ Capacity \in Nat /\ MaxEvents \in Nat
    BY DpcAssumption DEF IInv, TypeOK
  <2>3. count' \in 0 .. Capacity /\ m + count' = count
    BY <1>1, <1>2, <2>2
  <2>4. reclaimed' \in 0 .. MaxEvents
    BY <1>1, <1>2, <2>2
  <2>5. enqueued' = processed' + reclaimed' + count'
    BY <1>1, <1>2, <2>2
  <2> QED
    BY <2>1, <2>3, <2>4, <2>5
<1>4. ASSUME NEW k \in Nat, k <= count'
      PROVE  At(tail', k) = At(tail, m + k)
  BY <1>1, <1>2, <1>3, <1>4, AtAdds, DpcAssumption
<1>5. HeadAtEnd'
  <2>1. At(tail', count') = At(tail, count)
    BY <1>3, <1>4
  <2> QED
    BY <1>2, <2>1 DEF HeadAtEnd, IInv
<1>6. ASSUME NEW k \in Nat, k < count'
      PROVE  queue'[At(tail', k)] = enqueued' - count' + k + 1
  <2>1. m + k \in Nat /\ m + k < count
    <3>1. count' \in Int /\ m \in Nat
      BY <1>1, <1>3, DpcAssumption
    <3> QED
      BY <1>3, <1>6, <3>1
  <2>2. queue[At(tail, m + k)] = enqueued - count + (m + k) + 1
    BY <2>1 DEF WindowHolds, IInv
  <2>3. queue'[At(tail', k)] = queue[At(tail, m + k)]
    BY <1>2, <1>3, <1>4, <1>6
  <2>4. enqueued - count + (m + k) + 1 = enqueued' - count' + k + 1
    BY <1>1, <1>2, <1>6, DpcAssumption DEF IInv, TypeOK
  <2> QED
    BY <2>2, <2>3, <2>4
<1>7. /\ Oldest(m) \in Seq(Serial) /\ Len(Oldest(m)) = m
      /\ \A k \in 1 .. m : Oldest(m)[k] = processed + reclaimed + k
  <2>1. ASSUME NEW k \in 1 .. m
        PROVE  /\ queue[At(tail, k - 1)] = processed + reclaimed + k
               /\ queue[At(tail, k - 1)] \in Serial
    <3>1. queue[At(tail, k - 1)] = enqueued - count + (k - 1) + 1
      BY <1>1 DEF WindowHolds, IInv
    <3> QED
      BY <1>1, <3>1, DpcAssumption DEF IInv, TypeOK, Serial
  <2>2. m \in Nat /\ Oldest(m) = [k \in 1 .. m |-> queue[At(tail, k - 1)]]
    BY <1>1 DEF Oldest
  <2>3. Oldest(m) \in [1 .. m -> Serial]
    BY <2>1, <2>2
  <2> QED
    BY <2>1, <2>2, <2>3
<1>8. /\ returned' \in Seq(Serial) /\ Len(returned') = reclaimed'
      /\ \A k \in 1 .. Len(returned') : returned'[k] = processed + k
  <2>1. /\ returned \in Seq(Serial) /\ Len(returned) = reclaimed
        /\ \A k \in 1 .. reclaimed : returned[k] = processed + k
        /\ reclaimed \in Nat /\ processed \in Nat
    BY <1>1 DEF IInv, TypeOK, ReturnedAre, InCallback, Dispatching
  <2>2. /\ returned' \in Seq(Serial)
        /\ Len(returned') = reclaimed + m
        /\ \A k \in 1 .. reclaimed + m :
             returned'[k] = IF k <= reclaimed THEN returned[k]
                            ELSE Oldest(m)[k - reclaimed]
    <3>1. /\ returned \o Oldest(m) \in Seq(Serial)
          /\ Len(returned \o Oldest(m)) = Len(returned) + Len(Oldest(m))
          /\ \A k \in 1 .. Len(returned) + Len(Oldest(m)) :
               (returned \o Oldest(m))[k] =
                 IF k <= Len(returned) THEN returned[k]
                 ELSE Oldest(m)[k - Len(returned)]
      BY <1>7, <2>1, ConcatProperties
    <3> QED
      BY <1>2, <1>7, <2>1, <3>1
  <2>3. ASSUME NEW k \in 1 .. reclaimed + m
        PROVE  returned'[k] = processed + k
    <3>1. CASE k <= reclaimed
      BY <2>1, <2>2, <3>1
    <3>2. CASE k > reclaimed
      <4>1. k - reclaimed \in 1 .. m
        BY <1>1, <2>1, <2>3, <3>2
      <4>2. returned'[k] = Oldest(m)[k - reclaimed]
        BY <1>1, <2>1, <2>2, <2>3, <3>2
      <4>3. Oldest(m)[k - reclaimed] = processed + reclaimed + (k - reclaimed)
        BY <1>7, <4>1
      <4> QED
        BY <2>1, <4>1, <4>2, <4>3
    <3> QED
      BY <1>1, <2>1, <3>1, <3>2
  <2> QED
    BY <1>2, <2>2, <2>3
<1>9. TypeOK'
  BY <1>3, <1>8 DEF IInv, Cancel, TypeOK
<1>10. current' = NoEvent /\ ~accepting' /\ processed' \in Nat
  BY <1>1 DEF IInv, Cancel, MayCancel, TypeOK
<1>11. Conserved'
  BY <1>3, <1>10 DEF Conserved, Dispatching, TypeOK, IInv
<1>12. DeliveredAre'
  BY <1>1, <1>10 DEF IInv, Cancel, DeliveredAre, InCallback, Dispatching
<1>13. ReturnedAre'
  BY <1>2, <1>8, <1>10 DEF ReturnedAre, InCallback, Dispatching
<1>14. CurrentIsNext' /\ OpenIsClean' /\ FailedIsOver'
  BY <1>1, <1>10 DEF IInv, Cancel, CurrentIsNext, OpenIsClean, FailedIsOver, Dispatching
<1>15. WindowHolds'
  BY <1>6 DEF WindowHolds
<1> QED
  BY <1>5, <1>9, <1>11, <1>12, <1>13, <1>14, <1>15 DEF IInv

-----------------------------------------------------------------------------
\* Every operation and callback preserves the invariant.
LEMMA NextIInv == IInv /\ [Next]_vars => IInv'
<1> SUFFICES ASSUME IInv, [Next]_vars PROVE IInv'
  OBVIOUS
<1>1. CASE Enqueue
  BY <1>1, EnqueueIInv
<1>2. CASE \E budget \in 1 .. MaxBatch + 1 : Dispatch(budget)
  BY <1>2, DispatchIInv
<1>3. CASE ProcessSucceeds
  BY <1>3, ProcessSucceedsIInv
<1>4. CASE ProcessFails
  BY <1>4, ProcessFailsIInv
<1>5. CASE Quiesce \/ MarkDevLost
  BY <1>5, StopIInv
<1>6. CASE \E n \in 1 .. Capacity : Cancel(n)
  BY <1>6, CancelIInv
<1>7. CASE UNCHANGED vars
  BY <1>7 DEF vars, IInv, TypeOK, Conserved, HeadAtEnd, WindowHolds, CurrentIsNext,
     OpenIsClean, DeliveredAre, ReturnedAre, FailedIsOver, InCallback, Dispatching
<1> QED
  BY <1>1, <1>2, <1>3, <1>4, <1>5, <1>6, <1>7 DEF Next

\* The inductive invariant always holds.
LEMMA SpecIInv == Spec => []IInv
BY InitIInv, NextIInv, PTL DEF Spec

\* The variables always have the types of struct ob_dpc_sw_state.
THEOREM TypeCorrect == Spec => []TypeOK
<1>1. IInv => TypeOK
  BY DEF IInv
<1> QED
  BY <1>1, SpecIInv, PTL

\* Every event ob_dpc_sw_enqueue accepted has exactly one owner.
THEOREM EventsConserved == Spec => []Conserved
<1>1. IInv => Conserved
  BY DEF IInv
<1> QED
  BY <1>1, SpecIInv, PTL

\* Events leave the queue in the order they came, each exactly once, the ones
\* ob_dpc_sw_cancel_pending gives back after all that were processed.
THEOREM EventsInOrder == Spec => []InOrder
<1>1. IInv => InOrder
  <2> SUFFICES ASSUME IInv, NEW k \in 1 .. Len(delivered \o returned)
               PROVE  (delivered \o returned)[k] = k
    BY DEF InOrder
  <2>1. /\ delivered \in Seq(Serial) /\ returned \in Seq(Serial)
        /\ Len(delivered) = processed + InCallback
    BY DEF IInv, TypeOK, DeliveredAre
  <2>2. \A j \in 1 .. Len(delivered) : delivered[j] = j
    BY DEF IInv, DeliveredAre
  <2>3. \A j \in 1 .. Len(returned) : returned[j] = Len(delivered) + j
    BY <2>1 DEF IInv, ReturnedAre
  <2>4. /\ k \in 1 .. Len(delivered) + Len(returned)
        /\ Len(delivered) \in Nat /\ Len(returned) \in Nat
        /\ (delivered \o returned)[k] =
             IF k <= Len(delivered) THEN delivered[k]
             ELSE returned[k - Len(delivered)]
    BY <2>1, ConcatProperties
  <2>5. CASE k <= Len(delivered)
    BY <2>2, <2>4, <2>5
  <2>6. CASE k > Len(delivered)
    <3>1. k - Len(delivered) \in 1 .. Len(returned)
      BY <2>4, <2>6
    <3> QED
      BY <2>3, <2>4, <2>6, <3>1
  <2> QED
    BY <2>4, <2>5, <2>6
<1> QED
  BY <1>1, SpecIInv, PTL

\* The event whose callback failed is the last one ever handed out.
THEOREM FailureEndsDelivery == Spec => []FailureIsLast
<1>1. IInv => FailureIsLast
  BY DEF IInv, TypeOK, FailureIsLast, FailedIsOver, DeliveredAre, InCallback
<1> QED
  BY <1>1, SpecIInv, PTL

\* A queue that was quiesced, lost its device or failed hands nothing out any
\* more, not even to the dispatch that is running.
THEOREM StoppedQueueIsSilent == Spec => NothingAfterStop
<1>1. [Next]_vars => [delivered' # delivered => accepting /\ ~devLost /\ ~failed]_vars
  <2>1. SUFFICES ASSUME Next
                 PROVE  delivered' # delivered => accepting /\ ~devLost /\ ~failed
    OBVIOUS
  <2>2. CASE \E budget \in 1 .. MaxBatch + 1 : Dispatch(budget)
    BY <2>2 DEF Dispatch, GoesOn
  <2>3. CASE ProcessSucceeds
    BY <2>3 DEF ProcessSucceeds, GoesOn
  <2>4. CASE \E n \in 1 .. Capacity : Cancel(n)
    BY <2>4 DEF Cancel
  <2>5. CASE Enqueue \/ ProcessFails \/ Quiesce \/ MarkDevLost
    BY <2>5 DEF Enqueue, ProcessFails, Quiesce, MarkDevLost
  <2> QED
    BY <2>1, <2>2, <2>3, <2>4, <2>5 DEF Next
<1> QED
  BY <1>1, PTL DEF Spec, NothingAfterStop
=============================================================================
