---------------------------- MODULE TxPathProofs ----------------------------
(***************************************************************************)
(* Proofs about TxPath for any ring, any number of queues and any bound of   *)
(* the generations, and the step-by-step refinement to TxQueues.             *)
(*                                                                         *)
(* The invariant joins each pending software slot to a ring slot and each     *)
(* used ring slot to a pending software slot, and says where the indices of   *)
(* both stand.  It is followed first through the operators (a slot written,    *)
(* released, published), then through the operations, and through ob_tx_sw_stop *)
(* one canceled packet and one queue at a time.  The last part reads each     *)
(* queue as the sequence of its packets and maps every operation to TxQueues.  *)
(***************************************************************************)
EXTENDS TxPath, TLAPS, FiniteSetTheorems, SequenceTheorems, WellFoundedInduction

SwRec ==
  [head : SwIndex, tail : SwIndex, pending : 0 .. Capacity,
   accepting : BOOLEAN, slot : [SwIndex -> SwSlot]]

RingSlot == Slot(Packets, Queues, SwIndex)
RingRec == Ring(Packets, Queues, SwIndex)

\* The slots between the consumer and the producer of the ring.
Inside(h, t, i) == IF t <= h THEN t <= i /\ i < h ELSE t <= i \/ i < h

(***************************************************************************)
(* The invariant, over a ring r, the queues s and the mappings l, so that it *)
(* can be followed through the turns of the loop in ob_tx_path_stop.         *)
(***************************************************************************)
\* What the ring slot of a pending software slot b holds.
RingFor(q, i, b) ==
  [skb |-> b.packet, mapped |-> IF b.st = "SUBMITTED" THEN TRUE ELSE FALSE,
   gen |-> b.ringGen, swGen |-> b.gen, swSlot |-> i, queue |-> q,
   st |-> IF b.st = "SUBMITTED" THEN "SUBMITTED" ELSE "RECLAIMED"]

\* One software queue: head follows from tail and pending, a slot that is not
\* pending is clear, and no packet is pending twice.
QueueOK(s) ==
  /\ s.head = SwAt(s, s.pending)
  /\ \A i \in SwIndex \ PendingSlots(s) : s.slot[i] = ClearSlot(s.slot[i].gen)
  /\ \A i \in PendingSlots(s) :
       /\ s.slot[i].st \in {"SUBMITTED", "DMA_RECLAIMED"}
       /\ s.slot[i].packet \in Packets
       /\ \A j \in PendingSlots(s) : s.slot[i].packet = s.slot[j].packet => i = j

\* From a software slot to its ring slot ...
Joins(r, s) ==
  \A q \in Queues : \A i \in PendingSlots(s[q]) :
    /\ s[q].slot[i].bound
    /\ r.slot[s[q].slot[i].ringSlot] = RingFor(q, i, s[q].slot[i])

\* ... and back.
Owned(r, s) ==
  \A k \in Index :
    LET rs == r.slot[k]
    IN  \/ rs = EmptySlot(rs.gen)
        \/ /\ rs.st \in {"SUBMITTED", "RECLAIMED"}
           /\ rs.swSlot \in PendingSlots(s[rs.queue])
           /\ s[rs.queue].slot[rs.swSlot].ringSlot = k

OutsideIsFree(r) == \A i \in Index : ~Inside(r.head, r.tail, i) => r.slot[i].st = "FREE"
TailInUse(r) == r.head # r.tail => r.slot[r.tail].st # "FREE"

\* The pending slots whose packet the device may read at an address.
Mapped(s, d) == {i \in PendingSlots(s) : s.slot[i].st = "SUBMITTED" /\ s.slot[i].dma = d}
Counted(s, l) == \A q \in Queues, d \in Dmas : l[q][d] = Cardinality(Mapped(s[q], d))

PathOK(r, s, l) ==
  /\ r \in RingRec
  /\ s \in [Queues -> SwRec]
  /\ l \in [Queues -> [Dmas -> Nat]]
  /\ \A q \in Queues : QueueOK(s[q])
  /\ Joins(r, s)
  /\ Owned(r, s)
  /\ OutsideIsFree(r) /\ TailInUse(r)
  /\ Counted(s, l)

\* Packets are accepted only while the path runs, and then a full queue knows why
\* it was stopped.
FlowOK ==
  /\ \A q \in Queues : sw[q].accepting => running
  /\ running => \A q \in Queues : sw[q].pending = Capacity => flow[q].stopped /\ flow[q].onQueue

IInv ==
  /\ TypeOK
  /\ PathOK(ring, sw, live)
  /\ FlowOK
  /\ ~faulted

-----------------------------------------------------------------------------
(***************************************************************************)
(* Positions in a circular buffer.                                          *)
(***************************************************************************)
\* A position at most one turn on wraps at most once.
LEMMA Wrap ==
  ASSUME NEW M \in Nat \ {0}, NEW a \in 0 .. M - 1, NEW b \in 0 .. M
  PROVE  (a + b) % M = IF a + b < M THEN a + b ELSE a + b - M
BY SMT

\* SwAt as a case distinction.
LEMMA SwAtIs ==
  ASSUME NEW s, s.tail \in SwIndex, NEW k \in 0 .. Capacity
  PROVE  /\ SwAt(s, k) = IF s.tail + k < Capacity THEN s.tail + k ELSE s.tail + k - Capacity
         /\ SwAt(s, k) \in SwIndex
<1>1. s.tail \in 0 .. Capacity - 1 /\ Capacity \in Nat \ {0}
  BY PathAssumption DEF SwIndex
<1>2. SwAt(s, k) = IF s.tail + k < Capacity THEN s.tail + k ELSE s.tail + k - Capacity
  BY <1>1, Wrap DEF SwAt
<1> QED
  BY <1>1, <1>2 DEF SwIndex

\* The pending slots are the positions from the tail up to the head.
LEMMA PendingIs ==
  ASSUME NEW s, s.tail \in SwIndex, s.pending \in 0 .. Capacity
  PROVE  /\ PendingSlots(s) \subseteq SwIndex
         /\ \A i : i \in PendingSlots(s) <=>
                     \E k \in 0 .. s.pending - 1 :
                       i = IF s.tail + k < Capacity THEN s.tail + k ELSE s.tail + k - Capacity
<1>1. \A k \in 0 .. s.pending - 1 : k \in 0 .. Capacity
  BY PathAssumption
<1>2. \A k \in 0 .. s.pending - 1 :
        /\ SwAt(s, k) \in SwIndex
        /\ SwAt(s, k) = IF s.tail + k < Capacity THEN s.tail + k ELSE s.tail + k - Capacity
  BY <1>1, SwAtIs
<1> QED
  BY <1>2 DEF PendingSlots

\* The oldest packet leaves: the tail is no longer pending, the others are.
LEMMA PendingDropped ==
  ASSUME NEW s, s.tail \in SwIndex, s.pending \in 1 .. Capacity,
         NEW t, t.tail = NextSw(s.tail), t.pending = s.pending - 1
  PROVE  /\ s.tail \in PendingSlots(s)
         /\ PendingSlots(t) = PendingSlots(s) \ {s.tail}
         /\ t.tail \in SwIndex /\ t.pending \in 0 .. Capacity
         /\ \A k \in 0 .. Capacity - 1 : SwAt(t, k) = SwAt(s, k + 1)
<1>1. s.tail \in 0 .. Capacity - 1 /\ Capacity \in Nat \ {0}
  BY PathAssumption DEF SwIndex
<1>2. t.tail \in SwIndex /\ t.pending \in 0 .. Capacity
      /\ t.tail = IF s.tail + 1 = Capacity THEN 0 ELSE s.tail + 1
  BY <1>1 DEF NextSw, SwIndex
<1>3. s.tail \in PendingSlots(s)
  <2>1. 0 \in 0 .. s.pending - 1 /\ s.tail + 0 = s.tail
    BY <1>1
  <2> QED
    BY <1>1, <2>1, PendingIs
<1>4. \A k \in 0 .. Capacity - 1 : SwAt(t, k) = SwAt(s, k + 1)
  <2> SUFFICES ASSUME NEW k \in 0 .. Capacity - 1
               PROVE  SwAt(t, k) = SwAt(s, k + 1)
    OBVIOUS
  <2>1. k \in 0 .. Capacity /\ k + 1 \in 0 .. Capacity
    BY <1>1
  <2>2. SwAt(t, k) = IF t.tail + k < Capacity THEN t.tail + k ELSE t.tail + k - Capacity
    BY <1>2, <2>1, SwAtIs
  <2>3. SwAt(s, k + 1) = IF s.tail + (k + 1) < Capacity THEN s.tail + (k + 1)
                         ELSE s.tail + (k + 1) - Capacity
    BY <2>1, SwAtIs
  <2> QED
    BY <1>1, <1>2, <2>2, <2>3
<1>5. ASSUME NEW i
      PROVE  i \in PendingSlots(t) <=> i \in PendingSlots(s) /\ i # s.tail
  <2>1. ASSUME i \in PendingSlots(t)
        PROVE  i \in PendingSlots(s) /\ i # s.tail
    <3>1. PICK k \in 0 .. t.pending - 1 : i = SwAt(t, k)
      BY <2>1 DEF PendingSlots
    <3>2. k \in 0 .. Capacity - 1 /\ k + 1 \in 0 .. s.pending - 1 /\ k + 1 \in 0 .. Capacity
      BY <1>1
    <3>3. i = SwAt(s, k + 1)
      BY <1>4, <3>1, <3>2
    <3>4. i # s.tail
      BY <1>1, <3>2, <3>3, SwAtIs
    <3> QED
      BY <3>2, <3>3, <3>4 DEF PendingSlots
  <2>2. ASSUME i \in PendingSlots(s), i # s.tail
        PROVE  i \in PendingSlots(t)
    <3>1. PICK k \in 0 .. s.pending - 1 : i = SwAt(s, k)
      BY <2>2 DEF PendingSlots
    <3>2. k # 0
      BY <1>1, <2>2, <3>1, SwAtIs
    <3>3. k - 1 \in 0 .. t.pending - 1 /\ k - 1 \in 0 .. Capacity - 1 /\ (k - 1) + 1 = k
      BY <1>1, <3>2
    <3>4. i = SwAt(t, k - 1)
      BY <1>4, <3>1, <3>3
    <3> QED
      BY <3>3, <3>4 DEF PendingSlots
  <2> QED
    BY <2>1, <2>2
<1> QED
  BY <1>2, <1>3, <1>4, <1>5

\* A packet is added at the head: it was not pending, the others were.
LEMMA PendingAdded ==
  ASSUME NEW s, s.tail \in SwIndex, s.pending \in 0 .. Capacity - 1,
         s.head = SwAt(s, s.pending),
         NEW t, t.tail = s.tail, t.pending = s.pending + 1
  PROVE  /\ s.head \notin PendingSlots(s)
         /\ PendingSlots(t) = PendingSlots(s) \cup {s.head}
         /\ t.pending \in 0 .. Capacity
         /\ NextSw(s.head) = SwAt(t, t.pending)
         /\ \A k : SwAt(t, k) = SwAt(s, k)
<1>1. s.tail \in 0 .. Capacity - 1 /\ Capacity \in Nat \ {0} /\ s.pending \in 0 .. Capacity
  BY PathAssumption DEF SwIndex
<1>2. t.pending \in 0 .. Capacity /\ \A k : SwAt(t, k) = SwAt(s, k)
  BY <1>1 DEF SwAt
<1>3. s.head \notin PendingSlots(s)
  <2> SUFFICES ASSUME NEW k \in 0 .. s.pending - 1, s.head = SwAt(s, k)
               PROVE  FALSE
    BY DEF PendingSlots
  <2>1. k \in 0 .. Capacity
    BY <1>1
  <2>2. SwAt(s, k) = IF s.tail + k < Capacity THEN s.tail + k ELSE s.tail + k - Capacity
    BY <2>1, SwAtIs
  <2>3. s.head = IF s.tail + s.pending < Capacity THEN s.tail + s.pending
                 ELSE s.tail + s.pending - Capacity
    BY <1>1, SwAtIs
  <2> QED
    BY <1>1, <2>2, <2>3
<1>4. NextSw(s.head) = SwAt(t, t.pending)
  <2>1. SwAt(s, s.pending + 1) = NextSw(SwAt(s, s.pending))
    <3>1. s.pending + 1 \in 0 .. Capacity
      BY <1>1
    <3>2. SwAt(s, s.pending + 1) = IF s.tail + (s.pending + 1) < Capacity THEN s.tail + (s.pending + 1)
                                   ELSE s.tail + (s.pending + 1) - Capacity
      BY <3>1, SwAtIs
    <3>3. SwAt(s, s.pending) = IF s.tail + s.pending < Capacity THEN s.tail + s.pending
                               ELSE s.tail + s.pending - Capacity
      BY <1>1, SwAtIs
    <3> QED
      BY <1>1, <3>2, <3>3 DEF NextSw
  <2> QED
    BY <1>2, <2>1
<1>5. PendingSlots(t) = PendingSlots(s) \cup {s.head}
  <2>1. PendingSlots(t) = {SwAt(s, k) : k \in 0 .. s.pending}
    <3>1. t.pending - 1 = s.pending
      BY <1>1
    <3> QED
      BY <1>2, <3>1 DEF PendingSlots
  <2>2. 0 .. s.pending = (0 .. s.pending - 1) \cup {s.pending}
    BY <1>1
  <2> QED
    BY <2>1, <2>2 DEF PendingSlots
<1> QED
  BY <1>2, <1>3, <1>4, <1>5

\* Window and Used as case distinctions.
LEMMA WindowIs ==
  ASSUME NEW r, r.head \in Index, r.tail \in Index
  PROVE  /\ Used(r) = IF r.tail <= r.head THEN r.head - r.tail ELSE r.head + N - r.tail
         /\ Used(r) \in 0 .. N - 1
         /\ \A k \in 0 .. N - 1 : (r.tail + k) % N = IF r.tail + k < N THEN r.tail + k
                                                       ELSE r.tail + k - N
         /\ \A i \in Index : i \in Window(r) <=> Inside(r.head, r.tail, i)
<1>1. N \in Nat \ {0, 1} /\ r.head \in 0 .. N - 1 /\ r.tail \in 0 .. N - 1
  BY RingAssumption DEF Index
<1>2. Used(r) = IF r.tail <= r.head THEN r.head - r.tail ELSE r.head + N - r.tail
  <2>1. N - r.tail \in 0 .. N /\ r.head + N - r.tail = r.head + (N - r.tail)
    BY <1>1
  <2>2. (r.head + (N - r.tail)) % N = IF r.head + (N - r.tail) < N THEN r.head + (N - r.tail)
                                      ELSE r.head + (N - r.tail) - N
    BY <1>1, <2>1, Wrap
  <2> QED
    BY <1>1, <2>1, <2>2 DEF Used
<1>3. Used(r) \in 0 .. N - 1
  BY <1>1, <1>2
<1>4. \A k \in 0 .. N - 1 : (r.tail + k) % N = IF r.tail + k < N THEN r.tail + k
                                                 ELSE r.tail + k - N
  <2>1. \A k \in 0 .. N - 1 : k \in 0 .. N
    BY <1>1
  <2> QED
    BY <1>1, <2>1, Wrap
<1>5. ASSUME NEW i \in Index
      PROVE  i \in Window(r) <=> Inside(r.head, r.tail, i)
  <2>1. i \in Window(r) <=> \E k \in 0 .. Used(r) - 1 : i = (r.tail + k) % N
    BY DEF Window
  <2>2. i \in Window(r) <=>
          \E k \in 0 .. Used(r) - 1 : i = IF r.tail + k < N THEN r.tail + k ELSE r.tail + k - N
    <3>1. \A k \in 0 .. Used(r) - 1 : k \in 0 .. N - 1
      BY <1>1, <1>3
    <3> QED
      BY <1>4, <2>1, <3>1
  <2>3. i \in 0 .. N - 1
    BY DEF Index
  <2>4. ASSUME i \in Window(r)
        PROVE  Inside(r.head, r.tail, i)
    BY <1>1, <1>2, <2>2, <2>3, <2>4 DEF Inside
  <2>5. ASSUME Inside(r.head, r.tail, i)
        PROVE  i \in Window(r)
    <3> DEFINE k == IF r.tail <= i THEN i - r.tail ELSE i - r.tail + N
    <3>1. k \in 0 .. Used(r) - 1 /\ i = IF r.tail + k < N THEN r.tail + k ELSE r.tail + k - N
      BY <1>1, <1>2, <2>3, <2>5 DEF Inside
    <3> QED
      BY <2>2, <3>1
  <2> QED
    BY <2>4, <2>5
<1> QED
  BY <1>2, <1>3, <1>4, <1>5

-----------------------------------------------------------------------------
(***************************************************************************)
(* The consumer of the ring.                                                *)
(***************************************************************************)
\* Natural numbers in order, which is well founded.
Before == {ss \in Nat \X Nat : ss[1] < ss[2]}

\* Every set of natural numbers that has a member has a least one.
LEMMA Least ==
  ASSUME NEW S, S \subseteq Nat, S # {}
  PROVE  \E n \in S : \A m \in S : n <= m
<1>1. IsWellFoundedOn(Before, Nat)
  BY NatLessThanWellFounded, Zenon DEF OpToRel, Before
<1>2. PICK n \in S : \A m \in S : ~(<<m, n>> \in Before)
  BY <1>1, WFMin
<1>3. \A m \in S : n <= m
  <2> SUFFICES ASSUME NEW m \in S
               PROVE  n <= m
    OBVIOUS
  <2>1. n \in Nat /\ m \in Nat /\ (m < n => <<m, n>> \in Before)
    BY DEF Before
  <2> QED
    BY <1>2, <2>1
<1> QED
  BY <1>3

\* ob_dma_tx_ring_release moves the consumer over free slots only, and past all of them.
LEMMA AdvanceEffect ==
  ASSUME NEW r, r.head \in Index, r.tail \in Index,
         \A i \in Index : ~Inside(r.head, r.tail, i) => r.slot[i].st = "FREE"
  PROVE  /\ AdvancedTail(r) \in Index
         /\ \A i \in Index : ~Inside(r.head, AdvancedTail(r), i) => r.slot[i].st = "FREE"
         /\ r.head # AdvancedTail(r) => r.slot[AdvancedTail(r)].st # "FREE"
<1> DEFINE u == Used(r)
           At(k) == IF r.tail + k < N THEN r.tail + k ELSE r.tail + k - N
           Stops(k) == k = u \/ r.slot[(r.tail + k) % N].st # "FREE"
           First(k) == Stops(k) /\ \A j \in 0 .. k - 1 : ~Stops(j)
           steps == CHOOSE k \in 0 .. u : First(k)
<1>1. /\ N \in Nat \ {0, 1} /\ r.head \in 0 .. N - 1 /\ r.tail \in 0 .. N - 1
      /\ u \in 0 .. N - 1
      /\ u = IF r.tail <= r.head THEN r.head - r.tail ELSE r.head + N - r.tail
      /\ \A k \in 0 .. N - 1 : (r.tail + k) % N = At(k)
  BY RingAssumption, WindowIs DEF Index
<1>2. AdvancedTail(r) = (r.tail + steps) % N
  BY DEF AdvancedTail
<1>3. \E k \in 0 .. u : First(k)
  <2> DEFINE S == {k \in 0 .. u : Stops(k)}
  <2>1. S \subseteq Nat /\ u \in S
    BY <1>1
  <2>2. PICK n \in S : \A m \in S : n <= m
    BY <2>1, Least
  <2>3. First(n)
    <3> SUFFICES ASSUME NEW j \in 0 .. n - 1, Stops(j)
                 PROVE  FALSE
      BY <2>2
    <3>1. j \in S /\ j \in Nat /\ n \in Nat /\ j < n
      BY <1>1, <2>1, <2>2
    <3> QED
      BY <2>2, <3>1
  <2> QED
    BY <2>2, <2>3
<1>4. steps \in 0 .. u /\ First(steps)
  BY <1>3
<1> HIDE DEF u, steps
<1>5. steps \in 0 .. N - 1 /\ AdvancedTail(r) = At(steps)
  BY <1>1, <1>2, <1>4
<1>6. \A j \in 0 .. steps - 1 : j \in 0 .. N - 1 /\ r.slot[At(j)].st = "FREE"
  <2> SUFFICES ASSUME NEW j \in 0 .. steps - 1
               PROVE  j \in 0 .. N - 1 /\ r.slot[At(j)].st = "FREE"
    OBVIOUS
  <2>1. j \in 0 .. N - 1
    BY <1>1, <1>4
  <2>2. ~Stops(j)
    BY <1>4
  <2>3. (r.tail + j) % N = At(j)
    BY <1>1, <2>1
  <2> QED
    BY <2>1, <2>2, <2>3
<1>7. steps = u \/ r.slot[At(steps)].st # "FREE"
  BY <1>1, <1>4, <1>5
<1>8. AdvancedTail(r) \in Index
  BY <1>1, <1>5 DEF Index
<1>9. ASSUME NEW i \in Index, ~Inside(r.head, AdvancedTail(r), i)
      PROVE  r.slot[i].st = "FREE"
  <2>1. CASE ~Inside(r.head, r.tail, i)
    BY <2>1
  <2>2. CASE Inside(r.head, r.tail, i)
    <3> DEFINE j == IF r.tail <= i THEN i - r.tail ELSE i - r.tail + N
    <3>1. i \in 0 .. N - 1 /\ N \in Nat /\ r.tail \in 0 .. N - 1 /\ r.head \in 0 .. N - 1
      BY <1>1 DEF Index
    <3>2. j \in 0 .. N - 1 /\ At(j) = i
      <4>1. CASE r.tail <= i
        BY <3>1, <4>1
      <4>2. CASE ~(r.tail <= i)
        BY <3>1, <4>2
      <4> QED
        BY <4>1, <4>2
    <3>3. j < u
      BY <1>1, <2>2, <3>1 DEF Inside
    <3>4. ~(steps <= j)
      <4> SUFFICES ASSUME steps <= j
                   PROVE  FALSE
        OBVIOUS
      <4>1. steps \in 0 .. N - 1 /\ steps < u /\ u \in 0 .. N - 1
        BY <1>1, <1>5, <3>2, <3>3
      <4>2. Inside(r.head, At(steps), i)
        <5>1. CASE r.tail <= r.head
          <6>1. u = r.head - r.tail /\ j = i - r.tail /\ At(steps) = r.tail + steps
            BY <1>1, <2>2, <3>1, <4>1, <5>1 DEF Inside
          <6> HIDE DEF j, At
          <6> QED
            BY <2>2, <3>1, <4>1, <5>1, <6>1 DEF Inside
        <5>2. CASE ~(r.tail <= r.head) /\ r.tail <= i
          <6>1. u = r.head + N - r.tail /\ j = i - r.tail /\ At(steps) = r.tail + steps
            BY <1>1, <3>1, <4>1, <5>2
          <6> HIDE DEF j, At
          <6> QED
            BY <2>2, <3>1, <4>1, <5>2, <6>1 DEF Inside
        <5>3. CASE ~(r.tail <= r.head) /\ ~(r.tail <= i)
          <6>1. u = r.head + N - r.tail /\ j = i - r.tail + N /\ i < r.head
            BY <1>1, <2>2, <3>1, <5>3 DEF Inside
          <6>2. At(steps) \in Int
                /\ At(steps) = IF r.tail + steps < N THEN r.tail + steps ELSE r.tail + steps - N
            BY <3>1, <4>1
          <6> HIDE DEF j, At
          <6> QED
            BY <3>1, <4>1, <5>3, <6>1, <6>2 DEF Inside
        <5> QED
          BY <5>1, <5>2, <5>3
      <4> QED
        BY <1>5, <1>9, <4>2
    <3>5. j \in 0 .. steps - 1
      BY <1>5, <3>2, <3>4
    <3> QED
      BY <1>6, <3>2, <3>5
  <2> QED
    BY <2>1, <2>2
<1>10. r.head # AdvancedTail(r) => r.slot[AdvancedTail(r)].st # "FREE"
  <2>1. At(u) = r.head
    BY <1>1
  <2> QED
    BY <1>5, <1>7, <2>1
<1> QED
  BY <1>8, <1>9, <1>10

-----------------------------------------------------------------------------
(***************************************************************************)
(* One software queue.                                                      *)
(***************************************************************************)
\* A cleared slot is a slot.
LEMMA ClearIsSlot ==
  ASSUME NEW g \in Generation
  PROVE  /\ ClearSlot(g) \in SwSlot
         /\ ClearSlot(g).gen = g /\ ClearSlot(g).st = "FREE" /\ ~ClearSlot(g).bound
<1>1. 0 \in Index /\ 0 \in Generation /\ 0 \in Dmas
  BY PathAssumption, RingAssumption DEF Index, Generation
<1> QED
  BY <1>1 DEF ClearSlot, SwSlot

\* The fields of a queue.
LEMMA QueueFields ==
  ASSUME NEW s \in SwRec
  PROVE  /\ s.head \in SwIndex /\ s.tail \in SwIndex /\ s.pending \in 0 .. Capacity
         /\ s.accepting \in BOOLEAN /\ s.slot \in [SwIndex -> SwSlot]
         /\ \A i \in SwIndex : s.slot[i] \in SwSlot /\ s.slot[i].gen \in Generation
         /\ PendingSlots(s) \subseteq SwIndex
<1>1. /\ s.head \in SwIndex /\ s.tail \in SwIndex /\ s.pending \in 0 .. Capacity
      /\ s.accepting \in BOOLEAN /\ s.slot \in [SwIndex -> SwSlot]
  BY DEF SwRec
<1>2. \A i \in SwIndex : s.slot[i] \in SwSlot /\ s.slot[i].gen \in Generation
  BY <1>1 DEF SwSlot
<1> QED
  BY <1>1, <1>2, PendingIs

\* The oldest packet leaves the queue.
LEMMA DropQueue ==
  ASSUME NEW s \in SwRec, QueueOK(s), s.pending > 0
  PROVE  LET t == DropOldest(s)
         IN  /\ t \in SwRec /\ QueueOK(t)
             /\ s.tail \in PendingSlots(s)
             /\ PendingSlots(t) = PendingSlots(s) \ {s.tail}
             /\ t.accepting = s.accepting /\ t.pending = s.pending - 1
             /\ t.slot = [s.slot EXCEPT ![s.tail] = ClearSlot(s.slot[s.tail].gen)]
             /\ \A k \in 0 .. Capacity - 1 : SwAt(t, k) = SwAt(s, k + 1)
<1> DEFINE t == DropOldest(s)
<1>1. /\ s.head \in SwIndex /\ s.tail \in SwIndex /\ s.pending \in 1 .. Capacity
      /\ s.accepting \in BOOLEAN /\ s.slot \in [SwIndex -> SwSlot]
      /\ \A i \in SwIndex : s.slot[i].gen \in Generation
  BY QueueFields
<1>2. /\ t.tail = NextSw(s.tail) /\ t.pending = s.pending - 1 /\ t.head = s.head
      /\ t.accepting = s.accepting
      /\ t.slot = [s.slot EXCEPT ![s.tail] = ClearSlot(s.slot[s.tail].gen)]
      /\ t = [head |-> t.head, tail |-> t.tail, pending |-> t.pending,
              accepting |-> t.accepting, slot |-> t.slot]
  <2> DEFINE c == [s.slot EXCEPT ![s.tail] = ClearSlot(s.slot[s.tail].gen)]
  <2>1. t = [s EXCEPT !.slot = c, !.tail = NextSw(s.tail), !.pending = s.pending - 1]
    BY <1>1 DEF DropOldest, SwRec
  <2> HIDE DEF c
  <2> QED
    BY <2>1 DEF SwRec, c
<1> HIDE DEF t
<1>3. /\ s.tail \in PendingSlots(s)
      /\ PendingSlots(t) = PendingSlots(s) \ {s.tail}
      /\ t.tail \in SwIndex /\ t.pending \in 0 .. Capacity
      /\ \A k \in 0 .. Capacity - 1 : SwAt(t, k) = SwAt(s, k + 1)
  BY <1>1, <1>2, PendingDropped
<1>4. ClearSlot(s.slot[s.tail].gen) \in SwSlot
      /\ ClearSlot(s.slot[s.tail].gen).gen = s.slot[s.tail].gen
  BY <1>1, ClearIsSlot
<1>5. t \in SwRec
  BY <1>1, <1>2, <1>3, <1>4 DEF SwRec
<1>6. t.head = SwAt(t, t.pending)
  <2>1. s.pending - 1 \in 0 .. Capacity - 1 /\ (s.pending - 1) + 1 = s.pending
    BY <1>1, PathAssumption
  <2> QED
    BY <1>2, <1>3, <2>1 DEF QueueOK
<1>7. \A i \in SwIndex \ PendingSlots(t) : t.slot[i] = ClearSlot(t.slot[i].gen)
  BY <1>1, <1>2, <1>3, <1>4 DEF QueueOK
<1>8. \A i \in PendingSlots(t) : t.slot[i] = s.slot[i]
  BY <1>1, <1>2, <1>3
<1>9. QueueOK(t)
  BY <1>3, <1>6, <1>7, <1>8 DEF QueueOK
<1> QED
  BY <1>2, <1>3, <1>5, <1>9 DEF t

\* A packet enters the queue at its head.
LEMMA AddQueue ==
  ASSUME NEW s \in SwRec, QueueOK(s), s.pending < Capacity,
         NEW b \in SwSlot, b.st = "SUBMITTED", b.packet \in Packets,
         ~PacketPending(s, b.packet),
         NEW t, t = [head |-> NextSw(s.head), tail |-> s.tail, pending |-> s.pending + 1,
                     accepting |-> s.accepting, slot |-> [s.slot EXCEPT ![s.head] = b]]
  PROVE  /\ t \in SwRec /\ QueueOK(t)
         /\ s.head \notin PendingSlots(s)
         /\ PendingSlots(t) = PendingSlots(s) \cup {s.head}
         /\ \A k : SwAt(t, k) = SwAt(s, k)
<1>1. /\ s.head \in SwIndex /\ s.tail \in SwIndex /\ s.pending \in 0 .. Capacity - 1
      /\ s.accepting \in BOOLEAN /\ s.slot \in [SwIndex -> SwSlot]
      /\ PendingSlots(s) \subseteq SwIndex
  BY QueueFields, PathAssumption
<1>2. /\ t.head = NextSw(s.head) /\ t.tail = s.tail /\ t.pending = s.pending + 1
      /\ t.accepting = s.accepting /\ t.slot = [s.slot EXCEPT ![s.head] = b]
  OBVIOUS
<1>3. /\ s.head \notin PendingSlots(s)
      /\ PendingSlots(t) = PendingSlots(s) \cup {s.head}
      /\ t.pending \in 0 .. Capacity
      /\ t.head = SwAt(t, t.pending)
      /\ \A k : SwAt(t, k) = SwAt(s, k)
  BY <1>1, <1>2, PendingAdded DEF QueueOK
<1>4. t.head \in SwIndex
  BY <1>1, <1>2, PathAssumption DEF NextSw, SwIndex
<1>5. t \in SwRec
  <2>1. t.slot \in [SwIndex -> SwSlot]
    BY <1>1, <1>2
  <2> QED
    BY <1>1, <1>2, <1>3, <1>4, <2>1 DEF SwRec
<1>6. /\ \A i \in SwIndex \ {s.head} : t.slot[i] = s.slot[i]
      /\ t.slot[s.head] = b
  BY <1>1, <1>2
<1>7. \A i \in SwIndex \ PendingSlots(t) : t.slot[i] = ClearSlot(t.slot[i].gen)
  BY <1>3, <1>6 DEF QueueOK
<1>8. \A i \in PendingSlots(t) :
        /\ t.slot[i].st \in {"SUBMITTED", "DMA_RECLAIMED"}
        /\ t.slot[i].packet \in Packets
        /\ \A j \in PendingSlots(t) : t.slot[i].packet = t.slot[j].packet => i = j
  BY <1>1, <1>3, <1>6 DEF QueueOK, PacketPending
<1> QED
  BY <1>3, <1>5, <1>7, <1>8 DEF QueueOK

\* A slot that is not pending spends a generation.
LEMMA SpendQueue ==
  ASSUME NEW s \in SwRec, QueueOK(s), NEW i \in SwIndex \ PendingSlots(s),
         NEW g \in Generation
  PROVE  LET t == [s EXCEPT !.slot[i] = ClearSlot(g)]
         IN  /\ t \in SwRec /\ QueueOK(t)
             /\ PendingSlots(t) = PendingSlots(s)
             /\ t.accepting = s.accepting /\ t.pending = s.pending
             /\ t.slot = [s.slot EXCEPT ![i] = ClearSlot(g)]
             /\ \A k : SwAt(t, k) = SwAt(s, k)
<1> DEFINE t == [s EXCEPT !.slot[i] = ClearSlot(g)]
<1>1. ClearSlot(g) \in SwSlot /\ ClearSlot(g).gen = g
  BY ClearIsSlot
<1>2. /\ t.head = s.head /\ t.tail = s.tail /\ t.pending = s.pending
      /\ t.accepting = s.accepting /\ t.slot = [s.slot EXCEPT ![i] = ClearSlot(g)]
      /\ t \in SwRec
  BY <1>1 DEF SwRec
<1> HIDE DEF t
<1>3. PendingSlots(t) = PendingSlots(s) /\ \A k : SwAt(t, k) = SwAt(s, k)
  BY <1>2 DEF PendingSlots, SwAt
<1>4. s.slot \in [SwIndex -> SwSlot] /\ PendingSlots(s) \subseteq SwIndex
  BY QueueFields
<1>5. QueueOK(t)
  BY <1>1, <1>2, <1>3, <1>4 DEF QueueOK
<1> QED
  BY <1>2, <1>3, <1>5 DEF t

\* The oldest packet gives its buffer back and stays.
LEMMA ReclaimQueue ==
  ASSUME NEW s \in SwRec, QueueOK(s), s.pending > 0
  PROVE  LET t == Reclaimed(s)
         IN  /\ t \in SwRec /\ QueueOK(t)
             /\ s.tail \in PendingSlots(s)
             /\ PendingSlots(t) = PendingSlots(s)
             /\ t.accepting = s.accepting /\ t.pending = s.pending
             /\ t.slot = [s.slot EXCEPT ![s.tail] =
                            [s.slot[s.tail] EXCEPT !.dma = 0, !.st = "DMA_RECLAIMED"]]
             /\ \A k : SwAt(t, k) = SwAt(s, k)
<1> DEFINE t == Reclaimed(s)
           b == [s.slot[s.tail] EXCEPT !.dma = 0, !.st = "DMA_RECLAIMED"]
<1>1. /\ s.tail \in SwIndex /\ s.pending \in 1 .. Capacity /\ s.slot \in [SwIndex -> SwSlot]
      /\ PendingSlots(s) \subseteq SwIndex
  BY QueueFields
<1>2. s.tail \in PendingSlots(s)
  <2> DEFINE d == [tail |-> NextSw(s.tail), pending |-> s.pending - 1]
  <2>1. d.tail = NextSw(s.tail) /\ d.pending = s.pending - 1
    OBVIOUS
  <2> HIDE DEF d
  <2> QED
    BY <1>1, <2>1, PendingDropped
<1>3. b \in SwSlot /\ b.packet = s.slot[s.tail].packet /\ b.st = "DMA_RECLAIMED"
  BY <1>1, PathAssumption DEF SwSlot
<1>4. t = [s EXCEPT !.slot = [s.slot EXCEPT ![s.tail] = b]]
  BY <1>1 DEF Reclaimed, SwRec
<1> HIDE DEF b, t
<1>5. /\ t.head = s.head /\ t.tail = s.tail /\ t.pending = s.pending
      /\ t.accepting = s.accepting /\ t.slot = [s.slot EXCEPT ![s.tail] = b]
      /\ t \in SwRec
  BY <1>1, <1>3, <1>4 DEF SwRec
<1>6. PendingSlots(t) = PendingSlots(s) /\ \A k : SwAt(t, k) = SwAt(s, k)
  BY <1>5 DEF PendingSlots, SwAt
<1>7. QueueOK(t)
  BY <1>1, <1>2, <1>3, <1>5, <1>6 DEF QueueOK
<1> QED
  BY <1>2, <1>5, <1>6, <1>7 DEF t, b

-----------------------------------------------------------------------------
(***************************************************************************)
(* The ring, and the join of the two kinds of slots.                        *)
(***************************************************************************)
\* The fields of a ring.
LEMMA RingFields ==
  ASSUME NEW r \in RingRec
  PROVE  /\ r.head \in Index /\ r.tail \in Index /\ r.slot \in [Index -> RingSlot]
         /\ \A k \in Index : /\ r.slot[k] \in RingSlot /\ r.slot[k].gen \in Generation
                             /\ r.slot[k].swSlot \in SwIndex /\ r.slot[k].queue \in Queues
<1>1. r.head \in Index /\ r.tail \in Index /\ r.slot \in [Index -> RingSlot]
  BY DEF RingRec, RingSlot, Ring
<1> QED
  BY <1>1 DEF RingSlot, Slot

\* An empty slot is a slot.
LEMMA EmptyIsSlot ==
  ASSUME NEW g \in Generation
  PROVE  /\ EmptySlot(g) \in RingSlot /\ EmptySlot(g).gen = g
         /\ EmptySlot(g).st = "FREE" /\ EmptySlot(g).skb = NoPacket /\ ~EmptySlot(g).mapped
<1>1. 0 \in Generation /\ 0 \in SwIndex /\ 0 \in Queues
  BY PathAssumption, RingAssumption DEF Generation, SwIndex, Queues
<1> QED
  BY <1>1 DEF EmptySlot, RingSlot, Slot, SlotStates

\* A slot of the ring is emptied, and the consumer moves on.
Emptied(r, k) == [r EXCEPT !.slot = [r.slot EXCEPT ![k] = EmptySlot(r.slot[k].gen)]]
Freed(r, k) == [Emptied(r, k) EXCEPT !.tail = AdvancedTail(Emptied(r, k))]

\* What ob_dma_tx_ring_release leaves, whatever slot it was.
LEMMA FreedEffect ==
  ASSUME NEW r \in RingRec, NEW k \in Index,
         \A i \in Index \ {k} : ~Inside(r.head, r.tail, i) => r.slot[i].st = "FREE"
  PROVE  /\ Freed(r, k) \in RingRec
         /\ Freed(r, k).head = r.head
         /\ Freed(r, k).slot = [r.slot EXCEPT ![k] = EmptySlot(r.slot[k].gen)]
         /\ OutsideIsFree(Freed(r, k)) /\ TailInUse(Freed(r, k))
<1> DEFINE f == [r.slot EXCEPT ![k] = EmptySlot(r.slot[k].gen)]
           e == Emptied(r, k)
<1>1. /\ r.head \in Index /\ r.tail \in Index /\ r.slot \in [Index -> RingSlot]
      /\ EmptySlot(r.slot[k].gen) \in RingSlot /\ EmptySlot(r.slot[k].gen).st = "FREE"
  BY RingFields, EmptyIsSlot
<1>2. f \in [Index -> RingSlot] /\ f[k].st = "FREE" /\ \A i \in Index \ {k} : f[i] = r.slot[i]
  BY <1>1
<1>3. e = [r EXCEPT !.slot = f]
  BY DEF Emptied
<1> HIDE DEF f
<1>4. e.head = r.head /\ e.tail = r.tail /\ e.slot = f /\ e \in RingRec
  BY <1>1, <1>2, <1>3 DEF RingRec, RingSlot, Ring
<1> HIDE DEF e
<1>5. \A i \in Index : ~Inside(e.head, e.tail, i) => e.slot[i].st = "FREE"
  BY <1>2, <1>4
<1>6. /\ AdvancedTail(e) \in Index
      /\ \A i \in Index : ~Inside(e.head, AdvancedTail(e), i) => e.slot[i].st = "FREE"
      /\ e.head # AdvancedTail(e) => e.slot[AdvancedTail(e)].st # "FREE"
  BY <1>1, <1>4, <1>5, AdvanceEffect
<1>7. Freed(r, k) = [e EXCEPT !.tail = AdvancedTail(e)]
  BY DEF Freed, e
<1>8. /\ Freed(r, k).head = e.head /\ Freed(r, k).slot = e.slot
      /\ Freed(r, k).tail = AdvancedTail(e) /\ Freed(r, k) \in RingRec
  BY <1>4, <1>6, <1>7 DEF RingRec, RingSlot, Ring
<1>9. OutsideIsFree(Freed(r, k)) /\ TailInUse(Freed(r, k))
  BY <1>6, <1>8 DEF OutsideIsFree, TailInUse
<1> QED
  BY <1>4, <1>8, <1>9 DEF f

\* What is known of a pending slot i of queue q, and of its ring slot.
Joint(r, s, q, i) ==
  LET b == s[q].slot[i]
      x == r.slot[b.ringSlot]
  IN  /\ s[q] \in SwRec /\ QueueOK(s[q]) /\ i \in SwIndex
      /\ b \in SwSlot /\ b.ringSlot \in Index /\ b.bound /\ b.packet \in Packets
      /\ b.packet # NoPacket /\ b.gen \in Generation /\ b.dma \in Dmas
      /\ b.st \in {"SUBMITTED", "DMA_RECLAIMED"}
      /\ x = RingFor(q, i, b) /\ x \in RingSlot
      /\ x.skb = b.packet /\ x.gen = b.ringGen /\ x.swGen = b.gen /\ x.swSlot = i
      /\ x.queue = q
      /\ b.st = "SUBMITTED" => x.st = "SUBMITTED" /\ x.mapped
      /\ b.st = "DMA_RECLAIMED" => x.st = "RECLAIMED" /\ ~x.mapped

\* A pending slot and its ring slot name each other.
LEMMA Join ==
  ASSUME NEW r, NEW s, NEW l, PathOK(r, s, l), NEW q \in Queues, NEW i \in PendingSlots(s[q])
  PROVE  Joint(r, s, q, i)
<1> DEFINE b == s[q].slot[i]
           x == r.slot[b.ringSlot]
<1>1. s[q] \in SwRec /\ QueueOK(s[q]) /\ r \in RingRec
  BY DEF PathOK
<1>2. i \in SwIndex /\ b \in SwSlot
  BY <1>1, QueueFields
<1>3. /\ b.packet \in Packets /\ b.st \in {"SUBMITTED", "DMA_RECLAIMED"} /\ b.packet # NoPacket
  BY <1>1, PathAssumption DEF QueueOK
<1>4. b.ringSlot \in Index /\ b.gen \in Generation /\ b.dma \in Dmas
  BY <1>2 DEF SwSlot
<1>5. b.bound /\ x = RingFor(q, i, b)
  BY DEF PathOK, Joins
<1>6. x \in RingSlot
  BY <1>1, <1>4, RingFields
<1> HIDE DEF b, x
<1>7. /\ x.skb = b.packet /\ x.gen = b.ringGen /\ x.swGen = b.gen /\ x.swSlot = i
      /\ x.queue = q
      /\ b.st = "SUBMITTED" => x.st = "SUBMITTED" /\ x.mapped
      /\ b.st = "DMA_RECLAIMED" => x.st = "RECLAIMED" /\ ~x.mapped
  BY <1>5 DEF RingFor
<1> QED
  BY <1>1, <1>2, <1>3, <1>4, <1>5, <1>6, <1>7 DEF b, x, Joint

\* The only ring slot that names the packet of a pending slot is its own.
LEMMA OnlyOwnSlot ==
  ASSUME NEW r, NEW s, NEW l, PathOK(r, s, l), NEW q \in Queues, NEW i \in PendingSlots(s[q]),
         NEW k \in Index, r.slot[k].queue = q, r.slot[k].skb = s[q].slot[i].packet
  PROVE  k = s[q].slot[i].ringSlot
<1>1. Joint(r, s, q, i)
  BY Join
<1>2. r.slot[k] # EmptySlot(r.slot[k].gen)
  <2>1. r.slot[k].skb # NoPacket
    BY <1>1 DEF Joint
  <2> QED
    BY <2>1 DEF EmptySlot
<1> DEFINE j == r.slot[k].swSlot
<1>3. j \in PendingSlots(s[q]) /\ s[q].slot[j].ringSlot = k
  BY <1>2 DEF PathOK, Owned
<1>4. Joint(r, s, q, j)
  BY <1>3, Join
<1> HIDE DEF j
<1>5. r.slot[k].skb = s[q].slot[j].packet
  BY <1>3, <1>4 DEF Joint
<1>6. QueueOK(s[q])
  BY <1>1 DEF Joint
<1>7. j = i
  BY <1>3, <1>5, <1>6 DEF QueueOK
<1> QED
  BY <1>3, <1>7

\* Two pending slots have two ring slots.
LEMMA TwoSlots ==
  ASSUME NEW r, NEW s, NEW l, PathOK(r, s, l),
         NEW q \in Queues, NEW i \in PendingSlots(s[q]),
         NEW p \in Queues, NEW j \in PendingSlots(s[p]),
         s[q].slot[i].ringSlot = s[p].slot[j].ringSlot
  PROVE  q = p /\ i = j
<1>1. Joint(r, s, q, i) /\ Joint(r, s, p, j)
  BY Join
<1>2. /\ r.slot[s[q].slot[i].ringSlot].queue = q
      /\ r.slot[s[q].slot[i].ringSlot].swSlot = i
  BY <1>1 DEF Joint
<1>3. /\ r.slot[s[p].slot[j].ringSlot].queue = p
      /\ r.slot[s[p].slot[j].ringSlot].swSlot = j
  BY <1>1 DEF Joint
<1> QED
  BY <1>2, <1>3

-----------------------------------------------------------------------------
(***************************************************************************)
(* The mappings.                                                            *)
(***************************************************************************)
\* There are finitely many slots to count.
LEMMA MappedIsFinite ==
  ASSUME NEW s \in SwRec, NEW d
  PROVE  IsFiniteSet(Mapped(s, d)) /\ Cardinality(Mapped(s, d)) \in Nat
<1>1. IsFiniteSet(SwIndex)
  <2>1. 0 \in Int /\ Capacity - 1 \in Int
    BY PathAssumption
  <2> QED
    BY <2>1, FS_Interval DEF SwIndex
<1>2. Mapped(s, d) \subseteq SwIndex
  BY QueueFields DEF Mapped
<1>3. IsFiniteSet(Mapped(s, d))
  BY <1>1, <1>2, FS_Subset
<1> QED
  BY <1>3, FS_CardinalityType

\* A mapping less: a slot of the queue that was mapped is not any more.
LEMMA CountedLess ==
  ASSUME NEW s \in [Queues -> SwRec], NEW l \in [Queues -> [Dmas -> Nat]], Counted(s, l),
         NEW q \in Queues, NEW i \in PendingSlots(s[q]), NEW t \in SwRec,
         s[q].slot[i].st = "SUBMITTED",
         \A d \in Dmas : Mapped(t, d) = Mapped(s[q], d) \ {i}
  PROVE  LET m == [l EXCEPT ![q][s[q].slot[i].dma] = @ - 1]
         IN  m \in [Queues -> [Dmas -> Nat]] /\ Counted([s EXCEPT ![q] = t], m)
<1> DEFINE a == s[q].slot[i].dma
           m == [l EXCEPT ![q][a] = @ - 1]
           u == [s EXCEPT ![q] = t]
<1>1. s[q] \in SwRec /\ a \in Dmas
  BY QueueFields DEF SwSlot
<1>2. ASSUME NEW d \in Dmas
      PROVE  /\ IsFiniteSet(Mapped(s[q], d)) /\ Cardinality(Mapped(s[q], d)) = l[q][d]
             /\ d = a => i \in Mapped(s[q], d)
             /\ d # a => Mapped(t, d) = Mapped(s[q], d)
  <2>1. IsFiniteSet(Mapped(s[q], d)) /\ Cardinality(Mapped(s[q], d)) = l[q][d]
    BY <1>1, MappedIsFinite DEF Counted
  <2>2. i \in Mapped(s[q], d) <=> d = a
    BY DEF Mapped
  <2>3. Mapped(t, d) = Mapped(s[q], d) \ {i}
    OBVIOUS
  <2> QED
    BY <2>1, <2>2, <2>3
<1>3. ASSUME NEW d \in Dmas
      PROVE  /\ Cardinality(Mapped(t, d)) \in Nat
             /\ Cardinality(Mapped(t, d)) = IF d = a THEN l[q][d] - 1 ELSE l[q][d]
  <2>1. Cardinality(Mapped(t, d)) \in Nat
    BY MappedIsFinite
  <2>2. CASE d = a
    <3>1. Cardinality(Mapped(s[q], d) \ {i}) = Cardinality(Mapped(s[q], d)) - 1
      BY <1>2, <2>2, FS_RemoveElement
    <3> QED
      BY <1>2, <2>1, <2>2, <3>1
  <2>3. CASE d # a
    BY <1>2, <2>1, <2>3
  <2> QED
    BY <2>2, <2>3
<1>4. /\ \A p \in Queues, d \in Dmas :
           m[p][d] = IF p = q /\ d = a THEN l[p][d] - 1 ELSE l[p][d]
      /\ m = [p \in Queues |-> [d \in Dmas |-> m[p][d]]]
  BY <1>1
<1> HIDE DEF m, a
<1>5. \A p \in Queues, d \in Dmas : m[p][d] \in Nat
  <2> TAKE p \in Queues, d \in Dmas
  <2>1. l[p][d] \in Nat
    OBVIOUS
  <2> QED
    BY <1>3, <1>4, <2>1
<1>6. m \in [Queues -> [Dmas -> Nat]]
  BY <1>4, <1>5
<1>7. \A p \in Queues : u[p] = IF p = q THEN t ELSE s[p]
  OBVIOUS
<1> HIDE DEF u
<1>8. Counted(u, m)
  <2> SUFFICES ASSUME NEW p \in Queues, NEW d \in Dmas
               PROVE  m[p][d] = Cardinality(Mapped(u[p], d))
    BY DEF Counted
  <2>1. CASE p = q
    BY <1>3, <1>4, <1>7, <2>1
  <2>2. CASE p # q
    BY <1>4, <1>7, <2>2 DEF Counted
  <2> QED
    BY <2>1, <2>2
<1> QED
  BY <1>6, <1>8 DEF m, u, a

\* A mapping more: a slot of the queue that was not mapped is now, at address a.
LEMMA CountedMore ==
  ASSUME NEW s \in [Queues -> SwRec], NEW l \in [Queues -> [Dmas -> Nat]], Counted(s, l),
         NEW q \in Queues, NEW i, i \notin PendingSlots(s[q]), NEW t \in SwRec, NEW a \in Dmas,
         \A d \in Dmas : Mapped(t, d) = IF d = a THEN Mapped(s[q], d) \cup {i} ELSE Mapped(s[q], d)
  PROVE  LET m == [l EXCEPT ![q][a] = @ + 1]
         IN  m \in [Queues -> [Dmas -> Nat]] /\ Counted([s EXCEPT ![q] = t], m)
<1> DEFINE m == [l EXCEPT ![q][a] = @ + 1]
           u == [s EXCEPT ![q] = t]
<1>1. s[q] \in SwRec
  OBVIOUS
<1>2. ASSUME NEW d \in Dmas
      PROVE  /\ IsFiniteSet(Mapped(s[q], d)) /\ Cardinality(Mapped(s[q], d)) = l[q][d]
             /\ i \notin Mapped(s[q], d)
  BY <1>1, MappedIsFinite DEF Counted, Mapped
<1>3. ASSUME NEW d \in Dmas
      PROVE  Cardinality(Mapped(t, d)) = IF d = a THEN l[q][d] + 1 ELSE l[q][d]
  <2>1. CASE d = a
    <3>1. Cardinality(Mapped(s[q], d) \cup {i}) = Cardinality(Mapped(s[q], d)) + 1
      BY <1>2, FS_AddElement
    <3> QED
      BY <1>2, <2>1, <3>1
  <2>2. CASE d # a
    BY <1>2, <2>2
  <2> QED
    BY <2>1, <2>2
<1>4. \A p \in Queues, d \in Dmas :
        m[p][d] = IF p = q /\ d = a THEN l[p][d] + 1 ELSE l[p][d]
  OBVIOUS
<1>5. m \in [Queues -> [Dmas -> Nat]]
  OBVIOUS
<1> HIDE DEF m
<1>6. \A p \in Queues : u[p] = IF p = q THEN t ELSE s[p]
  OBVIOUS
<1> HIDE DEF u
<1>7. Counted(u, m)
  <2> SUFFICES ASSUME NEW p \in Queues, NEW d \in Dmas
               PROVE  m[p][d] = Cardinality(Mapped(u[p], d))
    BY DEF Counted
  <2>1. CASE p = q
    BY <1>3, <1>4, <1>6, <2>1
  <2>2. CASE p # q
    BY <1>4, <1>6, <2>2 DEF Counted
  <2> QED
    BY <2>1, <2>2
<1> QED
  BY <1>5, <1>7 DEF m, u

\* The mappings of the queue are as they were.
LEMMA CountedSame ==
  ASSUME NEW s \in [Queues -> SwRec], NEW l, Counted(s, l),
         NEW q \in Queues, NEW t, \A d \in Dmas : Mapped(t, d) = Mapped(s[q], d)
  PROVE  Counted([s EXCEPT ![q] = t], l)
BY DEF Counted

-----------------------------------------------------------------------------
(***************************************************************************)
(* A packet leaves.                                                         *)
(***************************************************************************)
\* The queue, the ring and the mappings once the oldest packet of queue q is gone.
Less(s, q) == [s EXCEPT ![q] = DropOldest(s[q])]
OldestSlot(s, q) == s[q].slot[s[q].tail]

\* Wherever the packet was in the ring, what is left agrees.
LEMMA FinishKeeps ==
  ASSUME NEW r, NEW s, NEW l, PathOK(r, s, l), NEW q \in Queues, s[q].pending > 0
  PROVE  PathOK(Freed(r, OldestSlot(s, q).ringSlot), Less(s, q), DropMapping(l, q, OldestSlot(s, q)))
<1> DEFINE S == s[q]
           t == DropOldest(S)
           i == S.tail
           b == S.slot[i]
           k == b.ringSlot
           r1 == Freed(r, k)
           s1 == Less(s, q)
           l1 == DropMapping(l, q, b)
<1>1. S \in SwRec /\ QueueOK(S) /\ r \in RingRec /\ s \in [Queues -> SwRec]
      /\ l \in [Queues -> [Dmas -> Nat]] /\ Counted(s, l)
  BY DEF PathOK
<1>2. /\ t \in SwRec /\ QueueOK(t) /\ i \in PendingSlots(S)
      /\ PendingSlots(t) = PendingSlots(S) \ {i}
      /\ t.slot = [S.slot EXCEPT ![i] = ClearSlot(b.gen)]
  BY <1>1, DropQueue
<1>3. Joint(r, s, q, i)
  BY <1>2, Join
<1>4. S.slot \in [SwIndex -> SwSlot] /\ PendingSlots(S) \subseteq SwIndex
  BY <1>1, QueueFields
<1>5. k \in Index
  BY <1>3 DEF Joint
<1>6. /\ r1 \in RingRec /\ r1.slot = [r.slot EXCEPT ![k] = EmptySlot(r.slot[k].gen)]
      /\ OutsideIsFree(r1) /\ TailInUse(r1)
  BY <1>1, <1>5, FreedEffect DEF PathOK, OutsideIsFree
<1>7. /\ r.slot \in [Index -> RingSlot]
      /\ \A x \in Index : r1.slot[x] = IF x = k THEN EmptySlot(r.slot[k].gen) ELSE r.slot[x]
  BY <1>1, <1>5, <1>6, RingFields
<1>8. /\ s1 \in [Queues -> SwRec]
      /\ \A p \in Queues : s1[p] = IF p = q THEN t ELSE s[p]
  BY <1>1, <1>2 DEF Less
<1>9. \A j \in PendingSlots(t) : t.slot[j] = S.slot[j] /\ j # i
  BY <1>2, <1>4
<1>10. \A d \in Dmas : Mapped(t, d) = Mapped(S, d) \ {i}
  BY <1>2, <1>9 DEF Mapped
<1>11. b.st \in {"SUBMITTED", "DMA_RECLAIMED"}
  BY <1>3 DEF Joint
<1> HIDE DEF t, r1, s1
\* A slot pending now was pending before, and is not the oldest.
<1>12. ASSUME NEW p \in Queues, NEW j \in PendingSlots(s1[p])
       PROVE  /\ j \in PendingSlots(s[p]) /\ s1[p].slot[j] = s[p].slot[j]
              /\ p # q \/ j # i
  BY <1>2, <1>8, <1>9
<1>13. ASSUME NEW p \in Queues, NEW j \in PendingSlots(s[p]), p # q \/ j # i
       PROVE  j \in PendingSlots(s1[p])
  BY <1>2, <1>8, <1>13
<1>14. Joins(r1, s1)
  <2> SUFFICES ASSUME NEW p \in Queues, NEW j \in PendingSlots(s1[p])
               PROVE  /\ s1[p].slot[j].bound
                      /\ r1.slot[s1[p].slot[j].ringSlot] = RingFor(p, j, s1[p].slot[j])
    BY DEF Joins
  <2>1. j \in PendingSlots(s[p]) /\ s1[p].slot[j] = s[p].slot[j] /\ (p # q \/ j # i)
    BY <1>12
  <2>2. Joint(r, s, p, j)
    BY <2>1, Join
  <2>3. s[p].slot[j].ringSlot # k
    BY <1>2, <2>1, TwoSlots
  <2>4. /\ s[p].slot[j].bound /\ s[p].slot[j].ringSlot \in Index
        /\ r.slot[s[p].slot[j].ringSlot] = RingFor(p, j, s[p].slot[j])
    BY <2>2 DEF Joint
  <2>5. r1.slot[s[p].slot[j].ringSlot] = r.slot[s[p].slot[j].ringSlot]
    BY <1>7, <2>3, <2>4
  <2> QED
    BY <2>1, <2>4, <2>5
<1>15. Owned(r1, s1)
  <2> SUFFICES ASSUME NEW x \in Index
               PROVE  \/ r1.slot[x] = EmptySlot(r1.slot[x].gen)
                      \/ /\ r1.slot[x].st \in {"SUBMITTED", "RECLAIMED"}
                         /\ r1.slot[x].swSlot \in PendingSlots(s1[r1.slot[x].queue])
                         /\ s1[r1.slot[x].queue].slot[r1.slot[x].swSlot].ringSlot = x
    BY DEF Owned
  <2>1. CASE x = k
    <3>1. EmptySlot(r.slot[k].gen).gen = r.slot[k].gen
      BY DEF EmptySlot
    <3> QED
      BY <1>7, <2>1, <3>1
  <2>2. CASE x # k
    <3> DEFINE p == r.slot[x].queue
               j == r.slot[x].swSlot
    <3>1. r1.slot[x] = r.slot[x] /\ p \in Queues
      BY <1>1, <1>7, <2>2, RingFields
    <3>2. \/ r.slot[x] = EmptySlot(r.slot[x].gen)
          \/ /\ r.slot[x].st \in {"SUBMITTED", "RECLAIMED"}
             /\ j \in PendingSlots(s[p]) /\ s[p].slot[j].ringSlot = x
      BY DEF PathOK, Owned
    <3> HIDE DEF p, j
    <3>3. ASSUME j \in PendingSlots(s[p]), s[p].slot[j].ringSlot = x
          PROVE  j \in PendingSlots(s1[p]) /\ s1[p].slot[j].ringSlot = x
      <4>1. p # q \/ j # i
        BY <2>2, <3>3
      <4>2. j \in PendingSlots(s1[p])
        BY <1>13, <3>1, <3>3, <4>1
      <4>3. s1[p].slot[j] = s[p].slot[j]
        BY <1>12, <3>1, <4>2
      <4> QED
        BY <3>3, <4>2, <4>3
    <3> QED
      BY <3>1, <3>2, <3>3 DEF p, j
  <2> QED
    BY <2>1, <2>2
<1>16. l1 \in [Queues -> [Dmas -> Nat]] /\ Counted(s1, l1)
  <2>1. s1 = [s EXCEPT ![q] = t]
    BY DEF s1, t, Less
  <2>2. CASE b.st = "SUBMITTED"
    <3>1. l1 = [l EXCEPT ![q][s[q].slot[i].dma] = @ - 1]
      BY <2>2 DEF DropMapping
    <3>2. /\ s \in [Queues -> SwRec] /\ l \in [Queues -> [Dmas -> Nat]] /\ Counted(s, l)
          /\ i \in PendingSlots(s[q]) /\ t \in SwRec /\ s[q].slot[i].st = "SUBMITTED"
          /\ \A d \in Dmas : Mapped(t, d) = Mapped(s[q], d) \ {i}
      BY <1>1, <1>2, <1>10, <2>2
    <3> HIDE DEF S, i, b, l1
    <3> QED
      BY <2>1, <3>1, <3>2, CountedLess
  <2>3. CASE b.st # "SUBMITTED"
    <3>1. l1 = l
      BY <2>3 DEF DropMapping
    <3>2. \A d \in Dmas : Mapped(t, d) = Mapped(S, d)
      BY <1>10, <2>3 DEF Mapped
    <3> QED
      BY <1>1, <2>1, <3>1, <3>2, CountedSame
  <2> QED
    BY <2>2, <2>3
<1>17. \A p \in Queues : QueueOK(s1[p])
  BY <1>2, <1>8 DEF PathOK
<1> QED
  BY <1>6, <1>8, <1>14, <1>15, <1>16, <1>17 DEF PathOK, r1, s1, OldestSlot

-----------------------------------------------------------------------------
(***************************************************************************)
(* The steps of ob_tx_path_unmap and ob_tx_path_complete_packet.            *)
(***************************************************************************)
\* The ring with slot k changed to x.
Put(r, k, x) == [r EXCEPT !.slot = [r.slot EXCEPT ![k] = x]]

\* Only the last change of a slot counts.
LEMMA PutAgain ==
  ASSUME NEW r \in RingRec, NEW k \in Index, NEW x, NEW y
  PROVE  /\ Put(r, k, r.slot[k]) = r
         /\ Put(Put(r, k, x), k, y) = Put(r, k, y)
BY DEF RingRec, Ring, Put

\* Once the slot of a pending packet is unmapped and finished, it is found by
\* the packet, may be released, and is the one that is.
LEMMA DisposeIsFreed ==
  ASSUME NEW r, NEW s, NEW l, PathOK(r, s, l), NEW q \in Queues, NEW i \in PendingSlots(s[q]),
         NEW k, k = s[q].slot[i].ringSlot,
         NEW y, y.skb = s[q].slot[i].packet, y.queue = q, y.gen = r.slot[k].gen,
         ~y.mapped, y.st \in Finished
  PROVE  /\ DisposeOk(Put(r, k, y), q, s[q].slot[i].packet)
         /\ Dispose(Put(r, k, y), q, s[q].slot[i].packet) = Freed(r, k)
<1> DEFINE u == Put(r, k, y)
           packet == s[q].slot[i].packet
           freed == [u EXCEPT !.slot[k] = EmptySlot(u.slot[k].gen)]
<1>1. /\ k \in Index /\ packet # NoPacket /\ r \in RingRec
  <2>1. Joint(r, s, q, i)
    BY Join
  <2> QED
    BY <2>1 DEF Joint, PathOK
<1>2. /\ u.slot[k] = y /\ \A j \in Index \ {k} : u.slot[j] = r.slot[j]
  <2>1. k \in Index /\ r \in RingRec
    BY <1>1
  <2> HIDE DEF packet, freed
  <2>2. /\ Put(r, k, y).slot[k] = y
        /\ \A j \in Index \ {k} : Put(r, k, y).slot[j] = r.slot[j]
    BY ONLY <2>1 DEF Put, RingRec, Ring
  <2> QED
    BY <2>2
<1>3. freed = Emptied(r, k)
  <2>1. freed = Put(u, k, EmptySlot(y.gen))
    BY <1>2 DEF Put
  <2>2. Put(u, k, EmptySlot(y.gen)) = Put(r, k, EmptySlot(y.gen))
    BY <1>1, PutAgain
  <2> QED
    BY <2>1, <2>2 DEF Put, Emptied
<1> HIDE DEF u
<1>4. PacketSlots(u, q, packet) = {k}
  <2>1. k \in PacketSlots(u, q, packet)
    BY <1>1, <1>2 DEF PacketSlots
  <2>2. ASSUME NEW j \in PacketSlots(u, q, packet), j # k
        PROVE  FALSE
    <3>1. j \in Index /\ u.slot[j].skb = packet /\ u.slot[j].queue = q
      BY DEF PacketSlots
    <3>2. u.slot[j] = r.slot[j]
      BY <1>2, <2>2, <3>1
    <3>3. r.slot[j].queue = q /\ r.slot[j].skb = s[q].slot[i].packet
      BY <3>1, <3>2
    <3> QED
      BY <2>2, <3>1, <3>3, OnlyOwnSlot
  <2> QED
    BY <2>1, <2>2
<1>5. FirstSlot({k}) = k
  <2>1. k <= k
    BY <1>1 DEF Index
  <2> QED
    BY <2>1 DEF FirstSlot
<1>6. MayRelease(u, k, u.slot[k].gen)
  BY <1>1, <1>2 DEF MayRelease
<1>7. DisposeOk(u, q, packet)
  BY <1>4, <1>5, <1>6 DEF DisposeOk
<1>8. Dispose(u, q, packet) = Release(u, k, u.slot[k].gen)
  BY <1>4, <1>5, <1>7 DEF Dispose
<1>9. Release(u, k, u.slot[k].gen) = [freed EXCEPT !.tail = AdvancedTail(freed)]
  BY <1>6 DEF Release
<1> QED
  BY <1>3, <1>7, <1>8, <1>9 DEF Freed, u

\* No slot of a queue is left between SUBMITTING and SUBMITTED, so the mapping
\* that ob_tx_path_find_unmap_slot finds is the oldest one's.
LEMMA UnmapFindsOldest ==
  ASSUME NEW s \in SwRec, QueueOK(s)
  PROVE  /\ \A i \in SwIndex : s.slot[i].st # "SUBMITTING"
         /\ \A d : UnmapSlot(s, d) = {i \in {s.tail} : /\ s.pending > 0
                                                       /\ s.slot[i].bound
                                                       /\ s.slot[i].dma = d}
<1>1. ASSUME NEW i \in SwIndex
      PROVE  s.slot[i].st # "SUBMITTING"
  <2>1. CASE i \in PendingSlots(s)
    BY <2>1 DEF QueueOK
  <2>2. CASE i \notin PendingSlots(s)
    <3>1. s.slot[i] = ClearSlot(s.slot[i].gen)
      BY <2>2 DEF QueueOK
    <3>2. ClearSlot(s.slot[i].gen).st = "FREE"
      BY DEF ClearSlot
    <3> QED
      BY <3>1, <3>2
  <2> QED
    BY <2>1, <2>2
<1>2. s.head \in SwIndex
  BY QueueFields
<1>3. \A d : UnmapCandidates(s, d) = {}
  BY <1>1, <1>2 DEF UnmapCandidates
<1> QED
  BY <1>1, <1>3 DEF UnmapSlot

\* ob_tx_path_unmap without a rollback.
Unmapped(r, s, q, dma) == PathUnmap(r, s, q, dma, FALSE)

\* A ring slot whose mapping has ended in state to.
Ended(x, to) == [x EXCEPT !.st = to, !.mapped = FALSE]

\* Its fields.
LEMMA EndedFields ==
  ASSUME NEW x \in RingSlot, NEW to \in SlotStates
  PROVE  /\ Ended(x, to) \in RingSlot
         /\ Ended(x, to).skb = x.skb /\ Ended(x, to).gen = x.gen /\ Ended(x, to).queue = x.queue
         /\ Ended(x, to).swSlot = x.swSlot /\ Ended(x, to).swGen = x.swGen
         /\ Ended(x, to).st = to /\ ~Ended(x, to).mapped /\ Ended(x, to).mapped = FALSE
BY DEF RingSlot, Slot, Ended

\* Finishing the descriptor of the oldest packet, then unmapping it.
LEMMA UnmapOldest ==
  ASSUME NEW r, NEW s, NEW l, PathOK(r, s, l), NEW q \in Queues, s[q].pending > 0,
         NEW b, b = OldestSlot(s, q), b.st = "SUBMITTED", NEW k, k = b.ringSlot,
         NEW to \in {"COMPLETED", "CANCELED"}
  PROVE  Unmapped(Transition(r, k, b.ringGen, "SUBMITTED", to), s[q], q, b.dma)
           = Put(r, k, Ended(r.slot[k], to))
<1> DEFINE S == s[q]
           i == S.tail
           x == r.slot[k]
           c == Transition(r, k, b.ringGen, "SUBMITTED", to)
           y == [x EXCEPT !.st = to]
           z == [y EXCEPT !.mapped = FALSE]
<1>1. S \in SwRec /\ QueueOK(S) /\ r \in RingRec /\ i \in PendingSlots(S) /\ S.pending > 0
  BY DropQueue DEF PathOK
<1>2. b = S.slot[i] /\ Joint(r, s, q, i)
  BY <1>1, Join DEF OldestSlot
<1>3. /\ k \in Index /\ b.bound /\ i \in SwIndex /\ x \in RingSlot
      /\ x.skb = b.packet /\ x.skb # NoPacket /\ x.gen = b.ringGen /\ x.swGen = b.gen
      /\ x.swSlot = i /\ x.queue = q /\ x.st = "SUBMITTED" /\ x.mapped
  BY <1>2 DEF Joint
<1>4. c = [r EXCEPT !.slot[k].st = to]
  BY <1>3 DEF Transition, MayTransition
<1>5. /\ y.skb = x.skb /\ y.gen = x.gen /\ y.swGen = x.swGen /\ y.swSlot = x.swSlot
      /\ y.queue = x.queue /\ y.mapped = x.mapped /\ y.st = to
      /\ z = Ended(x, to)
  BY <1>3 DEF RingSlot, Slot, Ended
<1> HIDE DEF y, z
<1>6. c = [r EXCEPT !.slot = [r.slot EXCEPT ![k] = y]]
  BY <1>4 DEF y
<1>7. c.slot[k] = y
  BY <1>1, <1>3, <1>6 DEF RingRec, Ring
<1>8. UnmapSlot(S, b.dma) = {i}
  <2>1. UnmapSlot(S, b.dma) = {j \in {i} : /\ S.pending > 0
                                           /\ S.slot[j].bound
                                           /\ S.slot[j].dma = b.dma}
    BY <1>1, UnmapFindsOldest
  <2>2. S.slot[i] = b /\ b.bound /\ S.pending > 0
    BY <1>1, <1>2, <1>3
  <2> HIDE DEF S, i
  <2> QED
    BY <2>1, <2>2
<1>9. Joined(c, q, i, b) /\ c.slot[k].mapped /\ c.slot[k].st \in Finished
  BY <1>3, <1>5, <1>7 DEF Joined, Finished
<1>10. PathUnmap(c, S, q, b.dma, FALSE) = Unmap(c, k, b.ringGen)
  <2> DEFINE found == {j \in UnmapSlot(S, b.dma) :
                         /\ Joined(c, q, j, S.slot[j])
                         /\ c.slot[S.slot[j].ringSlot].mapped
                         /\ c.slot[S.slot[j].ringSlot].st \in Finished}
  <2>1. found = {i}
    BY <1>2, <1>8, <1>9
  <2>2. (CHOOSE j \in found : TRUE) = i
    BY <2>1
  <2>3. found # {}
    BY <2>1
  <2>4. PathUnmap(c, S, q, b.dma, FALSE)
          = LET d == S.slot[CHOOSE j \in found : TRUE] IN Unmap(c, d.ringSlot, d.ringGen)
    BY <2>3 DEF PathUnmap
  <2> HIDE DEF found
  <2> QED
    BY <1>2, <2>2, <2>4
<1>11. Unmap(c, k, b.ringGen) = [c EXCEPT !.slot[k].mapped = FALSE]
  <2>1. MayUnmap(c, k, b.ringGen)
    BY <1>3, <1>5, <1>7 DEF MayUnmap
  <2> QED
    BY <2>1 DEF Unmap
<1>12. [c EXCEPT !.slot[k].mapped = FALSE] = [c EXCEPT !.slot = [c.slot EXCEPT ![k] = z]]
  BY <1>7 DEF z
<1>13. [c EXCEPT !.slot = [c.slot EXCEPT ![k] = z]] = [r EXCEPT !.slot = [r.slot EXCEPT ![k] = z]]
  <2>1. Put(r, k, y) = c
    BY <1>6 DEF Put
  <2>2. Put(Put(r, k, y), k, z) = Put(r, k, z)
    BY <1>1, <1>3, PutAgain
  <2>3. Put(c, k, z) = Put(r, k, z)
    BY <2>1, <2>2
  <2> QED
    BY <2>3 DEF Put
<1>14. Unmapped(c, S, q, b.dma) = Unmap(c, k, b.ringGen)
  BY <1>10 DEF Unmapped
<1> QED
  BY <1>5, <1>11, <1>12, <1>13, <1>14 DEF Put

\* The ring of ob_tx_path_complete, ob_tx_path_stop and complete_reclaimed once the
\* oldest packet is disposed of, which never fails.
LEMMA DisposeOldest ==
  ASSUME NEW r, NEW s, NEW l, PathOK(r, s, l), NEW q \in Queues, s[q].pending > 0,
         NEW b, b = OldestSlot(s, q), NEW to \in {"COMPLETED", "CANCELED"},
         NEW u,
         u = IF b.st = "SUBMITTED"
             THEN Unmapped(Transition(r, b.ringSlot, b.ringGen, "SUBMITTED", to), s[q], q, b.dma)
             ELSE r
  PROVE  /\ DisposeOk(u, q, b.packet)
         /\ Dispose(u, q, b.packet) = Freed(r, b.ringSlot)
<1> DEFINE i == s[q].tail
           k == b.ringSlot
           x == r.slot[k]
<1>1. s[q] \in SwRec /\ QueueOK(s[q]) /\ r \in RingRec /\ i \in PendingSlots(s[q])
  BY DropQueue DEF PathOK
<1>2. b = s[q].slot[i] /\ Joint(r, s, q, i)
  BY <1>1, Join DEF OldestSlot
<1>3. /\ k \in Index /\ x \in RingSlot /\ x.skb = b.packet /\ x.queue = q
      /\ b.st \in {"SUBMITTED", "DMA_RECLAIMED"}
      /\ b.st = "DMA_RECLAIMED" => x.st = "RECLAIMED" /\ ~x.mapped
  BY <1>2 DEF Joint
<1>4. CASE b.st = "SUBMITTED"
  <2> DEFINE y == Ended(x, to)
  <2>1. u = Put(r, k, y)
    <3>1. u = Unmapped(Transition(r, k, b.ringGen, "SUBMITTED", to), s[q], q, b.dma)
      BY <1>4
    <3>2. k = b.ringSlot
      OBVIOUS
    <3> HIDE DEF k, i
    <3>3. Unmapped(Transition(r, k, b.ringGen, "SUBMITTED", to), s[q], q, b.dma)
            = Put(r, k, Ended(r.slot[k], to))
      BY <1>4, <3>2, UnmapOldest
    <3> QED
      BY <3>1, <3>3
  <2>2. to \in SlotStates /\ to \in Finished
    BY DEF SlotStates, Finished
  <2>3. /\ y.skb = s[q].slot[i].packet /\ y.queue = q /\ y.gen = r.slot[k].gen
        /\ ~y.mapped /\ y.st \in Finished
    BY <1>2, <1>3, <2>2, EndedFields
  <2> HIDE DEF y
  <2>4. k = s[q].slot[i].ringSlot /\ b.packet = s[q].slot[i].packet
    BY <1>2
  <2> HIDE DEF k, i
  <2>5. /\ DisposeOk(Put(r, k, y), q, s[q].slot[i].packet)
        /\ Dispose(Put(r, k, y), q, s[q].slot[i].packet) = Freed(r, k)
    BY <1>1, <2>3, <2>4, DisposeIsFreed
  <2> QED
    BY <2>1, <2>4, <2>5 DEF k
<1>5. CASE b.st = "DMA_RECLAIMED"
  <2>1. u = Put(r, k, x)
    BY <1>1, <1>3, <1>5, PutAgain
  <2>2. /\ x.skb = s[q].slot[i].packet /\ x.queue = q /\ x.gen = r.slot[k].gen
        /\ ~x.mapped /\ x.st \in Finished
    BY <1>2, <1>3, <1>5 DEF Finished
  <2>3. k = s[q].slot[i].ringSlot /\ b.packet = s[q].slot[i].packet
    BY <1>2
  <2> HIDE DEF x, k, i
  <2>4. /\ DisposeOk(Put(r, k, x), q, s[q].slot[i].packet)
        /\ Dispose(Put(r, k, x), q, s[q].slot[i].packet) = Freed(r, k)
    BY <1>1, <2>2, <2>3, DisposeIsFreed
  <2> QED
    BY <2>1, <2>3, <2>4 DEF k
<1> QED
  BY <1>3, <1>4, <1>5

\* The oldest packet gives its buffer back.
LEMMA ReclaimKeeps ==
  ASSUME NEW r, NEW s, NEW l, PathOK(r, s, l), NEW q \in Queues, s[q].pending > 0,
         NEW b, b = OldestSlot(s, q), b.st = "SUBMITTED"
  PROVE  PathOK(Put(r, b.ringSlot, Ended(r.slot[b.ringSlot], "RECLAIMED")),
                [s EXCEPT ![q] = Reclaimed(s[q])],
                DropMapping(l, q, b))
<1> DEFINE S == s[q]
           t == Reclaimed(S)
           i == S.tail
           c == [b EXCEPT !.dma = 0, !.st = "DMA_RECLAIMED"]
           k == b.ringSlot
           x == r.slot[k]
           y == Ended(x, "RECLAIMED")
           r1 == Put(r, k, y)
           s1 == [s EXCEPT ![q] = t]
           l1 == DropMapping(l, q, b)
<1>1. S \in SwRec /\ QueueOK(S) /\ r \in RingRec /\ s \in [Queues -> SwRec]
      /\ l \in [Queues -> [Dmas -> Nat]] /\ Counted(s, l) /\ b = S.slot[i]
  BY DEF PathOK, OldestSlot
<1>2. /\ t \in SwRec /\ QueueOK(t) /\ i \in PendingSlots(S)
      /\ PendingSlots(t) = PendingSlots(S)
      /\ t.slot = [S.slot EXCEPT ![i] = c]
  BY <1>1, ReclaimQueue
<1>3. Joint(r, s, q, i)
  BY <1>2, Join
<1>4. S.slot \in [SwIndex -> SwSlot] /\ PendingSlots(S) \subseteq SwIndex
  BY <1>1, QueueFields
<1>5. /\ k \in Index /\ x \in RingSlot /\ b \in SwSlot /\ b.bound /\ x = RingFor(q, i, b)
  BY <1>1, <1>3 DEF Joint
<1>6. /\ c.packet = b.packet /\ c.gen = b.gen /\ c.bound = b.bound /\ c.ringSlot = k
      /\ c.ringGen = b.ringGen /\ c.st = "DMA_RECLAIMED"
  BY <1>5 DEF SwSlot
<1>7. y = RingFor(q, i, c) /\ y \in RingSlot /\ y.st = "RECLAIMED"
      /\ y.swSlot = x.swSlot /\ y.queue = x.queue
  <2>1. y \in RingSlot /\ y.st = "RECLAIMED" /\ y.swSlot = x.swSlot /\ y.queue = x.queue
    BY <1>5, EndedFields DEF SlotStates
  <2>2. x = [skb |-> b.packet, mapped |-> TRUE, gen |-> b.ringGen, swGen |-> b.gen,
             swSlot |-> i, queue |-> q, st |-> "SUBMITTED"]
    BY <1>5 DEF RingFor
  <2>3. y = [skb |-> b.packet, mapped |-> FALSE, gen |-> b.ringGen, swGen |-> b.gen,
             swSlot |-> i, queue |-> q, st |-> "RECLAIMED"]
    <3>1. y = [x EXCEPT !.st = "RECLAIMED", !.mapped = FALSE]
      BY DEF Ended
    <3> HIDE DEF x, y, k, i
    <3> QED
      BY ONLY <2>2, <3>1
  <2>4. y = RingFor(q, i, c)
    BY <1>6, <2>3 DEF RingFor
  <2> QED
    BY <2>1, <2>4
<1> HIDE DEF c, y
<1>8. /\ r1.head = r.head /\ r1.tail = r.tail /\ r1.slot = [r.slot EXCEPT ![k] = y]
      /\ r1 \in RingRec
  BY <1>1, <1>5, <1>7 DEF Put, RingRec, RingSlot, Ring
<1>9. /\ r.slot \in [Index -> RingSlot]
      /\ \A j \in Index : r1.slot[j] = IF j = k THEN y ELSE r.slot[j]
  BY <1>1, <1>5, <1>8, RingFields
<1>10. /\ s1 \in [Queues -> SwRec]
       /\ \A p \in Queues : s1[p] = IF p = q THEN t ELSE s[p]
       /\ \A p \in Queues : PendingSlots(s1[p]) = PendingSlots(s[p])
  BY <1>1, <1>2
<1>11. t.slot[i] = c /\ \A j \in SwIndex \ {i} : t.slot[j] = S.slot[j]
  BY <1>2, <1>4
<1>12. \A d \in Dmas : Mapped(t, d) = Mapped(S, d) \ {i}
  BY <1>2, <1>4, <1>6, <1>11 DEF Mapped
<1> HIDE DEF t, r1, s1
<1>13. ASSUME NEW p \in Queues, NEW j \in PendingSlots(s[p]), p # q \/ j # i
       PROVE  s1[p].slot[j] = s[p].slot[j]
  BY <1>4, <1>10, <1>11, <1>13
<1>14. s1[q].slot[i] = c
  BY <1>10, <1>11
<1>15. Joins(r1, s1)
  <2> SUFFICES ASSUME NEW p \in Queues, NEW j \in PendingSlots(s[p])
               PROVE  /\ s1[p].slot[j].bound
                      /\ r1.slot[s1[p].slot[j].ringSlot] = RingFor(p, j, s1[p].slot[j])
    BY <1>10 DEF Joins
  <2>1. CASE p = q /\ j = i
    BY <1>5, <1>6, <1>7, <1>9, <1>14, <2>1
  <2>2. CASE p # q \/ j # i
    <3>1. s1[p].slot[j] = s[p].slot[j]
      BY <1>13, <2>2
    <3>2. Joint(r, s, p, j)
      BY Join
    <3>3. s[p].slot[j].ringSlot # k
      <4>1. i \in PendingSlots(s[q]) /\ k = s[q].slot[i].ringSlot
        BY <1>1, <1>2
      <4> HIDE DEF k, i
      <4> QED
        BY <2>2, <4>1, TwoSlots
    <3>4. /\ s[p].slot[j].bound /\ s[p].slot[j].ringSlot \in Index
          /\ r.slot[s[p].slot[j].ringSlot] = RingFor(p, j, s[p].slot[j])
      BY <3>2 DEF Joint
    <3> QED
      BY <1>9, <3>1, <3>3, <3>4
  <2> QED
    BY <2>1, <2>2
<1>16. Owned(r1, s1)
  <2> SUFFICES ASSUME NEW j \in Index
               PROVE  \/ r1.slot[j] = EmptySlot(r1.slot[j].gen)
                      \/ /\ r1.slot[j].st \in {"SUBMITTED", "RECLAIMED"}
                         /\ r1.slot[j].swSlot \in PendingSlots(s1[r1.slot[j].queue])
                         /\ s1[r1.slot[j].queue].slot[r1.slot[j].swSlot].ringSlot = j
    BY DEF Owned
  <2>1. CASE j = k
    <3>1. r1.slot[j] = y /\ y.st = "RECLAIMED" /\ y.queue = q /\ y.swSlot = i
      BY <1>7, <1>9, <2>1 DEF RingFor
    <3> QED
      BY <1>2, <1>6, <1>10, <1>14, <2>1, <3>1
  <2>2. CASE j # k
    <3> DEFINE p == r.slot[j].queue
               m == r.slot[j].swSlot
    <3>1. r1.slot[j] = r.slot[j] /\ p \in Queues
      BY <1>1, <1>9, <2>2, RingFields
    <3>2. \/ r.slot[j] = EmptySlot(r.slot[j].gen)
          \/ /\ r.slot[j].st \in {"SUBMITTED", "RECLAIMED"}
             /\ m \in PendingSlots(s[p]) /\ s[p].slot[m].ringSlot = j
      BY DEF PathOK, Owned
    <3> HIDE DEF p, m
    <3>3. ASSUME m \in PendingSlots(s[p]), s[p].slot[m].ringSlot = j
          PROVE  m \in PendingSlots(s1[p]) /\ s1[p].slot[m].ringSlot = j
      <4>1. p # q \/ m # i
        BY <1>1, <2>2, <3>3
      <4> QED
        BY <1>10, <1>13, <3>1, <3>3, <4>1
    <3> QED
      BY <3>1, <3>2, <3>3 DEF p, m
  <2> QED
    BY <2>1, <2>2
<1>17. OutsideIsFree(r1) /\ TailInUse(r1)
  <2>1. OutsideIsFree(r) /\ TailInUse(r) /\ r.tail \in Index
    BY RingFields DEF PathOK
  <2>2. x.st # "FREE" /\ y.st # "FREE"
    BY <1>5, <1>7 DEF RingFor
  <2> QED
    BY <1>8, <1>9, <2>1, <2>2 DEF OutsideIsFree, TailInUse
<1>18. l1 \in [Queues -> [Dmas -> Nat]] /\ Counted(s1, l1)
  <2>1. s1 = [s EXCEPT ![q] = t]
    BY DEF s1, t
  <2>2. l1 = [l EXCEPT ![q][s[q].slot[i].dma] = @ - 1]
    BY <1>1 DEF DropMapping
  <2>3. /\ s \in [Queues -> SwRec] /\ l \in [Queues -> [Dmas -> Nat]] /\ Counted(s, l)
        /\ i \in PendingSlots(s[q]) /\ t \in SwRec /\ s[q].slot[i].st = "SUBMITTED"
        /\ \A d \in Dmas : Mapped(t, d) = Mapped(s[q], d) \ {i}
    BY <1>1, <1>2, <1>12
  <2> HIDE DEF S, i, k, x, l1
  <2>4. LET m == [l EXCEPT ![q][s[q].slot[i].dma] = @ - 1]
        IN  m \in [Queues -> [Dmas -> Nat]] /\ Counted([s EXCEPT ![q] = t], m)
    BY <2>3, CountedLess
  <2> QED
    BY <2>1, <2>2, <2>4
<1>19. \A p \in Queues : QueueOK(s1[p])
  BY <1>2, <1>10 DEF PathOK
<1> QED
  BY <1>8, <1>10, <1>15, <1>16, <1>17, <1>18, <1>19 DEF PathOK, r1, s1, t, y

-----------------------------------------------------------------------------
(***************************************************************************)
(* A packet is submitted.                                                   *)
(***************************************************************************)
\* What ob_dma_tx_ring_reserve has checked when it succeeds.
LEMMA ReserveOk ==
  ASSUME NEW r, ReserveResult(r) = "OK"
  PROVE  ~Full(r) /\ r.slot[r.head].st = "FREE" /\ r.slot[r.head].gen # GenMax
BY DEF ReserveResult

\* The ring with its producer one slot on, and x in the slot it was at.
Grown(r, x) ==
  [head |-> NextIndex(r.head), tail |-> r.tail, slot |-> [r.slot EXCEPT ![r.head] = x]]

\* The slots in use before, and the one at the producer.
LEMMA GrownInside ==
  ASSUME NEW h \in Index, NEW t \in Index, NextIndex(h) # t, NEW i \in Index
  PROVE  /\ NextIndex(h) \in Index
         /\ Inside(NextIndex(h), t, i) <=> Inside(h, t, i) \/ i = h
<1>1. N \in Nat \ {0, 1} /\ h \in 0 .. N - 1 /\ t \in 0 .. N - 1 /\ i \in 0 .. N - 1
  BY RingAssumption DEF Index
<1>2. CASE h + 1 = N
  <2>1. NextIndex(h) = 0 /\ h = N - 1
    BY <1>1, <1>2 DEF NextIndex
  <2> QED
    BY <1>1, <2>1 DEF Inside, Index
<1>3. CASE h + 1 # N
  <2>1. NextIndex(h) = h + 1 /\ h + 1 < N
    BY <1>1, <1>3 DEF NextIndex
  <2> QED
    BY <1>1, <2>1 DEF Inside, Index
<1> QED
  BY <1>2, <1>3

\* The slot at the producer was free, and the consumer stays where it should.
LEMMA GrownEffect ==
  ASSUME NEW r \in RingRec, OutsideIsFree(r), TailInUse(r), ~Full(r),
         NEW x \in RingSlot, x.st # "FREE"
  PROVE  /\ Grown(r, x) \in RingRec
         /\ Grown(r, x).slot = [r.slot EXCEPT ![r.head] = x]
         /\ OutsideIsFree(Grown(r, x)) /\ TailInUse(Grown(r, x))
<1> DEFINE g == Grown(r, x)
           f == [r.slot EXCEPT ![r.head] = x]
<1>1. r.head \in Index /\ r.tail \in Index /\ r.slot \in [Index -> RingSlot]
      /\ NextIndex(r.head) # r.tail
  BY RingFields DEF Full
<1>2. f \in [Index -> RingSlot] /\ f[r.head] = x /\ \A i \in Index \ {r.head} : f[i] = r.slot[i]
  BY <1>1
<1>3. g = [head |-> NextIndex(r.head), tail |-> r.tail, slot |-> f] /\ NextIndex(r.head) \in Index
  BY <1>1, GrownInside DEF Grown
<1> HIDE DEF f, g
<1>4. g.head = NextIndex(r.head) /\ g.tail = r.tail /\ g.slot = f
  BY <1>3
<1>5. g \in RingRec
  BY <1>1, <1>2, <1>3 DEF RingRec, RingSlot, Ring
<1>6. OutsideIsFree(g)
  <2> SUFFICES ASSUME NEW i \in Index, ~Inside(g.head, g.tail, i)
               PROVE  g.slot[i].st = "FREE"
    BY DEF OutsideIsFree
  <2>1. ~Inside(r.head, r.tail, i) /\ i # r.head
    BY <1>1, <1>4, GrownInside
  <2> QED
    BY <1>2, <1>4, <2>1 DEF OutsideIsFree
<1>7. TailInUse(g)
  <2>1. CASE r.tail = r.head
    BY <1>2, <1>4, <2>1 DEF TailInUse
  <2>2. CASE r.tail # r.head
    BY <1>1, <1>2, <1>4, <2>2 DEF TailInUse
  <2> QED
    BY <2>1, <2>2
<1> QED
  BY <1>4, <1>5, <1>6, <1>7 DEF g, f

\* No pending packet is in a ring slot that is free.
LEMMA FreeIsNobodys ==
  ASSUME NEW r, NEW s, NEW l, PathOK(r, s, l), NEW q \in Queues, NEW i \in PendingSlots(s[q])
  PROVE  /\ r.slot[s[q].slot[i].ringSlot].st # "FREE"
         /\ s[q].slot[i].ringSlot \in Index
         /\ s[q].slot[i].bound
         /\ r.slot[s[q].slot[i].ringSlot] = RingFor(q, i, s[q].slot[i])
<1>1. Joint(r, s, q, i)
  BY Join
<1> QED
  BY <1>1 DEF Joint

\* A packet is accepted: slot b in the queue, its descriptor at the producer.
LEMMA AcceptKeeps ==
  ASSUME NEW r, NEW s, NEW l, PathOK(r, s, l), NEW q \in Queues, s[q].pending < Capacity,
         ~Full(r), r.slot[r.head].st = "FREE",
         NEW b \in SwSlot, b.st = "SUBMITTED", b.packet \in Packets,
         ~PacketPending(s[q], b.packet), b.bound, b.ringSlot = r.head,
         NEW t, t = [head |-> NextSw(s[q].head), tail |-> s[q].tail,
                     pending |-> s[q].pending + 1, accepting |-> s[q].accepting,
                     slot |-> [s[q].slot EXCEPT ![s[q].head] = b]]
  PROVE  PathOK(Grown(r, RingFor(q, s[q].head, b)), [s EXCEPT ![q] = t],
                [l EXCEPT ![q][b.dma] = @ + 1])
<1> DEFINE S == s[q]
           i == S.head
           k == r.head
           x == RingFor(q, i, b)
           r1 == Grown(r, x)
           s1 == [s EXCEPT ![q] = t]
           l1 == [l EXCEPT ![q][b.dma] = @ + 1]
<1>1. S \in SwRec /\ QueueOK(S) /\ r \in RingRec /\ s \in [Queues -> SwRec]
      /\ l \in [Queues -> [Dmas -> Nat]] /\ Counted(s, l) /\ OutsideIsFree(r) /\ TailInUse(r)
  BY DEF PathOK
<1>2. /\ t \in SwRec /\ QueueOK(t) /\ i \notin PendingSlots(S)
      /\ PendingSlots(t) = PendingSlots(S) \cup {i}
  BY <1>1, AddQueue
<1>3. /\ S.slot \in [SwIndex -> SwSlot] /\ PendingSlots(S) \subseteq SwIndex /\ i \in SwIndex
      /\ k \in Index /\ r.slot \in [Index -> RingSlot] /\ t.slot = [S.slot EXCEPT ![i] = b]
  BY <1>1, QueueFields, RingFields
<1>4. x \in RingSlot /\ x.st = "SUBMITTED" /\ x.swSlot = i /\ x.queue = q
  <2>1. x = [skb |-> b.packet, mapped |-> TRUE, gen |-> b.ringGen, swGen |-> b.gen,
             swSlot |-> i, queue |-> q, st |-> "SUBMITTED"]
    BY DEF RingFor
  <2>2. b.ringGen \in Generation /\ b.gen \in Generation /\ b.dma \in Dmas
    BY DEF SwSlot
  <2> HIDE DEF x, S, i
  <2> QED
    BY <1>3, <2>1, <2>2 DEF RingSlot, Slot, SlotStates
<1> HIDE DEF x
<1>5. /\ r1 \in RingRec /\ r1.slot = [r.slot EXCEPT ![k] = x]
      /\ OutsideIsFree(r1) /\ TailInUse(r1)
  BY <1>1, <1>4, GrownEffect
<1>6. \A j \in Index : r1.slot[j] = IF j = k THEN x ELSE r.slot[j]
  BY <1>3, <1>5
<1>7. /\ s1 \in [Queues -> SwRec]
      /\ \A p \in Queues : s1[p] = IF p = q THEN t ELSE s[p]
  BY <1>1, <1>2
<1>8. t.slot[i] = b /\ \A j \in SwIndex \ {i} : t.slot[j] = S.slot[j]
  BY <1>3
<1>9. \A d \in Dmas : Mapped(t, d) = IF d = b.dma THEN Mapped(S, d) \cup {i} ELSE Mapped(S, d)
  <2> TAKE d \in Dmas
  <2>1. \A j : j \in Mapped(t, d) <=> j \in Mapped(S, d) \/ (j = i /\ d = b.dma)
    BY <1>2, <1>3, <1>8 DEF Mapped
  <2> QED
    BY <2>1
<1> HIDE DEF r1, s1
\* A slot pending now was pending before, or is the new one.
<1>10. ASSUME NEW p \in Queues, NEW j \in PendingSlots(s[p])
       PROVE  j \in PendingSlots(s1[p]) /\ s1[p].slot[j] = s[p].slot[j]
  BY <1>2, <1>3, <1>7, <1>8
<1>11. ASSUME NEW p \in Queues, NEW j \in PendingSlots(s1[p])
       PROVE  j \in PendingSlots(s[p]) \/ (p = q /\ j = i)
  BY <1>2, <1>7
<1>12. s1[q].slot[i] = b /\ i \in PendingSlots(s1[q])
  BY <1>2, <1>7, <1>8
<1>13. Joins(r1, s1)
  <2> SUFFICES ASSUME NEW p \in Queues, NEW j \in PendingSlots(s1[p])
               PROVE  /\ s1[p].slot[j].bound
                      /\ r1.slot[s1[p].slot[j].ringSlot] = RingFor(p, j, s1[p].slot[j])
    BY DEF Joins
  <2>1. CASE p = q /\ j = i
    BY <1>3, <1>6, <1>12, <2>1 DEF x
  <2>2. CASE j \in PendingSlots(s[p])
    <3>1. s1[p].slot[j] = s[p].slot[j]
      BY <1>10, <2>2
    <3>2. /\ r.slot[s[p].slot[j].ringSlot].st # "FREE" /\ s[p].slot[j].ringSlot \in Index
          /\ s[p].slot[j].bound
          /\ r.slot[s[p].slot[j].ringSlot] = RingFor(p, j, s[p].slot[j])
      BY <2>2, FreeIsNobodys
    <3> QED
      BY <1>6, <3>1, <3>2
  <2> QED
    BY <1>11, <2>1, <2>2
<1>14. Owned(r1, s1)
  <2> SUFFICES ASSUME NEW j \in Index
               PROVE  \/ r1.slot[j] = EmptySlot(r1.slot[j].gen)
                      \/ /\ r1.slot[j].st \in {"SUBMITTED", "RECLAIMED"}
                         /\ r1.slot[j].swSlot \in PendingSlots(s1[r1.slot[j].queue])
                         /\ s1[r1.slot[j].queue].slot[r1.slot[j].swSlot].ringSlot = j
    BY DEF Owned
  <2>1. CASE j = k
    BY <1>4, <1>6, <1>12, <2>1
  <2>2. CASE j # k
    <3> DEFINE p == r.slot[j].queue
               m == r.slot[j].swSlot
    <3>1. r1.slot[j] = r.slot[j] /\ p \in Queues
      BY <1>1, <1>6, <2>2, RingFields
    <3>2. \/ r.slot[j] = EmptySlot(r.slot[j].gen)
          \/ /\ r.slot[j].st \in {"SUBMITTED", "RECLAIMED"}
             /\ m \in PendingSlots(s[p]) /\ s[p].slot[m].ringSlot = j
      BY DEF PathOK, Owned
    <3> HIDE DEF p, m
    <3>3. m \in PendingSlots(s[p]) => m \in PendingSlots(s1[p]) /\ s1[p].slot[m] = s[p].slot[m]
      BY <1>10, <3>1
    <3> QED
      BY <3>1, <3>2, <3>3 DEF p, m
  <2> QED
    BY <2>1, <2>2
<1>15. l1 \in [Queues -> [Dmas -> Nat]] /\ Counted(s1, l1)
  <2>1. s1 = [s EXCEPT ![q] = t]
    BY DEF s1
  <2>2. /\ s \in [Queues -> SwRec] /\ l \in [Queues -> [Dmas -> Nat]] /\ Counted(s, l)
        /\ i \notin PendingSlots(s[q]) /\ t \in SwRec /\ b.dma \in Dmas /\ q \in Queues
        /\ \A d \in Dmas : Mapped(t, d) = IF d = b.dma THEN Mapped(s[q], d) \cup {i}
                                          ELSE Mapped(s[q], d)
    BY <1>1, <1>2, <1>9 DEF SwSlot
  <2>3. l1 = [l EXCEPT ![q][b.dma] = @ + 1]
    OBVIOUS
  <2> HIDE DEF S, i, k, l1
  <2>4. LET m == [l EXCEPT ![q][b.dma] = @ + 1]
        IN  m \in [Queues -> [Dmas -> Nat]] /\ Counted([s EXCEPT ![q] = t], m)
    BY ONLY <2>2, CountedMore
  <2> QED
    BY <2>1, <2>3, <2>4
<1>16. \A p \in Queues : QueueOK(s1[p])
  BY <1>2, <1>7 DEF PathOK
<1> QED
  BY <1>5, <1>7, <1>13, <1>14, <1>15, <1>16 DEF PathOK, r1, s1, x

\* A descriptor taken and given back: the slot at the producer is empty again, and
\* only its generation was spent.
LEMMA RefuseKeeps ==
  ASSUME NEW r, NEW s, NEW l, PathOK(r, s, l), ~Full(r), r.slot[r.head].st = "FREE",
         NEW x \in RingSlot, x.st # "FREE"
  PROVE  PathOK(Freed(Grown(r, x), r.head), s, l)
<1> DEFINE k == r.head
           g == Grown(r, x)
           r1 == Freed(g, k)
<1>1. r \in RingRec /\ OutsideIsFree(r) /\ TailInUse(r)
  BY DEF PathOK
<1>2. k \in Index /\ r.slot \in [Index -> RingSlot]
  BY <1>1, RingFields
<1>3. /\ g \in RingRec /\ g.slot = [r.slot EXCEPT ![k] = x] /\ OutsideIsFree(g)
  BY <1>1, GrownEffect
<1> HIDE DEF g
<1>4. /\ r1 \in RingRec /\ r1.slot = [g.slot EXCEPT ![k] = EmptySlot(g.slot[k].gen)]
      /\ OutsideIsFree(r1) /\ TailInUse(r1)
  <2>1. \A i \in Index \ {k} : ~Inside(g.head, g.tail, i) => g.slot[i].st = "FREE"
    BY <1>3 DEF OutsideIsFree
  <2> HIDE DEF k
  <2> QED
    BY <1>2, <1>3, <2>1, FreedEffect
<1>5. \A i \in Index : r1.slot[i] = IF i = k THEN EmptySlot(x.gen) ELSE r.slot[i]
  BY <1>2, <1>3, <1>4
<1> HIDE DEF r1
<1>6. Joins(r1, s)
  <2> SUFFICES ASSUME NEW p \in Queues, NEW j \in PendingSlots(s[p])
               PROVE  /\ s[p].slot[j].bound
                      /\ r1.slot[s[p].slot[j].ringSlot] = RingFor(p, j, s[p].slot[j])
    BY DEF Joins
  <2>1. /\ r.slot[s[p].slot[j].ringSlot].st # "FREE" /\ s[p].slot[j].ringSlot \in Index
        /\ s[p].slot[j].bound
        /\ r.slot[s[p].slot[j].ringSlot] = RingFor(p, j, s[p].slot[j])
    BY FreeIsNobodys
  <2> QED
    BY <1>5, <2>1
<1>7. Owned(r1, s)
  <2> SUFFICES ASSUME NEW j \in Index
               PROVE  \/ r1.slot[j] = EmptySlot(r1.slot[j].gen)
                      \/ /\ r1.slot[j].st \in {"SUBMITTED", "RECLAIMED"}
                         /\ r1.slot[j].swSlot \in PendingSlots(s[r1.slot[j].queue])
                         /\ s[r1.slot[j].queue].slot[r1.slot[j].swSlot].ringSlot = j
    BY DEF Owned
  <2>1. CASE j = k
    <3>1. EmptySlot(x.gen).gen = x.gen
      BY DEF EmptySlot
    <3> QED
      BY <1>5, <2>1, <3>1
  <2>2. CASE j # k
    BY <1>5, <2>2 DEF PathOK, Owned
  <2> QED
    BY <2>1, <2>2
<1> QED
  BY <1>4, <1>6, <1>7 DEF PathOK, r1, g

\* Nothing changes but what is not pending.
LEMMA SameQueues ==
  ASSUME NEW r, NEW s, NEW l, PathOK(r, s, l), NEW t \in [Queues -> SwRec],
         \A q \in Queues :
           /\ QueueOK(t[q]) /\ PendingSlots(t[q]) = PendingSlots(s[q])
           /\ \A i \in PendingSlots(s[q]) : t[q].slot[i] = s[q].slot[i]
  PROVE  PathOK(r, t, l)
<1>1. Joins(r, t)
  BY DEF PathOK, Joins
<1>2. Owned(r, t)
  <2> SUFFICES ASSUME NEW j \in Index
               PROVE  \/ r.slot[j] = EmptySlot(r.slot[j].gen)
                      \/ /\ r.slot[j].st \in {"SUBMITTED", "RECLAIMED"}
                         /\ r.slot[j].swSlot \in PendingSlots(t[r.slot[j].queue])
                         /\ t[r.slot[j].queue].slot[r.slot[j].swSlot].ringSlot = j
    BY DEF Owned
  <2>1. r.slot[j].queue \in Queues
    BY RingFields DEF PathOK
  <2> QED
    BY <2>1 DEF PathOK, Owned
<1>3. Counted(t, l)
  <2> SUFFICES ASSUME NEW q \in Queues, NEW d \in Dmas
               PROVE  l[q][d] = Cardinality(Mapped(t[q], d))
    BY DEF Counted
  <2>1. Mapped(t[q], d) = Mapped(s[q], d)
    BY DEF Mapped
  <2> QED
    BY <2>1 DEF PathOK, Counted
<1> QED
  BY <1>1, <1>2, <1>3 DEF PathOK

\* A slot that is not pending spends a generation.
LEMMA SpendKeeps ==
  ASSUME NEW r, NEW s, NEW l, PathOK(r, s, l), NEW q \in Queues,
         NEW i \in SwIndex \ PendingSlots(s[q]), NEW g \in Generation,
         NEW c, c = [s[q] EXCEPT !.slot[i] = ClearSlot(g)]
  PROVE  PathOK(r, [s EXCEPT ![q] = c], l)
<1> DEFINE t == [s EXCEPT ![q] = c]
<1>1. s[q] \in SwRec /\ QueueOK(s[q]) /\ s \in [Queues -> SwRec] /\ \A p \in Queues : QueueOK(s[p])
  BY DEF PathOK
<1>2. /\ c \in SwRec /\ QueueOK(c) /\ PendingSlots(c) = PendingSlots(s[q])
      /\ c.slot = [s[q].slot EXCEPT ![i] = ClearSlot(g)]
  BY <1>1, SpendQueue
<1>3. s[q].slot \in [SwIndex -> SwSlot] /\ PendingSlots(s[q]) \subseteq SwIndex
  BY <1>1, QueueFields
<1>4. \A j \in PendingSlots(s[q]) : c.slot[j] = s[q].slot[j]
  BY <1>2, <1>3
<1>5. t \in [Queues -> SwRec] /\ \A p \in Queues : t[p] = IF p = q THEN c ELSE s[p]
  BY <1>1, <1>2
<1> HIDE DEF t
<1>6. \A p \in Queues :
        /\ QueueOK(t[p]) /\ PendingSlots(t[p]) = PendingSlots(s[p])
        /\ \A j \in PendingSlots(s[p]) : t[p].slot[j] = s[p].slot[j]
  BY <1>1, <1>2, <1>4, <1>5
<1>7. PathOK(r, t, l)
  BY <1>5, <1>6, SameQueues
<1> QED
  BY <1>7 DEF t

\* Queues open or close.
WithAccepting(s, a) == [q \in Queues |-> [s[q] EXCEPT !.accepting = a[q]]]

\* ob_tx_path_start and ob_tx_path_stop leave the packets of a queue where they are.
LEMMA AcceptingKeeps ==
  ASSUME NEW r, NEW s, NEW l, PathOK(r, s, l), NEW a \in [Queues -> BOOLEAN],
         NEW t, t = WithAccepting(s, a)
  PROVE  /\ PathOK(r, t, l)
         /\ t \in [Queues -> SwRec]
         /\ \A q \in Queues : /\ t[q].accepting = a[q] /\ t[q].pending = s[q].pending
                              /\ t[q].slot = s[q].slot /\ t[q].tail = s[q].tail
                              /\ t[q].head = s[q].head
<1>1. s \in [Queues -> SwRec] /\ \A p \in Queues : QueueOK(s[p])
  BY DEF PathOK
<1>2. ASSUME NEW q \in Queues
      PROVE  /\ t[q] \in SwRec
             /\ t[q].accepting = a[q] /\ t[q].pending = s[q].pending
             /\ t[q].slot = s[q].slot /\ t[q].tail = s[q].tail /\ t[q].head = s[q].head
  <2>1. s[q] \in SwRec /\ a[q] \in BOOLEAN
    BY <1>1
  <2>2. t[q] = [s[q] EXCEPT !.accepting = a[q]]
    BY DEF WithAccepting
  <2>3. PICK v \in BOOLEAN : v = a[q]
    BY <2>1
  <2>4. t[q] = [s[q] EXCEPT !.accepting = v]
    BY <2>2, <2>3
  <2>5. /\ t[q] \in SwRec
        /\ t[q].accepting = v /\ t[q].pending = s[q].pending
        /\ t[q].slot = s[q].slot /\ t[q].tail = s[q].tail /\ t[q].head = s[q].head
    BY ONLY <2>1, <2>4 DEF SwRec
  <2> QED
    BY <2>3, <2>5
<1>3. t \in [Queues -> SwRec]
  <2>1. t = [q \in Queues |-> t[q]]
    BY DEF WithAccepting
  <2> QED
    BY <1>2, <2>1
<1>4. ASSUME NEW q \in Queues
      PROVE  /\ QueueOK(t[q]) /\ PendingSlots(t[q]) = PendingSlots(s[q])
             /\ \A i \in PendingSlots(s[q]) : t[q].slot[i] = s[q].slot[i]
  <2>1. /\ t[q].pending = s[q].pending /\ t[q].slot = s[q].slot /\ t[q].tail = s[q].tail
        /\ t[q].head = s[q].head /\ QueueOK(s[q])
    BY <1>1, <1>2
  <2>2. PendingSlots(t[q]) = PendingSlots(s[q]) /\ \A k : SwAt(t[q], k) = SwAt(s[q], k)
    BY <2>1 DEF PendingSlots, SwAt
  <2> QED
    BY <2>1, <2>2 DEF QueueOK
<1>5. PathOK(r, t, l)
  BY <1>3, <1>4, SameQueues
<1> QED
  BY <1>2, <1>3, <1>5

-----------------------------------------------------------------------------
(***************************************************************************)
(* Backpressure.                                                            *)
(***************************************************************************)
FlowRec == [stopped : BOOLEAN, onQueue : BOOLEAN, onRing : BOOLEAN]

\* mac80211 was told that queue q is full.
Told(f, q) == f[q].stopped /\ f[q].onQueue

\* ob_tx_path_backpressure tells of one queue and takes nothing back.
LEMMA BackpressureEffect ==
  ASSUME NEW f \in [Queues -> FlowRec], running \in BOOLEAN, NEW q \in Queues,
         NEW a \in BOOLEAN, NEW b \in BOOLEAN,
         NEW g, g = Backpressure(f, q, a, b)
  PROVE  /\ g \in [Queues -> FlowRec]
         /\ \A p \in Queues : Told(f, p) => Told(g, p)
         /\ running /\ a => Told(g, q)
<1> DEFINE c == f[q].onQueue \/ a
           d == f[q].onRing \/ b
<1>1. c \in BOOLEAN /\ d \in BOOLEAN
  OBVIOUS
<1>2. PICK x \in BOOLEAN : x = c
  BY <1>1
<1>3. PICK y \in BOOLEAN : y = d
  BY <1>1
<1> DEFINE n == [stopped |-> TRUE, onQueue |-> x, onRing |-> y]
<1>4. g = IF running THEN [f EXCEPT ![q] = n] ELSE f
  BY <1>2, <1>3 DEF Backpressure
<1>5. n \in FlowRec /\ n.stopped = TRUE /\ n.onQueue = x
  BY DEF FlowRec
<1>6. a \/ f[q].onQueue => x
  BY <1>2
<1> HIDE DEF n, c, d
<1>7. CASE running
  <2>1. g = [f EXCEPT ![q] = n]
    BY <1>4, <1>7
  <2>2. g \in [Queues -> FlowRec] /\ g[q] = n /\ \A p \in Queues \ {q} : g[p] = f[p]
    BY <1>5, <2>1
  <2> QED
    BY <1>5, <1>6, <2>2 DEF Told
<1>8. CASE ~running
  BY <1>4, <1>8
<1> QED
  BY <1>7, <1>8

\* ob_tx_path_maybe_wake never wakes a queue that is full and was told so.
LEMMA MaybeWakeEffect ==
  ASSUME NEW f \in [Queues -> FlowRec], NEW r, NEW s \in [Queues -> SwRec],
         NEW run \in BOOLEAN, NEW fault \in BOOLEAN,
         NEW g, g = MaybeWake(f, r, s, run, fault)
  PROVE  /\ g \in [Queues -> FlowRec]
         /\ \A p \in Queues : Told(f, p) /\ s[p].pending = Capacity => Told(g, p)
<1>1. Open \in FlowRec
  BY DEF Open, FlowRec
<1>2. CASE ~run \/ fault \/ Avail(r) = 0
  BY <1>2 DEF MaybeWake
<1>3. CASE ~(~run \/ fault \/ Avail(r) = 0)
  <2>1. g = [q \in Queues |-> IF f[q].stopped /\ ~StillBlocked(f[q], s[q].pending) THEN Open
                              ELSE f[q]]
    BY <1>3 DEF MaybeWake
  <2>2. g \in [Queues -> FlowRec]
    BY <1>1, <2>1
  <2>3. ASSUME NEW p \in Queues, Told(f, p), s[p].pending = Capacity
        PROVE  Told(g, p)
    <3>1. Capacity > Capacity \div 2
      BY PathAssumption
    <3>2. StillBlocked(f[p], s[p].pending)
      BY <2>3, <3>1 DEF StillBlocked, Told
    <3>3. g[p] = f[p]
      BY <2>1, <3>2
    <3> QED
      BY <2>3, <3>3 DEF Told
  <2> QED
    BY <2>2, <2>3
<1> QED
  BY <1>2, <1>3

-----------------------------------------------------------------------------
(***************************************************************************)
(* The operations.                                                          *)
(***************************************************************************)
\* The invariant without the types that PathOK repeats.
Kept ==
  /\ PathOK(ring, sw, live)
  /\ FlowOK
  /\ faulted = FALSE
  /\ flow \in [Queues -> FlowRec] /\ running \in BOOLEAN /\ ptr \in Index

\* It is the same invariant.
LEMMA KeptIs == Kept <=> IInv
<1>1. PathOK(ring, sw, live) =>
        /\ ring \in Ring(Packets, Queues, SwIndex)
        /\ sw \in [Queues -> [head : SwIndex, tail : SwIndex, pending : 0 .. Capacity,
                              accepting : BOOLEAN, slot : [SwIndex -> SwSlot]]]
        /\ live \in [Queues -> [Dmas -> Nat]]
  BY DEF PathOK, RingRec, SwRec
<1>2. faulted = FALSE <=> faulted \in BOOLEAN /\ ~faulted
  OBVIOUS
<1>3. Kept => IInv
  BY <1>1, <1>2 DEF Kept, IInv, TypeOK, FlowRec
<1>4. IInv => Kept
  BY <1>2 DEF Kept, IInv, TypeOK, FlowRec
<1> QED
  BY <1>3, <1>4

\* A refusal for want of a slot.
LEMMA RefuseFullKeeps ==
  ASSUME Kept, NEW q \in Queues, NEW packet \in Packets, RefuseFull(q, packet)
  PROVE  Kept'
<1>1. /\ flow' = Backpressure(flow, q, TRUE, Avail(ring) = 0)
      /\ ring' = ring /\ sw' = sw /\ running' = running /\ faulted' = faulted
      /\ live' = live /\ ptr' = ptr
  BY DEF RefuseFull
<1> DEFINE e == Avail(ring) = 0
<1>2. PICK y \in BOOLEAN : y = e
  BY e \in BOOLEAN
<1>3. PICK x \in BOOLEAN : x = TRUE
  OBVIOUS
<1>4. flow' = Backpressure(flow, q, x, y)
  BY <1>1, <1>2, <1>3 DEF Backpressure
<1>5. flow' \in [Queues -> FlowRec] /\ \A p \in Queues : Told(flow, p) => Told(flow', p)
  BY <1>4, BackpressureEffect DEF Kept
<1> QED
  BY <1>1, <1>5 DEF Kept, FlowOK, Told

\* ob_tx_path_start.
LEMMA StartKeeps ==
  ASSUME Kept, Start
  PROVE  Kept'
<1>1. /\ ring' = ring /\ faulted' = faulted /\ live' = live /\ ptr' = ptr
      /\ PathOK(ring, sw, live) /\ sw \in [Queues -> SwRec]
      /\ flow \in [Queues -> FlowRec] /\ running \in BOOLEAN /\ faulted \in BOOLEAN
  BY DEF Start, Kept, PathOK
<1>2. \A q \in Queues : sw[q].pending \in 0 .. Capacity /\ sw[q].accepting \in BOOLEAN
  BY <1>1, QueueFields
<1>3. CASE Busy = {}
  <2> DEFINE a == [q \in Queues |-> TRUE]
  <2>1. /\ sw' = [q \in Queues |-> [sw[q] EXCEPT !.accepting = TRUE]]
        /\ running' = TRUE
        /\ flow' = MaybeWake(flow, ring, sw, TRUE, faulted)
    BY <1>3 DEF Start
  <2>2. a \in [Queues -> BOOLEAN] /\ sw' = WithAccepting(sw, a)
    BY <2>1 DEF WithAccepting
  <2> HIDE DEF a
  <2>3. /\ PathOK(ring, sw', live)
        /\ \A q \in Queues : sw'[q].pending = sw[q].pending
    BY <1>1, <2>2, AcceptingKeeps
  <2>4. \A q \in Queues : sw'[q].pending # Capacity
    <3>1. \A q \in Queues : ~(sw[q].pending > 0)
      BY <1>3 DEF Busy
    <3>2. Capacity \in Nat \ {0}
      BY PathAssumption
    <3> QED
      BY <1>2, <2>3, <3>1, <3>2
  <2>5. flow' \in [Queues -> FlowRec]
    <3>1. PICK x \in BOOLEAN : x = TRUE
      OBVIOUS
    <3>2. flow' = MaybeWake(flow, ring, sw, x, faulted)
      BY <2>1, <3>1 DEF MaybeWake
    <3> QED
      BY <1>1, <3>2, MaybeWakeEffect
  <2>6. FlowOK'
    BY <2>1, <2>4 DEF FlowOK
  <2>7. PathOK(ring, sw, live)'
    BY <1>1, <2>3
  <2> QED
    BY <1>1, <2>1, <2>5, <2>6, <2>7 DEF Kept
<1>4. CASE Busy # {}
  <2> DEFINE a == [q \in Queues |-> sw[q].accepting /\ q >= FirstBusy]
  <2>1. /\ sw' = [q \in Queues |-> [sw[q] EXCEPT !.accepting = @ /\ q >= FirstBusy]]
        /\ running' = running /\ flow' = flow
    BY <1>4 DEF Start
  <2>2. a \in [Queues -> BOOLEAN] /\ sw' = WithAccepting(sw, a)
    BY <1>1, <2>1 DEF WithAccepting
  <2>3. \A q \in Queues : a[q] => sw[q].accepting
    OBVIOUS
  <2> HIDE DEF a
  <2>4. /\ PathOK(ring, sw', live)
        /\ \A q \in Queues : sw'[q].accepting = a[q] /\ sw'[q].pending = sw[q].pending
    BY <1>1, <2>2, AcceptingKeeps
  <2>5. FlowOK'
    BY <2>1, <2>3, <2>4 DEF FlowOK, Kept
  <2>6. PathOK(ring, sw, live)'
    BY <1>1, <2>4
  <2> QED
    BY <1>1, <2>1, <2>5, <2>6 DEF Kept
<1> QED
  BY <1>3, <1>4

\* A queue with another slot.
WithSlot(s, i, b) ==
  [head |-> s.head, tail |-> s.tail, pending |-> s.pending, accepting |-> s.accepting,
   slot |-> [s.slot EXCEPT ![i] = b]]

\* A slot as ob_tx_sw_submit fills it, before and after the ring slot is bound to it.
Filled(packet, dma, g, v, st) ==
  [packet |-> packet, dma |-> dma, gen |-> g, bound |-> FALSE,
   ringSlot |-> 0, ringGen |-> 0, idValid |-> v, st |-> st]
Bound(packet, dma, g, rs, rg, v, st) ==
  [packet |-> packet, dma |-> dma, gen |-> g, bound |-> TRUE,
   ringSlot |-> rs, ringGen |-> rg, idValid |-> v, st |-> st]

\* What ob_tx_sw_submit has checked, and the slot it fills.
LEMMA MaySubmitIs ==
  ASSUME Kept, NEW q \in Queues, NEW packet, MaySubmit(q, packet)
  PROVE  /\ sw[q] \in SwRec /\ QueueOK(sw[q]) /\ sw[q].accepting
         /\ sw[q].pending < Capacity /\ ~PacketPending(sw[q], packet)
         /\ sw[q].head \in SwIndex \ PendingSlots(sw[q])
         /\ sw[q].slot \in [SwIndex -> SwSlot]
         /\ sw[q].slot[sw[q].head].gen + 1 \in Generation
         /\ sw[q].slot[sw[q].head].st = "FREE"
<1>1. sw[q] \in SwRec /\ QueueOK(sw[q])
  BY DEF Kept, PathOK
<1>2. /\ sw[q].accepting /\ sw[q].pending < Capacity /\ ~PacketPending(sw[q], packet)
      /\ sw[q].slot[sw[q].head].gen < GenMax /\ sw[q].slot[sw[q].head].st = "FREE"
  BY DEF MaySubmit, MayEnqueue
<1>3. /\ sw[q].head \in SwIndex /\ sw[q].slot \in [SwIndex -> SwSlot]
      /\ sw[q].slot[sw[q].head].gen \in Generation
  BY <1>1, QueueFields
<1>4. sw[q].slot[sw[q].head].gen + 1 \in Generation
  BY <1>2, <1>3, RingAssumption DEF Generation
<1>5. sw[q].head \notin PendingSlots(sw[q])
  BY <1>1, <1>2 DEF QueueOK
<1> QED
  BY <1>1, <1>2, <1>3, <1>4, <1>5

\* The same fields are the same slot.
LEMMA SameSlot ==
  ASSUME NEW d \in SwSlot, NEW e \in SwSlot,
         d.packet = e.packet, d.dma = e.dma, d.idValid = e.idValid, d.st = e.st, d.gen = e.gen,
         d.bound = e.bound, d.ringSlot = e.ringSlot, d.ringGen = e.ringGen
  PROVE  d = e
BY DEF SwSlot

\* The queue while submit() runs, before and after its ring slot is bound.
LEMMA SubmittingIs ==
  ASSUME Kept, NEW q \in Queues, NEW packet \in Packets, NEW dma \in Dmas, NEW v \in BOOLEAN,
         NEW h, h = sw[q].head, NEW g, g = sw[q].slot[h].gen + 1,
         NEW rg, rg = ring.slot[ring.head].gen + 1,
         g \in Generation, rg \in Generation
  PROVE  /\ Submitting(q, packet, dma, v)
              = WithSlot(sw[q], h, Filled(packet, dma, g, v, "SUBMITTING"))
         /\ Bind(Submitting(q, packet, dma, v))
              = WithSlot(sw[q], h, Bound(packet, dma, g, ring.head, rg, v, "SUBMITTING"))
<1> DEFINE b0 == Filled(packet, dma, g, v, "SUBMITTING")
           b1 == Bound(packet, dma, g, ring.head, rg, v, "SUBMITTING")
           S == sw[q]
<1>0. 0 \in Index /\ 0 \in Generation
  BY RingAssumption DEF Index, Generation
<1>1. /\ S \in SwRec /\ h \in SwIndex /\ S.slot \in [SwIndex -> SwSlot]
      /\ ring.head \in Index
  BY QueueFields, RingFields DEF Kept, PathOK
<1>2. b0 = [ClearSlot(S.slot[h].gen + 1) EXCEPT !.packet = packet, !.dma = dma,
                                               !.idValid = v, !.st = "SUBMITTING"]
  <2> DEFINE c == ClearSlot(g)
             d == [c EXCEPT !.packet = packet, !.dma = dma, !.idValid = v, !.st = "SUBMITTING"]
  <2>1. c \in SwSlot /\ c.gen = g /\ c.bound = FALSE /\ c.ringSlot = 0 /\ c.ringGen = 0
    BY ClearIsSlot DEF ClearSlot
  <2> HIDE DEF c
  <2>2. /\ d \in SwSlot /\ d.packet = packet /\ d.dma = dma /\ d.idValid = v
        /\ d.st = "SUBMITTING" /\ d.gen = c.gen /\ d.bound = c.bound
        /\ d.ringSlot = c.ringSlot /\ d.ringGen = c.ringGen
    BY <2>1 DEF SwSlot
  <2> HIDE DEF d
  <2>3. /\ b0 \in SwSlot /\ b0.packet = packet /\ b0.dma = dma /\ b0.idValid = v
        /\ b0.st = "SUBMITTING" /\ b0.gen = g /\ b0.bound = FALSE /\ b0.ringSlot = 0
        /\ b0.ringGen = 0
    BY <1>1, <1>0 DEF Filled, SwSlot
  <2> HIDE DEF b0
  <2>4. b0 = d
    BY <2>1, <2>2, <2>3, SameSlot
  <2> QED
    BY <2>4 DEF c, d
<1>3. b1 = [[[b0 EXCEPT !.bound = TRUE] EXCEPT !.ringSlot = ring.head] EXCEPT !.ringGen = rg]
  <2> DEFINE d == [b0 EXCEPT !.bound = TRUE, !.ringSlot = ring.head, !.ringGen = rg]
  <2>1. /\ b0 \in SwSlot /\ b0.packet = packet /\ b0.dma = dma /\ b0.idValid = v
        /\ b0.st = "SUBMITTING" /\ b0.gen = g
        /\ b1 \in SwSlot /\ b1.packet = packet /\ b1.dma = dma /\ b1.idValid = v
        /\ b1.st = "SUBMITTING" /\ b1.gen = g /\ b1.bound = TRUE
        /\ b1.ringSlot = ring.head /\ b1.ringGen = rg
    <3>1. /\ b0 \in SwSlot /\ b0.packet = packet /\ b0.dma = dma /\ b0.idValid = v
          /\ b0.st = "SUBMITTING" /\ b0.gen = g
      BY <1>1, <1>0 DEF Filled, SwSlot
    <3>2. /\ b1 \in SwSlot /\ b1.packet = packet /\ b1.dma = dma /\ b1.idValid = v
          /\ b1.st = "SUBMITTING" /\ b1.gen = g /\ b1.bound = TRUE
          /\ b1.ringSlot = ring.head /\ b1.ringGen = rg
      BY <1>1 DEF Bound, SwSlot
    <3> QED
      BY <3>1, <3>2
  <2> HIDE DEF b0, b1
  <2>2. /\ d \in SwSlot /\ d.packet = b0.packet /\ d.dma = b0.dma /\ d.idValid = b0.idValid
        /\ d.st = b0.st /\ d.gen = b0.gen /\ d.bound = TRUE
        /\ d.ringSlot = ring.head /\ d.ringGen = rg
    BY <1>1, <2>1 DEF SwSlot
  <2> HIDE DEF d
  <2>3. b1 = d
    BY <2>1, <2>2, SameSlot
  <2>4. d = [[[b0 EXCEPT !.bound = TRUE] EXCEPT !.ringSlot = ring.head] EXCEPT !.ringGen = rg]
    BY DEF d
  <2> QED
    BY <2>3, <2>4
<1> HIDE DEF b0, b1
<1>4. Submitting(q, packet, dma, v) = WithSlot(S, h, b0)
  <2>1. Submitting(q, packet, dma, v) = [S EXCEPT !.slot = [S.slot EXCEPT ![h] = b0]]
    BY <1>1, <1>2 DEF Submitting
  <2> QED
    BY <1>1, <2>1 DEF SwRec, WithSlot
<1> DEFINE w == WithSlot(S, h, b0)
<1>5. /\ w.head = h /\ w.slot = [S.slot EXCEPT ![h] = b0] /\ w.slot[h] = b0
      /\ w.tail = S.tail /\ w.pending = S.pending /\ w.accepting = S.accepting
      /\ w = [head |-> w.head, tail |-> w.tail, pending |-> w.pending,
              accepting |-> w.accepting, slot |-> w.slot]
  BY <1>1 DEF WithSlot
<1> HIDE DEF w
<1>6. Bind(w) = [w EXCEPT !.slot = [w.slot EXCEPT ![h] = b1]]
  <2> DEFINE d1 == [b0 EXCEPT !.bound = TRUE]
             d2 == [d1 EXCEPT !.ringSlot = ring.head]
             f1 == [w.slot EXCEPT ![h] = d1]
             f2 == [f1 EXCEPT ![h] = d2]
             f3 == [f2 EXCEPT ![h] = b1]
             w1 == [w EXCEPT !.slot = f1]
             w2 == [w1 EXCEPT !.slot = f2]
             w3 == [w2 EXCEPT !.slot = f3]
  <2>1. w1.slot = f1 /\ w2.slot = f2 /\ f1[h] = d1 /\ f2[h] = d2
    BY <1>1, <1>5
  <2>2. w1 = [w EXCEPT !.slot[h].bound = TRUE]
    BY <1>5
  <2>3. w2 = [w1 EXCEPT !.slot[h].ringSlot = ring.head]
    BY <2>1
  <2>4. w3 = [w2 EXCEPT !.slot[h].ringGen = rg]
    BY <1>3, <2>1
  <2>5. f3 = [w.slot EXCEPT ![h] = b1]
    BY <1>1, <1>5
  <2> HIDE DEF f1, f2, f3, d1, d2
  <2>6. w3 = [w EXCEPT !.slot = f3]
    BY <1>5
  <2>7. Bind(w) = [[[w EXCEPT !.slot[h].bound = TRUE] EXCEPT !.slot[h].ringSlot = ring.head]
                     EXCEPT !.slot[h].ringGen = rg]
    BY <1>5 DEF Bind
  <2>8. Bind(w) = w3
    BY <2>2, <2>3, <2>4, <2>7
  <2> QED
    BY <2>5, <2>6, <2>8
<1>7. [w EXCEPT !.slot = [w.slot EXCEPT ![h] = b1]]
        = [head |-> w.head, tail |-> w.tail, pending |-> w.pending,
           accepting |-> w.accepting, slot |-> [w.slot EXCEPT ![h] = b1]]
  BY <1>5
<1>8. [w.slot EXCEPT ![h] = b1] = [S.slot EXCEPT ![h] = b1]
  BY <1>1, <1>5
<1>9. Bind(w) = WithSlot(S, h, b1)
  BY <1>5, <1>6, <1>7, <1>8 DEF WithSlot
<1> QED
  BY <1>4, <1>9 DEF w, b0, b1

\* The same fields are the same ring slot.
LEMMA SameRingSlot ==
  ASSUME NEW x \in RingSlot, NEW y \in RingSlot,
         x.skb = y.skb, x.mapped = y.mapped, x.gen = y.gen, x.swGen = y.swGen,
         x.swSlot = y.swSlot, x.queue = y.queue, x.st = y.st
  PROVE  x = y
BY DEF RingSlot, Slot

\* The same fields are the same ring.
LEMMA SameRing ==
  ASSUME NEW r \in RingRec, NEW u \in RingRec,
         r.head = u.head, r.tail = u.tail, r.slot = u.slot
  PROVE  r = u
BY DEF RingRec, Ring

\* The same fields are the same queue.
LEMMA SameQueue ==
  ASSUME NEW s \in SwRec, NEW t \in SwRec,
         s.head = t.head, s.tail = t.tail, s.pending = t.pending,
         s.accepting = t.accepting, s.slot = t.slot
  PROVE  s = t
BY DEF SwRec

\* Changing the slot at the producer again.
LEMMA GrownAgain ==
  ASSUME NEW r \in RingRec, NEW x \in RingSlot, NEW y \in RingSlot
  PROVE  /\ Grown(r, x).slot[r.head] = x
         /\ [Grown(r, x) EXCEPT !.slot = [Grown(r, x).slot EXCEPT ![r.head] = y]] = Grown(r, y)
<1>1. r.head \in Index /\ r.slot \in [Index -> RingSlot]
  BY RingFields
<1> QED
  BY <1>1 DEF Grown

\* ob_dma_tx_ring_reserve takes the slot at the producer.
LEMMA ReserveIs ==
  ASSUME NEW r \in RingRec, NEW packet \in Packets, NEW q \in Queues, NEW i \in SwIndex,
         NEW g \in Generation, r.slot[r.head].gen # GenMax,
         NEW rg, rg = r.slot[r.head].gen + 1
  PROVE  \E x \in RingSlot :
           /\ Reserve(r, packet, q, i, g) = Grown(r, x)
           /\ x.skb = packet /\ x.mapped /\ x.gen = rg
           /\ x.swGen = g /\ x.swSlot = i /\ x.queue = q /\ x.st = "RESERVED"
           /\ x.gen \in Generation
<1> DEFINE x == [skb |-> packet, mapped |-> TRUE, gen |-> r.slot[r.head].gen + 1,
                 swGen |-> g, swSlot |-> i, queue |-> q, st |-> "RESERVED"]
           f == [r.slot EXCEPT ![r.head] = x]
<1>1. /\ r.head \in Index /\ r.slot \in [Index -> RingSlot]
      /\ r.slot[r.head].gen \in Generation
  BY RingFields
<1>2. r.slot[r.head].gen + 1 \in Generation
  BY <1>1, RingAssumption DEF Generation
<1>3. /\ x.skb = packet /\ x.mapped = TRUE /\ x.gen = r.slot[r.head].gen + 1
      /\ x.swGen = g /\ x.swSlot = i /\ x.queue = q /\ x.st = "RESERVED"
  OBVIOUS
<1>4. x \in RingSlot
  BY <1>2 DEF RingSlot, Slot, SlotStates
<1>5. Reserve(r, packet, q, i, g) = [r EXCEPT !.head = NextIndex(r.head), !.slot = f]
  BY DEF Reserve
<1> HIDE DEF x
<1>6. [r EXCEPT !.head = NextIndex(r.head), !.slot = f] = Grown(r, x)
  <2> DEFINE n == NextIndex(r.head)
             d == [r EXCEPT !.head = n, !.slot = f]
             e == [head |-> n, tail |-> r.tail, slot |-> f]
  <2>1. n \in Index /\ f \in [Index -> RingSlot] /\ r.tail \in Index
    BY <1>1, <1>4, RingFields, RingAssumption DEF NextIndex, Index
  <2> HIDE DEF n, f
  <2>2. d \in RingRec /\ d.head = n /\ d.tail = r.tail /\ d.slot = f
    BY <2>1 DEF RingRec, Ring, RingSlot
  <2>3. e \in RingRec /\ e.head = n /\ e.tail = r.tail /\ e.slot = f
    BY <2>1 DEF RingRec, Ring, RingSlot
  <2> HIDE DEF d, e
  <2>4. d = e
    BY <2>2, <2>3, SameRing
  <2> QED
    BY <2>4 DEF Grown, n, f, d, e
<1> QED
  BY <1>2, <1>3, <1>4, <1>5, <1>6

\* ob_dma_tx_slot_* moves the slot at the producer on.
LEMMA GrownTransition ==
  ASSUME NEW r \in RingRec, NEW x \in RingSlot, NEW from, x.st = from,
         NEW to \in SlotStates, NEW g, x.gen = g
  PROVE  \E y \in RingSlot :
           /\ Transition(Grown(r, x), r.head, g, from, to) = Grown(r, y)
           /\ y.skb = x.skb /\ y.mapped = x.mapped /\ y.gen = x.gen
           /\ y.swGen = x.swGen /\ y.swSlot = x.swSlot /\ y.queue = x.queue /\ y.st = to
<1> DEFINE y == [x EXCEPT !.st = to]
           G == Grown(r, x)
<1>1. r.head \in Index
  BY RingFields
<1>2. /\ y \in RingSlot
      /\ y.skb = x.skb /\ y.mapped = x.mapped /\ y.gen = x.gen
      /\ y.swGen = x.swGen /\ y.swSlot = x.swSlot /\ y.queue = x.queue /\ y.st = to
  BY DEF RingSlot, Slot
<1>3. G.slot[r.head] = x
  BY GrownAgain
<1> HIDE DEF G
<1>4. Transition(G, r.head, g, from, to) = [G EXCEPT !.slot[r.head].st = to]
  BY <1>1, <1>3 DEF Transition, MayTransition
<1>5. [G EXCEPT !.slot[r.head].st = to] = [G EXCEPT !.slot = [G.slot EXCEPT ![r.head] = y]]
  BY <1>3
<1> HIDE DEF y
<1>6. [G EXCEPT !.slot = [G.slot EXCEPT ![r.head] = y]] = Grown(r, y)
  BY <1>2, GrownAgain DEF G
<1> QED
  BY <1>2, <1>4, <1>5, <1>6 DEF G

\* The backend takes the packet.
LEMMA AcceptIs ==
  ASSUME Kept, NEW q \in Queues, NEW packet \in Packets, NEW dma \in Dmas,
         NEW v \in IdValid, Accept(q, packet, dma, v)
  PROVE  \E b \in SwSlot :
           /\ b.st = "SUBMITTED" /\ b.packet = packet /\ b.bound /\ b.ringSlot = ring.head
           /\ b.gen = sw[q].slot[sw[q].head].gen + 1 /\ b.dma = dma
           /\ ring' = Grown(ring, RingFor(q, sw[q].head, b))
           /\ sw' = [sw EXCEPT ![q] = [head |-> NextSw(sw[q].head), tail |-> sw[q].tail,
                                       pending |-> sw[q].pending + 1,
                                       accepting |-> sw[q].accepting,
                                       slot |-> [sw[q].slot EXCEPT ![sw[q].head] = b]]]
<1> DEFINE S == sw[q]
           h == S.head
           g == S.slot[h].gen + 1
           k == ring.head
           rg == ring.slot[k].gen + 1
           s == Bind(Submitting(q, packet, dma, v))
           b1 == Bound(packet, dma, g, k, rg, v, "SUBMITTING")
           b == Bound(packet, dma, g, k, rg, v, "SUBMITTED")
           t == [head |-> NextSw(S.head), tail |-> S.tail, pending |-> S.pending + 1,
                 accepting |-> S.accepting, slot |-> [S.slot EXCEPT ![h] = b]]
<1>1. /\ MaySubmit(q, packet) /\ ReserveResult(ring) = "OK"
      /\ ring' = Transition(Transition(Reserved(q, packet), k, s.slot[s.head].ringGen,
                                       "RESERVED", "PREPARED"),
                            k, s.slot[s.head].ringGen, "PREPARED", "SUBMITTED")
      /\ sw' = [sw EXCEPT ![q] = [s EXCEPT !.slot[s.head].st = "SUBMITTED",
                                           !.pending = @ + 1, !.head = NextSw(@)]]
  BY DEF Accept
<1>2. /\ S \in SwRec /\ h \in SwIndex /\ S.slot \in [SwIndex -> SwSlot] /\ g \in Generation
      /\ ring \in RingRec /\ k \in Index
  BY <1>1, MaySubmitIs, RingFields DEF Kept, PathOK
<1>3. v \in BOOLEAN
  BY PathAssumption
<1>4. ring.slot[k].gen # GenMax
  BY <1>1, ReserveOk
<1>5. rg \in Generation
  <2>1. ring.slot[k].gen \in Generation
    BY <1>2, RingFields
  <2> QED
    BY <1>4, <2>1, RingAssumption DEF Generation
<1>6. /\ b1 \in SwSlot /\ b1.packet = packet /\ b1.dma = dma /\ b1.gen = g /\ b1.bound = TRUE
      /\ b1.ringSlot = k /\ b1.ringGen = rg /\ b1.idValid = v /\ b1.st = "SUBMITTING"
  BY <1>2, <1>3, <1>5 DEF Bound, SwSlot
<1>7. /\ b \in SwSlot /\ b.packet = packet /\ b.dma = dma /\ b.gen = g /\ b.bound = TRUE
      /\ b.ringSlot = k /\ b.ringGen = rg /\ b.idValid = v /\ b.st = "SUBMITTED"
  BY <1>2, <1>3, <1>5 DEF Bound, SwSlot
<1>8. s = WithSlot(S, h, b1)
  BY <1>2, <1>3, <1>5, SubmittingIs
<1> HIDE DEF s, b, b1
<1>9. b = [b1 EXCEPT !.st = "SUBMITTED"]
  <2> DEFINE d == [b1 EXCEPT !.st = "SUBMITTED"]
  <2>1. /\ d \in SwSlot /\ d.packet = b1.packet /\ d.dma = b1.dma /\ d.gen = b1.gen
        /\ d.bound = b1.bound /\ d.ringSlot = b1.ringSlot /\ d.ringGen = b1.ringGen
        /\ d.idValid = b1.idValid /\ d.st = "SUBMITTED"
    BY <1>6 DEF SwSlot
  <2> HIDE DEF d
  <2>2. d = b
    BY <1>6, <1>7, <2>1, SameSlot
  <2> QED
    BY <2>2 DEF d
<1>10. /\ s.head = h /\ s.tail = S.tail /\ s.pending = S.pending /\ s.accepting = S.accepting
       /\ s.slot = [S.slot EXCEPT ![h] = b1] /\ s.slot[h] = b1
       /\ s = [head |-> s.head, tail |-> s.tail, pending |-> s.pending,
               accepting |-> s.accepting, slot |-> s.slot]
  BY <1>2, <1>8 DEF WithSlot
<1>11. [s EXCEPT !.slot[s.head].st = "SUBMITTED", !.pending = @ + 1, !.head = NextSw(@)] = t
  <2> DEFINE f == [s.slot EXCEPT ![h] = b]
  <2>1. [s EXCEPT !.slot[s.head].st = "SUBMITTED", !.pending = @ + 1, !.head = NextSw(@)]
          = [s EXCEPT !.slot = f, !.pending = s.pending + 1, !.head = NextSw(s.head)]
    BY <1>9, <1>10
  <2>2. f = [S.slot EXCEPT ![h] = b]
    BY <1>2, <1>10
  <2> DEFINE n == s.pending + 1
             m == NextSw(s.head)
  <2>4. s \in SwRec
    BY <1>2, <1>6, <1>10 DEF SwRec
  <2>6. f \in [SwIndex -> SwSlot] /\ m \in SwIndex /\ n \in 0 .. Capacity
    <3>1. f \in [SwIndex -> SwSlot]
      BY <1>2, <1>7, <1>10
    <3>2. h \in 0 .. Capacity - 1 /\ S.pending \in 0 .. Capacity /\ S.pending < Capacity
      BY <1>1, <1>2, MaySubmitIs, QueueFields DEF SwIndex
    <3>3. s.pending + 1 \in 0 .. Capacity /\ NextSw(s.head) \in 0 .. Capacity - 1
      BY <1>10, <3>2, PathAssumption DEF NextSw
    <3> QED
      BY <3>1, <3>3 DEF SwIndex
  <2> HIDE DEF f, m, n
  <2> DEFINE d == [s EXCEPT !.slot = f, !.pending = n, !.head = m]
             e == [head |-> m, tail |-> s.tail, pending |-> n, accepting |-> s.accepting,
                   slot |-> f]
  <2>7. /\ d \in SwRec /\ d.head = m /\ d.tail = s.tail /\ d.pending = n
        /\ d.accepting = s.accepting /\ d.slot = f
    BY <2>4, <2>6 DEF SwRec
  <2>8. /\ e \in SwRec /\ e.head = m /\ e.tail = s.tail /\ e.pending = n
        /\ e.accepting = s.accepting /\ e.slot = f
    BY <2>4, <2>6 DEF SwRec
  <2> HIDE DEF d, e
  <2>9. d = e
    BY <2>7, <2>8, SameQueue
  <2>5. [s EXCEPT !.slot = f, !.pending = n, !.head = m]
          = [head |-> m, tail |-> s.tail, pending |-> n, accepting |-> s.accepting, slot |-> f]
    BY <2>9 DEF d, e
  <2>3. [s EXCEPT !.slot = f, !.pending = s.pending + 1, !.head = NextSw(s.head)]
          = [head |-> NextSw(s.head), tail |-> s.tail, pending |-> s.pending + 1,
             accepting |-> s.accepting, slot |-> f]
    BY <2>5 DEF m, n
  <2> QED
    BY <1>10, <2>1, <2>2, <2>3
<1>12. ring' = Grown(ring, RingFor(q, h, b))
  <2>1. Reserved(q, packet) = Reserve(ring, packet, q, h, g) /\ s.slot[s.head].ringGen = rg
    BY <1>6, <1>10 DEF Reserved
  <2>2. PICK x \in RingSlot :
           /\ Reserve(ring, packet, q, h, g) = Grown(ring, x)
           /\ x.skb = packet /\ x.mapped /\ x.gen = rg
           /\ x.swGen = g /\ x.swSlot = h /\ x.queue = q /\ x.st = "RESERVED"
    <3>1. ring \in RingRec /\ h \in SwIndex /\ g \in Generation /\ ring.slot[ring.head].gen # GenMax
          /\ packet \in Packets /\ q \in Queues /\ rg = ring.slot[ring.head].gen + 1
      BY <1>2, <1>4
    <3> HIDE DEF S, h, g, rg
    <3>2. \E x \in RingSlot :
             /\ Reserve(ring, packet, q, h, g) = Grown(ring, x)
             /\ x.skb = packet /\ x.mapped /\ x.gen = rg
             /\ x.swGen = g /\ x.swSlot = h /\ x.queue = q /\ x.st = "RESERVED"
             /\ x.gen \in Generation
      BY ONLY <3>1, ReserveIs
    <3> QED
      BY <3>2
  <2>3. PICK y \in RingSlot :
           /\ Transition(Grown(ring, x), k, rg, "RESERVED", "PREPARED") = Grown(ring, y)
           /\ y.skb = x.skb /\ y.mapped = x.mapped /\ y.gen = x.gen
           /\ y.swGen = x.swGen /\ y.swSlot = x.swSlot /\ y.queue = x.queue /\ y.st = "PREPARED"
    <3>1. ring \in RingRec /\ k = ring.head /\ x \in RingSlot /\ x.st = "RESERVED" /\ x.gen = rg
          /\ "PREPARED" \in SlotStates
      BY <1>2, <2>2 DEF SlotStates
    <3> HIDE DEF k, rg
    <3> QED
      BY ONLY <3>1, GrownTransition
  <2>4. PICK z \in RingSlot :
           /\ Transition(Grown(ring, y), k, rg, "PREPARED", "SUBMITTED") = Grown(ring, z)
           /\ z.skb = y.skb /\ z.mapped = y.mapped /\ z.gen = y.gen
           /\ z.swGen = y.swGen /\ z.swSlot = y.swSlot /\ z.queue = y.queue /\ z.st = "SUBMITTED"
    <3>1. ring \in RingRec /\ k = ring.head /\ y \in RingSlot /\ y.st = "PREPARED" /\ y.gen = rg
          /\ "SUBMITTED" \in SlotStates
      BY <1>2, <2>2, <2>3 DEF SlotStates
    <3> HIDE DEF k, rg
    <3> QED
      BY ONLY <3>1, GrownTransition
  <2>5. ring' = Grown(ring, z)
    BY <1>1, <2>1, <2>2, <2>3, <2>4
  <2> DEFINE w == RingFor(q, h, b)
  <2>6. w = [skb |-> packet, mapped |-> TRUE, gen |-> rg, swGen |-> g, swSlot |-> h,
             queue |-> q, st |-> "SUBMITTED"]
    BY <1>7 DEF RingFor
  <2>7. w \in RingSlot /\ w.skb = packet /\ w.mapped = TRUE /\ w.gen = rg /\ w.swGen = g
        /\ w.swSlot = h /\ w.queue = q /\ w.st = "SUBMITTED"
    BY <1>2, <1>5, <2>6 DEF RingSlot, Slot, SlotStates
  <2> HIDE DEF w
  <2>8. /\ z.skb = packet /\ z.mapped /\ z.gen = rg /\ z.swGen = g
        /\ z.swSlot = h /\ z.queue = q /\ z.st = "SUBMITTED"
    BY <2>2, <2>3, <2>4
  <2>9. z = w
    <3>1. z.mapped \in BOOLEAN /\ w.mapped \in BOOLEAN
      BY <2>7 DEF RingSlot, Slot
    <3>2. z.mapped = w.mapped
      BY <2>7, <2>8, <3>1
    <3> QED
      BY <2>7, <2>8, <3>2, SameRingSlot
  <2> QED
    BY <2>5, <2>9 DEF w
<1>13. sw' = [sw EXCEPT ![q] = t]
  BY <1>1, <1>11
<1> HIDE DEF S, h, g, k, rg
<1> QED
  BY <1>7, <1>12, <1>13 DEF S, h, g, k

\* A packet is accepted.
LEMMA AcceptKept ==
  ASSUME Kept, NEW q \in Queues, NEW packet \in Packets, NEW dma \in Dmas,
         NEW v \in IdValid, Accept(q, packet, dma, v)
  PROVE  Kept'
<1> DEFINE S == sw[q]
           T(b) == [head |-> NextSw(S.head), tail |-> S.tail, pending |-> S.pending + 1,
                    accepting |-> S.accepting, slot |-> [S.slot EXCEPT ![S.head] = b]]
<1>1. /\ MaySubmit(q, packet) /\ ReserveResult(ring) = "OK"
      /\ flow' = IF sw'[q].pending >= Capacity THEN Backpressure(flow, q, TRUE, FALSE) ELSE flow
      /\ live' = [live EXCEPT ![q][dma] = @ + 1]
      /\ ptr' = ring'.head /\ running' = running /\ faulted' = faulted
  BY DEF Accept
<1>2. PICK b \in SwSlot :
        /\ b.st = "SUBMITTED" /\ b.packet = packet /\ b.bound /\ b.ringSlot = ring.head
        /\ b.dma = dma
        /\ ring' = Grown(ring, RingFor(q, S.head, b))
        /\ sw' = [sw EXCEPT ![q] = T(b)]
  BY AcceptIs
<1> DEFINE t == T(b)
<1>3. /\ S \in SwRec /\ QueueOK(S) /\ S.accepting /\ S.pending < Capacity
      /\ ~PacketPending(S, packet)
  BY <1>1, MaySubmitIs
<1>4. ~Full(ring) /\ ring.slot[ring.head].st = "FREE"
  BY <1>1, ReserveOk
<1>5. PathOK(ring, sw, live) /\ sw \in [Queues -> SwRec]
  BY DEF Kept, PathOK
<1>6. PathOK(ring', sw', live')
  <2>1. PathOK(Grown(ring, RingFor(q, sw[q].head, b)), [sw EXCEPT ![q] = t],
               [live EXCEPT ![q][b.dma] = @ + 1])
    BY <1>2, <1>3, <1>4, <1>5, AcceptKeeps
  <2>2. live' = [live EXCEPT ![q][b.dma] = @ + 1]
    BY <1>1, <1>2
  <2> HIDE DEF T
  <2> QED
    BY <1>2, <2>1, <2>2
<1>7. ptr' \in Index
  <2>1. ring' \in RingRec
    BY <1>6 DEF PathOK
  <2> QED
    BY <1>1, <2>1, RingFields
<1>8. /\ \A p \in Queues : p # q => sw'[p] = sw[p]
      /\ sw'[q].accepting = sw[q].accepting /\ sw'[q].pending = sw[q].pending + 1
  BY <1>2, <1>5
<1>9. /\ flow' \in [Queues -> FlowRec]
      /\ \A p \in Queues : Told(flow, p) => Told(flow', p)
      /\ running /\ sw'[q].pending >= Capacity => Told(flow', q)
  <2>1. CASE sw'[q].pending >= Capacity
    <3>1. PICK x \in BOOLEAN : x = TRUE
      OBVIOUS
    <3>2. PICK y \in BOOLEAN : y = FALSE
      OBVIOUS
    <3>3. flow' = Backpressure(flow, q, x, y)
      BY <1>1, <2>1, <3>1, <3>2 DEF Backpressure
    <3>4. /\ flow' \in [Queues -> FlowRec]
          /\ \A p \in Queues : Told(flow, p) => Told(flow', p)
          /\ running /\ x => Told(flow', q)
      BY <3>3, BackpressureEffect DEF Kept
    <3> QED
      BY <3>1, <3>4
  <2>2. CASE ~(sw'[q].pending >= Capacity)
    BY <1>1, <2>2 DEF Kept
  <2> QED
    BY <2>1, <2>2
<1>10. FlowOK'
  <2>1. \A p \in Queues : sw'[p].accepting => running'
    BY <1>1, <1>3, <1>8 DEF Kept, FlowOK
  <2>2. ASSUME running', NEW p \in Queues, sw'[p].pending = Capacity
        PROVE  Told(flow', p)
    <3>1. CASE p = q
      <4>1. sw'[q].pending >= Capacity
        BY <2>2, <3>1, PathAssumption
      <4> QED
        BY <1>1, <1>9, <2>2, <3>1, <4>1
    <3>2. CASE p # q
      BY <1>1, <1>8, <1>9, <2>2, <3>2 DEF Kept, FlowOK, Told
    <3> QED
      BY <3>1, <3>2
  <2> QED
    BY <2>1, <2>2 DEF FlowOK, Told
<1>11. PathOK(ring, sw, live)'
  BY <1>6
<1> QED
  BY <1>1, <1>7, <1>9, <1>10, <1>11 DEF Kept

\* A submission that is refused after it took a generation.
LEMMA RefusedKept ==
  ASSUME Kept, NEW q \in Queues, NEW packet \in Packets, MaySubmit(q, packet),
         sw' = Unsubmitted(q), PathOK(ring', sw, live),
         live' = live, running' = running, faulted' = faulted, ptr' = ptr,
         NEW err,
         flow' = IF err = "ENOSPC" /\ (QueueFull(sw[q]) \/ Avail(ring') = 0)
                 THEN Backpressure(flow, q, QueueFull(sw[q]), Avail(ring') = 0)
                 ELSE flow
  PROVE  Kept'
<1> DEFINE S == sw[q]
           h == S.head
           g == S.slot[h].gen + 1
           c == [S EXCEPT !.slot[h] = ClearSlot(g)]
<1>1. /\ S \in SwRec /\ QueueOK(S) /\ h \in SwIndex \ PendingSlots(S) /\ g \in Generation
      /\ S.slot \in [SwIndex -> SwSlot]
  BY MaySubmitIs
<1>2. sw \in [Queues -> SwRec]
  BY DEF PathOK
<1>3. sw' = [sw EXCEPT ![q] = c]
  BY <1>1, <1>2 DEF Unsubmitted, SwRec
<1>4. c.accepting = S.accepting /\ c.pending = S.pending
  BY <1>1, SpendQueue
<1>5. PathOK(ring', sw', live')
  <2>1. c = [sw[q] EXCEPT !.slot[h] = ClearSlot(g)]
    OBVIOUS
  <2>2. h \in SwIndex \ PendingSlots(sw[q])
    BY <1>1
  <2> HIDE DEF c, h, g, S
  <2>3. PathOK(ring', [sw EXCEPT ![q] = c], live)
    BY <1>1, <2>1, <2>2, SpendKeeps
  <2> QED
    BY <1>3, <2>3
<1>6. flow' \in [Queues -> FlowRec] /\ \A p \in Queues : Told(flow, p) => Told(flow', p)
  <2> DEFINE full == QueueFull(S)
             none == Avail(ring') = 0
  <2>1. CASE err = "ENOSPC" /\ (full \/ none)
    <3>1. PICK x \in BOOLEAN : x = full
      BY full \in BOOLEAN DEF QueueFull
    <3>2. PICK y \in BOOLEAN : y = none
      BY none \in BOOLEAN
    <3>3. flow' = Backpressure(flow, q, x, y)
      BY <2>1, <3>1, <3>2 DEF Backpressure
    <3> QED
      BY <3>3, BackpressureEffect DEF Kept
  <2>2. CASE ~(err = "ENOSPC" /\ (full \/ none))
    BY <2>2 DEF Kept
  <2> QED
    BY <2>1, <2>2
<1> HIDE DEF c
<1>7. \A p \in Queues : sw'[p].accepting = sw[p].accepting /\ sw'[p].pending = sw[p].pending
  BY <1>2, <1>3, <1>4
<1>8. FlowOK'
  BY <1>6, <1>7 DEF Kept, FlowOK, Told
<1>9. PathOK(ring, sw, live)'
  BY <1>5
<1> QED
  BY <1>6, <1>8, <1>9 DEF Kept

\* No descriptor is left: the oldest packet's ring slot, which the unmap callback may
\* find by its address, is still with the device and stays as it is.
LEMMA RefuseNoDescriptorKept ==
  ASSUME Kept, NEW q \in Queues, NEW packet \in Packets, NEW dma \in Dmas,
         RefuseNoDescriptor(q, packet, dma)
  PROVE  Kept' /\ MaySubmit(q, packet) /\ sw' = Unsubmitted(q)
<1> DEFINE S == sw[q]
           h == S.head
           g == S.slot[h].gen + 1
           s == Submitting(q, packet, dma, FALSE)
<1>1. /\ MaySubmit(q, packet)
      /\ ring' = PathUnmap(ring, s, q, dma, FALSE)
      /\ sw' = Unsubmitted(q)
      /\ flow' = IF ReserveResult(ring) = "ENOSPC" /\ (QueueFull(sw[q]) \/ Avail(ring') = 0)
                 THEN Backpressure(flow, q, QueueFull(sw[q]), Avail(ring') = 0)
                 ELSE flow
      /\ running' = running /\ faulted' = faulted /\ live' = live /\ ptr' = ptr
  BY DEF RefuseNoDescriptor
<1>2. /\ S \in SwRec /\ QueueOK(S) /\ h \in SwIndex \ PendingSlots(S) /\ g \in Generation
      /\ S.slot \in [SwIndex -> SwSlot] /\ S.tail \in SwIndex
  BY <1>1, MaySubmitIs, QueueFields
<1>3. /\ s.head = h /\ s.tail = S.tail /\ s.pending = S.pending
      /\ s.slot[h].bound = FALSE
      /\ \A i \in SwIndex \ {h} : s.slot[i] = S.slot[i]
  <2>1. s = [S EXCEPT !.slot[h] = [ClearSlot(g) EXCEPT !.packet = packet, !.dma = dma,
                                      !.idValid = FALSE, !.st = "SUBMITTING"]]
    BY DEF Submitting
  <2> DEFINE b == [ClearSlot(g) EXCEPT !.packet = packet, !.dma = dma,
                                      !.idValid = FALSE, !.st = "SUBMITTING"]
  <2>2. b.bound = FALSE
    BY DEF ClearSlot
  <2> HIDE DEF b
  <2> QED
    BY <1>2, <2>1, <2>2 DEF SwRec, b
<1> HIDE DEF s
<1>4. ring' = ring
  <2>1. UnmapCandidates(s, dma) = {}
    BY <1>3 DEF UnmapCandidates
  <2>2. UnmapSlot(s, dma) = {i \in {s.tail} : s.pending > 0 /\ s.slot[i].bound /\ s.slot[i].dma = dma}
    BY <2>1 DEF UnmapSlot
  <2> DEFINE found == {i \in UnmapSlot(s, dma) :
                         /\ Joined(ring, q, i, s.slot[i])
                         /\ ring.slot[s.slot[i].ringSlot].mapped
                         /\ ring.slot[s.slot[i].ringSlot].st \in Finished}
  <2>3. found = {}
    <3> SUFFICES ASSUME NEW i \in found
                 PROVE  FALSE
      OBVIOUS
    <3>1. i = S.tail /\ S.pending > 0
      BY <1>3, <2>2
    <3>2. S.tail \in PendingSlots(S)
      BY <1>2, <3>1, DropQueue
    <3>3. Joint(ring, sw, q, S.tail)
      BY <3>2, Join DEF Kept
    <3>4. s.slot[i] = S.slot[S.tail]
      BY <1>2, <1>3, <3>1, <3>2
    <3>5. \/ ring.slot[S.slot[S.tail].ringSlot].st = "SUBMITTED"
          \/ ~ring.slot[S.slot[S.tail].ringSlot].mapped
      BY <3>3 DEF Joint
    <3> QED
      BY <3>4, <3>5 DEF Finished
  <2>4. PathUnmap(ring, s, q, dma, FALSE) = ring
    BY <2>3 DEF PathUnmap
  <2> QED
    BY <1>1, <2>4
<1>5. PathOK(ring', sw, live)
  BY <1>4 DEF Kept
<1> QED
  BY <1>1, <1>5, RefusedKept

\* Unmapping and releasing the descriptor at the producer.
LEMMA RollbackIs ==
  ASSUME NEW r \in RingRec, NEW y \in RingSlot, y.st = "CANCELED", y.mapped, y.skb # NoPacket
  PROVE  \E z \in RingSlot :
           /\ Release(Unmap(Grown(r, y), r.head, y.gen), r.head, y.gen) = Freed(Grown(r, z), r.head)
           /\ z.st = "CANCELED"
<1> DEFINE G == Grown(r, y)
           k == r.head
           z == [y EXCEPT !.mapped = FALSE]
           H == Grown(r, z)
<1>1. k \in Index /\ G.slot[k] = y
  BY RingFields, GrownAgain
<1>2. /\ z \in RingSlot /\ z.st = "CANCELED" /\ z.gen = y.gen /\ z.skb = y.skb /\ ~z.mapped
  BY DEF RingSlot, Slot
<1> HIDE DEF G
<1>3. Unmap(G, k, y.gen) = [G EXCEPT !.slot[k].mapped = FALSE]
  BY <1>1 DEF Unmap, MayUnmap
<1>4. [G EXCEPT !.slot[k].mapped = FALSE] = [G EXCEPT !.slot = [G.slot EXCEPT ![k] = z]]
  BY <1>1
<1> HIDE DEF z
<1>5. Unmap(G, k, y.gen) = H
  <2>1. [Grown(r, y) EXCEPT !.slot = [Grown(r, y).slot EXCEPT ![r.head] = z]] = Grown(r, z)
    BY <1>2, GrownAgain
  <2> QED
    BY <1>3, <1>4, <2>1 DEF G
<1>6. H.slot[k] = z
  BY <1>2, GrownAgain
<1> HIDE DEF H
<1>7. MayRelease(H, k, y.gen)
  BY <1>1, <1>2, <1>6 DEF MayRelease, Finished
<1> DEFINE freed == [H EXCEPT !.slot[k] = EmptySlot(y.gen)]
<1>8. Release(H, k, y.gen) = [freed EXCEPT !.tail = AdvancedTail(freed)]
  BY <1>7 DEF Release
<1>9. freed = Emptied(H, k)
  BY <1>2, <1>6 DEF Emptied
<1> HIDE DEF freed
<1>10. Release(H, k, y.gen) = Freed(H, k)
  BY <1>8, <1>9 DEF Freed
<1> QED
  BY <1>2, <1>5, <1>10 DEF G, H

\* The backend refuses: the descriptor is canceled, unmapped and released.
LEMMA RefuseBackendKept ==
  ASSUME Kept, NEW q \in Queues, NEW packet \in Packets, NEW dma \in Dmas, NEW err,
         RefuseBackend(q, packet, dma, err)
  PROVE  Kept' /\ MaySubmit(q, packet) /\ sw' = Unsubmitted(q)
<1> DEFINE S == sw[q]
           h == S.head
           g == S.slot[h].gen + 1
           k == ring.head
           rg == ring.slot[k].gen + 1
           s == Bind(Submitting(q, packet, dma, FALSE))
           c == Transition(Reserved(q, packet), k, s.slot[s.head].ringGen, "RESERVED", "CANCELED")
<1>1. /\ MaySubmit(q, packet) /\ ReserveResult(ring) = "OK"
      /\ ring' = PathUnmap(c, s, q, dma, TRUE)
      /\ sw' = Unsubmitted(q)
      /\ flow' = IF err = "ENOSPC" /\ (QueueFull(sw[q]) \/ Avail(ring') = 0)
                 THEN Backpressure(flow, q, QueueFull(sw[q]), Avail(ring') = 0)
                 ELSE flow
      /\ running' = running /\ faulted' = faulted /\ live' = live /\ ptr' = ptr
  BY DEF RefuseBackend
<1>2. /\ S \in SwRec /\ QueueOK(S) /\ h \in SwIndex /\ g \in Generation
      /\ S.slot \in [SwIndex -> SwSlot] /\ ring \in RingRec /\ k \in Index
  BY <1>1, MaySubmitIs, RingFields DEF Kept, PathOK
<1>3. ~Full(ring) /\ ring.slot[k].st = "FREE" /\ ring.slot[k].gen # GenMax
  BY <1>1, ReserveOk
<1>4. rg \in Generation
  <2>1. ring.slot[k].gen \in Generation
    BY <1>2, RingFields
  <2> QED
    BY <1>3, <2>1, RingAssumption DEF Generation
<1>5. PICK v \in BOOLEAN : v = FALSE
  OBVIOUS
<1> DEFINE b == Bound(packet, dma, g, k, rg, v, "SUBMITTING")
<1>6. /\ b \in SwSlot /\ b.packet = packet /\ b.dma = dma /\ b.gen = g /\ b.bound = TRUE
      /\ b.ringSlot = k /\ b.ringGen = rg /\ b.st = "SUBMITTING"
  BY <1>2, <1>4 DEF Bound, SwSlot
<1>7. s = WithSlot(S, h, b)
  <2>1. Submitting(q, packet, dma, FALSE) = Submitting(q, packet, dma, v)
    BY <1>5 DEF Submitting
  <2>2. Bind(Submitting(q, packet, dma, v)) = WithSlot(S, h, b)
    BY <1>2, <1>4, SubmittingIs
  <2> QED
    BY <2>1, <2>2
<1> HIDE DEF b, s
<1>8. s.head = h /\ s.slot[h] = b
  BY <1>2, <1>7 DEF WithSlot
<1>9. Reserved(q, packet) = Reserve(ring, packet, q, h, g) /\ s.slot[s.head].ringGen = rg
  BY <1>6, <1>8 DEF Reserved
<1>10. PICK x \in RingSlot :
         /\ Reserve(ring, packet, q, h, g) = Grown(ring, x)
         /\ x.skb = packet /\ x.mapped /\ x.gen = rg
         /\ x.swGen = g /\ x.swSlot = h /\ x.queue = q /\ x.st = "RESERVED"
         /\ x.gen \in Generation
  <2>1. /\ ring \in RingRec /\ h \in SwIndex /\ g \in Generation
        /\ ring.slot[ring.head].gen # GenMax
        /\ packet \in Packets /\ q \in Queues /\ rg = ring.slot[ring.head].gen + 1
    BY <1>2, <1>3
  <2> HIDE DEF S, h, g, rg, c
  <2> QED
    BY ONLY <2>1, ReserveIs
<1>11. PICK y \in RingSlot :
         /\ Transition(Grown(ring, x), k, rg, "RESERVED", "CANCELED") = Grown(ring, y)
         /\ y.skb = x.skb /\ y.mapped = x.mapped /\ y.gen = x.gen
         /\ y.swGen = x.swGen /\ y.swSlot = x.swSlot /\ y.queue = x.queue /\ y.st = "CANCELED"
  <2>1. ring \in RingRec /\ k = ring.head /\ x \in RingSlot /\ x.st = "RESERVED" /\ x.gen = rg
        /\ "CANCELED" \in SlotStates
    BY <1>2, <1>10 DEF SlotStates
  <2> HIDE DEF k, rg, c
  <2> QED
    BY ONLY <2>1, GrownTransition
<1>12. c = Grown(ring, y) /\ c.slot[k] = y
  BY <1>2, <1>9, <1>10, <1>11, GrownAgain
<1>13. /\ y.skb = packet /\ y.gen = rg /\ y.swGen = g /\ y.swSlot = h /\ y.queue = q
       /\ y.st = "CANCELED" /\ y.skb # NoPacket
  BY <1>10, <1>11, PathAssumption
<1>14. y.mapped
  BY <1>10, <1>11
<1> HIDE DEF c
<1>15. UnmapSlot(s, dma) = {h}
  <2>1. UnmapCandidates(s, dma) = {h}
    BY <1>6, <1>8 DEF UnmapCandidates
  <2> QED
    BY <2>1 DEF UnmapSlot
<1>16. ring' = Release(Unmap(c, k, rg), k, rg)
  <2> DEFINE found == {j \in UnmapSlot(s, dma) :
                         /\ Joined(c, q, j, s.slot[j])
                         /\ c.slot[s.slot[j].ringSlot].mapped
                         /\ c.slot[s.slot[j].ringSlot].st \in Finished}
  <2>1. Joined(c, q, h, b)
    BY <1>2, <1>6, <1>12, <1>13 DEF Joined
  <2>2. c.slot[b.ringSlot].mapped /\ c.slot[b.ringSlot].st \in Finished
    BY <1>6, <1>12, <1>13, <1>14 DEF Finished
  <2>3. found = {h}
    BY <1>8, <1>15, <2>1, <2>2
  <2>4. (CHOOSE j \in found : TRUE) = h /\ found # {}
    BY <2>3
  <2>5. PathUnmap(c, s, q, dma, TRUE)
          = LET d == s.slot[CHOOSE j \in found : TRUE]
            IN  Release(Unmap(c, d.ringSlot, d.ringGen), d.ringSlot, d.ringGen)
    BY <2>4 DEF PathUnmap
  <2> HIDE DEF found
  <2> QED
    BY <1>1, <1>6, <1>8, <2>4, <2>5
<1>17. PICK z \in RingSlot : ring' = Freed(Grown(ring, z), k) /\ z.st = "CANCELED"
  BY <1>2, <1>12, <1>13, <1>14, <1>16, RollbackIs
<1>18. PathOK(ring', sw, live)
  <2>1. z.st # "FREE" /\ PathOK(ring, sw, live)
    BY <1>17 DEF Kept
  <2> QED
    BY <1>3, <1>17, <2>1, RefuseKeeps
<1> QED
  BY <1>1, <1>18, RefusedKept

\* Once the oldest packet has left queue q in a step that wakes what it may.
LEMMA FinishedKept ==
  ASSUME Kept, NEW q \in Queues, sw[q].pending > 0,
         ring' = Freed(ring, OldestSlot(sw, q).ringSlot), sw' = Less(sw, q),
         live' = DropMapping(live, q, OldestSlot(sw, q)),
         running' = running, ptr' = ptr, faulted' = FALSE,
         flow' = MaybeWake(flow, ring', sw', running, faulted)
  PROVE  Kept'
<1>1. PathOK(ring, sw, live) /\ sw \in [Queues -> SwRec] /\ sw[q] \in SwRec /\ QueueOK(sw[q])
  BY DEF Kept, PathOK
<1>2. PathOK(ring', sw', live')
  BY <1>1, FinishKeeps
<1>3. sw' \in [Queues -> SwRec] /\ sw' = [sw EXCEPT ![q] = DropOldest(sw[q])]
  BY <1>2 DEF PathOK, Less
<1>4. DropOldest(sw[q]).accepting = sw[q].accepting /\ DropOldest(sw[q]).pending = sw[q].pending - 1
  BY <1>1, DropQueue
<1>5. /\ \A p \in Queues : p # q => sw'[p] = sw[p]
      /\ sw'[q].accepting = sw[q].accepting /\ sw'[q].pending = sw[q].pending - 1
  BY <1>1, <1>3, <1>4
<1>6. sw'[q].pending # Capacity
  BY <1>1, <1>5, QueueFields, PathAssumption
<1>7. /\ flow' \in [Queues -> FlowRec]
      /\ \A p \in Queues : Told(flow, p) /\ sw'[p].pending = Capacity => Told(flow', p)
  <2>1. flow \in [Queues -> FlowRec] /\ running \in BOOLEAN /\ faulted \in BOOLEAN
    BY DEF Kept
  <2>2. sw' \in [Queues -> SwRec] /\ flow' = MaybeWake(flow, ring', sw', running, faulted)
    BY <1>3
  <2> QED
    BY ONLY <2>1, <2>2, MaybeWakeEffect
<1>8. FlowOK'
  BY <1>5, <1>6, <1>7 DEF Kept, FlowOK, Told
<1>9. PathOK(ring, sw, live)'
  BY <1>2
<1> QED
  BY <1>7, <1>8, <1>9 DEF Kept

\* What a ticket for the oldest packet says of the queue.
LEMMA OldestIsPending ==
  ASSUME NEW r, NEW s, NEW l, PathOK(r, s, l), NEW q \in Queues, s[q].pending > 0
  PROVE  /\ s[q].tail \in PendingSlots(s[q])
         /\ Joint(r, s, q, s[q].tail)
         /\ OldestSlot(s, q) = s[q].slot[s[q].tail]
         /\ OldestSlot(s, q).st \in {"SUBMITTED", "DMA_RECLAIMED"}
<1>1. s[q] \in SwRec /\ QueueOK(s[q])
  BY DEF PathOK
<1>2. s[q].tail \in PendingSlots(s[q])
  BY <1>1, DropQueue
<1>3. Joint(r, s, q, s[q].tail)
  BY <1>2, Join
<1>4. OldestSlot(s, q) = s[q].slot[s[q].tail]
  BY DEF OldestSlot
<1> QED
  BY <1>2, <1>3, <1>4 DEF Joint

\* Moving a ring slot on and back leaves the ring as it was.
LEMMA BackAgain ==
  ASSUME NEW r \in RingRec, NEW k \in Index, NEW g, r.slot[k].gen = g,
         r.slot[k].st = "SUBMITTED"
  PROVE  Transition(Transition(r, k, g, "SUBMITTED", "COMPLETED"), k, g, "COMPLETED", "SUBMITTED") = r
<1> DEFINE x == r.slot[k]
           y == [x EXCEPT !.st = "COMPLETED"]
           c == Transition(r, k, g, "SUBMITTED", "COMPLETED")
<1>1. x \in RingSlot
  BY RingFields
<1>2. /\ y \in RingSlot /\ y.skb = x.skb /\ y.mapped = x.mapped /\ y.gen = x.gen
      /\ y.swGen = x.swGen /\ y.swSlot = x.swSlot /\ y.queue = x.queue /\ y.st = "COMPLETED"
  <2> HIDE DEF x, c
  <2> QED
    BY <1>1 DEF RingSlot, Slot, SlotStates
<1>3. [y EXCEPT !.st = "SUBMITTED"] = x
  <2> DEFINE z == [y EXCEPT !.st = "SUBMITTED"]
  <2> HIDE DEF x, y
  <2>1. /\ z \in RingSlot /\ z.skb = y.skb /\ z.mapped = y.mapped /\ z.gen = y.gen
        /\ z.swGen = y.swGen /\ z.swSlot = y.swSlot /\ z.queue = y.queue /\ z.st = "SUBMITTED"
    BY <1>2 DEF RingSlot, Slot, SlotStates
  <2>2. x.st = "SUBMITTED"
    BY DEF x
  <2> HIDE DEF z
  <2>3. z = x
    BY <1>1, <1>2, <2>1, <2>2, SameRingSlot
  <2> QED
    BY <2>3 DEF z
<1>4. c = [r EXCEPT !.slot[k].st = "COMPLETED"]
  BY DEF Transition, MayTransition
<1>5. c = [r EXCEPT !.slot = [r.slot EXCEPT ![k] = y]]
  BY <1>4
<1> HIDE DEF y, c
<1>6. c = Put(r, k, y)
  BY <1>5 DEF Put
<1>7. c.slot[k] = y
  BY <1>5 DEF RingRec, Ring
<1>8. Transition(c, k, g, "COMPLETED", "SUBMITTED") = [c EXCEPT !.slot[k].st = "SUBMITTED"]
  BY <1>2, <1>7 DEF Transition, MayTransition
<1>9. [c EXCEPT !.slot[k].st = "SUBMITTED"] = [c EXCEPT !.slot = [c.slot EXCEPT ![k] = x]]
  BY <1>3, <1>7
<1>10. Put(c, k, x) = Put(r, k, x)
  <2> HIDE DEF x
  <2> QED
    BY <1>6, PutAgain
<1>11. Put(r, k, x) = r
  BY PutAgain
<1> QED
  BY <1>8, <1>9, <1>10, <1>11 DEF Put, c

\* ob_tx_path_complete.
LEMMA CompleteKept ==
  ASSUME Kept, NEW q \in Queues, NEW ticket \in Tickets, Complete(q, ticket)
  PROVE  /\ Kept'
         /\ \/ sw[q].pending > 0 /\ sw' = Less(sw, q)
            \/ sw' = sw
<1> DEFINE S == sw[q]
           b == S.slot[ticket.slot]
           c == Transition(ring, b.ringSlot, b.ringGen, "SUBMITTED", "COMPLETED")
           u == PathUnmap(c, S, q, b.dma, FALSE)
<1>1. JoinedIn(ring, q, ticket.slot, b, "SUBMITTED") /\ running' = running /\ ptr' = ptr
  BY DEF Complete
<1>2. PathOK(ring, sw, live) /\ ring \in RingRec /\ faulted = FALSE
  BY DEF Kept, PathOK
<1>3. CASE HasOldest(S) /\ ticket = OldestTicket(S)
  <2>1. S.pending > 0 /\ ticket.slot = S.tail
    BY <1>3 DEF HasOldest, OldestTicket
  <2>2. /\ ring' = Dispose(u, q, b.packet) /\ sw' = [sw EXCEPT ![q] = DropOldest(@)]
        /\ live' = DropMapping(live, q, b)
        /\ faulted' = (faulted \/ ~DisposeOk(u, q, b.packet))
        /\ flow' = IF DisposeOk(u, q, b.packet)
                   THEN MaybeWake(flow, ring', sw', running, faulted) ELSE flow
    BY <1>3 DEF Complete
  <2>3. /\ b = OldestSlot(sw, q)
        /\ Joint(ring, sw, q, S.tail)
    BY <1>2, <2>1, OldestIsPending
  <2>4. b.st = "SUBMITTED"
    <3>1. ring.slot[b.ringSlot].st = "SUBMITTED"
      BY <1>1 DEF JoinedIn
    <3> QED
      BY <2>1, <2>3, <3>1 DEF Joint
  <2> HIDE DEF b
  <2>5. DisposeOk(u, q, b.packet) /\ Dispose(u, q, b.packet) = Freed(ring, b.ringSlot)
    <3>1. u = Unmapped(c, S, q, b.dma)
      BY DEF Unmapped
    <3>2. PICK to \in {"COMPLETED", "CANCELED"} : to = "COMPLETED"
      OBVIOUS
    <3>3. u = IF b.st = "SUBMITTED"
              THEN Unmapped(Transition(ring, b.ringSlot, b.ringGen, "SUBMITTED", to), sw[q], q, b.dma)
              ELSE ring
      BY <2>4, <3>1, <3>2
    <3> HIDE DEF u
    <3> QED
      BY <1>2, <2>1, <2>3, <3>3, DisposeOldest
  <2>6. /\ faulted' = FALSE /\ ring' = Freed(ring, b.ringSlot) /\ sw' = Less(sw, q)
        /\ flow' = MaybeWake(flow, ring', sw', running, faulted)
    BY <1>2, <2>2, <2>5 DEF Less
  <2>8. Kept'
    <3> HIDE DEF u, c
    <3> QED
      BY <1>1, <2>1, <2>2, <2>3, <2>6, FinishedKept
  <2> QED
    BY <2>1, <2>6, <2>8
<1>4. CASE ~(HasOldest(S) /\ ticket = OldestTicket(S))
  <2>1. /\ ring' = Transition(c, b.ringSlot, b.ringGen, "COMPLETED", "SUBMITTED")
        /\ sw' = sw /\ live' = live /\ faulted' = faulted /\ flow' = flow
    BY <1>4 DEF Complete
  <2>2. /\ b.ringSlot \in Index /\ ring.slot[b.ringSlot].gen = b.ringGen
        /\ ring.slot[b.ringSlot].st = "SUBMITTED"
    BY <1>1 DEF JoinedIn, Joined
  <2> HIDE DEF b
  <2>3. ring' = ring
    BY <1>2, <2>1, <2>2, BackAgain
  <2>4. PathOK(ring, sw, live)' /\ FlowOK'
    BY <1>1, <1>2, <2>1, <2>3 DEF Kept, FlowOK
  <2> QED
    BY <1>1, <1>2, <2>1, <2>4 DEF Kept
<1> QED
  BY <1>3, <1>4

\* ob_tx_path_dma_reclaim_packet.
LEMMA ReclaimKept ==
  ASSUME Kept, NEW q \in Queues, NEW packet \in Packets, ReclaimPacket(q, packet)
  PROVE  /\ Kept'
         /\ sw[q].pending > 0 /\ OldestSlot(sw, q).st = "SUBMITTED"
         /\ sw' = [sw EXCEPT ![q] = Reclaimed(sw[q])]
<1> DEFINE S == sw[q]
           b == S.slot[S.tail]
           k == b.ringSlot
           x == ring.slot[k]
           c == Transition(ring, k, b.ringGen, "SUBMITTED", "COMPLETED")
           u == PathUnmap(c, S, q, b.dma, FALSE)
           y == Ended(x, "COMPLETED")
           z == Ended(x, "RECLAIMED")
<1>1. /\ S.pending > 0 /\ b.st = "SUBMITTED"
      /\ sw' = [sw EXCEPT ![q] = Reclaimed(S)]
      /\ live' = DropMapping(live, q, b)
      /\ ring' = Transition(u, k, b.ringGen, "COMPLETED", "RECLAIMED")
      /\ faulted' = (faulted \/ ~MayTransition(u, k, b.ringGen, "COMPLETED"))
      /\ flow' = flow /\ running' = running /\ ptr' = ptr
  BY DEF ReclaimPacket, OldestIs, HasOldest
<1>2. /\ PathOK(ring, sw, live) /\ ring \in RingRec /\ faulted = FALSE
      /\ sw \in [Queues -> SwRec] /\ S \in SwRec /\ QueueOK(S)
  BY DEF Kept, PathOK
<1>3. b = OldestSlot(sw, q) /\ Joint(ring, sw, q, S.tail)
  BY <1>1, <1>2, OldestIsPending
<1>4. k \in Index /\ x \in RingSlot /\ x.gen = b.ringGen
  BY <1>3 DEF Joint
<1>5. u = Put(ring, k, y)
  <2>1. u = Unmapped(c, S, q, b.dma)
    BY DEF Unmapped
  <2>2. PICK to \in {"COMPLETED", "CANCELED"} : to = "COMPLETED"
    OBVIOUS
  <2>3. k = b.ringSlot
    OBVIOUS
  <2> HIDE DEF k, b, u
  <2>4. Unmapped(Transition(ring, k, b.ringGen, "SUBMITTED", to), sw[q], q, b.dma)
          = Put(ring, k, Ended(ring.slot[k], to))
    BY <1>1, <1>2, <1>3, <2>3, UnmapOldest
  <2> QED
    BY <2>1, <2>2, <2>4
<1>6. /\ y \in RingSlot /\ y.skb = x.skb /\ y.gen = x.gen /\ y.queue = x.queue
      /\ y.swSlot = x.swSlot /\ y.swGen = x.swGen /\ y.st = "COMPLETED" /\ y.mapped = FALSE
      /\ z \in RingSlot /\ z.skb = x.skb /\ z.gen = x.gen /\ z.queue = x.queue
      /\ z.swSlot = x.swSlot /\ z.swGen = x.swGen /\ z.st = "RECLAIMED" /\ z.mapped = FALSE
  BY <1>4 DEF RingSlot, Slot, SlotStates, Ended
<1>7. u.slot[k] = y
  <2> HIDE DEF y, k
  <2> QED
    BY <1>2, <1>4, <1>5 DEF Put, RingRec, Ring
<1>8. [y EXCEPT !.st = "RECLAIMED"] = z
  <2> DEFINE w == [y EXCEPT !.st = "RECLAIMED"]
  <2> HIDE DEF x, y, z
  <2>1. /\ w \in RingSlot /\ w.skb = y.skb /\ w.mapped = y.mapped /\ w.gen = y.gen
        /\ w.swGen = y.swGen /\ w.swSlot = y.swSlot /\ w.queue = y.queue /\ w.st = "RECLAIMED"
    BY <1>6 DEF RingSlot, Slot, SlotStates
  <2> HIDE DEF w
  <2>2. w = z
    BY <1>6, <2>1, SameRingSlot
  <2> QED
    BY <2>2 DEF w
<1>9. MayTransition(u, k, b.ringGen, "COMPLETED")
  BY <1>4, <1>6, <1>7 DEF MayTransition
<1>10. ring' = Put(ring, k, z)
  <2> HIDE DEF u, y, z
  <2>1. ring' = [u EXCEPT !.slot[k].st = "RECLAIMED"]
    BY <1>1, <1>9 DEF Transition
  <2>2. [u EXCEPT !.slot[k].st = "RECLAIMED"] = [u EXCEPT !.slot = [u.slot EXCEPT ![k] = z]]
    BY <1>7, <1>8
  <2>3. Put(u, k, z) = Put(ring, k, z)
    BY <1>2, <1>4, <1>5, PutAgain
  <2> QED
    BY <2>1, <2>2, <2>3 DEF Put
<1>11. PathOK(ring', sw', live')
  <2>1. b.st = "SUBMITTED" /\ z = Ended(ring.slot[b.ringSlot], "RECLAIMED")
    BY <1>1
  <2>2. k = b.ringSlot /\ S = sw[q]
    OBVIOUS
  <2> HIDE DEF b, k, z, S
  <2>3. PathOK(Put(ring, b.ringSlot, Ended(ring.slot[b.ringSlot], "RECLAIMED")),
               [sw EXCEPT ![q] = Reclaimed(sw[q])], DropMapping(live, q, b))
    BY <1>1, <1>2, <1>3, <2>1, <2>2, ReclaimKeeps
  <2> QED
    BY <1>1, <1>10, <2>1, <2>2, <2>3
<1>12. \A p \in Queues : sw'[p].accepting = sw[p].accepting /\ sw'[p].pending = sw[p].pending
  <2>1. Reclaimed(S).accepting = S.accepting /\ Reclaimed(S).pending = S.pending
    BY <1>1, <1>2, ReclaimQueue
  <2> QED
    BY <1>1, <1>2, <2>1
<1>13. PathOK(ring, sw, live)' /\ FlowOK'
  BY <1>1, <1>11, <1>12 DEF Kept, FlowOK
<1>14. faulted' = FALSE
  BY <1>1, <1>2, <1>9
<1>15. Kept'
  BY <1>1, <1>13, <1>14 DEF Kept
<1> QED
  BY <1>1, <1>3, <1>15

\* ob_tx_path_complete_reclaimed_frame_id.
LEMMA CompleteReclaimedKept ==
  ASSUME Kept, NEW q \in Queues, NEW ticket \in Tickets, CompleteReclaimed(q, ticket)
  PROVE  Kept' /\ sw[q].pending > 0 /\ sw' = Less(sw, q)
<1> DEFINE S == sw[q]
           b == S.slot[ticket.slot]
<1>1. /\ S.pending > 0 /\ ticket.slot = S.tail /\ b.st = "DMA_RECLAIMED"
      /\ ring' = Dispose(ring, q, b.packet) /\ sw' = [sw EXCEPT ![q] = DropOldest(@)]
      /\ faulted' = (faulted \/ ~DisposeOk(ring, q, b.packet))
      /\ flow' = IF DisposeOk(ring, q, b.packet)
                 THEN MaybeWake(flow, ring', sw', running, faulted) ELSE flow
      /\ live' = live /\ running' = running /\ ptr' = ptr
  BY DEF CompleteReclaimed, AwaitsStatus, OldestTicket
<1>2. PathOK(ring, sw, live) /\ faulted = FALSE
  BY DEF Kept
<1>3. b = OldestSlot(sw, q)
  BY <1>1, <1>2, OldestIsPending
<1> HIDE DEF b
<1>4. DisposeOk(ring, q, b.packet) /\ Dispose(ring, q, b.packet) = Freed(ring, b.ringSlot)
  <2>1. PICK to \in {"COMPLETED", "CANCELED"} : to = "COMPLETED"
    OBVIOUS
  <2>2. ring = IF b.st = "SUBMITTED"
               THEN Unmapped(Transition(ring, b.ringSlot, b.ringGen, "SUBMITTED", to), sw[q], q, b.dma)
               ELSE ring
    BY <1>1
  <2> QED
    BY <1>1, <1>2, <1>3, <2>2, DisposeOldest
<1>5. /\ faulted' = FALSE /\ ring' = Freed(ring, b.ringSlot) /\ sw' = Less(sw, q)
      /\ flow' = MaybeWake(flow, ring', sw', running, faulted)
      /\ live' = DropMapping(live, q, b)
  BY <1>1, <1>2, <1>4 DEF Less, DropMapping
<1>6. Kept'
  BY <1>1, <1>3, <1>5, FinishedKept
<1> QED
  BY <1>1, <1>5, <1>6

-----------------------------------------------------------------------------
(***************************************************************************)
(* ob_tx_path_stop.                                                         *)
(***************************************************************************)
\* The queue t is what is left of s when its k oldest packets have gone.
Shifted(s, t, k) ==
  /\ t.pending = s.pending - k
  /\ t.accepting = s.accepting
  /\ \A i \in SwIndex : t.slot[i].gen = s.slot[i].gen
  /\ \A j \in 0 .. t.pending - 1 :
       /\ SwAt(t, j) = SwAt(s, j + k)
       /\ t.slot[SwAt(t, j)] = s.slot[SwAt(s, j + k)]

\* One more packet of the queue goes.
LEMMA ShiftedMore ==
  ASSUME NEW s \in SwRec, NEW t \in SwRec, QueueOK(t), t.pending > 0,
         NEW k \in Nat, Shifted(s, t, k)
  PROVE  Shifted(s, DropOldest(t), k + 1)
<1> DEFINE u == DropOldest(t)
<1>1. /\ u \in SwRec
      /\ PendingSlots(u) = PendingSlots(t) \ {t.tail}
      /\ u.accepting = t.accepting /\ u.pending = t.pending - 1
      /\ u.slot = [t.slot EXCEPT ![t.tail] = ClearSlot(t.slot[t.tail].gen)]
      /\ \A j \in 0 .. Capacity - 1 : SwAt(u, j) = SwAt(t, j + 1)
  BY DropQueue
<1>2. /\ t.tail \in SwIndex /\ t.pending \in 1 .. Capacity /\ s.pending \in 0 .. Capacity
      /\ t.slot \in [SwIndex -> SwSlot] /\ Capacity \in Nat /\ PendingSlots(t) \subseteq SwIndex
  BY QueueFields, PathAssumption
<1> HIDE DEF u
<1>3. \A i \in SwIndex : u.slot[i].gen = t.slot[i].gen
  BY <1>1, <1>2 DEF ClearSlot
<1>4. u.pending = s.pending - (k + 1) /\ u.accepting = s.accepting
  BY <1>1, <1>2 DEF Shifted
<1>5. ASSUME NEW j \in 0 .. u.pending - 1
      PROVE  /\ SwAt(u, j) = SwAt(s, j + (k + 1))
             /\ u.slot[SwAt(u, j)] = s.slot[SwAt(s, j + (k + 1))]
  <2>1. /\ j \in 0 .. Capacity - 1 /\ j + 1 \in 0 .. t.pending - 1
        /\ (j + 1) + k = j + (k + 1)
    BY <1>1, <1>2
  <2>2. /\ SwAt(t, j + 1) = SwAt(s, (j + 1) + k)
        /\ t.slot[SwAt(t, j + 1)] = s.slot[SwAt(s, (j + 1) + k)]
    BY <2>1 DEF Shifted
  <2>3. SwAt(u, j) = SwAt(t, j + 1)
    BY <1>1, <2>1
  <2>4. SwAt(u, j) \in PendingSlots(t) /\ SwAt(u, j) # t.tail
    BY <1>1 DEF PendingSlots
  <2>5. u.slot[SwAt(u, j)] = t.slot[SwAt(u, j)]
    BY <1>1, <1>2, <2>4
  <2> QED
    BY <2>1, <2>2, <2>3, <2>5
<1>6. Shifted(s, u, k + 1)
  <2>1. \A i \in SwIndex : u.slot[i].gen = s.slot[i].gen
    BY <1>3 DEF Shifted
  <2> QED
    BY <1>4, <1>5, <2>1 DEF Shifted
<1> QED
  BY <1>6 DEF u

\* One turn of the loop in ob_tx_sw_stop.
LEMMA CancelKeeps ==
  ASSUME NEW c, PathOK(c.ring, c.sw, c.live), c.faulted = FALSE,
         NEW q \in Queues, c.sw[q].pending > 0,
         NEW d, d = CancelOldest(c, q)
  PROVE  PathOK(d.ring, d.sw, d.live) /\ d.faulted = FALSE /\ d.sw = Less(c.sw, q)
<1> DEFINE b == c.sw[q].slot[c.sw[q].tail]
           to == "CANCELED"
           canceled == Transition(c.ring, b.ringSlot, b.ringGen, "SUBMITTED", to)
           u == IF b.st = "SUBMITTED" THEN PathUnmap(canceled, c.sw[q], q, b.dma, FALSE)
                ELSE c.ring
<1>1. /\ d.ring = Dispose(u, q, b.packet)
      /\ d.sw = [c.sw EXCEPT ![q] = DropOldest(@)]
      /\ d.live = DropMapping(c.live, q, b)
      /\ d.faulted = (c.faulted \/ ~DisposeOk(u, q, b.packet))
  BY DEF CancelOldest
<1>2. b = OldestSlot(c.sw, q)
  BY DEF OldestSlot
<1>3. PICK t \in {"COMPLETED", "CANCELED"} : t = to
  OBVIOUS
<1>4. u = IF b.st = "SUBMITTED"
          THEN Unmapped(Transition(c.ring, b.ringSlot, b.ringGen, "SUBMITTED", t), c.sw[q], q, b.dma)
          ELSE c.ring
  BY <1>3 DEF Unmapped
<1> HIDE DEF b, u
<1>5. DisposeOk(u, q, b.packet) /\ Dispose(u, q, b.packet) = Freed(c.ring, b.ringSlot)
  BY ONLY PathOK(c.ring, c.sw, c.live), q \in Queues, c.sw[q].pending > 0,
          t \in {"COMPLETED", "CANCELED"}, <1>2, <1>4, DisposeOldest
<1>6. PathOK(Freed(c.ring, b.ringSlot), Less(c.sw, q), DropMapping(c.live, q, b))
  BY <1>2, FinishKeeps
<1>7. d.sw = Less(c.sw, q)
  BY <1>1 DEF Less
<1> QED
  BY <1>1, <1>5, <1>6, <1>7

\* The path state d is what the loop leaves of c when k packets of queue q have gone.
CutBack(c, d, q, k) ==
  /\ PathOK(d.ring, d.sw, d.live)
  /\ d.faulted = FALSE
  /\ Shifted(c.sw[q], d.sw[q], k)
  /\ \A p \in Queues \ {q} : d.sw[p] = c.sw[p]

\* One more turn.
LEMMA CutBackMore ==
  ASSUME NEW c, NEW d, NEW e, NEW q \in Queues, NEW k \in Nat,
         PathOK(c.ring, c.sw, c.live), k < c.sw[q].pending,
         CutBack(c, d, q, k), e = CancelOldest(d, q)
  PROVE  CutBack(c, e, q, k + 1)
<1>1. /\ c.sw \in [Queues -> SwRec] /\ d.sw \in [Queues -> SwRec]
      /\ QueueOK(d.sw[q]) /\ Shifted(c.sw[q], d.sw[q], k)
      /\ PathOK(d.ring, d.sw, d.live) /\ d.faulted = FALSE
  BY DEF CutBack, PathOK
<1>2. c.sw[q] \in SwRec /\ d.sw[q] \in SwRec /\ c.sw[q].pending \in 0 .. Capacity
  BY <1>1, QueueFields
<1>3. d.sw[q].pending > 0
  BY <1>1, <1>2 DEF Shifted
<1>4. PathOK(e.ring, e.sw, e.live) /\ e.faulted = FALSE /\ e.sw = Less(d.sw, q)
  BY <1>1, <1>3, CancelKeeps
<1>5. e.sw[q] = DropOldest(d.sw[q]) /\ \A p \in Queues \ {q} : e.sw[p] = d.sw[p]
  BY <1>1, <1>4 DEF Less
<1>6. Shifted(c.sw[q], e.sw[q], k + 1)
  BY <1>1, <1>2, <1>3, <1>5, ShiftedMore
<1> QED
  BY <1>4, <1>5, <1>6 DEF CutBack

\* No packet gone: nothing has changed.
LEMMA CutBackNone ==
  ASSUME NEW c, NEW q \in Queues, PathOK(c.ring, c.sw, c.live), c.faulted = FALSE
  PROVE  CutBack(c, c, q, 0)
<1>1. c.sw[q] \in SwRec
  BY DEF PathOK
<1>2. c.sw[q].pending \in 0 .. Capacity /\ Capacity \in Nat
  BY <1>1, QueueFields, PathAssumption
<1>3. Shifted(c.sw[q], c.sw[q], 0)
  <2>1. c.sw[q].pending = c.sw[q].pending - 0
        /\ \A j \in 0 .. c.sw[q].pending - 1 : j + 0 = j
    BY <1>2
  <2> QED
    BY <2>1 DEF Shifted
<1> QED
  BY <1>3 DEF CutBack

\* The states of the loop over one queue, up to n turns.
Turns(f, c, q, n) ==
  f = [k \in 0 .. n |-> IF k = 0 THEN c ELSE CancelOldest(f[k - 1], q)]

\* The loop over one queue is defined: there is a function of its turns.
LEMMA TurnsExist ==
  ASSUME NEW c, NEW q, NEW m \in Nat
  PROVE  \E f : Turns(f, c, q, m)
<1> DEFINE S == {n \in Nat : ~ \E f : Turns(f, c, q, n)}
<1> SUFFICES ASSUME S # {}
             PROVE  FALSE
  OBVIOUS
<1>1. PICK n \in S : \A i \in S : n <= i
  BY Least
<1>2. n \in Nat /\ ~ \E f : Turns(f, c, q, n)
  OBVIOUS
<1>3. CASE n = 0
  <2> DEFINE f == [k \in 0 .. 0 |-> c]
  <2>1. f = [k \in 0 .. 0 |-> IF k = 0 THEN c ELSE CancelOldest(f[k - 1], q)]
    OBVIOUS
  <2>2. Turns(f, c, q, 0)
    BY <2>1 DEF Turns
  <2> QED
    BY <1>2, <1>3, <2>2
<1>4. CASE n # 0
  <2>1. n - 1 \in Nat /\ n - 1 \notin S
    BY <1>1, <1>2, <1>4
  <2>2. PICK g : Turns(g, c, q, n - 1)
    BY <2>1
  <2> DEFINE f == [k \in 0 .. n |-> IF k = 0 THEN c ELSE CancelOldest(g[k - 1], q)]
  <2>3. \A k \in 0 .. n - 1 : f[k] = g[k]
    <3>1. g = [k \in 0 .. n - 1 |-> IF k = 0 THEN c ELSE CancelOldest(g[k - 1], q)]
      BY <2>2 DEF Turns
    <3>2. \A k \in 0 .. n - 1 : g[k] = IF k = 0 THEN c ELSE CancelOldest(g[k - 1], q)
      BY <3>1
    <3> QED
      BY <1>2, <3>2
  <2>4. \A k \in 0 .. n : k # 0 => k - 1 \in 0 .. n - 1
    BY <1>2
  <2>5. \A k \in 0 .. n : (IF k = 0 THEN c ELSE CancelOldest(g[k - 1], q))
                          = IF k = 0 THEN c ELSE CancelOldest(f[k - 1], q)
    BY <2>3, <2>4
  <2>6. f = [k \in 0 .. n |-> IF k = 0 THEN c ELSE CancelOldest(f[k - 1], q)]
    BY <2>5
  <2>7. Turns(f, c, q, n)
    BY <2>6 DEF Turns
  <2> QED
    BY <1>2, <2>7
<1> QED
  BY <1>3, <1>4

\* Canceled is the last of the turns.
LEMMA CanceledIs ==
  ASSUME NEW c, NEW q, NEW count \in 0 .. Capacity
  PROVE  \E f : Turns(f, c, q, Capacity) /\ Canceled(c, q, count) = f[count]
<1> DEFINE h == CHOOSE f : f = [k \in 0 .. Capacity |->
                                  IF k = 0 THEN c ELSE CancelOldest(f[k - 1], q)]
<1>1. Canceled(c, q, count) = h[count]
  BY DEF Canceled
<1>2. \E f : Turns(f, c, q, Capacity)
  BY PathAssumption, TurnsExist
<1>3. Turns(h, c, q, Capacity)
  BY <1>2 DEF Turns
<1> QED
  BY <1>1, <1>3

\* The loop takes the count oldest packets of the queue and leaves the path consistent.
LEMMA CanceledKeeps ==
  ASSUME NEW c, NEW q \in Queues, PathOK(c.ring, c.sw, c.live), c.faulted = FALSE,
         NEW count \in 0 .. c.sw[q].pending
  PROVE  CutBack(c, Canceled(c, q, count), q, count)
<1>1. c.sw[q] \in SwRec /\ Capacity \in Nat
  BY PathAssumption DEF PathOK
<1>2. c.sw[q].pending \in 0 .. Capacity /\ count \in 0 .. Capacity
  BY <1>1, QueueFields
<1>3. PICK f : Turns(f, c, q, Capacity) /\ Canceled(c, q, count) = f[count]
  BY <1>2, CanceledIs
<1>4. \A k \in 0 .. Capacity : f[k] = IF k = 0 THEN c ELSE CancelOldest(f[k - 1], q)
  <2>1. f = [k \in 0 .. Capacity |-> IF k = 0 THEN c ELSE CancelOldest(f[k - 1], q)]
    BY <1>3 DEF Turns
  <2> QED
    BY <2>1
<1> DEFINE S == {n \in 0 .. count : ~CutBack(c, f[n], q, n)}
<1>5. S = {}
  <2> SUFFICES ASSUME S # {}
               PROVE  FALSE
    OBVIOUS
  <2>1. PICK n \in S : \A i \in S : n <= i
    <3>1. S \subseteq Nat
      BY <1>2
    <3> QED
      BY <3>1, Least
  <2>2. n \in 0 .. count /\ ~CutBack(c, f[n], q, n)
    OBVIOUS
  <2>3. n # 0
    <3>1. CutBack(c, c, q, 0)
      BY CutBackNone
    <3> QED
      BY <1>1, <1>4, <2>2, <3>1
  <2>4. n - 1 \in 0 .. count /\ n - 1 \in Nat /\ n - 1 < c.sw[q].pending
        /\ (n - 1) + 1 = n /\ n \in 0 .. Capacity /\ ~(n <= n - 1)
    <3>1. PICK p \in 0 .. Capacity : p = c.sw[q].pending
      BY <1>2
    <3>2. Capacity \in Nat /\ count \in 0 .. p /\ n \in 0 .. count /\ n # 0
      BY <1>1, <2>2, <2>3, <3>1
    <3> HIDE DEF S
    <3>3. n - 1 \in 0 .. count /\ n - 1 \in Nat /\ n - 1 < p
          /\ (n - 1) + 1 = n /\ n \in 0 .. Capacity /\ ~(n <= n - 1)
      BY ONLY p \in 0 .. Capacity, <3>2
    <3> QED
      BY <3>1, <3>3
  <2>5. CutBack(c, f[n - 1], q, n - 1)
    <3>1. n - 1 \notin S
      <4> HIDE DEF S
      <4> QED
        BY <2>1, <2>4
    <3> QED
      BY <2>4, <3>1
  <2>6. f[n] = CancelOldest(f[n - 1], q)
    BY <1>4, <2>3, <2>4
  <2> DEFINE k == n - 1
             d == f[k]
             e == f[n]
  <2> HIDE DEF k, d, e
  <2>7. CutBack(c, e, q, k + 1)
    <3>1. k \in Nat /\ k < c.sw[q].pending /\ CutBack(c, d, q, k) /\ e = CancelOldest(d, q)
      BY <2>4, <2>5, <2>6 DEF k, d, e
    <3> QED
      BY <3>1, CutBackMore
  <2> QED
    BY <2>2, <2>4, <2>7 DEF k, e
<1>6. count \in 0 .. count
  BY <1>2
<1> QED
  BY <1>3, <1>5, <1>6

\* The states of the loop over the queues, up to queue n.
Rounds(f, c, gone, n) ==
  f = [k \in 0 .. n |-> IF k = 0 THEN c ELSE Canceled(f[k - 1], k - 1, gone[k - 1])]

\* The loop over the queues is defined.
LEMMA RoundsExist ==
  ASSUME NEW c, NEW gone, NEW m \in Nat
  PROVE  \E f : Rounds(f, c, gone, m)
<1> DEFINE S == {n \in Nat : ~ \E f : Rounds(f, c, gone, n)}
<1> SUFFICES ASSUME S # {}
             PROVE  FALSE
  OBVIOUS
<1>1. PICK n \in S : \A i \in S : n <= i
  BY Least
<1>2. n \in Nat /\ ~ \E f : Rounds(f, c, gone, n)
  OBVIOUS
<1>3. CASE n = 0
  <2> DEFINE f == [k \in 0 .. 0 |-> c]
  <2>1. f = [k \in 0 .. 0 |-> IF k = 0 THEN c ELSE Canceled(f[k - 1], k - 1, gone[k - 1])]
    OBVIOUS
  <2>2. Rounds(f, c, gone, 0)
    BY <2>1 DEF Rounds
  <2> QED
    BY <1>2, <1>3, <2>2
<1>4. CASE n # 0
  <2>1. n - 1 \in Nat /\ n - 1 \notin S
    BY <1>1, <1>2, <1>4
  <2>2. PICK g : Rounds(g, c, gone, n - 1)
    BY <2>1
  <2> DEFINE f == [k \in 0 .. n |-> IF k = 0 THEN c
                                    ELSE Canceled(g[k - 1], k - 1, gone[k - 1])]
  <2>3. \A k \in 0 .. n - 1 : f[k] = g[k]
    <3>1. g = [k \in 0 .. n - 1 |-> IF k = 0 THEN c
                                    ELSE Canceled(g[k - 1], k - 1, gone[k - 1])]
      BY <2>2 DEF Rounds
    <3>2. \A k \in 0 .. n - 1 :
            g[k] = IF k = 0 THEN c ELSE Canceled(g[k - 1], k - 1, gone[k - 1])
      BY <3>1
    <3> QED
      BY <1>2, <3>2
  <2>4. \A k \in 0 .. n : k # 0 => k - 1 \in 0 .. n - 1
    BY <1>2
  <2>5. \A k \in 0 .. n : (IF k = 0 THEN c ELSE Canceled(g[k - 1], k - 1, gone[k - 1]))
                          = IF k = 0 THEN c ELSE Canceled(f[k - 1], k - 1, gone[k - 1])
    BY <2>3, <2>4
  <2>6. f = [k \in 0 .. n |-> IF k = 0 THEN c ELSE Canceled(f[k - 1], k - 1, gone[k - 1])]
    BY <2>5
  <2>7. Rounds(f, c, gone, n)
    BY <2>6 DEF Rounds
  <2> QED
    BY <1>2, <2>7
<1> QED
  BY <1>3, <1>4

\* The path state d is what is left of c when the queues below n have been stopped.
Cut(c, d, gone, n) ==
  /\ PathOK(d.ring, d.sw, d.live)
  /\ d.faulted = FALSE
  /\ \A p \in Queues : IF p < n THEN Shifted(c.sw[p], d.sw[p], gone[p])
                                ELSE d.sw[p] = c.sw[p]

\* The next queue is stopped.
LEMMA CutMore ==
  ASSUME NEW c, NEW d, NEW e, NEW gone, NEW q \in Queues, Cut(c, d, gone, q),
         gone[q] \in 0 .. c.sw[q].pending,
         e = Canceled(d, q, gone[q])
  PROVE  Cut(c, e, gone, q + 1)
<1>1. q \in Nat /\ \A p \in Queues : p \in Nat
  BY DEF Queues
<1>2. PathOK(d.ring, d.sw, d.live) /\ d.faulted = FALSE /\ d.sw[q] = c.sw[q]
  BY <1>1 DEF Cut
<1>3. CutBack(d, e, q, gone[q])
  <2>1. gone[q] \in 0 .. d.sw[q].pending
    BY <1>2
  <2> QED
    BY <1>2, <2>1, CanceledKeeps
<1>4. /\ PathOK(e.ring, e.sw, e.live) /\ e.faulted = FALSE
      /\ Shifted(c.sw[q], e.sw[q], gone[q])
      /\ \A p \in Queues \ {q} : e.sw[p] = d.sw[p]
  BY <1>2, <1>3 DEF CutBack
<1>5. ASSUME NEW p \in Queues
      PROVE  IF p < q + 1 THEN Shifted(c.sw[p], e.sw[p], gone[p]) ELSE e.sw[p] = c.sw[p]
  <2>1. CASE p = q
    <3>1. p < q + 1
      BY <1>1, <2>1
    <3> QED
      BY <1>4, <2>1, <3>1
  <2>2. CASE p # q
    <3>1. p < q + 1 <=> p < q
      <4>1. p \in Nat /\ q \in Nat /\ p # q
        BY <1>1, <2>2
      <4> QED
        BY ONLY <4>1
    <3> QED
      BY <1>4, <2>2, <3>1 DEF Cut
  <2> QED
    BY <2>1, <2>2
<1> QED
  BY <1>4, <1>5 DEF Cut

\* Every queue is stopped in turn.
LEMMA RoundsKeep ==
  ASSUME NEW c, PathOK(c.ring, c.sw, c.live), c.faulted = FALSE,
         NEW gone, \A q \in Queues : gone[q] \in 0 .. c.sw[q].pending,
         NEW f, Rounds(f, c, gone, NumQueues)
  PROVE  Cut(c, f[NumQueues], gone, NumQueues)
<1>1. NumQueues \in Nat /\ \A p \in Queues : p \in Nat
  BY PathAssumption DEF Queues
<1>2. \A k \in 0 .. NumQueues :
        f[k] = IF k = 0 THEN c ELSE Canceled(f[k - 1], k - 1, gone[k - 1])
  <2>1. f = [k \in 0 .. NumQueues |->
               IF k = 0 THEN c ELSE Canceled(f[k - 1], k - 1, gone[k - 1])]
    BY DEF Rounds
  <2> QED
    BY <2>1
<1> DEFINE S == {n \in 0 .. NumQueues : ~Cut(c, f[n], gone, n)}
<1>3. S = {}
  <2> SUFFICES ASSUME S # {}
               PROVE  FALSE
    OBVIOUS
  <2>1. PICK n \in S : \A i \in S : n <= i
    <3>1. S \subseteq Nat
      BY <1>1
    <3> QED
      BY <3>1, Least
  <2>2. n \in 0 .. NumQueues /\ ~Cut(c, f[n], gone, n)
    OBVIOUS
  <2>3. n # 0
    <3>1. Cut(c, c, gone, 0)
      <4>1. \A p \in Queues : ~(p < 0)
        BY DEF Queues
      <4> QED
        BY <4>1 DEF Cut
    <3> QED
      BY <1>1, <1>2, <2>2, <3>1
  <2>4. n - 1 \in Queues /\ n - 1 \in 0 .. NumQueues /\ (n - 1) + 1 = n /\ ~(n <= n - 1)
    <3>1. n \in 0 .. NumQueues
      BY <2>2
    <3> HIDE DEF S
    <3> QED
      BY ONLY <1>1, <2>3, <3>1 DEF Queues
  <2>5. Cut(c, f[n - 1], gone, n - 1)
    <3>1. n - 1 \notin S
      <4> HIDE DEF S
      <4> QED
        BY <2>1, <2>4
    <3> QED
      BY <2>4, <3>1
  <2>6. f[n] = Canceled(f[n - 1], n - 1, gone[n - 1])
    BY <1>2, <2>2, <2>3
  <2> DEFINE k == n - 1
             d == f[k]
             e == f[n]
  <2> HIDE DEF k, d, e
  <2>7. Cut(c, e, gone, k + 1)
    <3>1. k \in Queues /\ Cut(c, d, gone, k) /\ e = Canceled(d, k, gone[k])
      BY <2>4, <2>5, <2>6 DEF k, d, e
    <3> QED
      BY <3>1, CutMore
  <2> QED
    BY <2>2, <2>4, <2>7 DEF k, e
<1>4. NumQueues \in 0 .. NumQueues
  BY <1>1
<1> QED
  BY <1>3, <1>4

\* ob_tx_path_stop: the path stays consistent, every queue is closed and has lost its
\* oldest packets only.
LEMMA StopKeeps ==
  ASSUME Kept, Stop
  PROVE  /\ Kept'
         /\ \E gone \in [Queues -> 0 .. Capacity] : \A q \in Queues :
              /\ gone[q] <= sw[q].pending
              /\ sw'[q].pending = sw[q].pending - gone[q]
              /\ sw'[q].accepting = FALSE
              /\ \A i \in SwIndex : sw'[q].slot[i].gen = sw[q].slot[i].gen
              /\ \A j \in 0 .. sw'[q].pending - 1 :
                   /\ SwAt(sw'[q], j) = SwAt(sw[q], j + gone[q])
                   /\ sw'[q].slot[SwAt(sw'[q], j)] = sw[q].slot[SwAt(sw[q], j + gone[q])]
<1> DEFINE closed == [q \in Queues |-> [sw[q] EXCEPT !.accepting = FALSE]]
           c == [ring |-> ring, sw |-> closed, live |-> live, faulted |-> faulted]
           upTo(gone) == CHOOSE f : f = [n \in 0 .. NumQueues |->
                           IF n = 0 THEN c ELSE Canceled(f[n - 1], n - 1, gone[n - 1])]
<1>1. PICK gone \in StopCounts :
        /\ ring' = upTo(gone)[NumQueues].ring
        /\ sw' = upTo(gone)[NumQueues].sw
        /\ live' = upTo(gone)[NumQueues].live
        /\ faulted' = upTo(gone)[NumQueues].faulted
        /\ running' = FALSE /\ flow' = flow /\ ptr' = ptr
  BY DEF Stop
<1> DEFINE f == upTo(gone)
<1>2. Rounds(f, c, gone, NumQueues)
  <2>1. \E g : Rounds(g, c, gone, NumQueues)
    BY PathAssumption, RoundsExist
  <2> QED
    BY <2>1 DEF Rounds
<1>3. /\ PathOK(ring, sw, live) /\ faulted = FALSE /\ sw \in [Queues -> SwRec]
      /\ flow \in [Queues -> FlowRec] /\ ptr \in Index
  BY DEF Kept, PathOK
<1>4. /\ gone \in [Queues -> 0 .. Capacity]
      /\ \A q \in Queues : gone[q] <= sw[q].pending
  BY DEF StopCounts
<1>5. /\ PathOK(ring, closed, live)
      /\ \A q \in Queues : /\ closed[q].accepting = FALSE /\ closed[q].pending = sw[q].pending
                           /\ closed[q].slot = sw[q].slot /\ closed[q].tail = sw[q].tail
  <2> DEFINE a == [q \in Queues |-> FALSE]
  <2>1. a \in [Queues -> BOOLEAN] /\ closed = WithAccepting(sw, a) /\ \A q \in Queues : a[q] = FALSE
    BY DEF WithAccepting
  <2> HIDE DEF a, closed
  <2> QED
    BY <1>3, <2>1, AcceptingKeeps
<1> HIDE DEF closed
<1>6. /\ c.ring = ring /\ c.sw = closed /\ c.live = live /\ c.faulted = FALSE
  BY <1>3
<1> HIDE DEF c, f
<1>7. \A q \in Queues : gone[q] \in 0 .. c.sw[q].pending
  <2> SUFFICES ASSUME NEW q \in Queues
               PROVE  gone[q] \in 0 .. sw[q].pending
    BY <1>5, <1>6
  <2>1. sw[q].pending \in 0 .. Capacity /\ Capacity \in Nat
    BY <1>3, QueueFields, PathAssumption
  <2>2. gone[q] \in 0 .. Capacity /\ gone[q] <= sw[q].pending
    BY <1>4
  <2> QED
    BY <2>1, <2>2
<1>8. Cut(c, f[NumQueues], gone, NumQueues)
  BY <1>2, <1>5, <1>6, <1>7, RoundsKeep
<1>9. /\ PathOK(ring', sw', live') /\ faulted' = FALSE
      /\ \A q \in Queues : Shifted(closed[q], sw'[q], gone[q])
  <2>1. \A q \in Queues : q < NumQueues
    BY PathAssumption DEF Queues
  <2>2. /\ ring' = f[NumQueues].ring /\ sw' = f[NumQueues].sw
        /\ live' = f[NumQueues].live /\ faulted' = f[NumQueues].faulted
    BY <1>1 DEF f
  <2> QED
    BY <1>6, <1>8, <2>1, <2>2 DEF Cut
<1>10. \A q \in Queues :
         /\ sw'[q].pending = sw[q].pending - gone[q]
         /\ sw'[q].accepting = FALSE
         /\ \A i \in SwIndex : sw'[q].slot[i].gen = sw[q].slot[i].gen
         /\ \A j \in 0 .. sw'[q].pending - 1 :
              /\ SwAt(sw'[q], j) = SwAt(sw[q], j + gone[q])
              /\ sw'[q].slot[SwAt(sw'[q], j)] = sw[q].slot[SwAt(sw[q], j + gone[q])]
  <2> SUFFICES ASSUME NEW q \in Queues
               PROVE  /\ sw'[q].pending = sw[q].pending - gone[q]
                      /\ sw'[q].accepting = FALSE
                      /\ \A i \in SwIndex : sw'[q].slot[i].gen = sw[q].slot[i].gen
                      /\ \A j \in 0 .. sw'[q].pending - 1 :
                           /\ SwAt(sw'[q], j) = SwAt(sw[q], j + gone[q])
                           /\ sw'[q].slot[SwAt(sw'[q], j)] = sw[q].slot[SwAt(sw[q], j + gone[q])]
    OBVIOUS
  <2>1. \A k : SwAt(closed[q], k) = SwAt(sw[q], k)
    BY <1>5 DEF SwAt
  <2>2. Shifted(closed[q], sw'[q], gone[q])
    BY <1>9
  <2> QED
    BY <1>5, <2>1, <2>2 DEF Shifted
<1>11. FlowOK'
  BY <1>1, <1>10 DEF FlowOK
<1>12. Kept'
  BY <1>1, <1>3, <1>9, <1>11 DEF Kept
<1> QED
  BY <1>4, <1>10, <1>12

-----------------------------------------------------------------------------
(***************************************************************************)
(* The invariant holds.                                                     *)
(***************************************************************************)
\* The ring, the queues and the mappings of a path nobody has used.
LEMMA InitKept == Init => Kept
<1> SUFFICES ASSUME Init
             PROVE  Kept
  OBVIOUS
<1>1. /\ 0 \in Index /\ 0 \in SwIndex /\ 0 \in Generation
      /\ Capacity \in Nat \ {0} /\ 0 \in 0 .. Capacity
  BY PathAssumption, RingAssumption DEF Index, SwIndex, Generation
<1>2. /\ ring = [head |-> 0, tail |-> 0, slot |-> [i \in Index |-> EmptySlot(0)]]
      /\ sw = [q \in Queues |-> EmptySw]
      /\ flow = [q \in Queues |-> Open] /\ running = FALSE /\ faulted = FALSE
      /\ live = [q \in Queues |-> [d \in Dmas |-> 0]] /\ ptr = 0
  BY DEF Init, EmptyRing
<1>3. /\ EmptySlot(0) \in RingSlot /\ EmptySlot(0).st = "FREE" /\ EmptySlot(0).gen = 0
      /\ ClearSlot(0) \in SwSlot /\ ClearSlot(0).gen = 0
  BY <1>1, EmptyIsSlot, ClearIsSlot
<1>4. ring \in RingRec /\ OutsideIsFree(ring) /\ TailInUse(ring)
  BY <1>1, <1>2, <1>3 DEF RingRec, Ring, RingSlot, OutsideIsFree, TailInUse
<1>5. /\ EmptySw \in SwRec /\ EmptySw.pending = 0 /\ EmptySw.head = 0 /\ EmptySw.tail = 0
      /\ EmptySw.accepting = FALSE
      /\ \A i \in SwIndex : EmptySw.slot[i] = ClearSlot(EmptySw.slot[i].gen)
  BY <1>1, <1>3 DEF EmptySw, SwRec
<1>6. PendingSlots(EmptySw) = {}
  <2>1. 0 .. EmptySw.pending - 1 = {}
    BY <1>5
  <2> QED
    BY <2>1 DEF PendingSlots
<1>7. QueueOK(EmptySw)
  <2>1. SwAt(EmptySw, 0) = 0
    BY <1>1, <1>5, SwAtIs
  <2> QED
    BY <1>5, <1>6, <2>1 DEF QueueOK
<1>8. sw \in [Queues -> SwRec] /\ (\A q \in Queues : sw[q] = EmptySw /\ QueueOK(sw[q]))
  BY <1>2, <1>5, <1>7
<1>9. Joins(ring, sw) /\ Owned(ring, sw)
  BY <1>2, <1>3, <1>6, <1>8 DEF Joins, Owned
<1>10. live \in [Queues -> [Dmas -> Nat]] /\ Counted(sw, live)
  <2>1. \A d \in Dmas : Mapped(EmptySw, d) = {}
    BY <1>6 DEF Mapped
  <2>2. \A q \in Queues, d \in Dmas : live[q][d] = 0
    BY <1>2
  <2>3. live \in [Queues -> [Dmas -> Nat]]
    BY <1>2
  <2> QED
    BY <1>8, <2>1, <2>2, <2>3, FS_EmptySet DEF Counted
<1>11. PathOK(ring, sw, live)
  BY <1>4, <1>8, <1>9, <1>10 DEF PathOK
<1>12. FlowOK
  BY <1>2, <1>5, <1>8 DEF FlowOK
<1>13. flow \in [Queues -> FlowRec] /\ running \in BOOLEAN /\ ptr \in Index /\ faulted = FALSE
  BY <1>1, <1>2 DEF Open, FlowRec
<1> QED
  BY <1>11, <1>12, <1>13 DEF Kept

\* Every operation of the path keeps it.
LEMMA NextKept == Kept /\ [Next]_vars => Kept'
<1> SUFFICES ASSUME Kept, [Next]_vars
             PROVE  Kept'
  OBVIOUS
<1>1. CASE Start
  BY <1>1, StartKeeps
<1>2. CASE Stop
  BY <1>2, StopKeeps
<1>3. CASE \E q \in Queues, p \in Packets : RefuseFull(q, p)
  BY <1>3, RefuseFullKeeps
<1>4. CASE \E q \in Queues, p \in Packets, d \in Dmas : RefuseNoDescriptor(q, p, d)
  BY <1>4, RefuseNoDescriptorKept
<1>5. CASE \E q \in Queues, p \in Packets, d \in Dmas, e \in BackendErrors :
             RefuseBackend(q, p, d, e)
  BY <1>5, RefuseBackendKept
<1>6. CASE \E q \in Queues, p \in Packets, d \in Dmas, v \in IdValid : Accept(q, p, d, v)
  BY <1>6, AcceptKept
<1>7. CASE \E q \in Queues, t \in Tickets : Complete(q, t)
  BY <1>7, CompleteKept
<1>8. CASE \E q \in Queues, p \in Packets : ReclaimPacket(q, p)
  BY <1>8, ReclaimKept
<1>9. CASE \E q \in Queues, t \in Tickets : CompleteReclaimed(q, t)
  BY <1>9, CompleteReclaimedKept
<1>10. CASE UNCHANGED vars
  BY <1>10 DEF vars, Kept, PathOK, FlowOK
<1> QED
  BY <1>1, <1>2, <1>3, <1>4, <1>5, <1>6, <1>7, <1>8, <1>9, <1>10 DEF Next

\* The inductive invariant of the TX path.
THEOREM Invariance == Spec => []IInv
<1>1. Spec => []Kept
  BY InitKept, NextKept, PTL DEF Spec
<1> QED
  BY <1>1, KeptIs, PTL

\* The variables of the path keep the types of the C structures.
THEOREM TypeCorrect == Spec => []TypeOK
<1>1. IInv => TypeOK
  BY DEF IInv
<1> QED
  BY <1>1, Invariance, PTL

\* ob_tx_path_ring_slot finds what it looks for: packets and ring slots name each other,
\* one to one, through every refusal, completion and partial stop, and the latch for a
\* broken join is never set.
THEOREM SlotsAgree == Spec => []SlotAgreement
<1>1. IInv => SlotAgreement
  <2> SUFFICES ASSUME IInv
               PROVE  SlotAgreement
    OBVIOUS
  <2>1. TypeOK /\ ~faulted /\ PathOK(ring, sw, live)
    BY DEF IInv
  <2>2. /\ ring \in RingRec /\ sw \in [Queues -> SwRec] /\ Owned(ring, sw)
        /\ \A q \in Queues : QueueOK(sw[q])
    BY <2>1 DEF PathOK
  <2>3. ASSUME NEW q \in Queues, NEW i \in PendingSlots(sw[q])
        PROVE  Joint(ring, sw, q, i)
    BY <2>1, Join
  <2>4. ASSUME NEW q \in Queues, NEW i \in SwIndex
        PROVE  IF i \in PendingSlots(sw[q]) THEN Agree(q, i)
               ELSE sw[q].slot[i] = ClearSlot(sw[q].slot[i].gen)
    <3>1. CASE i \in PendingSlots(sw[q])
      <4> DEFINE b == sw[q].slot[i]
                 x == ring.slot[b.ringSlot]
      <4>1. /\ b.st \in {"SUBMITTED", "DMA_RECLAIMED"} /\ b.bound /\ b.ringSlot \in Index
            /\ x \in RingSlot
            /\ x.skb = b.packet /\ x.gen = b.ringGen /\ x.swGen = b.gen /\ x.swSlot = i
            /\ x.queue = q
            /\ b.st = "SUBMITTED" => x.st = "SUBMITTED" /\ x.mapped
            /\ b.st = "DMA_RECLAIMED" => x.st = "RECLAIMED" /\ ~x.mapped
        <5>1. Joint(ring, sw, q, i)
          BY <2>3, <3>1
        <5> QED
          BY <5>1 DEF Joint
      <4>2. x.mapped \in BOOLEAN
        BY <4>1 DEF RingSlot, Slot
      <4>3. Joined(ring, q, i, b)
        BY <4>1 DEF Joined
      <4>4. x.mapped = (b.st = "SUBMITTED")
        <5> HIDE DEF x, b
        <5> QED
          BY ONLY <4>1, <4>2
      <4> QED
        BY <3>1, <4>1, <4>3, <4>4 DEF Agree
    <3>2. CASE i \notin PendingSlots(sw[q])
      BY <2>2, <3>2 DEF QueueOK
    <3> QED
      BY <3>1, <3>2
  <2>5. ASSUME NEW i \in Index
        PROVE  Cardinality(Owners(i)) = IF ring.slot[i].st = "FREE" THEN 0 ELSE 1
    <3> DEFINE rs == ring.slot[i]
    <3>1. ASSUME NEW x \in Owners(i)
          PROVE  /\ x \in Queues \X SwIndex
                 /\ rs.st \in {"SUBMITTED", "RECLAIMED"}
                 /\ rs.queue = x[1] /\ rs.swSlot = x[2]
      <4>1. /\ x \in Queues \X SwIndex /\ x[1] \in Queues
            /\ x[2] \in PendingSlots(sw[x[1]]) /\ sw[x[1]].slot[x[2]].ringSlot = i
        BY DEF Owners
      <4>2. PICK q \in Queues : q = x[1]
        BY <4>1
      <4>3. PICK j \in PendingSlots(sw[q]) : j = x[2]
        BY <4>1, <4>2
      <4>4. Joint(ring, sw, q, j)
        BY <2>3
      <4>5. sw[q].slot[j].ringSlot = i
        BY <4>1, <4>2, <4>3
      <4>6. rs.st \in {"SUBMITTED", "RECLAIMED"} /\ rs.queue = q /\ rs.swSlot = j
        BY <4>4, <4>5 DEF Joint
      <4> QED
        BY <4>1, <4>2, <4>3, <4>6
    <3>2. CASE rs = EmptySlot(rs.gen)
      <4>1. rs.st = "FREE"
        BY <3>2 DEF EmptySlot
      <4>2. Owners(i) = {}
        BY <3>1, <4>1
      <4> QED
        BY <4>1, <4>2, FS_EmptySet
    <3>3. CASE /\ rs.st \in {"SUBMITTED", "RECLAIMED"}
               /\ rs.swSlot \in PendingSlots(sw[rs.queue])
               /\ sw[rs.queue].slot[rs.swSlot].ringSlot = i
      <4>1. rs \in RingSlot
        BY <2>2, RingFields
      <4>2. rs.queue \in Queues /\ rs.swSlot \in SwIndex
        BY <4>1 DEF RingSlot, Slot
      <4>3. <<rs.queue, rs.swSlot>> \in Owners(i)
        BY <3>3, <4>2 DEF Owners
      <4>4. \A x \in Owners(i) : x = <<rs.queue, rs.swSlot>>
        BY <3>1
      <4>5. Owners(i) = {<<rs.queue, rs.swSlot>>}
        BY <4>3, <4>4
      <4>6. Cardinality(Owners(i)) = 1
        BY <4>5, FS_Singleton
      <4> QED
        BY <3>3, <4>6
    <3> QED
      BY <2>2, <3>2, <3>3 DEF Owned
  <2> QED
    BY <2>1, <2>4, <2>5 DEF SlotAgreement
<1> QED
  BY <1>1, Invariance, PTL

\* Out-of-order completions cost the ring no capacity: outside the window nothing is in
\* use and the consumer rests on the oldest packet.
THEOREM ConsumerRestsAtOldest == Spec => []ConsumerAtOldest
<1>1. IInv => ConsumerAtOldest
  <2> SUFFICES ASSUME IInv
               PROVE  ConsumerAtOldest
    OBVIOUS
  <2>1. ring \in RingRec /\ OutsideIsFree(ring) /\ TailInUse(ring)
    BY DEF IInv, PathOK
  <2>2. ring.head \in Index /\ ring.tail \in Index
    BY <2>1, RingFields
  <2>3. \A i \in Index : i \in Window(ring) <=> Inside(ring.head, ring.tail, i)
    BY <2>2, WindowIs
  <2> QED
    BY <2>1, <2>3 DEF ConsumerAtOldest, OutsideIsFree, TailInUse
<1> QED
  BY <1>1, Invariance, PTL

\* The backend holds exactly the DMA mappings of the packets the device may read.
THEOREM MappingsAreExact == Spec => []MappingsExact
<1>1. IInv => MappingsExact
  BY DEF IInv, PathOK, Counted, Mapped, MappingsExact
<1> QED
  BY <1>1, Invariance, PTL

\* While the path runs, mac80211 has been told to stop every full queue.
THEOREM FullQueuesAreStopped == Spec => []FullQueueIsStopped
<1>1. IInv => FullQueueIsStopped
  BY DEF IInv, FlowOK, FullQueueIsStopped
<1> QED
  BY <1>1, Invariance, PTL

-----------------------------------------------------------------------------
(***************************************************************************)
(* The path implements TxQueues.  A queue record s stands for the sequence  *)
(* of its packets, the tickets spent and whether it is open.                *)
(***************************************************************************)
AnEntry == [packet : Packets \cup {NoPacket}, ticket : Tickets, reclaimed : BOOLEAN]
EntryAt(s, i) ==
  [packet |-> s.slot[i].packet, ticket |-> [slot |-> i, gen |-> s.slot[i].gen],
   reclaimed |-> s.slot[i].st = "DMA_RECLAIMED"]
QueueOf(s) == [k \in 1 .. s.pending |-> EntryAt(s, SwAt(s, k - 1))]
SpentOf(s) == {t \in Tickets : t.gen > 0 /\ t.gen <= s.slot[t.slot].gen}

\* The packets of a queue as a sequence.
LEMMA QueueOfIs ==
  ASSUME NEW s \in SwRec
  PROVE  /\ QueueOf(s) \in Seq(AnEntry)
         /\ Len(QueueOf(s)) = s.pending
         /\ s.pending \in 0 .. Capacity /\ Capacity \in Nat
         /\ \A k \in 1 .. s.pending : /\ QueueOf(s)[k] = EntryAt(s, SwAt(s, k - 1))
                                      /\ SwAt(s, k - 1) \in PendingSlots(s)
<1>1. /\ s.tail \in SwIndex /\ s.pending \in 0 .. Capacity /\ Capacity \in Nat
      /\ PendingSlots(s) \subseteq SwIndex /\ \A i \in SwIndex : s.slot[i] \in SwSlot
  BY QueueFields, PathAssumption
<1>2. \A k \in 1 .. s.pending : SwAt(s, k - 1) \in PendingSlots(s)
  <2>1. \A k \in 1 .. s.pending : k - 1 \in 0 .. s.pending - 1
    BY <1>1
  <2> QED
    BY <2>1 DEF PendingSlots
<1>3. \A i \in SwIndex : EntryAt(s, i) \in AnEntry
  <2> SUFFICES ASSUME NEW i \in SwIndex
               PROVE  EntryAt(s, i) \in AnEntry
    OBVIOUS
  <2>1. s.slot[i].packet \in Packets \cup {NoPacket} /\ s.slot[i].gen \in Generation
    BY <1>1 DEF SwSlot
  <2>2. (s.slot[i].st = "DMA_RECLAIMED") \in BOOLEAN
    OBVIOUS
  <2> QED
    BY <2>1, <2>2 DEF EntryAt, AnEntry, Tickets
<1>4. \A k \in 1 .. s.pending : EntryAt(s, SwAt(s, k - 1)) \in AnEntry
  BY <1>1, <1>2, <1>3
<1>5. QueueOf(s) \in [1 .. s.pending -> AnEntry]
  BY <1>4 DEF QueueOf
<1>6. QueueOf(s) \in Seq(AnEntry) /\ Len(QueueOf(s)) = s.pending
  BY <1>1, <1>5
<1>7. \A k \in 1 .. s.pending : QueueOf(s)[k] = EntryAt(s, SwAt(s, k - 1))
  BY DEF QueueOf
<1> QED
  BY <1>1, <1>2, <1>6, <1>7

\* The oldest packet leaves.
LEMMA QueueDropped ==
  ASSUME NEW s \in SwRec, QueueOK(s), s.pending > 0
  PROVE  /\ QueueOf(s) # <<>>
         /\ QueueOf(DropOldest(s)) = Tail(QueueOf(s))
         /\ SpentOf(DropOldest(s)) = SpentOf(s)
         /\ DropOldest(s).accepting = s.accepting
<1> DEFINE t == DropOldest(s)
           Q == QueueOf(s)
           R == QueueOf(t)
<1>1. /\ t \in SwRec /\ t.accepting = s.accepting /\ t.pending = s.pending - 1
      /\ PendingSlots(t) = PendingSlots(s) \ {s.tail}
      /\ t.slot = [s.slot EXCEPT ![s.tail] = ClearSlot(s.slot[s.tail].gen)]
      /\ \A k \in 0 .. Capacity - 1 : SwAt(t, k) = SwAt(s, k + 1)
  BY DropQueue
<1>2. s.tail \in SwIndex /\ s.slot \in [SwIndex -> SwSlot] /\ PendingSlots(s) \subseteq SwIndex
  BY QueueFields
<1> HIDE DEF t
<1>3. /\ Q \in Seq(AnEntry) /\ Len(Q) = s.pending /\ s.pending \in 0 .. Capacity
      /\ Capacity \in Nat
      /\ \A k \in 1 .. s.pending : Q[k] = EntryAt(s, SwAt(s, k - 1))
  BY QueueOfIs
<1>4. /\ R \in Seq(AnEntry) /\ Len(R) = t.pending
      /\ \A k \in 1 .. t.pending : /\ R[k] = EntryAt(t, SwAt(t, k - 1))
                                   /\ SwAt(t, k - 1) \in PendingSlots(t)
  BY <1>1, QueueOfIs
<1> HIDE DEF Q, R
<1>5. Q # <<>>
  BY <1>3, EmptySeq
<1>6. /\ Tail(Q) \in Seq(AnEntry) /\ Len(Tail(Q)) = Len(Q) - 1
      /\ \A i \in 1 .. Len(Tail(Q)) : Tail(Q)[i] = Q[i + 1]
  BY <1>3, <1>5, HeadTailProperties
<1>7. ASSUME NEW k \in 1 .. Len(R)
      PROVE  R[k] = Tail(Q)[k]
  <2>1. /\ k \in 1 .. t.pending /\ k \in 1 .. Len(Tail(Q)) /\ k + 1 \in 1 .. s.pending
        /\ k - 1 \in 0 .. Capacity - 1 /\ (k - 1) + 1 = (k + 1) - 1
    BY <1>1, <1>3, <1>4, <1>6
  <2> DEFINE i == SwAt(t, k - 1)
  <2>2. i = SwAt(s, (k + 1) - 1)
    BY <1>1, <2>1
  <2>3. R[k] = EntryAt(t, i) /\ i \in PendingSlots(t)
    BY <1>4, <2>1
  <2>4. Tail(Q)[k] = EntryAt(s, i)
    BY <1>3, <1>6, <2>1, <2>2
  <2> HIDE DEF i
  <2>5. t.slot[i] = s.slot[i]
    BY <1>1, <1>2, <2>3
  <2> QED
    BY <2>3, <2>4, <2>5 DEF EntryAt
<1>8. R = Tail(Q)
  <2>1. Len(R) = Len(Tail(Q))
    BY <1>1, <1>3, <1>4, <1>6
  <2> QED
    BY <1>4, <1>6, <1>7, <2>1, SeqEqual
<1>9. SpentOf(t) = SpentOf(s)
  <2>1. \A i \in SwIndex : t.slot[i].gen = s.slot[i].gen
    BY <1>1, <1>2 DEF ClearSlot
  <2> QED
    BY <2>1 DEF SpentOf, Tickets
<1> QED
  BY <1>1, <1>5, <1>8, <1>9 DEF t, Q, R

\* A queue whose pending slots have not changed stands for the same sequence.
LEMMA QueueSame ==
  ASSUME NEW s \in SwRec, NEW t \in SwRec, t.pending = s.pending, t.tail = s.tail,
         \A i \in PendingSlots(s) : t.slot[i] = s.slot[i]
  PROVE  QueueOf(t) = QueueOf(s)
<1>1. \A k \in 1 .. s.pending : SwAt(t, k - 1) = SwAt(s, k - 1)
  BY DEF SwAt
<1>2. \A k \in 1 .. s.pending : SwAt(s, k - 1) \in PendingSlots(s)
  BY QueueOfIs
<1>3. \A k \in 1 .. s.pending : EntryAt(t, SwAt(t, k - 1)) = EntryAt(s, SwAt(s, k - 1))
  BY <1>1, <1>2 DEF EntryAt
<1> QED
  BY <1>3 DEF QueueOf

\* A submission spends the next ticket of its slot, and no other.
LEMMA SpentMore ==
  ASSUME NEW s, s.slot \in [SwIndex -> SwSlot], NEW h \in SwIndex,
         NEW b, b.gen \in Generation, b.gen = s.slot[h].gen + 1,
         NEW t, t.slot = [s.slot EXCEPT ![h] = b],
         NEW ticket, ticket = [slot |-> h, gen |-> b.gen]
  PROVE  /\ ticket \in Tickets /\ ticket \notin SpentOf(s)
         /\ SpentOf(t) = SpentOf(s) \cup {ticket}
<1>1. ticket \in Tickets /\ ticket.slot = h /\ ticket.gen = b.gen
  BY DEF Tickets
<1>2. b.gen \in Nat /\ s.slot[h].gen \in Nat
  BY RingAssumption DEF Generation, SwSlot
<1>3. ticket \notin SpentOf(s)
  BY <1>1, <1>2 DEF SpentOf
<1>4. ASSUME NEW x \in Tickets
      PROVE  x \in SpentOf(t) <=> x \in SpentOf(s) \cup {ticket}
  <2>1. x = [slot |-> x.slot, gen |-> x.gen] /\ x.slot \in SwIndex /\ x.gen \in Nat
    BY RingAssumption DEF Tickets, Generation
  <2>2. CASE x.slot # h
    <3>1. t.slot[x.slot] = s.slot[x.slot]
      BY <2>1, <2>2
    <3> QED
      BY <1>1, <2>2, <3>1 DEF SpentOf
  <2>3. CASE x.slot = h
    <3>1. t.slot[x.slot].gen = b.gen
      BY <2>3
    <3>2. x = ticket <=> x.gen = b.gen
      BY <1>1, <2>1, <2>3
    <3>3. x.gen > 0 /\ x.gen <= b.gen <=>
            (x.gen > 0 /\ x.gen <= s.slot[h].gen) \/ x.gen = b.gen
      <4>1. b.gen = s.slot[h].gen + 1
        OBVIOUS
      <4> QED
        BY ONLY <1>2, <2>1, <4>1
    <3> QED
      BY <2>3, <3>1, <3>2, <3>3 DEF SpentOf
  <2> QED
    BY <2>2, <2>3
<1>5. SpentOf(t) \subseteq Tickets /\ SpentOf(s) \cup {ticket} \subseteq Tickets
  BY <1>1 DEF SpentOf
<1> QED
  BY <1>1, <1>3, <1>4, <1>5

\* The queue s with the slot b filled at its head.
Added(s, b) ==
  [head |-> NextSw(s.head), tail |-> s.tail, pending |-> s.pending + 1,
   accepting |-> s.accepting, slot |-> [s.slot EXCEPT ![s.head] = b]]

\* A packet is added at the head with a new ticket.
LEMMA QueueAdded ==
  ASSUME NEW s \in SwRec, QueueOK(s), s.pending < Capacity,
         NEW b \in SwSlot, b.st = "SUBMITTED", b.packet \in Packets,
         ~PacketPending(s, b.packet), b.gen = s.slot[s.head].gen + 1,
         NEW t, t = Added(s, b),
         NEW ticket, ticket = [slot |-> s.head, gen |-> b.gen]
  PROVE  /\ ticket \in Tickets /\ ticket \notin SpentOf(s)
         /\ SpentOf(t) = SpentOf(s) \cup {ticket}
         /\ Len(QueueOf(s)) < Capacity
         /\ \A k \in DOMAIN QueueOf(s) : QueueOf(s)[k].packet # b.packet
         /\ QueueOf(t) = Append(QueueOf(s), [packet |-> b.packet, ticket |-> ticket,
                                             reclaimed |-> FALSE])
<1> DEFINE Q == QueueOf(s)
           R == QueueOf(t)
           e == [packet |-> b.packet, ticket |-> ticket, reclaimed |-> FALSE]
<1>1. /\ t \in SwRec /\ s.head \notin PendingSlots(s)
      /\ PendingSlots(t) = PendingSlots(s) \cup {s.head}
      /\ \A k : SwAt(t, k) = SwAt(s, k)
  BY AddQueue DEF Added
<1>2. /\ s.head \in SwIndex /\ s.slot \in [SwIndex -> SwSlot] /\ PendingSlots(s) \subseteq SwIndex
      /\ \A i \in SwIndex : s.slot[i].gen \in Generation
  BY QueueFields
<1>3. b.gen \in Generation
  BY DEF SwSlot
<1>4. ticket \in Tickets /\ ticket.slot = s.head /\ ticket.gen = b.gen
  BY <1>2, <1>3 DEF Tickets
<1>5. /\ t.pending = s.pending + 1 /\ t.slot = [s.slot EXCEPT ![s.head] = b]
  BY DEF Added
<1> HIDE DEF Q, R, e
<1>6. /\ Q \in Seq(AnEntry) /\ Len(Q) = s.pending /\ s.pending \in 0 .. Capacity
      /\ Capacity \in Nat
      /\ \A k \in 1 .. s.pending : /\ Q[k] = EntryAt(s, SwAt(s, k - 1))
                                   /\ SwAt(s, k - 1) \in PendingSlots(s)
  BY QueueOfIs DEF Q
<1>7. /\ R \in Seq(AnEntry) /\ Len(R) = t.pending
      /\ \A k \in 1 .. t.pending : R[k] = EntryAt(t, SwAt(t, k - 1))
  BY <1>1, QueueOfIs DEF R
<1>8. e \in AnEntry
  BY <1>4 DEF e, AnEntry
<1>9. /\ Append(Q, e) \in Seq(AnEntry) /\ Len(Append(Q, e)) = Len(Q) + 1
      /\ \A k \in 1 .. Len(Q) : Append(Q, e)[k] = Q[k]
      /\ Append(Q, e)[Len(Q) + 1] = e
  BY <1>6, <1>8, AppendProperties
<1>10. ASSUME NEW k \in 1 .. Len(R)
       PROVE  R[k] = Append(Q, e)[k]
  <2>1. k \in 1 .. t.pending /\ R[k] = EntryAt(t, SwAt(t, k - 1))
    BY <1>7
  <2>2. CASE k = s.pending + 1
    <3>1. SwAt(t, k - 1) = s.head
      <4>1. k - 1 = s.pending
        BY <1>6, <2>2
      <4>2. s.head = SwAt(s, s.pending)
        BY DEF QueueOK
      <4> QED
        BY <1>1, <4>1, <4>2
    <3>2. t.slot[s.head] = b
      BY <1>2, <1>5
    <3>3. EntryAt(t, s.head) = e
      <4>1. (b.st = "DMA_RECLAIMED") = FALSE
        OBVIOUS
      <4> QED
        BY <3>2, <4>1 DEF EntryAt, e
    <3> QED
      BY <1>6, <1>9, <2>1, <2>2, <3>1, <3>3
  <2>3. CASE k # s.pending + 1
    <3>1. k \in 1 .. s.pending
      <4>1. k \in 1 .. s.pending + 1 /\ s.pending \in Nat
        BY <1>5, <1>6, <2>1
      <4> QED
        BY ONLY <2>3, <4>1
    <3>2. SwAt(t, k - 1) = SwAt(s, k - 1) /\ SwAt(s, k - 1) \in PendingSlots(s)
      BY <1>1, <1>6, <3>1
    <3> DEFINE i == SwAt(s, k - 1)
    <3>3. i \in PendingSlots(s) /\ R[k] = EntryAt(t, i) /\ Q[k] = EntryAt(s, i)
      BY <1>6, <2>1, <3>1, <3>2
    <3> HIDE DEF i
    <3>4. t.slot[i] = s.slot[i]
      BY <1>1, <1>2, <1>5, <3>3
    <3>5. R[k] = Q[k]
      BY <3>3, <3>4 DEF EntryAt
    <3> QED
      BY <1>6, <1>9, <3>1, <3>5
  <2> QED
    BY <2>2, <2>3
<1>11. R = Append(Q, e)
  <2>1. Len(R) = Len(Append(Q, e))
    BY <1>5, <1>6, <1>7, <1>9
  <2> QED
    BY <1>7, <1>9, <1>10, <2>1, SeqEqual
<1>12. ASSUME NEW k \in DOMAIN Q
       PROVE  Q[k].packet # b.packet
  <2>1. k \in 1 .. s.pending
    BY <1>6, LenProperties
  <2> DEFINE i == SwAt(s, k - 1)
  <2>2. i \in PendingSlots(s) /\ Q[k] = EntryAt(s, i)
    BY <1>6, <2>1
  <2> HIDE DEF i
  <2> QED
    BY <2>2 DEF EntryAt, PacketPending
<1>13. ticket \notin SpentOf(s) /\ SpentOf(t) = SpentOf(s) \cup {ticket}
  <2>1. b.gen \in Generation /\ b.gen = s.slot[s.head].gen + 1
        /\ s.slot \in [SwIndex -> SwSlot]
    BY <1>2, <1>3
  <2>2. /\ t.slot = [s.slot EXCEPT ![s.head] = b] /\ s.head \in SwIndex
        /\ ticket = [slot |-> s.head, gen |-> b.gen]
    BY <1>2, <1>5
  <2> QED
    BY ONLY <2>1, <2>2, SpentMore
<1>14. Len(Q) < Capacity
  BY <1>6
<1> QED
  BY <1>4, <1>11, <1>12, <1>13, <1>14 DEF Q, R, e

\* The queue s with the generation g spent on its slot h.
Spent(s, h, g) == [s EXCEPT !.slot[h] = ClearSlot(g)]

\* A refused submission spends a ticket and leaves the packets alone.
LEMMA QueueSpent ==
  ASSUME NEW s \in SwRec, QueueOK(s), NEW h \in SwIndex \ PendingSlots(s),
         NEW g \in Generation, g = s.slot[h].gen + 1,
         NEW t, t = Spent(s, h, g),
         NEW ticket, ticket = [slot |-> h, gen |-> g]
  PROVE  /\ QueueOf(t) = QueueOf(s) /\ t.accepting = s.accepting
         /\ ticket \in Tickets /\ ticket \notin SpentOf(s)
         /\ SpentOf(t) = SpentOf(s) \cup {ticket}
<1>1. /\ t \in SwRec /\ t.accepting = s.accepting /\ t.pending = s.pending
      /\ t.slot = [s.slot EXCEPT ![h] = ClearSlot(g)]
  BY SpendQueue DEF Spent
<1>2. t.tail = s.tail
  BY DEF SwRec, Spent
<1>3. s.slot \in [SwIndex -> SwSlot] /\ PendingSlots(s) \subseteq SwIndex
  BY QueueFields
<1>4. ClearSlot(g).gen = g
  BY ClearIsSlot
<1>5. QueueOf(t) = QueueOf(s)
  <2>1. \A i \in PendingSlots(s) : t.slot[i] = s.slot[i]
    BY <1>1, <1>3
  <2> QED
    BY <1>1, <1>2, <2>1, QueueSame
<1> DEFINE b == ClearSlot(g)
<1>6. /\ ticket \in Tickets /\ ticket \notin SpentOf(s)
      /\ SpentOf(t) = SpentOf(s) \cup {ticket}
  <2>1. /\ b.gen \in Generation /\ b.gen = s.slot[h].gen + 1 /\ h \in SwIndex
        /\ t.slot = [s.slot EXCEPT ![h] = b] /\ ticket = [slot |-> h, gen |-> b.gen]
    BY <1>1, <1>4
  <2> HIDE DEF b
  <2> QED
    BY ONLY <1>3, <2>1, SpentMore
<1> QED
  BY <1>1, <1>5, <1>6

\* The oldest packet loses its buffer and stays.
LEMMA QueueReclaimed ==
  ASSUME NEW s \in SwRec, QueueOK(s), s.pending > 0, s.slot[s.tail].st = "SUBMITTED"
  PROVE  /\ QueueOf(s) # <<>> /\ ~Head(QueueOf(s)).reclaimed
         /\ QueueOf(Reclaimed(s)) = [QueueOf(s) EXCEPT ![1].reclaimed = TRUE]
         /\ SpentOf(Reclaimed(s)) = SpentOf(s)
         /\ Reclaimed(s).accepting = s.accepting
<1> DEFINE t == Reclaimed(s)
           Q == QueueOf(s)
           R == QueueOf(t)
           b == [s.slot[s.tail] EXCEPT !.dma = 0, !.st = "DMA_RECLAIMED"]
<1>1. /\ t \in SwRec /\ t.accepting = s.accepting /\ t.pending = s.pending
      /\ t.slot = [s.slot EXCEPT ![s.tail] = b]
      /\ \A k : SwAt(t, k) = SwAt(s, k)
  BY ReclaimQueue
<1>2. /\ s.tail \in SwIndex /\ s.slot \in [SwIndex -> SwSlot]
      /\ PendingSlots(s) \subseteq SwIndex /\ s.pending \in 1 .. Capacity /\ Capacity \in Nat
  BY QueueFields, PathAssumption
<1>3. b.packet = s.slot[s.tail].packet /\ b.gen = s.slot[s.tail].gen /\ b.st = "DMA_RECLAIMED"
  BY <1>2 DEF SwSlot
<1> HIDE DEF t, b, Q, R
<1>4. /\ Q \in Seq(AnEntry) /\ Len(Q) = s.pending
      /\ \A k \in 1 .. s.pending : Q[k] = EntryAt(s, SwAt(s, k - 1))
  BY QueueOfIs DEF Q
<1>5. /\ R \in Seq(AnEntry) /\ Len(R) = s.pending
      /\ \A k \in 1 .. s.pending : R[k] = EntryAt(t, SwAt(t, k - 1))
  BY <1>1, QueueOfIs DEF R
<1>6. SwAt(s, 0) = s.tail
  BY <1>2, SwAtIs DEF SwIndex
<1>7. 1 \in 1 .. s.pending /\ Q[1] = EntryAt(s, s.tail) /\ R[1] = EntryAt(t, s.tail)
  <2>1. 1 \in 1 .. s.pending /\ 1 - 1 = 0
    BY <1>2
  <2> QED
    BY <1>1, <1>4, <1>5, <1>6, <2>1
<1>8. Q # <<>> /\ Head(Q) = Q[1]
  BY <1>2, <1>4, EmptySeq
<1>9. Q[1] = [packet |-> s.slot[s.tail].packet,
              ticket |-> [slot |-> s.tail, gen |-> s.slot[s.tail].gen], reclaimed |-> FALSE]
  <2>1. (s.slot[s.tail].st = "DMA_RECLAIMED") = FALSE
    OBVIOUS
  <2> QED
    BY <1>7, <2>1 DEF EntryAt
<1>10. R[1] = [Q[1] EXCEPT !.reclaimed = TRUE]
  <2>1. t.slot[s.tail] = b
    BY <1>1, <1>2
  <2>2. (b.st = "DMA_RECLAIMED") = TRUE
    BY <1>3
  <2>3. R[1] = [packet |-> b.packet, ticket |-> [slot |-> s.tail, gen |-> b.gen],
                reclaimed |-> TRUE]
    BY <1>7, <2>1, <2>2 DEF EntryAt
  <2> QED
    <3> DEFINE x == Q[1]
               e == [x EXCEPT !.reclaimed = TRUE]
               y == R[1]
    <3>1. x \in AnEntry /\ y \in AnEntry
      BY <1>4, <1>5, <1>7, ElementOfSeq
    <3>2. y.packet = x.packet /\ y.ticket = x.ticket /\ y.reclaimed
      BY <1>3, <1>9, <2>3
    <3> HIDE DEF x, y
    <3>3. e \in AnEntry /\ e.packet = x.packet /\ e.ticket = x.ticket /\ e.reclaimed
      BY ONLY <3>1 DEF AnEntry
    <3> HIDE DEF e
    <3>4. y = e
      BY ONLY <3>1, <3>2, <3>3 DEF AnEntry
    <3> QED
      BY <3>4 DEF x, y, e
<1>11. ASSUME NEW k \in 2 .. s.pending
       PROVE  R[k] = Q[k]
  <2>1. k \in 1 .. s.pending /\ k - 1 \in 0 .. Capacity /\ k - 1 \in 1 .. Capacity - 1
    BY <1>2
  <2> DEFINE i == SwAt(s, k - 1)
  <2>2. Q[k] = EntryAt(s, i) /\ R[k] = EntryAt(t, i)
    BY <1>1, <1>4, <1>5, <2>1
  <2>3. i \in SwIndex /\ i # s.tail
    <3>1. s.tail \in 0 .. Capacity - 1
      BY <1>2 DEF SwIndex
    <3>2. /\ i \in SwIndex
          /\ i = IF s.tail + (k - 1) < Capacity THEN s.tail + (k - 1)
                 ELSE s.tail + (k - 1) - Capacity
      BY <1>2, <2>1, SwAtIs
    <3> QED
      BY <1>2, <2>1, <3>1, <3>2
  <2> HIDE DEF i
  <2>4. t.slot[i] = s.slot[i]
    BY <1>1, <1>2, <2>3
  <2> QED
    BY <2>2, <2>4 DEF EntryAt
<1>12. R = [Q EXCEPT ![1].reclaimed = TRUE]
  <2> DEFINE e == [Q[1] EXCEPT !.reclaimed = TRUE]
             X == [Q EXCEPT ![1] = e]
  <2>1. e = R[1] /\ e \in AnEntry
    BY <1>5, <1>7, <1>10, ElementOfSeq
  <2> HIDE DEF e
  <2>2. /\ X \in Seq(AnEntry) /\ Len(X) = Len(Q)
        /\ \A j \in 1 .. Len(Q) : X[j] = IF j = 1 THEN e ELSE Q[j]
    BY <1>4, <1>7, <2>1, ExceptSeq
  <2> HIDE DEF X
  <2>3. \A j \in 1 .. Len(R) : R[j] = X[j]
    <3>1. \A j \in 1 .. s.pending : j = 1 \/ j \in 2 .. s.pending
      BY <1>2
    <3> QED
      BY <1>4, <1>5, <1>11, <2>1, <2>2, <3>1
  <2>4. R = X
    BY <1>4, <1>5, <2>2, <2>3, SeqEqual
  <2> QED
    BY <2>4 DEF X, e
<1>13. SpentOf(t) = SpentOf(s)
  <2>1. \A i \in SwIndex : t.slot[i].gen = s.slot[i].gen
    BY <1>1, <1>2, <1>3
  <2> QED
    BY <2>1 DEF SpentOf, Tickets
<1> QED
  BY <1>1, <1>8, <1>9, <1>12, <1>13 DEF t, Q, R

\* The oldest packets have gone and the rest is as it was.
LEMMA QueueShifted ==
  ASSUME NEW s \in SwRec, NEW t \in SwRec, NEW k \in 0 .. Capacity, k <= s.pending,
         t.pending = s.pending - k,
         \A i \in SwIndex : t.slot[i].gen = s.slot[i].gen,
         \A j \in 0 .. t.pending - 1 :
           /\ SwAt(t, j) = SwAt(s, j + k)
           /\ t.slot[SwAt(t, j)] = s.slot[SwAt(s, j + k)]
  PROVE  /\ k <= Len(QueueOf(s))
         /\ QueueOf(t) = SubSeq(QueueOf(s), k + 1, Len(QueueOf(s)))
         /\ SpentOf(t) = SpentOf(s)
<1> DEFINE Q == QueueOf(s)
           R == QueueOf(t)
           n == Len(Q)
           X == SubSeq(Q, k + 1, n)
<1> HIDE DEF Q, R
<1>1. /\ Q \in Seq(AnEntry) /\ n = s.pending /\ s.pending \in 0 .. Capacity /\ Capacity \in Nat
      /\ \A j \in 1 .. s.pending : Q[j] = EntryAt(s, SwAt(s, j - 1))
  BY QueueOfIs DEF Q
<1>2. /\ R \in Seq(AnEntry) /\ Len(R) = t.pending
      /\ \A j \in 1 .. t.pending : R[j] = EntryAt(t, SwAt(t, j - 1))
  BY QueueOfIs DEF R
<1>3. k \in Nat /\ n \in Nat /\ k + 1 \in Int /\ n \in Int /\ k <= n
  BY <1>1
<1>4. \A j \in k + 1 .. n : Q[j] \in AnEntry
  <2>1. \A j \in k + 1 .. n : j \in 1 .. Len(Q)
    BY <1>3
  <2> QED
    BY <1>1, <2>1, ElementOfSeq
<1>5. /\ X \in Seq(AnEntry)
      /\ Len(X) = IF k + 1 <= n THEN n - (k + 1) + 1 ELSE 0
      /\ \A j \in 1 .. n - (k + 1) + 1 : X[j] = Q[(k + 1) + j - 1]
  <2>1. PICK m \in Int : m = k + 1
    BY <1>3
  <2>2. /\ SubSeq(Q, m, n) \in Seq(AnEntry)
        /\ Len(SubSeq(Q, m, n)) = IF m <= n THEN n - m + 1 ELSE 0
        /\ \A j \in 1 .. n - m + 1 : SubSeq(Q, m, n)[j] = Q[m + j - 1]
    BY <1>3, <1>4, <2>1, SubSeqProperties
  <2> QED
    BY <2>1, <2>2
<1> HIDE DEF X, n
<1>6. Len(X) = t.pending /\ n - (k + 1) + 1 = t.pending
  BY <1>1, <1>3, <1>5
<1>7. ASSUME NEW j \in 1 .. t.pending
      PROVE  R[j] = X[j]
  <2>1. /\ j - 1 \in 0 .. t.pending - 1 /\ j + k \in 1 .. s.pending
        /\ (k + 1) + j - 1 = j + k /\ (j - 1) + k = (j + k) - 1
    BY <1>1, <1>3
  <2>2. X[j] = EntryAt(s, SwAt(s, (j + k) - 1))
    BY <1>1, <1>5, <1>6, <2>1
  <2>3. /\ SwAt(t, j - 1) = SwAt(s, (j - 1) + k)
        /\ t.slot[SwAt(t, j - 1)] = s.slot[SwAt(s, (j - 1) + k)]
    BY <2>1
  <2> DEFINE i == SwAt(t, j - 1)
  <2>4. X[j] = EntryAt(s, i) /\ R[j] = EntryAt(t, i) /\ t.slot[i] = s.slot[i]
    BY <1>2, <2>1, <2>2, <2>3
  <2> HIDE DEF i
  <2> QED
    BY <2>4 DEF EntryAt
<1>8. R = X
  BY <1>2, <1>5, <1>6, <1>7, SeqEqual
<1>9. SpentOf(t) = SpentOf(s)
  BY DEF SpentOf, Tickets
<1> QED
  BY <1>1, <1>3, <1>8, <1>9 DEF X, R, Q, n

\* What the variables of TxQueues stand for.
QueuesOf(s) == [q \in Queues |-> QueueOf(s[q])]
SpentsOf(s) == [q \in Queues |-> SpentOf(s[q])]
OpensOf(s) == [q \in Queues |-> s[q].accepting]
Changed(f, q, v) == [f EXCEPT ![q] = v]
With(S, x) == S \cup {x}

\* The refinement mapping of TxPath, now and after a step.
LEMMA Views ==
  /\ [q \in Queues |-> OwnedQueue(q)] = QueuesOf(sw)
  /\ [q \in Queues |-> {t \in Tickets : t.gen > 0 /\ t.gen <= sw[q].slot[t.slot].gen}]
       = SpentsOf(sw)
  /\ [q \in Queues |-> sw[q].accepting] = OpensOf(sw)
  /\ [q \in Queues |-> OwnedQueue(q)]' = QueuesOf(sw')
  /\ [q \in Queues |-> {t \in Tickets : t.gen > 0 /\ t.gen <= sw[q].slot[t.slot].gen}]'
       = SpentsOf(sw')
  /\ [q \in Queues |-> sw[q].accepting]' = OpensOf(sw')
<1>1. \A q \in Queues : OwnedQueue(q) = QueueOf(sw[q])
  BY DEF OwnedQueue, QueueOf, EntryAt
<1>2. \A q \in Queues : OwnedQueue(q)' = QueueOf(sw'[q])
  BY DEF OwnedQueue, QueueOf, EntryAt
<1> QED
  BY <1>1, <1>2 DEF QueuesOf, SpentsOf, SpentOf, OpensOf

\* Leaving from the head of a queue.
LEMMA AbstractFinish ==
  ASSUME NEW q \in Queues, QueuesOf(sw)[q] # <<>>,
         QueuesOf(sw') = Changed(QueuesOf(sw), q, Tail(QueuesOf(sw)[q])),
         SpentsOf(sw') = SpentsOf(sw), OpensOf(sw') = OpensOf(sw)
  PROVE  Abstract!Finish(q)
BY Views DEF Abstract!Finish, Changed

\* Entering a queue with a ticket never issued before.
LEMMA AbstractEnqueue ==
  ASSUME NEW q \in Queues, NEW packet, NEW ticket,
         NEW e, e = [packet |-> packet, ticket |-> ticket, reclaimed |-> FALSE],
         OpensOf(sw)[q], Len(QueuesOf(sw)[q]) < Capacity,
         \A k \in DOMAIN QueuesOf(sw)[q] : QueuesOf(sw)[q][k].packet # packet,
         ticket \notin SpentsOf(sw)[q],
         QueuesOf(sw') = Changed(QueuesOf(sw), q, Append(QueuesOf(sw)[q], e)),
         SpentsOf(sw') = Changed(SpentsOf(sw), q, With(SpentsOf(sw)[q], ticket)),
         OpensOf(sw') = OpensOf(sw)
  PROVE  Abstract!Enqueue(q, packet, ticket)
<1>1. packet \notin Abstract!Owned(q)
  BY Views DEF Abstract!Owned
<1>2. QueuesOf(sw') = [QueuesOf(sw) EXCEPT ![q] =
                         Append(@, [packet |-> packet, ticket |-> ticket, reclaimed |-> FALSE])]
  BY DEF Changed
<1> QED
  BY <1>1, <1>2, Views DEF Abstract!Enqueue, Changed, With

\* A submission that fails.
LEMMA AbstractFail ==
  ASSUME NEW q \in Queues, NEW ticket, OpensOf(sw)[q], ticket \notin SpentsOf(sw)[q],
         QueuesOf(sw') = QueuesOf(sw),
         SpentsOf(sw') = Changed(SpentsOf(sw), q, With(SpentsOf(sw)[q], ticket)),
         OpensOf(sw') = OpensOf(sw)
  PROVE  Abstract!Fail(q, ticket)
BY Views DEF Abstract!Fail, Changed, With

\* The oldest packet loses its mapping.
LEMMA AbstractReclaim ==
  ASSUME NEW q \in Queues, QueuesOf(sw)[q] # <<>>, ~Head(QueuesOf(sw)[q]).reclaimed,
         NEW e, e = [QueuesOf(sw)[q] EXCEPT ![1].reclaimed = TRUE],
         QueuesOf(sw') = Changed(QueuesOf(sw), q, e),
         SpentsOf(sw') = SpentsOf(sw), OpensOf(sw') = OpensOf(sw)
  PROVE  Abstract!Reclaim(q)
BY Views DEF Abstract!Reclaim, Changed

\* Opening every queue.
LEMMA AbstractOpenAll ==
  ASSUME \A q \in Queues : QueuesOf(sw)[q] = <<>>,
         QueuesOf(sw') = QueuesOf(sw), SpentsOf(sw') = SpentsOf(sw),
         OpensOf(sw') = [q \in Queues |-> TRUE]
  PROVE  Abstract!OpenAll
BY Views DEF Abstract!OpenAll

\* A start that opens nothing.
LEMMA AbstractOpenRefused ==
  ASSUME NEW p \in Queues, QueuesOf(sw)[p] # <<>>,
         QueuesOf(sw') = QueuesOf(sw), SpentsOf(sw') = SpentsOf(sw),
         OpensOf(sw') \in [Queues -> BOOLEAN],
         \A q \in Queues : OpensOf(sw')[q] => OpensOf(sw)[q]
  PROVE  Abstract!OpenRefused
BY Views DEF Abstract!OpenRefused

\* Closing every queue.
LEMMA AbstractClose ==
  ASSUME OpensOf(sw') = [q \in Queues |-> FALSE],
         NEW gone \in [Queues -> 0 .. Capacity],
         \A q \in Queues : gone[q] <= Len(QueuesOf(sw)[q]),
         QueuesOf(sw') = [q \in Queues |-> SubSeq(QueuesOf(sw)[q], gone[q] + 1,
                                                  Len(QueuesOf(sw)[q]))],
         SpentsOf(sw') = SpentsOf(sw)
  PROVE  Abstract!Close
BY Views DEF Abstract!Close

\* An operation on one queue leaves what the others stand for alone.
LEMMA OneQueue ==
  ASSUME NEW s \in [Queues -> SwRec], NEW q \in Queues, NEW t \in SwRec,
         NEW u, u = Changed(s, q, t)
  PROVE  /\ QueuesOf(u) = Changed(QueuesOf(s), q, QueueOf(t))
         /\ SpentsOf(u) = Changed(SpentsOf(s), q, SpentOf(t))
         /\ QueueOf(t) = QueueOf(s[q]) => QueuesOf(u) = QueuesOf(s)
         /\ SpentOf(t) = SpentOf(s[q]) => SpentsOf(u) = SpentsOf(s)
         /\ t.accepting = s[q].accepting => OpensOf(u) = OpensOf(s)
         /\ QueuesOf(s)[q] = QueueOf(s[q]) /\ SpentsOf(s)[q] = SpentOf(s[q])
         /\ OpensOf(s)[q] = s[q].accepting
<1>1. u[q] = t /\ \A p \in Queues \ {q} : u[p] = s[p]
  BY DEF Changed
<1>2. /\ QueuesOf(u) = Changed(QueuesOf(s), q, QueueOf(t))
      /\ QueueOf(t) = QueueOf(s[q]) => QueuesOf(u) = QueuesOf(s)
  BY <1>1 DEF QueuesOf, Changed
<1>3. /\ SpentsOf(u) = Changed(SpentsOf(s), q, SpentOf(t))
      /\ SpentOf(t) = SpentOf(s[q]) => SpentsOf(u) = SpentsOf(s)
  BY <1>1 DEF SpentsOf, Changed
<1>4. t.accepting = s[q].accepting => OpensOf(u) = OpensOf(s)
  BY <1>1 DEF OpensOf
<1>5. /\ QueuesOf(s)[q] = QueueOf(s[q]) /\ SpentsOf(s)[q] = SpentOf(s[q])
      /\ OpensOf(s)[q] = s[q].accepting
  BY DEF QueuesOf, SpentsOf, OpensOf
<1> QED
  BY <1>2, <1>3, <1>4, <1>5

\* A completed packet leaves the head of its queue.
LEMMA FinishRefines ==
  ASSUME Kept, NEW q \in Queues, sw[q].pending > 0, sw' = Less(sw, q)
  PROVE  Abstract!Finish(q)
<1> DEFINE S == sw[q]
           t == DropOldest(S)
<1>1. sw \in [Queues -> SwRec] /\ S \in SwRec /\ QueueOK(S)
  BY DEF Kept, PathOK
<1>2. t \in SwRec /\ sw' = Changed(sw, q, t)
  BY <1>1, DropQueue DEF Less, Changed
<1>3. /\ QueueOf(S) # <<>> /\ QueueOf(t) = Tail(QueueOf(S)) /\ SpentOf(t) = SpentOf(S)
      /\ t.accepting = S.accepting
  BY <1>1, QueueDropped
<1> HIDE DEF t, S
<1>4. /\ QueuesOf(sw') = Changed(QueuesOf(sw), q, QueueOf(t))
      /\ SpentsOf(sw') = SpentsOf(sw) /\ OpensOf(sw') = OpensOf(sw)
      /\ QueuesOf(sw)[q] = QueueOf(S)
  <2>1. S = sw[q]
    BY DEF S
  <2>2. /\ QueuesOf(sw') = Changed(QueuesOf(sw), q, QueueOf(t))
        /\ SpentOf(t) = SpentOf(sw[q]) => SpentsOf(sw') = SpentsOf(sw)
        /\ t.accepting = sw[q].accepting => OpensOf(sw') = OpensOf(sw)
        /\ QueuesOf(sw)[q] = QueueOf(sw[q])
    <3>1. sw \in [Queues -> SwRec] /\ t \in SwRec
      BY <1>1, <1>2
    <3> QED
      BY ONLY q \in Queues, <3>1, <1>2, OneQueue
  <2> QED
    BY ONLY <1>3, <2>1, <2>2
<1>5. /\ QueuesOf(sw)[q] # <<>>
      /\ QueuesOf(sw') = Changed(QueuesOf(sw), q, Tail(QueuesOf(sw)[q]))
      /\ SpentsOf(sw') = SpentsOf(sw) /\ OpensOf(sw') = OpensOf(sw)
  BY ONLY <1>3, <1>4
<1> QED
  BY ONLY q \in Queues, <1>5, AbstractFinish

\* A packet whose buffer came back stays at the head.
LEMMA ReclaimRefines ==
  ASSUME Kept, NEW q \in Queues, sw[q].pending > 0, OldestSlot(sw, q).st = "SUBMITTED",
         sw' = [sw EXCEPT ![q] = Reclaimed(sw[q])]
  PROVE  Abstract!Reclaim(q)
<1> DEFINE S == sw[q]
           t == Reclaimed(S)
           e == [QueuesOf(sw)[q] EXCEPT ![1].reclaimed = TRUE]
<1>1. sw \in [Queues -> SwRec] /\ S \in SwRec /\ QueueOK(S) /\ S.slot[S.tail].st = "SUBMITTED"
  BY DEF Kept, PathOK, OldestSlot
<1>2. t \in SwRec /\ sw' = Changed(sw, q, t)
  BY <1>1, ReclaimQueue DEF Changed
<1>3. /\ QueueOf(S) # <<>> /\ ~Head(QueueOf(S)).reclaimed
      /\ QueueOf(t) = [QueueOf(S) EXCEPT ![1].reclaimed = TRUE]
      /\ SpentOf(t) = SpentOf(S) /\ t.accepting = S.accepting
  BY <1>1, QueueReclaimed
<1> HIDE DEF t, S
<1>4. /\ QueuesOf(sw') = Changed(QueuesOf(sw), q, QueueOf(t))
      /\ SpentsOf(sw') = SpentsOf(sw) /\ OpensOf(sw') = OpensOf(sw)
      /\ QueuesOf(sw)[q] = QueueOf(S)
  <2>1. S = sw[q]
    BY DEF S
  <2>2. /\ QueuesOf(sw') = Changed(QueuesOf(sw), q, QueueOf(t))
        /\ SpentOf(t) = SpentOf(sw[q]) => SpentsOf(sw') = SpentsOf(sw)
        /\ t.accepting = sw[q].accepting => OpensOf(sw') = OpensOf(sw)
        /\ QueuesOf(sw)[q] = QueueOf(sw[q])
    <3>1. sw \in [Queues -> SwRec] /\ t \in SwRec
      BY <1>1, <1>2
    <3> QED
      BY ONLY q \in Queues, <3>1, <1>2, OneQueue
  <2> QED
    BY ONLY <1>3, <2>1, <2>2
<1>5. QueueOf(t) = e
  BY ONLY <1>3, <1>4
<1>6. /\ QueuesOf(sw)[q] # <<>> /\ ~Head(QueuesOf(sw)[q]).reclaimed
      /\ SpentsOf(sw') = SpentsOf(sw) /\ OpensOf(sw') = OpensOf(sw)
  BY ONLY <1>3, <1>4
<1>7. e = [QueuesOf(sw)[q] EXCEPT ![1].reclaimed = TRUE]
  OBVIOUS
<1> HIDE DEF e
<1>8. QueuesOf(sw') = Changed(QueuesOf(sw), q, e)
  BY <1>4, <1>5
<1> QED
  BY ONLY q \in Queues, <1>6, <1>7, <1>8, AbstractReclaim

\* A refused submission spends a ticket.
LEMMA FailRefines ==
  ASSUME Kept, NEW q \in Queues, NEW packet, MaySubmit(q, packet), sw' = Unsubmitted(q)
  PROVE  \E k \in Tickets : Abstract!Fail(q, k)
<1> DEFINE S == sw[q]
           h == S.head
           g == S.slot[h].gen + 1
           t == Spent(S, h, g)
           ticket == [slot |-> h, gen |-> g]
<1>1. /\ sw \in [Queues -> SwRec] /\ S \in SwRec /\ QueueOK(S) /\ S.accepting
      /\ h \in SwIndex \ PendingSlots(S) /\ g \in Generation
  BY MaySubmitIs DEF Kept, PathOK
<1>2. sw' = Changed(sw, q, t)
  BY <1>1 DEF Unsubmitted, Changed, Spent
<1>4. t \in SwRec
  BY <1>1, SpendQueue DEF Spent
<1>3. t = Spent(S, h, g) /\ g = S.slot[h].gen + 1 /\ ticket = [slot |-> h, gen |-> g]
  OBVIOUS
<1> HIDE DEF S, h, g, t, ticket
<1>5. /\ QueueOf(t) = QueueOf(S) /\ t.accepting = S.accepting
      /\ ticket \in Tickets /\ ticket \notin SpentOf(S)
      /\ SpentOf(t) = With(SpentOf(S), ticket)
  <2>1. /\ QueueOf(t) = QueueOf(S) /\ t.accepting = S.accepting
        /\ ticket \in Tickets /\ ticket \notin SpentOf(S)
        /\ SpentOf(t) = SpentOf(S) \cup {ticket}
    <3>1. S \in SwRec /\ QueueOK(S) /\ h \in SwIndex \ PendingSlots(S) /\ g \in Generation
      BY <1>1
    <3> QED
      BY ONLY <3>1, <1>3, QueueSpent
  <2> QED
    BY ONLY <2>1 DEF With
<1>6. S = sw[q]
  BY DEF S
<1>7. /\ QueueOf(t) = QueueOf(sw[q]) => QueuesOf(sw') = QueuesOf(sw)
      /\ SpentsOf(sw') = Changed(SpentsOf(sw), q, SpentOf(t))
      /\ t.accepting = sw[q].accepting => OpensOf(sw') = OpensOf(sw)
      /\ SpentsOf(sw)[q] = SpentOf(sw[q]) /\ OpensOf(sw)[q] = sw[q].accepting
  <2>1. sw \in [Queues -> SwRec]
    BY <1>1
  <2> QED
    BY ONLY q \in Queues, <2>1, <1>2, <1>4, OneQueue
<1>8. /\ OpensOf(sw)[q] /\ ticket \notin SpentsOf(sw)[q]
      /\ QueuesOf(sw') = QueuesOf(sw)
      /\ SpentsOf(sw') = Changed(SpentsOf(sw), q, With(SpentsOf(sw)[q], ticket))
      /\ OpensOf(sw') = OpensOf(sw)
  BY ONLY <1>1, <1>5, <1>6, <1>7
<1>9. PICK k \in Tickets : k = ticket
  BY <1>5
<1>10. /\ OpensOf(sw)[q] /\ k \notin SpentsOf(sw)[q]
       /\ QueuesOf(sw') = QueuesOf(sw)
       /\ SpentsOf(sw') = Changed(SpentsOf(sw), q, With(SpentsOf(sw)[q], k))
       /\ OpensOf(sw') = OpensOf(sw)
  BY ONLY <1>8, <1>9
<1>11. Abstract!Fail(q, k)
  BY ONLY q \in Queues, <1>10, AbstractFail
<1> QED
  BY <1>11

\* An accepted packet enters its queue with a ticket of its own.
LEMMA AcceptRefines ==
  ASSUME Kept, NEW q \in Queues, NEW packet \in Packets, NEW dma \in Dmas,
         NEW v \in IdValid, Accept(q, packet, dma, v)
  PROVE  \E k \in Tickets : Abstract!Enqueue(q, packet, k)
<1> DEFINE S == sw[q]
           h == S.head
<1>1. /\ sw \in [Queues -> SwRec] /\ S \in SwRec /\ QueueOK(S) /\ S.accepting
      /\ S.pending < Capacity /\ ~PacketPending(S, packet)
  BY MaySubmitIs DEF Kept, PathOK, Accept
<1>2. PICK b \in SwSlot :
        /\ b.st = "SUBMITTED" /\ b.packet = packet
        /\ b.gen = S.slot[h].gen + 1
        /\ sw' = [sw EXCEPT ![q] = [head |-> NextSw(h), tail |-> S.tail,
                                    pending |-> S.pending + 1, accepting |-> S.accepting,
                                    slot |-> [S.slot EXCEPT ![h] = b]]]
  BY AcceptIs
<1> DEFINE t == Added(S, b)
           ticket == [slot |-> h, gen |-> b.gen]
           e == [packet |-> packet, ticket |-> ticket, reclaimed |-> FALSE]
<1>3. sw' = Changed(sw, q, t)
  BY <1>2 DEF Changed, Added
<1>4. t.accepting = S.accepting
  BY DEF Added
<1>5. b.packet \in Packets /\ ~PacketPending(S, b.packet)
  BY <1>1, <1>2
<1>6. t \in SwRec
  BY <1>1, <1>2, <1>5, AddQueue DEF Added
<1>7. ticket = [slot |-> S.head, gen |-> b.gen] /\ b.gen = S.slot[S.head].gen + 1
      /\ b.st = "SUBMITTED" /\ b.packet = packet
  BY <1>2
<1>8. e = [packet |-> packet, ticket |-> ticket, reclaimed |-> FALSE]
  OBVIOUS
<1>9. S = sw[q]
  OBVIOUS
<1>10. /\ ticket \in Tickets /\ ticket \notin SpentOf(S)
       /\ SpentOf(t) = With(SpentOf(S), ticket)
       /\ Len(QueueOf(S)) < Capacity
       /\ \A k \in DOMAIN QueueOf(S) : QueueOf(S)[k].packet # b.packet
       /\ QueueOf(t) = Append(QueueOf(S), [packet |-> b.packet, ticket |-> ticket,
                                           reclaimed |-> FALSE])
  BY <1>1, <1>2, <1>5, QueueAdded DEF With
<1> HIDE DEF t, ticket, e, S, h
<1>11. QueueOf(t) = Append(QueueOf(S), e)
  BY ONLY <1>7, <1>8, <1>10
<1>12. /\ QueuesOf(sw') = Changed(QueuesOf(sw), q, QueueOf(t))
       /\ SpentsOf(sw') = Changed(SpentsOf(sw), q, SpentOf(t))
       /\ t.accepting = sw[q].accepting => OpensOf(sw') = OpensOf(sw)
       /\ QueuesOf(sw)[q] = QueueOf(sw[q])
       /\ SpentsOf(sw)[q] = SpentOf(sw[q]) /\ OpensOf(sw)[q] = sw[q].accepting
  <2>1. sw \in [Queues -> SwRec]
    BY <1>1
  <2> QED
    BY ONLY q \in Queues, <2>1, <1>3, <1>6, OneQueue
<1>13. /\ QueuesOf(sw') = Changed(QueuesOf(sw), q, Append(QueuesOf(sw)[q], e))
       /\ SpentsOf(sw') = Changed(SpentsOf(sw), q, With(SpentsOf(sw)[q], ticket))
       /\ OpensOf(sw') = OpensOf(sw)
  BY ONLY <1>4, <1>9, <1>10, <1>11, <1>12
<1>14. /\ OpensOf(sw)[q] /\ Len(QueuesOf(sw)[q]) < Capacity
       /\ \A k \in DOMAIN QueuesOf(sw)[q] : QueuesOf(sw)[q][k].packet # packet
       /\ ticket \notin SpentsOf(sw)[q]
  BY ONLY <1>1, <1>7, <1>9, <1>10, <1>12
<1>15. PICK k \in Tickets : k = ticket
  BY <1>10
<1>16. PICK x : x = e
  OBVIOUS
<1>17. /\ x = [packet |-> packet, ticket |-> k, reclaimed |-> FALSE]
       /\ QueuesOf(sw') = Changed(QueuesOf(sw), q, Append(QueuesOf(sw)[q], x))
       /\ SpentsOf(sw') = Changed(SpentsOf(sw), q, With(SpentsOf(sw)[q], k))
       /\ k \notin SpentsOf(sw)[q]
  BY ONLY <1>8, <1>13, <1>14, <1>15, <1>16
<1>18. Abstract!Enqueue(q, packet, k)
  BY ONLY q \in Queues, <1>13, <1>14, <1>17, AbstractEnqueue
<1> QED
  BY <1>18

\* Opening and closing leave the packets of a queue alone.
LEMMA AcceptingShows ==
  ASSUME NEW s \in [Queues -> SwRec], NEW t \in [Queues -> SwRec],
         \A q \in Queues : t[q].pending = s[q].pending /\ t[q].slot = s[q].slot
                           /\ t[q].tail = s[q].tail
  PROVE  QueuesOf(t) = QueuesOf(s) /\ SpentsOf(t) = SpentsOf(s)
<1>1. ASSUME NEW q \in Queues
      PROVE  QueueOf(t[q]) = QueueOf(s[q]) /\ SpentOf(t[q]) = SpentOf(s[q])
  <2>1. s[q] \in SwRec /\ t[q] \in SwRec
    OBVIOUS
  <2>2. QueueOf(t[q]) = QueueOf(s[q])
    BY <2>1, QueueSame
  <2>3. SpentOf(t[q]) = SpentOf(s[q])
    BY DEF SpentOf
  <2> QED
    BY <2>2, <2>3
<1> QED
  BY <1>1 DEF QueuesOf, SpentsOf

\* A queue is empty exactly when nothing is pending.
LEMMA EmptyIs ==
  ASSUME NEW s \in SwRec
  PROVE  QueueOf(s) = <<>> <=> ~(s.pending > 0)
<1>1. QueueOf(s) \in Seq(AnEntry) /\ Len(QueueOf(s)) = s.pending /\ s.pending \in Nat
  BY QueueOfIs
<1> QED
  BY <1>1, EmptySeq

\* ob_tx_path_start opens every queue or refuses.
LEMMA StartRefines ==
  ASSUME Kept, Start
  PROVE  Abstract!OpenAll \/ Abstract!OpenRefused
<1>1. PathOK(ring, sw, live) /\ sw \in [Queues -> SwRec]
  BY DEF Kept, PathOK
<1>2. \A q \in Queues : QueuesOf(sw)[q] = QueueOf(sw[q]) /\ OpensOf(sw)[q] = sw[q].accepting
  BY DEF QueuesOf, OpensOf
<1>3. CASE Busy = {}
  <2> DEFINE a == [q \in Queues |-> TRUE]
  <2>1. sw' = [q \in Queues |-> [sw[q] EXCEPT !.accepting = TRUE]]
    BY <1>3 DEF Start
  <2>2. a \in [Queues -> BOOLEAN] /\ sw' = WithAccepting(sw, a)
    BY <2>1 DEF WithAccepting
  <2>3. \A q \in Queues : a[q]
    OBVIOUS
  <2> HIDE DEF a
  <2>4. /\ sw' \in [Queues -> SwRec]
        /\ \A q \in Queues : /\ sw'[q].accepting = a[q] /\ sw'[q].pending = sw[q].pending
                             /\ sw'[q].slot = sw[q].slot /\ sw'[q].tail = sw[q].tail
    BY <1>1, <2>2, AcceptingKeeps
  <2>5. QueuesOf(sw') = QueuesOf(sw) /\ SpentsOf(sw') = SpentsOf(sw)
    BY ONLY <1>1, <2>4, AcceptingShows
  <2>6. OpensOf(sw') = [q \in Queues |-> TRUE]
    BY ONLY <2>2, <2>3, <2>4 DEF OpensOf
  <2>7. \A q \in Queues : QueuesOf(sw)[q] = <<>>
    BY <1>1, <1>2, <1>3, EmptyIs DEF Busy
  <2> QED
    BY ONLY <2>5, <2>6, <2>7, AbstractOpenAll
<1>4. CASE Busy # {}
  <2> DEFINE a == [q \in Queues |-> sw[q].accepting /\ q >= FirstBusy]
  <2>1. sw' = [q \in Queues |-> [sw[q] EXCEPT !.accepting = @ /\ q >= FirstBusy]]
    BY <1>4 DEF Start
  <2>2. a \in [Queues -> BOOLEAN] /\ sw' = WithAccepting(sw, a)
    BY <1>1, <2>1 DEF WithAccepting
  <2>3. \A q \in Queues : a[q] => sw[q].accepting
    OBVIOUS
  <2> HIDE DEF a
  <2>4. /\ sw' \in [Queues -> SwRec]
        /\ \A q \in Queues : /\ sw'[q].accepting = a[q] /\ sw'[q].pending = sw[q].pending
                             /\ sw'[q].slot = sw[q].slot /\ sw'[q].tail = sw[q].tail
    BY <1>1, <2>2, AcceptingKeeps
  <2>5. QueuesOf(sw') = QueuesOf(sw) /\ SpentsOf(sw') = SpentsOf(sw)
    BY ONLY <1>1, <2>4, AcceptingShows
  <2>6. /\ OpensOf(sw') \in [Queues -> BOOLEAN]
        /\ \A q \in Queues : OpensOf(sw')[q] => OpensOf(sw)[q]
    BY ONLY <1>2, <2>2, <2>3, <2>4 DEF OpensOf
  <2>7. PICK p \in Queues : QueuesOf(sw)[p] # <<>>
    BY <1>1, <1>2, <1>4, EmptyIs DEF Busy
  <2> QED
    BY ONLY p \in Queues, <2>5, <2>6, <2>7, AbstractOpenRefused
<1> QED
  BY <1>3, <1>4

\* ob_tx_path_stop closes every queue and takes packets from their heads only.
LEMMA StopRefines ==
  ASSUME Kept, Stop
  PROVE  Abstract!Close
<1>1. Kept' /\ sw \in [Queues -> SwRec]
  BY StopKeeps DEF Kept, PathOK
<1>2. sw' \in [Queues -> SwRec]
  BY <1>1 DEF Kept, PathOK
<1>3. PICK gone \in [Queues -> 0 .. Capacity] : \A q \in Queues :
        /\ gone[q] <= sw[q].pending
        /\ sw'[q].pending = sw[q].pending - gone[q]
        /\ sw'[q].accepting = FALSE
        /\ \A i \in SwIndex : sw'[q].slot[i].gen = sw[q].slot[i].gen
        /\ \A j \in 0 .. sw'[q].pending - 1 :
             /\ SwAt(sw'[q], j) = SwAt(sw[q], j + gone[q])
             /\ sw'[q].slot[SwAt(sw'[q], j)] = sw[q].slot[SwAt(sw[q], j + gone[q])]
  BY StopKeeps
<1>4. ASSUME NEW q \in Queues
      PROVE  /\ gone[q] <= Len(QueueOf(sw[q]))
             /\ QueueOf(sw'[q]) = SubSeq(QueueOf(sw[q]), gone[q] + 1, Len(QueueOf(sw[q])))
             /\ SpentOf(sw'[q]) = SpentOf(sw[q])
  <2>1. PICK s \in SwRec : s = sw[q]
    BY <1>1
  <2>2. PICK t \in SwRec : t = sw'[q]
    BY <1>2
  <2>3. PICK k \in 0 .. Capacity : k = gone[q]
    OBVIOUS
  <2>4. /\ k <= s.pending /\ t.pending = s.pending - k
        /\ \A i \in SwIndex : t.slot[i].gen = s.slot[i].gen
        /\ \A j \in 0 .. t.pending - 1 :
             /\ SwAt(t, j) = SwAt(s, j + k)
             /\ t.slot[SwAt(t, j)] = s.slot[SwAt(s, j + k)]
    BY <1>3, <2>1, <2>2, <2>3
  <2>5. /\ k <= Len(QueueOf(s))
        /\ QueueOf(t) = SubSeq(QueueOf(s), k + 1, Len(QueueOf(s)))
        /\ SpentOf(t) = SpentOf(s)
    BY ONLY s \in SwRec, t \in SwRec, k \in 0 .. Capacity, <2>4, QueueShifted
  <2> QED
    BY ONLY <2>1, <2>2, <2>3, <2>5
<1>5. /\ \A q \in Queues : gone[q] <= Len(QueuesOf(sw)[q])
      /\ QueuesOf(sw') = [q \in Queues |-> SubSeq(QueuesOf(sw)[q], gone[q] + 1,
                                                  Len(QueuesOf(sw)[q]))]
  BY ONLY <1>4 DEF QueuesOf
<1>6. SpentsOf(sw') = SpentsOf(sw)
  BY ONLY <1>4 DEF SpentsOf
<1>7. OpensOf(sw') = [q \in Queues |-> FALSE]
  BY ONLY <1>3 DEF OpensOf
<1> QED
  BY ONLY gone \in [Queues -> 0 .. Capacity], <1>5, <1>6, <1>7, AbstractClose

\* A step that leaves the queues as they are is invisible in TxQueues.
LEMMA Stutters ==
  ASSUME sw' = sw
  PROVE  UNCHANGED Abstract!qvars
<1>1. QueuesOf(sw') = QueuesOf(sw) /\ SpentsOf(sw') = SpentsOf(sw) /\ OpensOf(sw') = OpensOf(sw)
  OBVIOUS
<1> QED
  BY ONLY <1>1, Views DEF Abstract!qvars

\* Every step of the path is a step of TxQueues or invisible there.
LEMMA StepRefines ==
  Kept /\ [Next]_vars => [Abstract!Next]_(Abstract!qvars)
<1> SUFFICES ASSUME Kept, [Next]_vars
             PROVE  Abstract!Next \/ UNCHANGED Abstract!qvars
  OBVIOUS
<1>1. CASE Start
  BY <1>1, StartRefines DEF Abstract!Next
<1>2. CASE Stop
  BY <1>2, StopRefines DEF Abstract!Next
<1>3. CASE \E q \in Queues, p \in Packets : RefuseFull(q, p)
  <2>1. sw' = sw
    BY <1>3 DEF RefuseFull
  <2> QED
    BY <2>1, Stutters
<1>4. CASE \E q \in Queues, p \in Packets, d \in Dmas : RefuseNoDescriptor(q, p, d)
  <2>1. PICK q \in Queues, p \in Packets, d \in Dmas : RefuseNoDescriptor(q, p, d)
    BY <1>4
  <2>2. \E t \in Tickets : Abstract!Fail(q, t)
    BY <2>1, RefuseNoDescriptorKept, FailRefines
  <2> QED
    BY <2>2 DEF Abstract!Next
<1>5. CASE \E q \in Queues, p \in Packets, d \in Dmas, e \in BackendErrors :
             RefuseBackend(q, p, d, e)
  <2>1. PICK q \in Queues, p \in Packets, d \in Dmas, e \in BackendErrors :
          RefuseBackend(q, p, d, e)
    BY <1>5
  <2>2. \E t \in Tickets : Abstract!Fail(q, t)
    BY <2>1, RefuseBackendKept, FailRefines
  <2> QED
    BY <2>2 DEF Abstract!Next
<1>6. CASE \E q \in Queues, p \in Packets, d \in Dmas, v \in IdValid : Accept(q, p, d, v)
  <2>1. PICK q \in Queues, p \in Packets, d \in Dmas, v \in IdValid : Accept(q, p, d, v)
    BY <1>6
  <2>2. \E t \in Tickets : Abstract!Enqueue(q, p, t)
    BY <2>1, AcceptRefines
  <2> QED
    BY <2>2 DEF Abstract!Next
<1>7. CASE \E q \in Queues, t \in Tickets : Complete(q, t)
  <2>1. PICK q \in Queues, t \in Tickets : Complete(q, t)
    BY <1>7
  <2>2. CASE sw[q].pending > 0 /\ sw' = Less(sw, q)
    BY <2>2, FinishRefines DEF Abstract!Next
  <2>3. CASE sw' = sw
    BY <2>3, Stutters
  <2> QED
    BY <2>1, <2>2, <2>3, CompleteKept
<1>8. CASE \E q \in Queues, p \in Packets : ReclaimPacket(q, p)
  <2>1. PICK q \in Queues, p \in Packets : ReclaimPacket(q, p)
    BY <1>8
  <2>2. Abstract!Reclaim(q)
    BY <2>1, ReclaimKept, ReclaimRefines
  <2> QED
    BY <2>2 DEF Abstract!Next
<1>9. CASE \E q \in Queues, t \in Tickets : CompleteReclaimed(q, t)
  <2>1. PICK q \in Queues, t \in Tickets : CompleteReclaimed(q, t)
    BY <1>9
  <2>2. Abstract!Finish(q)
    BY <2>1, CompleteReclaimedKept, FinishRefines
  <2> QED
    BY <2>2 DEF Abstract!Next
<1>10. CASE UNCHANGED vars
  <2>1. sw' = sw
    BY <1>10 DEF vars
  <2> QED
    BY <2>1, Stutters
<1> QED
  BY <1>1, <1>2, <1>3, <1>4, <1>5, <1>6, <1>7, <1>8, <1>9, <1>10 DEF Next

\* The queues of a path nobody has used are empty, closed and have issued nothing.
LEMMA InitRefines == Init => Abstract!Init
<1> SUFFICES ASSUME Init
             PROVE  Abstract!Init
  OBVIOUS
<1>1. sw = [q \in Queues |-> EmptySw] /\ sw \in [Queues -> SwRec]
  BY InitKept DEF Init, Kept, PathOK
<1>2. EmptySw.pending = 0 /\ EmptySw.accepting = FALSE
      /\ \A i \in SwIndex : EmptySw.slot[i].gen = 0
  BY DEF EmptySw, ClearSlot
<1>3. EmptySw \in SwRec
  <2>1. 0 \in Queues
    BY PathAssumption DEF Queues
  <2> QED
    BY <1>1, <2>1
<1>4. QueueOf(EmptySw) = <<>>
  BY <1>2, <1>3, EmptyIs
<1>5. SpentOf(EmptySw) = {}
  <2>1. \A t \in Tickets : t.slot \in SwIndex /\ t.gen \in Nat
    BY RingAssumption DEF Tickets, Generation
  <2> QED
    BY <1>2, <2>1 DEF SpentOf
<1>6. /\ QueuesOf(sw) = [q \in Queues |-> <<>>]
      /\ SpentsOf(sw) = [q \in Queues |-> {}]
      /\ OpensOf(sw) = [q \in Queues |-> FALSE]
  BY <1>1, <1>2, <1>4, <1>5 DEF QueuesOf, SpentsOf, OpensOf
<1> QED
  BY ONLY <1>6, Views DEF Abstract!Init

\* The path keeps what TxQueues promises its callers: packets leave each queue in order
\* and once, a ticket is never issued twice, and a stop never reorders what stays.
THEOREM PathRefinesQueues == Spec => ImplementsQueues
<1>1. Spec => []Kept
  BY InitKept, NextKept, PTL DEF Spec
<1>2. Init => Abstract!Init
  BY InitRefines
<1>3. Kept /\ [Next]_vars => [Abstract!Next]_(Abstract!qvars)
  BY StepRefines
<1>4. Spec => Abstract!Init /\ [][Abstract!Next]_(Abstract!qvars)
  BY <1>1, <1>2, <1>3, PTL DEF Spec
<1> QED
  BY <1>4 DEF ImplementsQueues, Abstract!Spec

=============================================================================
