------------------------------- MODULE TxRing -------------------------------
(***************************************************************************)
(* The physical TX descriptor ring of src/ob_dma.h as operators on a ring  *)
(* record.  The producer (head) and the consumer (tail) chase each other   *)
(* over N slots, one slot always stays empty, and every slot carries the   *)
(* generation that tells two users of the same index apart.                *)
(*                                                                         *)
(* Descriptor words are left out: a slot's tx_state says what its          *)
(* descriptor holds (FREE and CANCELED slots hold a zeroed descriptor).    *)
(***************************************************************************)
EXTENDS Naturals

CONSTANTS
  N,         \* descriptors in the ring (OB_DMA_RING_DESC_COUNT_TX = 512)
  GenMax,    \* largest generation (2^32 - 1 in the code)
  NoPacket   \* the NULL skb

ASSUME RingAssumption ==
  /\ N \in Nat \ {0, 1}
  /\ GenMax \in Nat \ {0}

Index == 0 .. N - 1
Generation == 0 .. GenMax

\* enum ob_dma_tx_slot_state
SlotStates == {"FREE", "RESERVED", "PREPARED", "SUBMITTED",
               "COMPLETED", "RECLAIMED", "CANCELED"}

\* Terminal states: the device is done with the slot.
Finished == {"COMPLETED", "RECLAIMED", "CANCELED"}

\* ob_dma_slot_init, with the generation the caller wants kept.
EmptySlot(gen) ==
  [skb |-> NoPacket, mapped |-> FALSE, gen |-> gen, swGen |-> 0,
   swSlot |-> 0, queue |-> 0, st |-> "FREE"]

EmptyRing == [head |-> 0, tail |-> 0, slot |-> [i \in Index |-> EmptySlot(0)]]

NextIndex(i) == IF i + 1 = N THEN 0 ELSE i + 1
Used(r) == (r.head + N - r.tail) % N
Avail(r) == N - 1 - Used(r)
Full(r) == NextIndex(r.head) = r.tail

\* The indices from the consumer up to, not including, the producer.
Window(r) == {(r.tail + k) % N : k \in 0 .. Used(r) - 1}

(***************************************************************************)
(* Producer side.                                                          *)
(***************************************************************************)

\* What ob_dma_tx_ring_reserve returns, checks in the code's order.
ReserveResult(r) ==
  LET slot == r.slot[r.head]
  IN  CASE Full(r) -> "ENOSPC"
        [] slot.st # "FREE" \/ slot.skb # NoPacket \/ slot.mapped -> "EUCLEAN"
        [] slot.gen = GenMax -> "EOVERFLOW"
        [] OTHER -> "OK"

\* A successful reserve: the slot at head is claimed and head moves on.
Reserve(r, packet, queue, swSlot, swGen) ==
  [r EXCEPT !.head = NextIndex(@),
            !.slot[r.head] = [skb |-> packet, mapped |-> TRUE,
                              gen |-> @.gen + 1, swGen |-> swGen,
                              swSlot |-> swSlot, queue |-> queue,
                              st |-> "RESERVED"]]

(***************************************************************************)
(* State changes of a reserved slot.  Each is refused (the ring is         *)
(* returned unchanged) when the generation or the state is not the         *)
(* expected one.                                                           *)
(***************************************************************************)

MayTransition(r, i, gen, from) ==
  i \in Index /\ r.slot[i].gen = gen /\ r.slot[i].st = from

Transition(r, i, gen, from, to) ==
  IF MayTransition(r, i, gen, from) THEN [r EXCEPT !.slot[i].st = to] ELSE r

MayUnmap(r, i, gen) ==
  /\ i \in Index
  /\ r.slot[i].gen = gen
  /\ r.slot[i].mapped
  /\ r.slot[i].skb # NoPacket

Unmap(r, i, gen) ==
  IF MayUnmap(r, i, gen) THEN [r EXCEPT !.slot[i].mapped = FALSE] ELSE r

MayRelease(r, i, gen) ==
  /\ i \in Index
  /\ r.slot[i].gen = gen
  /\ ~r.slot[i].mapped
  /\ r.slot[i].skb # NoPacket
  /\ r.slot[i].st \in Finished

\* Mutant: the consumer moves over one free slot at most.
AdvancedTailByOne(r) ==
  IF Used(r) > 0 /\ r.slot[r.tail].st = "FREE" THEN NextIndex(r.tail) ELSE r.tail

\* The consumer stops at the first slot in use, or at the producer.
AdvancedTail(r) ==
  LET Stops(k) == \/ k = Used(r)
                  \/ r.slot[(r.tail + k) % N].st # "FREE"
      steps == CHOOSE k \in 0 .. Used(r) :
                 Stops(k) /\ \A j \in 0 .. k - 1 : ~Stops(j)
  IN  (r.tail + steps) % N

Release(r, i, gen) ==
  IF MayRelease(r, i, gen)
  THEN LET freed == [r EXCEPT !.slot[i] = EmptySlot(gen)]
       IN  [freed EXCEPT !.tail = AdvancedTail(freed)]
  ELSE r

(***************************************************************************)
(* Shape of a ring between two operations.                                 *)
(***************************************************************************)

Slot(Packets, Queues, SwSlots) ==
  [skb : Packets \cup {NoPacket}, mapped : BOOLEAN, gen : Generation,
   swGen : Generation, swSlot : SwSlots, queue : Queues, st : SlotStates]

Ring(Packets, Queues, SwSlots) ==
  [head : Index, tail : Index,
   slot : [Index -> Slot(Packets, Queues, SwSlots)]]
=============================================================================
