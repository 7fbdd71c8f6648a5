------------------------------- MODULE TxPath -------------------------------
(***************************************************************************)
(* The software TX path: src/ob_tx_path.c over one src/ob_tx_sw.c queue    *)
(* per access category, all sharing one descriptor ring (TxRing).          *)
(*                                                                         *)
(* Every operation runs under pub->tx_lock, so each is one action.  A      *)
(* packet enters with Accept and leaves through exactly one of Complete,   *)
(* CompleteReclaimed and Stop; in between its DMA mapping is live, its     *)
(* software slot is pending and its ring slot is bound to both.            *)
(*                                                                         *)
(* The backend behind struct ob_tx_path_ops is the environment: it picks   *)
(* the DMA address, may refuse prepare, submit or cancel, reports          *)
(* completions in any order across queues and may repeat old tickets.      *)
(* DMA address 0, which the code also uses as its reset value, is legal.   *)
(***************************************************************************)
EXTENDS TxRing, FiniteSets
LOCAL INSTANCE FiniteSetsExt

CONSTANTS
  Packets,    \* identities of the skbs mac80211 hands over
  NumQueues,  \* OB_TX_PATH_QUEUE_COUNT
  Capacity,   \* slots of one software queue
  Dmas,       \* addresses the map callback may return, 0 among them
  Submissions, \* bound: what all queues together may submit, refused ones included
  IdValid     \* {TRUE}, {FALSE} or BOOLEAN: is a frame ID recorded

ASSUME PathAssumption ==
  /\ NumQueues \in Nat \ {0}
  /\ Capacity \in Nat \ {0}
  /\ NoPacket \notin Packets
  /\ 0 \in Dmas
  /\ Submissions \in Nat
  /\ IdValid \in SUBSET BOOLEAN

Queues == 0 .. NumQueues - 1
SwIndex == 0 .. Capacity - 1
Tickets == [slot : SwIndex, gen : Generation]

VARIABLES
  ring,     \* struct ob_dma_ring
  sw,       \* queue |-> struct ob_tx_sw
  flow,     \* queue |-> the backpressure flags of struct ob_tx_path_queue
  running,  \* path->running
  faulted,  \* path->faulted
  live,     \* DMA mappings the backend holds, counted by queue and address
  ptr       \* producer index last published to the TX FIFO

vars == <<ring, sw, flow, running, faulted, live, ptr>>

-----------------------------------------------------------------------------
\* struct ob_tx_sw_slot.  A cleared slot keeps its generation.
ClearSlot(gen) ==
  [packet |-> NoPacket, dma |-> 0, gen |-> gen, bound |-> FALSE,
   ringSlot |-> 0, ringGen |-> 0, idValid |-> FALSE, st |-> "FREE"]

NextSw(i) == IF i + 1 = Capacity THEN 0 ELSE i + 1

\* Positions of the pending slots, oldest at 0.
SwAt(s, k) == (s.tail + k) % Capacity
PendingSlots(s) == {SwAt(s, k) : k \in 0 .. s.pending - 1}

\* Mutant: the search starts behind the oldest packet.
PacketPendingBehindOldest(s, packet) ==
  \E i \in PendingSlots(s) \ {s.tail} : s.slot[i].packet = packet

PacketPending(s, packet) ==
  \E i \in PendingSlots(s) : s.slot[i].packet = packet

\* ob_tx_sw_oldest_ticket
HasOldest(s) ==
  s.pending > 0 /\ s.slot[s.tail].st \in {"SUBMITTED", "DMA_RECLAIMED"}
OldestTicket(s) == [slot |-> s.tail, gen |-> s.slot[s.tail].gen]

\* Mutants: the reclaim leaves the state behind, or clears the ring binding.
ReclaimedSilently(s) == [s EXCEPT !.slot[s.tail].dma = 0]
ReclaimedUnbound(s) ==
  [s EXCEPT !.slot[s.tail].dma = 0, !.slot[s.tail].st = "DMA_RECLAIMED",
            !.slot[s.tail].bound = FALSE]

\* ob_tx_sw_dma_reclaim
Reclaimed(s) ==
  [s EXCEPT !.slot[s.tail].dma = 0, !.slot[s.tail].st = "DMA_RECLAIMED"]

\* Mutant: the tail stays where it was.
DropOldestKeepTail(s) ==
  [s EXCEPT !.slot[s.tail] = ClearSlot(@.gen), !.pending = @ - 1]

\* Clearing the slot at tail and moving on (ob_tx_sw_complete, ob_tx_sw_stop).
DropOldest(s) ==
  [s EXCEPT !.slot[s.tail] = ClearSlot(@.gen), !.tail = NextSw(@),
            !.pending = @ - 1]

-----------------------------------------------------------------------------
\* ob_tx_path_ring_slot: the software slot and its ring slot name each other.
Joined(r, q, i, slot) ==
  /\ slot.bound
  /\ slot.ringSlot \in Index
  /\ LET rs == r.slot[slot.ringSlot]
     IN  /\ rs.gen = slot.ringGen
         /\ rs.swSlot = i
         /\ rs.swGen = slot.gen
         /\ rs.queue = q

JoinedIn(r, q, i, slot, state) ==
  Joined(r, q, i, slot) /\ r.slot[slot.ringSlot].st = state

\* ob_tx_path_find_unmap_slot: never a join on the address alone.
UnmapCandidates(s, dma) ==
  {i \in {s.head} : /\ s.slot[i].st = "SUBMITTING"
                    /\ s.slot[i].bound
                    /\ s.slot[i].dma = dma}

UnmapSlot(s, dma) ==
  IF UnmapCandidates(s, dma) # {} THEN UnmapCandidates(s, dma)
  ELSE {i \in {s.tail} : /\ s.pending > 0
                         /\ s.slot[i].bound
                         /\ s.slot[i].dma = dma}

\* ob_tx_path_unmap: the ring half of dropping one mapping of queue q.
\* A slot whose submission was just rolled back is released as well.
PathUnmap(r, s, q, dma, rollback) ==
  LET found == {i \in UnmapSlot(s, dma) :
                  /\ Joined(r, q, i, s.slot[i])
                  /\ r.slot[s.slot[i].ringSlot].mapped
                  /\ r.slot[s.slot[i].ringSlot].st \in Finished}
  IN  IF found = {} THEN r
      ELSE LET b == s.slot[CHOOSE i \in found : TRUE]
               unmapped == Unmap(r, b.ringSlot, b.ringGen)
           IN  IF rollback THEN Release(unmapped, b.ringSlot, b.ringGen)
               ELSE unmapped

\* The backend's unmap callback, made while the packet is still mapped.
DropMapping(l, q, b) ==
  IF b.st = "SUBMITTED" THEN [l EXCEPT ![q][b.dma] = @ - 1] ELSE l

\* ob_tx_path_complete_packet: find the packet's ring slot and release it.
PacketSlots(r, q, packet) ==
  {i \in Index : r.slot[i].skb = packet /\ r.slot[i].queue = q}
FirstSlot(I) == CHOOSE i \in I : \A j \in I : i <= j
DisposeOk(r, q, packet) ==
  /\ PacketSlots(r, q, packet) # {}
  /\ LET i == FirstSlot(PacketSlots(r, q, packet))
     IN  MayRelease(r, i, r.slot[i].gen)
Dispose(r, q, packet) ==
  IF DisposeOk(r, q, packet)
  THEN LET i == FirstSlot(PacketSlots(r, q, packet))
       IN  Release(r, i, r.slot[i].gen)
  ELSE r

-----------------------------------------------------------------------------
\* ob_tx_sw_init: closed, and no generation spent.
EmptySw ==
  [head |-> 0, tail |-> 0, pending |-> 0, accepting |-> FALSE,
   slot |-> [i \in SwIndex |-> ClearSlot(0)]]

Open == [stopped |-> FALSE, onQueue |-> FALSE, onRing |-> FALSE]

\* ob_tx_path_backpressure
Backpressure(f, q, queueFull, ringFull) ==
  IF running
  THEN [f EXCEPT ![q] = [stopped |-> TRUE, onQueue |-> @.onQueue \/ queueFull,
                         onRing |-> @.onRing \/ ringFull]]
  ELSE f

\* Mutant: a queue stopped because it is full is woken by any completion.
StillBlockedRingOnly(f, pending) == f.onRing /\ pending >= Capacity

\* ob_tx_path_maybe_wake, once there is a free descriptor.
StillBlocked(f, pending) ==
  \/ f.onQueue /\ pending > Capacity \div 2
  \/ f.onRing /\ pending >= Capacity
\* Mutant: only the first queue is looked at.
MaybeWakeFirstQueue(f, r, s, run, fault) ==
  IF run /\ ~fault /\ Avail(r) > 0 /\ ~StillBlocked(f[0], s[0].pending)
  THEN [f EXCEPT ![0] = Open] ELSE f

MaybeWake(f, r, s, run, fault) ==
  IF ~run \/ fault \/ Avail(r) = 0 THEN f
  ELSE [q \in Queues |->
          IF f[q].stopped /\ ~StillBlocked(f[q], s[q].pending) THEN Open
          ELSE f[q]]

-----------------------------------------------------------------------------
Init ==
  /\ ring = EmptyRing
  /\ sw = [q \in Queues |-> EmptySw]
  /\ flow = [q \in Queues |-> Open]
  /\ running = FALSE
  /\ faulted = FALSE
  /\ live = [q \in Queues |-> [d \in Dmas |-> 0]]
  /\ ptr = 0

(***************************************************************************)
(* ob_tx_path_start.  A queue that still owns packets refuses; the queues  *)
(* opened before it are stopped again.                                     *)
(***************************************************************************)
Busy == {q \in Queues : sw[q].pending > 0}
FirstBusy == CHOOSE q \in Busy : \A p \in Busy : q <= p

Start ==
  /\ IF Busy = {}
     THEN /\ sw' = [q \in Queues |-> [sw[q] EXCEPT !.accepting = TRUE]]
          /\ running' = TRUE
          /\ flow' = MaybeWake(flow, ring, sw, TRUE, faulted)
     ELSE /\ sw' = [q \in Queues |->
                      [sw[q] EXCEPT !.accepting = @ /\ q >= FirstBusy]]
          /\ UNCHANGED <<running, flow>>
  /\ UNCHANGED <<ring, faulted, live, ptr>>

(***************************************************************************)
(* ob_tx_path_enqueue(_identified) of a packet that passed the header      *)
(* checks.  Refusals that leave no trace (closed or faulted path, packet   *)
(* already pending, map failure, generation exhausted before mapping) are  *)
(* stuttering steps.                                                       *)
(***************************************************************************)
MayEnqueue(q, packet) ==
  /\ ~faulted
  /\ sw[q].accepting
  /\ ~PacketPending(sw[q], packet)

QueueFull(s) == s.pending >= Capacity

\* -ENOSPC before anything is mapped.
RefuseFull(q, packet) ==
  /\ MayEnqueue(q, packet)
  /\ sw[q].pending = Capacity
  /\ flow' = Backpressure(flow, q, TRUE, Avail(ring) = 0)
  /\ UNCHANGED <<ring, sw, running, faulted, live, ptr>>

\* Every submission, refused or not, takes a generation of a slot.
Submitted == MapThenSumSet(LAMBDA x : sw[x[1]].slot[x[2]].gen, Queues \X SwIndex)

\* The slot at head takes the packet: it is SUBMITTING during submit().
MaySubmit(q, packet) ==
  /\ MayEnqueue(q, packet)
  /\ sw[q].pending < Capacity
  /\ sw[q].slot[sw[q].head].st = "FREE"
  /\ sw[q].slot[sw[q].head].gen < GenMax
  /\ Submitted < Submissions

Submitting(q, packet, dma, idValid) ==
  [sw[q] EXCEPT !.slot[sw[q].head] =
     [ClearSlot(@.gen + 1) EXCEPT !.packet = packet, !.dma = dma,
        !.idValid = idValid, !.st = "SUBMITTING"]]

Bind(s) ==
  [s EXCEPT !.slot[s.head].bound = TRUE,
            !.slot[s.head].ringSlot = ring.head,
            !.slot[s.head].ringGen = ring.slot[ring.head].gen + 1]

Reserved(q, packet) ==
  Reserve(ring, packet, q, sw[q].head, sw[q].slot[sw[q].head].gen + 1)

\* A failed submission: only the generation of the slot at head is spent.
Unsubmitted(q) ==
  [sw EXCEPT ![q].slot[sw[q].head] = ClearSlot(@.gen + 1)]

\* submit() finds no descriptor.  The mapping made for the packet is dropped.
RefuseNoDescriptor(q, packet, dma) ==
  LET err == ReserveResult(ring)
      s == Submitting(q, packet, dma, FALSE)
  IN  /\ MaySubmit(q, packet)
      /\ err # "OK"
      /\ ring' = PathUnmap(ring, s, q, dma, FALSE)
      /\ sw' = Unsubmitted(q)
      /\ flow' = IF err = "ENOSPC" /\ (QueueFull(sw[q]) \/ Avail(ring') = 0)
                 THEN Backpressure(flow, q, QueueFull(sw[q]), Avail(ring') = 0)
                 ELSE flow
      /\ UNCHANGED <<running, faulted, live, ptr>>

\* prepare() (from RESERVED) or submit() (from SUBMITTED) of the backend
\* fails with err.  The descriptor is canceled, unmapped and released.
RefuseBackend(q, packet, dma, err) ==
  LET s == Bind(Submitting(q, packet, dma, FALSE))
      i == ring.head
      gen == s.slot[s.head].ringGen
      canceled == Transition(Reserved(q, packet), i, gen, "RESERVED", "CANCELED")
  IN  /\ MaySubmit(q, packet)
      /\ ReserveResult(ring) = "OK"
      /\ ring' = PathUnmap(canceled, s, q, dma, TRUE)
      /\ sw' = Unsubmitted(q)
      /\ flow' = IF err = "ENOSPC" /\ (QueueFull(sw[q]) \/ Avail(ring') = 0)
                 THEN Backpressure(flow, q, QueueFull(sw[q]), Avail(ring') = 0)
                 ELSE flow
      /\ UNCHANGED <<running, faulted, live, ptr>>

\* The backend takes the packet and publishes the producer pointer.
Accept(q, packet, dma, idValid) ==
  LET s == Bind(Submitting(q, packet, dma, idValid))
      i == ring.head
      gen == s.slot[s.head].ringGen
      prepared == Transition(Reserved(q, packet), i, gen, "RESERVED", "PREPARED")
  IN  /\ MaySubmit(q, packet)
      /\ ReserveResult(ring) = "OK"
      /\ ring' = Transition(prepared, i, gen, "PREPARED", "SUBMITTED")
      /\ sw' = [sw EXCEPT ![q] = [s EXCEPT !.slot[s.head].st = "SUBMITTED",
                                           !.pending = @ + 1,
                                           !.head = NextSw(@)]]
      /\ flow' = IF sw'[q].pending >= Capacity
                 THEN Backpressure(flow, q, TRUE, FALSE) ELSE flow
      /\ live' = [live EXCEPT ![q][dma] = @ + 1]
      /\ ptr' = ring'.head
      /\ UNCHANGED <<running, faulted>>

(***************************************************************************)
(* ob_tx_path_complete with any ticket, old ones included.  The ring slot  *)
(* moves to COMPLETED first and back again if ob_tx_sw_complete refuses.   *)
(***************************************************************************)
Complete(q, ticket) ==
  LET s == sw[q]
      b == s.slot[ticket.slot]
      completed == Transition(ring, b.ringSlot, b.ringGen, "SUBMITTED", "COMPLETED")
  IN  /\ JoinedIn(ring, q, ticket.slot, b, "SUBMITTED")
      /\ IF HasOldest(s) /\ ticket = OldestTicket(s)
         THEN LET unmapped == PathUnmap(completed, s, q, b.dma, FALSE)
              IN  /\ ring' = Dispose(unmapped, q, b.packet)
                  /\ sw' = [sw EXCEPT ![q] = DropOldest(@)]
                  /\ live' = DropMapping(live, q, b)
                  /\ faulted' = (faulted \/ ~DisposeOk(unmapped, q, b.packet))
                  /\ flow' = IF DisposeOk(unmapped, q, b.packet)
                             THEN MaybeWake(flow, ring', sw', running, faulted)
                             ELSE flow
         ELSE /\ ring' = Transition(completed, b.ringSlot, b.ringGen,
                                    "COMPLETED", "SUBMITTED")
              /\ UNCHANGED <<sw, live, faulted, flow>>
      /\ UNCHANGED <<running, ptr>>

(***************************************************************************)
(* ob_tx_path_dma_reclaim_packet: the backend returns the oldest packet's  *)
(* buffer.  The mapping ends; the packet stays owned until its status.     *)
(***************************************************************************)
OldestIs(s, packet) ==
  /\ HasOldest(s)
  /\ s.slot[s.tail].packet = packet
  /\ s.slot[s.tail].st = "SUBMITTED"

ReclaimPacket(q, packet) ==
  LET s == sw[q]
      b == s.slot[s.tail]
      completed == Transition(ring, b.ringSlot, b.ringGen, "SUBMITTED", "COMPLETED")
      unmapped == PathUnmap(completed, s, q, b.dma, FALSE)
  IN  /\ OldestIs(s, packet)
      /\ JoinedIn(ring, q, s.tail, b, "SUBMITTED")
      /\ sw' = [sw EXCEPT ![q] = Reclaimed(s)]
      /\ live' = DropMapping(live, q, b)
      /\ ring' = Transition(unmapped, b.ringSlot, b.ringGen, "COMPLETED", "RECLAIMED")
      /\ faulted' = (faulted \/ ~MayTransition(unmapped, b.ringSlot, b.ringGen,
                                               "COMPLETED"))
      /\ UNCHANGED <<flow, running, ptr>>

(***************************************************************************)
(* ob_tx_path_complete_reclaimed_frame_id.  A mismatched frame ID reports  *)
(* -EBADMSG but disposes of the packet all the same; a packet enqueued     *)
(* without a frame ID is refused (-ENODATA) and stays.                     *)
(***************************************************************************)
AwaitsStatus(s, ticket) ==
  /\ s.pending > 0
  /\ ticket = OldestTicket(s)
  /\ s.slot[ticket.slot].st = "DMA_RECLAIMED"
  /\ s.slot[ticket.slot].idValid

CompleteReclaimed(q, ticket) ==
  LET s == sw[q]
      b == s.slot[ticket.slot]
  IN  /\ AwaitsStatus(s, ticket)
      /\ JoinedIn(ring, q, ticket.slot, b, "RECLAIMED")
      /\ ring' = Dispose(ring, q, b.packet)
      /\ sw' = [sw EXCEPT ![q] = DropOldest(@)]
      /\ faulted' = (faulted \/ ~DisposeOk(ring, q, b.packet))
      /\ flow' = IF DisposeOk(ring, q, b.packet)
                 THEN MaybeWake(flow, ring', sw', running, faulted) ELSE flow
      /\ UNCHANGED <<live, running, ptr>>

(***************************************************************************)
(* ob_tx_path_stop: close every queue and cancel its packets oldest first. *)
(* The first cancellation the backend refuses ends that queue's loop and   *)
(* leaves the rest owned; packets already reclaimed need no cancellation.  *)
(* gone[q] is how many packets of q go.                                    *)
(***************************************************************************)
StopCounts ==
  {gone \in [Queues -> 0 .. Capacity] :
     \A q \in Queues :
       /\ gone[q] <= sw[q].pending
       /\ gone[q] = sw[q].pending \/ sw[q].slot[SwAt(sw[q], gone[q])].st = "SUBMITTED"}

\* One turn of the loop in ob_tx_sw_stop on queue q of path state c.
CancelOldest(c, q) ==
  LET s == c.sw[q]
      b == s.slot[s.tail]
      canceled == Transition(c.ring, b.ringSlot, b.ringGen, "SUBMITTED", "CANCELED")
      mapped == b.st = "SUBMITTED"
      unmapped == IF mapped THEN PathUnmap(canceled, s, q, b.dma, FALSE)
                  ELSE c.ring
  IN  [ring |-> Dispose(unmapped, q, b.packet),
       sw |-> [c.sw EXCEPT ![q] = DropOldest(@)],
       live |-> DropMapping(c.live, q, b),
       faulted |-> c.faulted \/ ~DisposeOk(unmapped, q, b.packet)]

\* The loop itself, up to the first refusal.
Canceled(c0, q, count) ==
  LET after[k \in 0 .. Capacity] ==
        IF k = 0 THEN c0 ELSE CancelOldest(after[k - 1], q)
  IN  after[count]

Stop ==
  \E gone \in StopCounts :
    LET closed == [q \in Queues |-> [sw[q] EXCEPT !.accepting = FALSE]]
        upTo[n \in 0 .. NumQueues] ==
          IF n = 0
          THEN [ring |-> ring, sw |-> closed, live |-> live, faulted |-> faulted]
          ELSE Canceled(upTo[n - 1], n - 1, gone[n - 1])
        final == upTo[NumQueues]
    IN  /\ ring' = final.ring
        /\ sw' = final.sw
        /\ live' = final.live
        /\ faulted' = final.faulted
        /\ running' = FALSE
        /\ UNCHANGED <<flow, ptr>>

-----------------------------------------------------------------------------
BackendErrors == {"ENOSPC", "EIO"}

Next ==
  \/ Start
  \/ Stop
  \/ \E q \in Queues, p \in Packets : RefuseFull(q, p)
  \/ \E q \in Queues, p \in Packets, d \in Dmas : RefuseNoDescriptor(q, p, d)
  \/ \E q \in Queues, p \in Packets, d \in Dmas, e \in BackendErrors :
       RefuseBackend(q, p, d, e)
  \/ \E q \in Queues, p \in Packets, d \in Dmas, v \in IdValid : Accept(q, p, d, v)
  \/ \E q \in Queues, t \in Tickets : Complete(q, t)
  \/ \E q \in Queues, p \in Packets : ReclaimPacket(q, p)
  \/ \E q \in Queues, t \in Tickets : CompleteReclaimed(q, t)

Spec == Init /\ [][Next]_vars

(***************************************************************************)
(* Fairness: the backend reports every packet it accepted, as the contract *)
(* of struct ob_tx_path_ops has it (a submission that succeeded is         *)
(* completed or canceled).  Nothing makes mac80211 call start or stop.     *)
(* This is WF_vars(Report(q)) with the enabling condition of Report(q)     *)
(* written out, which TLC evaluates much faster than ENABLED.              *)
(***************************************************************************)
Report(q) ==
  LET oldest == OldestTicket(sw[q])
  IN  (HasOldest(sw[q]) /\ Complete(q, oldest)) \/ CompleteReclaimed(q, oldest)

CanReport(q) ==
  LET i == sw[q].tail
      b == sw[q].slot[i]
  IN  \/ b.st = "SUBMITTED" /\ JoinedIn(ring, q, i, b, "SUBMITTED")
      \/ b.st = "DMA_RECLAIMED" /\ b.idValid /\ JoinedIn(ring, q, i, b, "RECLAIMED")

FairSpec ==
  Spec /\ \A q \in Queues : []<>~CanReport(q) \/ []<><<Report(q)>>_vars

-----------------------------------------------------------------------------
(***************************************************************************)
(* Properties.                                                             *)
(***************************************************************************)

\* The variables of the TX path have the types of the C structures.
SwSlot ==
  [packet : Packets \cup {NoPacket}, dma : Dmas, gen : Generation,
   bound : BOOLEAN, ringSlot : Index, ringGen : Generation,
   idValid : BOOLEAN, st : {"FREE", "SUBMITTING", "SUBMITTED", "DMA_RECLAIMED"}]

TypeOK ==
  /\ ring \in Ring(Packets, Queues, SwIndex)
  /\ sw \in [Queues -> [head : SwIndex, tail : SwIndex, pending : 0 .. Capacity,
                        accepting : BOOLEAN, slot : [SwIndex -> SwSlot]]]
  /\ flow \in [Queues -> [stopped : BOOLEAN, onQueue : BOOLEAN, onRing : BOOLEAN]]
  /\ running \in BOOLEAN
  /\ faulted \in BOOLEAN
  /\ live \in [Queues -> [Dmas -> Nat]]
  /\ ptr \in Index

\* A pending packet's software slot and ring slot name each other, hold the
\* same packet and agree on how far it got, whatever other queues did to the
\* ring meanwhile; a slot that is not pending holds nothing.
\* (ob_tx_path_ring_slot joins the two on generation, slot and queue.)
Agree(q, i) ==
  LET b == sw[q].slot[i]
      rs == ring.slot[b.ringSlot]
  IN  /\ b.st \in {"SUBMITTED", "DMA_RECLAIMED"}
      /\ Joined(ring, q, i, b)
      /\ rs.skb = b.packet
      /\ rs.st = IF b.st = "SUBMITTED" THEN "SUBMITTED" ELSE "RECLAIMED"
      /\ rs.mapped = (b.st = "SUBMITTED")

\* Every ring slot in use belongs to exactly one pending packet, after refused
\* submissions and partial stops too, and path->faulted, the latch for a broken
\* join, is never set by the path itself.  The slots also keep their types.
Owners(i) ==
  {x \in Queues \X SwIndex :
     x[2] \in PendingSlots(sw[x[1]]) /\ sw[x[1]].slot[x[2]].ringSlot = i}
SlotAgreement ==
  /\ TypeOK
  /\ \A q \in Queues, i \in SwIndex :
       IF i \in PendingSlots(sw[q]) THEN Agree(q, i)
       ELSE sw[q].slot[i] = ClearSlot(sw[q].slot[i].gen)
  /\ \A i \in Index :
       Cardinality(Owners(i)) = IF ring.slot[i].st = "FREE" THEN 0 ELSE 1
  /\ ~faulted

\* Out-of-order completions leave holes, never lost capacity: slots outside
\* the window are free, and the consumer never rests on a free slot.
ConsumerAtOldest ==
  /\ \A i \in Index \ Window(ring) : ring.slot[i].st = "FREE"
  /\ ring.head # ring.tail => ring.slot[ring.tail].st # "FREE"

\* The backend holds one mapping per packet the device may still read, and
\* none for a packet that was reclaimed, refused, completed or canceled.
MappingsExact ==
  \A q \in Queues, d \in Dmas :
    live[q][d] = Cardinality({i \in PendingSlots(sw[q]) :
                                /\ sw[q].slot[i].st = "SUBMITTED"
                                /\ sw[q].slot[i].dma = d})

\* mac80211 never believes a full queue to be open.
FullQueueIsStopped ==
  running => \A q \in Queues : sw[q].pending = Capacity => flow[q].stopped

\* The path implements one FIFO per queue with tickets issued once.
OwnedQueue(q) ==
  [k \in 1 .. sw[q].pending |->
     LET i == SwAt(sw[q], k - 1)
     IN  [packet |-> sw[q].slot[i].packet,
          ticket |-> [slot |-> i, gen |-> sw[q].slot[i].gen],
          reclaimed |-> sw[q].slot[i].st = "DMA_RECLAIMED"]]

Abstract ==
  INSTANCE TxQueues WITH
    queue <- [q \in Queues |-> OwnedQueue(q)],
    used <- [q \in Queues |->
               {t \in Tickets : t.gen > 0 /\ t.gen <= sw[q].slot[t.slot].gen}],
    open <- [q \in Queues |-> sw[q].accepting]

ImplementsQueues == Abstract!Spec

\* Every packet a queue accepted leaves it: completed, or canceled by a stop.
EveryPacketDisposed ==
  \A q \in Queues, i \in SwIndex : i \in PendingSlots(sw[q]) ~> i \notin PendingSlots(sw[q])

\* Every queue that is stopped for want of room is woken again, unless the
\* whole path is stopped first.
StoppedQueueWakes ==
  \A q \in Queues :
    (running /\ flow[q].stopped) ~> (~running \/ ~flow[q].stopped)

\* "The physical ring slot is marked SUBMITTED before submit runs so an
\* eventual publication cannot precede software ownership"
\* (src/ob_tx_path.h): what a publication newly exposes to the device, from
\* the previous producer pointer to the new one, is software-owned.
Exposed == {i \in Index : (i + N - ptr) % N < (ptr' + N - ptr) % N}
PublishedIsOwned ==
  [][\A i \in Exposed : ring'.slot[i].st = "SUBMITTED"]_ptr
=============================================================================
