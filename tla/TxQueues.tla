------------------------------ MODULE TxQueues ------------------------------
(***************************************************************************)
(* What the TX path promises its callers, with the ring, the mappings and  *)
(* the backpressure left out: one FIFO per access category.                *)
(*                                                                         *)
(*   - a packet is in a queue at most once, and leaves only from its head; *)
(*   - a ticket is never issued twice, so an old ticket names nothing;     *)
(*   - the head may lose its mapping (reclaimed) before it leaves;         *)
(*   - closing cancels from the head and never reorders what stays.        *)
(***************************************************************************)
EXTENDS Naturals, Sequences

CONSTANTS Packets, Queues, Capacity, Tickets

VARIABLES
  queue,  \* queue |-> the packets it owns, oldest first
  used,   \* queue |-> tickets spent so far
  open    \* queue |-> does it accept packets

qvars == <<queue, used, open>>

Entry == [packet : Packets, ticket : Tickets, reclaimed : BOOLEAN]

Owned(q) == {queue[q][k].packet : k \in DOMAIN queue[q]}

Init ==
  /\ queue = [q \in Queues |-> <<>>]
  /\ used = [q \in Queues |-> {}]
  /\ open = [q \in Queues |-> FALSE]

Enqueue(q, packet, ticket) ==
  /\ open[q]
  /\ Len(queue[q]) < Capacity
  /\ packet \notin Owned(q)
  /\ ticket \notin used[q]
  /\ queue' = [queue EXCEPT ![q] = Append(@, [packet |-> packet, ticket |-> ticket,
                                              reclaimed |-> FALSE])]
  /\ used' = [used EXCEPT ![q] = @ \cup {ticket}]
  /\ UNCHANGED open

\* A submission that fails leaves the packet with the caller.
Fail(q, ticket) ==
  /\ open[q]
  /\ ticket \notin used[q]
  /\ used' = [used EXCEPT ![q] = @ \cup {ticket}]
  /\ UNCHANGED <<queue, open>>

Reclaim(q) ==
  /\ queue[q] # <<>>
  /\ ~Head(queue[q]).reclaimed
  /\ queue' = [queue EXCEPT ![q] = [@ EXCEPT ![1].reclaimed = TRUE]]
  /\ UNCHANGED <<used, open>>

Finish(q) ==
  /\ queue[q] # <<>>
  /\ queue' = [queue EXCEPT ![q] = Tail(@)]
  /\ UNCHANGED <<used, open>>

OpenAll ==
  /\ \A q \in Queues : queue[q] = <<>>
  /\ open' = [q \in Queues |-> TRUE]
  /\ UNCHANGED <<queue, used>>

\* A start that finds a queue still owning packets opens nothing.
OpenRefused ==
  /\ \E q \in Queues : queue[q] # <<>>
  /\ open' \in [Queues -> BOOLEAN]
  /\ \A q \in Queues : open'[q] => open[q]
  /\ UNCHANGED <<queue, used>>

Close ==
  /\ open' = [q \in Queues |-> FALSE]
  /\ \E gone \in [Queues -> 0 .. Capacity] :
       /\ \A q \in Queues : gone[q] <= Len(queue[q])
       /\ queue' = [q \in Queues |->
                      SubSeq(queue[q], gone[q] + 1, Len(queue[q]))]
  /\ UNCHANGED used

Next ==
  \/ \E q \in Queues, p \in Packets, t \in Tickets : Enqueue(q, p, t)
  \/ \E q \in Queues, t \in Tickets : Fail(q, t)
  \/ \E q \in Queues : Reclaim(q) \/ Finish(q)
  \/ OpenAll \/ OpenRefused \/ Close

Spec == Init /\ [][Next]_qvars
=============================================================================
