------------------------------- MODULE DpcSw -------------------------------
(***************************************************************************)
(* The software event queue of src/ob_dpc_sw.c: a ring of Capacity events  *)
(* that the embedding driver fills with ob_dpc_sw_enqueue and drains with  *)
(* ob_dpc_sw_dispatch.  Calls are serialised by the embedding driver, but  *)
(* ops->process may call back into the queue, so a dispatch is cut at its  *)
(* callbacks: Dispatch runs to the first one, ProcessReturns from one to   *)
(* the next, and every other operation may happen while one is running.    *)
(*                                                                         *)
(* An event is known by its serial number, the how-many-eth event the      *)
(* queue accepted; kind and token are data nothing here looks at.          *)
(***************************************************************************)
EXTENDS Naturals, Sequences

CONSTANTS
  Capacity,   \* OB_DPC_SW_CAPACITY = 32
  MaxBatch,   \* OB_DPC_SW_MAX_BATCH = 16
  MaxEvents   \* bound on the events accepted in one behaviour

ASSUME DpcAssumption ==
  /\ Capacity \in Nat \ {0}
  /\ MaxBatch \in Nat \ {0}
  /\ MaxEvents \in Nat

Serial == 1 .. MaxEvents
NoEvent == 0
Index == 0 .. Capacity - 1

VARIABLES
  queue,      \* state->queue: index |-> serial, NoEvent where never written
  head, tail, count,
  accepting, devLost, failed,
  failedToken,
  enqueued, processed, reclaimed,
  current,    \* the event ops->process is running on (dispatching), or NoEvent
  left,       \* events the running dispatch may still take after this one
  delivered,  \* history: events handed to ops->process, in order
  returned    \* history: events ob_dpc_sw_cancel_pending gave back, in order

vars == <<queue, head, tail, count, accepting, devLost, failed, failedToken,
          enqueued, processed, reclaimed, current, left, delivered, returned>>

-----------------------------------------------------------------------------
\* ob_dpc_sw_advance
Advance(i) == IF i + 1 = Capacity THEN 0 ELSE i + 1

\* state->dispatching
Dispatching == current # NoEvent

\* The ring position k places after i, for k up to Capacity.
At(i, k) == IF i + k < Capacity THEN i + k ELSE i + k - Capacity

Init ==
  /\ queue = [i \in Index |-> NoEvent]
  /\ head = 0 /\ tail = 0 /\ count = 0
  /\ accepting = TRUE
  /\ devLost = FALSE
  /\ failed = FALSE
  /\ failedToken = NoEvent
  /\ enqueued = 0 /\ processed = 0 /\ reclaimed = 0
  /\ current = NoEvent
  /\ left = 0
  /\ delivered = <<>>
  /\ returned = <<>>

\* The refusals of ob_dpc_sw_enqueue only count themselves (state->rejected).
MayEnqueue == ~devLost /\ accepting /\ ~failed /\ count # Capacity

Enqueue ==
  /\ enqueued < MaxEvents
  /\ MayEnqueue
  /\ queue' = [queue EXCEPT ![head] = enqueued + 1]
  /\ head' = Advance(head)
  /\ count' = count + 1
  /\ enqueued' = enqueued + 1
  /\ UNCHANGED <<tail, accepting, devLost, failed, failedToken, processed,
                 reclaimed, current, left, delivered, returned>>

-----------------------------------------------------------------------------
\* Mutant: the loop does not look at the flags again after a callback.
GoesOnAnyway(budget) == budget > 0 /\ count > 0

\* The loop condition of ob_dpc_sw_dispatch.
GoesOn(budget) ==
  budget > 0 /\ count > 0 /\ accepting /\ ~devLost /\ ~failed

\* The event leaves the ring before ops->process sees it.
Take(budget) ==
  /\ current' = queue[tail]
  /\ tail' = Advance(tail)
  /\ count' = count - 1
  /\ left' = budget - 1
  /\ delivered' = Append(delivered, queue[tail])

Limit(budget) == IF budget < MaxBatch THEN budget ELSE MaxBatch

\* ob_dpc_sw_dispatch up to its first callback.  A budget of 0, an empty
\* queue and the refusals (lost, failed, closed, already dispatching) change
\* nothing.
Dispatch(budget) ==
  /\ ~Dispatching
  /\ GoesOn(Limit(budget))
  /\ Take(Limit(budget))
  /\ UNCHANGED <<queue, head, accepting, devLost, failed, failedToken,
                 enqueued, processed, reclaimed, returned>>

\* ops->process returns 0: the loop goes on, or the dispatch is over.
ProcessSucceeds ==
  /\ Dispatching
  /\ processed' = processed + 1
  /\ IF GoesOn(left) THEN Take(left)
     ELSE /\ current' = NoEvent
          /\ left' = 0
          /\ UNCHANGED <<tail, count, delivered>>
  /\ UNCHANGED <<queue, head, accepting, devLost, failed, failedToken,
                 enqueued, reclaimed, returned>>

\* Mutant: the token is read from the ring after the callback.
ProcessFailsStale ==
  /\ Dispatching
  /\ processed' = processed + 1
  /\ failed' = TRUE
  /\ accepting' = FALSE
  /\ failedToken' = queue[tail]
  /\ current' = NoEvent
  /\ left' = 0
  /\ UNCHANGED <<queue, head, tail, count, devLost, enqueued, reclaimed,
                 delivered, returned>>

\* ops->process fails: the queue is failed for good and names the event.
ProcessFails ==
  /\ Dispatching
  /\ processed' = processed + 1
  /\ failed' = TRUE
  /\ accepting' = FALSE
  /\ failedToken' = current
  /\ current' = NoEvent
  /\ left' = 0
  /\ UNCHANGED <<queue, head, tail, count, devLost, enqueued, reclaimed,
                 delivered, returned>>

-----------------------------------------------------------------------------
\* ob_dpc_sw_quiesce
Quiesce ==
  /\ accepting' = FALSE
  /\ UNCHANGED <<queue, head, tail, count, devLost, failed, failedToken, enqueued,
                 processed, reclaimed, current, left, delivered, returned>>

\* ob_dpc_sw_mark_dev_lost
MarkDevLost ==
  /\ devLost' = TRUE
  /\ accepting' = FALSE
  /\ UNCHANGED <<queue, head, tail, count, failed, failedToken, enqueued,
                 processed, reclaimed, current, left, delivered, returned>>

\* Mutant: pending events may be taken back while the queue is open.
MayCancelOpen == ~Dispatching

MayCancel == ~accepting /\ ~Dispatching

Oldest(n) == [k \in 1 .. n |-> queue[At(tail, k - 1)]]

Moved(n) == IF n < count THEN n ELSE count

\* Mutant: the room offered is counted, not the events moved.
CancelCountsRoom(n) ==
  /\ MayCancel
  /\ count > 0
  /\ tail' = At(tail, Moved(n))
  /\ count' = count - Moved(n)
  /\ reclaimed' = reclaimed + n
  /\ returned' = returned \o Oldest(Moved(n))
  /\ UNCHANGED <<queue, head, accepting, devLost, failed, failedToken,
                 enqueued, processed, current, left, delivered>>

\* ob_dpc_sw_cancel_pending with room for n events: the oldest go first.
Cancel(n) ==
  /\ MayCancel
  /\ count > 0
  /\ tail' = At(tail, Moved(n))
  /\ count' = count - Moved(n)
  /\ reclaimed' = reclaimed + Moved(n)
  /\ returned' = returned \o Oldest(Moved(n))
  /\ UNCHANGED <<queue, head, accepting, devLost, failed, failedToken,
                 enqueued, processed, current, left, delivered>>

Next ==
  \/ Enqueue
  \/ \E budget \in 1 .. MaxBatch + 1 : Dispatch(budget)
  \/ ProcessSucceeds
  \/ ProcessFails
  \/ Quiesce
  \/ MarkDevLost
  \/ \E n \in 1 .. Capacity : Cancel(n)

Spec == Init /\ [][Next]_vars

-----------------------------------------------------------------------------
\* The variables have the types of struct ob_dpc_sw_state.
TypeOK ==
  /\ queue \in [Index -> Serial \cup {NoEvent}]
  /\ head \in Index /\ tail \in Index /\ count \in 0 .. Capacity
  /\ accepting \in BOOLEAN /\ devLost \in BOOLEAN /\ failed \in BOOLEAN
  /\ failedToken \in Serial \cup {NoEvent}
  /\ enqueued \in 0 .. MaxEvents
  /\ processed \in 0 .. MaxEvents
  /\ reclaimed \in 0 .. MaxEvents
  /\ current \in Serial \cup {NoEvent}
  /\ left \in 0 .. MaxBatch
  /\ delivered \in Seq(Serial) /\ returned \in Seq(Serial)

\* Every accepted event is owned by exactly one party: the queue, the running
\* callback, whoever processed it, or the caller that took it back.
\* (struct ob_dpc_sw_ops: "takes ownership of this event exactly once".)
Conserved ==
  enqueued = processed + reclaimed + count + (IF Dispatching THEN 1 ELSE 0)

\* Events leave in the order they came, each once, whatever callbacks do to
\* the queue and however the ring wraps; those given back are younger than
\* all that were processed.
InOrder ==
  LET out == delivered \o returned
  IN  \A k \in 1 .. Len(out) : out[k] = k

\* After a failure the event that failed is the last one ever handed to
\* ops->process, and the count of processed events says which one it was.
FailureIsLast ==
  failed => /\ failedToken = processed
            /\ Len(delivered) = processed

\* No event is handed to ops->process once a callback of the same dispatch,
\* or anybody before, quiesced the queue or marked the device lost.
NothingAfterStop ==
  [][delivered' # delivered => accepting /\ ~devLost /\ ~failed]_vars
=============================================================================
