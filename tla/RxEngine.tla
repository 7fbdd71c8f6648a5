------------------------------ MODULE RxEngine ------------------------------
(***************************************************************************)
(* The RX engine (ob_rx.c), the interrupt gate (ob_irq.c) and the remove   *)
(* path that tears both down (ob_core.c).                                  *)
(*                                                                         *)
(* One ring of Posted buffers is given to the device once and never        *)
(* refilled.  Three contexts work on it: the process context p (init,      *)
(* quiesce, remove; they hold rx_lifecycle_lock), the interrupt handler h  *)
(* and the drain tasklet t, which take no lock.  An action is what one     *)
(* context does between two accesses another context can see.              *)
(*                                                                         *)
(* ob_rx_dma_activation_supported() is FALSE in this tree and nothing sets *)
(* irq.active, so RX stays dormant; ActivationSupported = TRUE shows what  *)
(* the code does once it is admitted.                                      *)
(***************************************************************************)
EXTENDS RxFrames, FiniteSets

CONSTANTS Posted,              \* OB_DMA_RX_POST_INIT
          DrainMax,            \* OB_RX_DRAIN_MAX
          Lens,                \* the frame lengths the device may write
          ActivationSupported  \* ob_rx_dma_activation_supported()

ASSUME EngineAssumption ==
  /\ Posted \in Nat \ {0}
  /\ DrainMax \in Nat \ {0}
  /\ Lens \subseteq Nat
  /\ ActivationSupported \in BOOLEAN

Slots == 0 .. Posted - 1

VARIABLES
  rx,      \* hw->rx: initialized, running, route
  own,     \* hw->rx.dma_ownership
  ring,    \* the software half: the consumer, the mapped slots
  dev,     \* the device: engine on, descriptors completed, frame lengths
           \* written, descriptors left of the frame in progress, I_RI latched
  mask,    \* what the driver enabled: I_RI of FIFO 0, MI_DMAINT of the MAC
  irq,     \* hw->irq: handler installed, service active
  window,  \* is the register window alive, and hw->dev_lost
  p, h, t  \* the three contexts

vars == <<rx, own, ring, dev, mask, irq, window, p, h, t>>

Blank == -1     \* no frame starts in this descriptor
NoRx == [initialized |-> FALSE, running |-> FALSE, route |-> FALSE]
NoOwner == [mayOwn |-> FALSE, quarantined |-> FALSE, removing |-> FALSE]
EmptyRing == [tail |-> 0, mapped |-> {}]
IdleDevice ==
  [on |-> FALSE, cur |-> 0, frame |-> [i \in Slots |-> Blank], left |-> 0, ri |-> FALSE]
IdleTasklet == [pc |-> "idle", sched |-> FALSE, seen |-> 0, done |-> 0]

Init ==
  /\ rx = NoRx
  /\ own = NoOwner
  /\ ring = EmptyRing
  /\ dev = IdleDevice
  /\ mask = [fifo |-> FALSE, mac |-> FALSE]
  /\ irq = [installed |-> TRUE, active |-> FALSE]
  /\ window = [alive |-> TRUE, lost |-> FALSE]
  /\ p = [pc |-> "up", caller |-> "none", ok |-> TRUE]
  /\ h = "idle"
  /\ t = IdleTasklet

\* A guarded access gets through to the device.
Reaches == window.alive /\ ~window.lost
Write(old, new) == IF Reaches THEN new ELSE old

Goto(pc) == p' = [p EXCEPT !.pc = pc]

-----------------------------------------------------------------------------
(* Ownership of the posted memory (ob_rx_lifecycle.h), and the stop.       *)

MayFree == ~own.mayOwn /\ ~own.quarantined
MayInitialize == ~own.removing /\ MayFree
Quarantine(o) == [o EXCEPT !.mayOwn = TRUE, !.quarantined = TRUE]
ConfirmDisabled(o) == [o EXCEPT !.mayOwn = FALSE, !.quarantined = FALSE]

\* Mutant: the poll that times out is taken for a stop.
TimeoutIsStop ==
  { [own |-> ConfirmDisabled(own), on |-> on, ok |-> TRUE] : on \in {dev.on, FALSE} }

\* ob_rx_disable_hw: what may come of writing 0 to the control register and
\* polling for DISABLED.  An engine that times out may stop later or never.
DisableHw ==
  CASE window.lost ->
         { [own |-> IF own.mayOwn THEN Quarantine(own) ELSE own, on |-> dev.on, ok |-> FALSE] }
    [] ~window.lost /\ own.quarantined -> { [own |-> own, on |-> dev.on, ok |-> FALSE] }
    [] ~window.lost /\ ~own.quarantined /\ ~own.mayOwn ->
         { [own |-> own, on |-> dev.on, ok |-> TRUE] }
    [] OTHER ->
         { [own |-> Quarantine(own), on |-> on, ok |-> FALSE]
             : on \in IF window.alive THEN {dev.on, FALSE} ELSE {dev.on} }
         \cup IF window.alive
              THEN { [own |-> ConfirmDisabled(own), on |-> FALSE, ok |-> TRUE] } ELSE {}

-----------------------------------------------------------------------------
(* ob_rx_init.                                                             *)

\* The gates, the cleared structure; initialized is set before anything is
\* allocated.
StartInit ==
  /\ p.pc = "up"
  /\ ActivationSupported
  /\ ~rx.initialized
  /\ MayInitialize
  /\ rx' = [NoRx EXCEPT !.initialized = TRUE]
  /\ own' = NoOwner
  /\ p' = [p EXCEPT !.pc = "alloc", !.caller = "init"]
  /\ UNCHANGED <<ring, dev, mask, irq, window, h, t>>

\* ob_rx_alloc_buffers; a failure half way frees what was mapped.
Alloc ==
  /\ p.pc = "alloc"
  /\ ring' = [tail |-> 0, mapped |-> Slots]
  /\ Goto("program")
  /\ UNCHANGED <<rx, own, dev, mask, irq, window, h, t>>

AllocFails ==
  /\ p.pc = "alloc"
  /\ ring' = EmptyRing
  /\ rx' = [rx EXCEPT !.initialized = FALSE]
  /\ Goto("up")
  /\ UNCHANGED <<own, dev, mask, irq, window, h, t>>

\* ob_rx_program: the device may own the memory from before the write on.
Program ==
  /\ p.pc = "program"
  /\ own' = [own EXCEPT !.mayOwn = TRUE]
  /\ dev' = Write(dev, [IdleDevice EXCEPT !.on = TRUE])
  /\ Goto("check")
  /\ UNCHANGED <<rx, ring, mask, irq, window, h, t>>

\* Its readbacks; a failure goes through the quiesce.
Programmed ==
  /\ p.pc = "check"
  /\ Reaches
  /\ rx' = [rx EXCEPT !.running = TRUE]
  /\ Goto("route")
  /\ UNCHANGED <<own, ring, dev, mask, irq, window, h, t>>

ProgramFails ==
  /\ p.pc = "check"
  /\ Goto("close")
  /\ UNCHANGED <<rx, own, ring, dev, mask, irq, window, h, t>>

\* ob_rx_enable_irq: the route, then the two masks.
Route ==
  /\ p.pc = "route"
  /\ rx' = [rx EXCEPT !.route = TRUE]
  /\ Goto("fifo")
  /\ UNCHANGED <<own, ring, dev, mask, irq, window, h, t>>

RouteFails ==
  /\ p.pc = "route"
  /\ Goto("close")
  /\ UNCHANGED <<rx, own, ring, dev, mask, irq, window, h, t>>

UnmaskFifo ==
  /\ p.pc = "fifo"
  /\ mask' = Write(mask, [mask EXCEPT !.fifo = TRUE])
  /\ Goto("mac")
  /\ UNCHANGED <<rx, own, ring, dev, irq, window, h, t>>

UnmaskMac ==
  /\ p.pc = "mac"
  /\ mask' = Write(mask, [mask EXCEPT !.mac = TRUE])
  /\ Goto("up")
  /\ UNCHANGED <<rx, own, ring, dev, irq, window, h, t>>

-----------------------------------------------------------------------------
(* ob_rx_quiesce_locked, for three callers: a failed init, ob_rx_quiesce   *)
(* and ob_rx_remove_begin.                                                 *)

StartQuiesce ==
  /\ p.pc = "up"
  /\ IF rx.initialized
     THEN p' = [p EXCEPT !.pc = "close", !.caller = "quiesce"] /\ own' = own
     ELSE p' = p /\ own' = IF MayFree THEN own ELSE Quarantine(own)
  /\ UNCHANGED <<rx, ring, dev, mask, irq, window, h, t>>

\* ob_remove, once ob_mac80211_unregister is done: ob_rx_remove_begin.
StartRemove ==
  /\ p.pc = "up"
  /\ LET removing == [own EXCEPT !.removing = TRUE] IN
     IF rx.initialized
     THEN p' = [pc |-> "close", caller |-> "remove", ok |-> TRUE] /\ own' = removing
     ELSE /\ p' = [pc |-> "irqfree", caller |-> "remove", ok |-> MayFree]
          /\ own' = IF MayFree THEN removing ELSE Quarantine(removing)
  /\ UNCHANGED <<rx, ring, dev, mask, irq, window, h, t>>

\* The gate is closed first: a handler or tasklet that starts now returns.
CloseGate ==
  /\ p.pc = "close"
  /\ rx' = [rx EXCEPT !.running = FALSE]
  /\ Goto("sync")
  /\ UNCHANGED <<own, ring, dev, mask, irq, window, h, t>>

\* Mutant: the handler in flight is not waited for.
SynchronizeNothing ==
  /\ p.pc = "sync"
  /\ Goto("kill")
  /\ UNCHANGED <<rx, own, ring, dev, mask, irq, window, h, t>>

\* synchronize_irq waits for a handler in flight ...
SynchronizeIrq ==
  /\ p.pc = "sync"
  /\ h = "idle"
  /\ Goto("kill")
  /\ UNCHANGED <<rx, own, ring, dev, mask, irq, window, h, t>>

\* ... and tasklet_kill for the tasklet it may have scheduled.
KillTasklet ==
  /\ p.pc = "kill"
  /\ t.pc = "idle" /\ ~t.sched
  /\ Goto("mask")
  /\ UNCHANGED <<rx, own, ring, dev, mask, irq, window, h, t>>

\* Only then are the masks and the route the teardown's own.
MaskAll ==
  /\ p.pc = "mask"
  /\ IF window.lost THEN UNCHANGED <<mask, rx>>
     ELSE /\ mask' = Write(mask, [fifo |-> FALSE, mac |-> FALSE])
          /\ rx' = [rx EXCEPT !.route = FALSE]
  /\ Goto("disable")
  /\ UNCHANGED <<own, ring, dev, irq, window, h, t>>

\* The return to the three callers: a failed init frees its buffers if the
\* engine stopped and forgets the engine, a remove goes on to the interrupt.
Return(ok) ==
  /\ ring' = IF p.caller = "init" /\ ok THEN [ring EXCEPT !.mapped = {}] ELSE ring
  /\ rx' = [rx EXCEPT !.running = FALSE,
                      !.initialized = CASE p.caller = "init" -> FALSE
                                        [] p.caller = "remove" -> ~ok
                                        [] OTHER -> TRUE]
  /\ p' = [p EXCEPT !.pc = IF p.caller = "remove" THEN "irqfree" ELSE "up", !.ok = ok]

\* The stop itself.  An engine found lost is not stopped but quarantined.
Disable ==
  /\ p.pc = "disable"
  /\ IF own.mayOwn
     THEN \E o \in DisableHw :
            /\ own' = IF o.ok THEN o.own ELSE Quarantine(o.own)
            /\ dev' = [dev EXCEPT !.on = o.on]
            /\ Return(o.ok)
     ELSE own' = own /\ dev' = dev /\ Return(TRUE)
  /\ UNCHANGED <<mask, irq, window, h, t>>

-----------------------------------------------------------------------------
(* The rest of ob_remove: ob_irq_free and the memory.                      *)

CloseService ==
  /\ p.pc = "irqfree"
  /\ irq' = [irq EXCEPT !.active = FALSE]
  /\ mask' = Write(mask, [mask EXCEPT !.mac = FALSE])
  /\ Goto("freeirq")
  /\ UNCHANGED <<rx, own, ring, dev, window, h, t>>

FreeIrq ==
  /\ p.pc = "freeirq"
  /\ h = "idle"
  /\ irq' = [irq EXCEPT !.installed = FALSE]
  /\ Goto("free")
  /\ UNCHANGED <<rx, own, ring, dev, mask, window, h, t>>

\* tasklet_kill again, if the engine still counts as initialized; then the
\* buffers and the ring are freed, or retained under a durable owner.
FreeMemory ==
  /\ p.pc = "free"
  /\ rx.initialized => t.pc = "idle" /\ ~t.sched
  /\ ring' = IF p.ok /\ ~rx.initialized /\ MayFree THEN [ring EXCEPT !.mapped = {}] ELSE ring
  /\ Goto("gone")
  /\ UNCHANGED <<rx, own, dev, mask, irq, window, h, t>>

-----------------------------------------------------------------------------
(* The interrupt handler.  The line is shared: it may be called any time.  *)

\* ob_irq_handler: nothing is touched unless service is active and the summary
\* bit of MACINTSTATUS stands; an all-ones status is not ours.
Interrupt ==
  /\ irq.installed /\ irq.active
  /\ h = "idle"
  /\ Reaches /\ dev.ri /\ mask.fifo
  /\ h' = "rx"
  /\ UNCHANGED <<rx, own, ring, dev, mask, irq, window, p, t>>

\* ob_rx_irq: the gate and I_RI (which stands in an all-ones read too).
RxIrq ==
  /\ h = "rx"
  /\ h' = IF rx.running /\ (dev.ri \/ ~Reaches) THEN "mask" ELSE "idle"
  /\ UNCHANGED <<rx, own, ring, dev, mask, irq, window, p, t>>

MaskSource ==
  /\ h = "mask"
  /\ mask' = Write(mask, [mask EXCEPT !.fifo = FALSE])
  /\ h' = "ack"
  /\ UNCHANGED <<rx, own, ring, dev, irq, window, p, t>>

AckSource ==
  /\ h = "ack"
  /\ dev' = Write(dev, [dev EXCEPT !.ri = FALSE])
  /\ h' = "sched"
  /\ UNCHANGED <<rx, own, ring, mask, irq, window, p, t>>

ScheduleTasklet ==
  /\ h = "sched"
  /\ t' = [t EXCEPT !.sched = TRUE]
  /\ h' = "idle"
  /\ UNCHANGED <<rx, own, ring, dev, mask, irq, window, p>>

-----------------------------------------------------------------------------
(* The drain tasklet.                                                      *)

\* Mutant: a tasklet that finds the gate closed looks again later.
TaskletStartRetries ==
  /\ t.pc = "idle" /\ t.sched
  /\ t' = [t EXCEPT !.sched = ~rx.running, !.done = 0, !.seen = dev.cur,
                    !.pc = IF ~rx.running THEN "idle" ELSE IF Reaches THEN "drain" ELSE "abort"]
  /\ UNCHANGED <<rx, own, ring, dev, mask, irq, window, p, h>>

\* The gate, then STATUS0: an index outside the posted ring, as an all-ones
\* read gives, aborts.
TaskletStart ==
  /\ t.pc = "idle" /\ t.sched
  /\ t' = [t EXCEPT !.sched = FALSE, !.done = 0, !.seen = dev.cur,
                    !.pc = IF ~rx.running THEN "idle" ELSE IF Reaches THEN "drain" ELSE "abort"]
  /\ UNCHANGED <<rx, own, ring, dev, mask, irq, window, p, h>>

\* A completed frame is left, and budget for it.
Waiting == t.pc = "drain" /\ ring.tail < t.seen /\ t.done < DrainMax

HeadLen == dev.frame[ring.tail]
Needed == ring.tail .. ring.tail + PlanSegments(HeadLen) - 1
Owned == Needed \subseteq ring.mapped
Whole == PlanOk(HeadLen) /\ PlanSegments(HeadLen) <= t.seen - ring.tail

\* A whole frame is copied out; its slots are released and unmapped.
TakeFrame ==
  /\ Waiting /\ Whole /\ Owned
  /\ ring' = [tail |-> ring.tail + PlanSegments(HeadLen), mapped |-> ring.mapped \ Needed]
  /\ t' = [t EXCEPT !.done = @ + 1]
  /\ UNCHANGED <<rx, own, dev, mask, irq, window, p, h>>

\* Its continuations have not all arrived: the head waits, unless there is no
\* posted buffer left for them.
FrameIncomplete ==
  /\ Waiting /\ PlanOk(HeadLen) /\ ~Whole
  /\ t' = [t EXCEPT !.pc = IF t.seen >= Posted THEN "abort" ELSE "rearm"]
  /\ UNCHANGED <<rx, own, ring, dev, mask, irq, window, p, h>>

\* A length that makes no sense, a slot nobody mapped, no memory for the copy.
FrameFails ==
  /\ Waiting
  /\ t' = [t EXCEPT !.pc = "abort"]
  /\ UNCHANGED <<rx, own, ring, dev, mask, irq, window, p, h>>

Drained ==
  /\ t.pc = "drain"
  /\ ~Waiting
  /\ t' = [t EXCEPT !.pc = IF ring.tail >= Posted THEN "stop" ELSE "rearm"]
  /\ UNCHANGED <<rx, own, ring, dev, mask, irq, window, p, h>>

\* Mutant: the source is acknowledged again when it is re-armed.
RearmAcked ==
  /\ t.pc = "rearm"
  /\ mask' = Write(mask, [mask EXCEPT !.fifo = TRUE])
  /\ dev' = Write(dev, [dev EXCEPT !.ri = FALSE])
  /\ t' = [t EXCEPT !.pc = "idle"]
  /\ UNCHANGED <<rx, own, ring, irq, window, p, h>>

Rearm ==
  /\ t.pc = "rearm"
  /\ mask' = Write(mask, [mask EXCEPT !.fifo = TRUE])
  /\ t' = [t EXCEPT !.pc = "idle"]
  /\ UNCHANGED <<rx, own, ring, dev, irq, window, p, h>>

\* Containment: the MAC summary is masked and the line unrouted ...
Abort ==
  /\ t.pc = "abort"
  /\ mask' = Write(mask, [mask EXCEPT !.mac = FALSE])
  /\ rx' = [rx EXCEPT !.route = FALSE]
  /\ t' = [t EXCEPT !.pc = "stop"]
  /\ UNCHANGED <<own, ring, dev, irq, window, p, h>>

\* ... and, as when the ring is used up, the source masked, the engine stopped
\* and the gate closed.
StopEngine ==
  /\ t.pc = "stop"
  /\ mask' = Write(mask, [mask EXCEPT !.fifo = FALSE])
  /\ \E o \in DisableHw : own' = o.own /\ dev' = [dev EXCEPT !.on = o.on]
  /\ t' = [t EXCEPT !.pc = "closed"]
  /\ UNCHANGED <<rx, ring, irq, window, p, h>>

Closed ==
  /\ t.pc = "closed"
  /\ rx' = [rx EXCEPT !.running = FALSE]
  /\ t' = [t EXCEPT !.pc = "idle"]
  /\ UNCHANGED <<own, ring, dev, mask, irq, window, p, h>>

-----------------------------------------------------------------------------
(* External: the device, the rest of the driver and the bus.               *)

\* The device fills one more buffer; I_RI is latched with the last of a frame.
Receive ==
  /\ dev.on
  /\ dev.cur < Posted
  /\ IF dev.left > 0
     THEN dev' = [dev EXCEPT !.cur = @ + 1, !.left = @ - 1, !.ri = @ \/ dev.left = 1]
     ELSE \E len \in Lens :
            LET n == (Prefix + len + BufSize - 1) \div BufSize IN
            dev' = [dev EXCEPT !.cur = @ + 1, !.frame[dev.cur] = len, !.left = n - 1,
                               !.ri = @ \/ n = 1]
  /\ UNCHANGED <<rx, own, ring, mask, irq, window, p, h, t>>

\* The start path opens interrupt service, while no remove is on its way.
OpenService ==
  /\ p.pc = "up"
  /\ ~irq.active
  /\ irq' = [irq EXCEPT !.active = TRUE]
  /\ UNCHANGED <<rx, own, ring, dev, mask, window, p, h, t>>

\* The register window dies; sooner or later some trusted read latches the loss.
WindowDies ==
  /\ window.alive /\ p.pc # "gone"
  /\ window' = [window EXCEPT !.alive = FALSE]
  /\ UNCHANGED <<rx, own, ring, dev, mask, irq, p, h, t>>

LatchLoss ==
  /\ ~window.alive /\ ~window.lost /\ p.pc # "gone"
  /\ window' = [window EXCEPT !.lost = TRUE]
  /\ UNCHANGED <<rx, own, ring, dev, mask, irq, p, h, t>>

InitStep ==
  StartInit \/ Alloc \/ AllocFails \/ Program \/ Programmed \/ ProgramFails \/ Route
  \/ RouteFails \/ UnmaskFifo \/ UnmaskMac
QuiesceStep == CloseGate \/ SynchronizeIrq \/ KillTasklet \/ MaskAll \/ Disable
RemoveStep == CloseService \/ FreeIrq \/ FreeMemory
HandlerStep == RxIrq \/ MaskSource \/ AckSource \/ ScheduleTasklet
TaskletStep ==
  TaskletStart \/ TakeFrame \/ FrameIncomplete \/ FrameFails \/ Drained \/ Rearm \/ Abort
  \/ StopEngine \/ Closed

Next ==
  \/ InitStep
  \/ StartQuiesce \/ StartRemove \/ QuiesceStep \/ RemoveStep
  \/ Interrupt \/ HandlerStep \/ TaskletStep
  \/ Receive \/ OpenService \/ WindowDies \/ LatchLoss

Spec == Init /\ [][Next]_vars

\* The kernel runs the handler it entered, the tasklet it scheduled and the
\* thread in quiesce or remove.  synchronize_irq waits for handlers in flight
\* only, so that later ones cannot hold it up (strong fairness).
FairSpec ==
  /\ Spec
  /\ WF_vars(HandlerStep)
  /\ WF_vars(TaskletStep)
  /\ SF_vars(SynchronizeIrq) /\ SF_vars(FreeIrq)
  /\ WF_vars(CloseGate \/ KillTasklet \/ MaskAll \/ Disable \/ CloseService \/ FreeMemory)

-----------------------------------------------------------------------------
(***************************************************************************)
(* Properties.                                                             *)
(***************************************************************************)

\* Memory the device may still write stays mapped: "a timeout never counts as
\* confirmed quiescence" (ob_rx_lifecycle.h), through a failed init, the
\* tasklet's own stop, a lost device and the remove.
DeviceMemoryStays ==
  dev.on => dev.cur .. Posted - 1 \subseteq ring.mapped

\* "Only after it is quiescent may teardown own these registers"
\* (ob_rx_quiesce_locked): once the masks, the route and the ownership are the
\* teardown's, neither handler nor tasklet is at work on them; and nothing of
\* struct ob_hw is in use once it is freed behind ob_remove.
TeardownAlone ==
  /\ p.pc \in {"mask", "disable", "irqfree", "freeirq", "free", "gone"} =>
       /\ t.pc = "idle" /\ ~t.sched
       /\ h \in {"idle", "rx"} /\ ~rx.running
  /\ p.pc = "gone" => h = "idle" /\ ~irq.installed

\* A complete frame waits at the consumer.
FrameWaits ==
  /\ ring.tail < dev.cur
  /\ PlanOk(HeadLen)
  /\ PlanSegments(HeadLen) <= dev.cur - ring.tail

\* No lost wakeup: while RX runs and all contexts rest, the interrupt is armed,
\* and a complete frame has one pending - unless the last drain ended at its
\* budget, which re-arms without scheduling itself again.
NoLostWakeup ==
  (rx.running /\ p.pc = "up" /\ h = "idle" /\ t.pc = "idle" /\ ~t.sched /\ Reaches) =>
    /\ mask.fifo /\ mask.mac /\ rx.route
    /\ FrameWaits => dev.ri \/ t.done = DrainMax

\* The drain and the device agree on where frames begin: the consumer never
\* stands inside a frame, the slots of a waiting frame are mapped, and what is
\* copied out of them is the whole frame.
ConsumerInStep ==
  Waiting =>
    /\ HeadLen # Blank
    /\ ring.tail \in ring.mapped
    /\ Whole => Owned /\ Copied(HeadLen, PlanSegments(HeadLen)) = HeadLen

\* A quiesce, a failed init and a remove come to an end, whatever handler and
\* tasklet are doing and however often the shared line fires.
TeardownEnds == p.pc = "close" ~> p.pc \in {"up", "gone"}
=============================================================================
