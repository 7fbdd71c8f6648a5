--------------------------- MODULE RxEngineProofs ---------------------------
(***************************************************************************)
(* Proofs about RxEngine for any ring, any drain budget, any buffer, prefix  *)
(* and chain sizes and any frame lengths: the memory the device may write     *)
(* stays mapped, a teardown is alone with what it tears down, drain and       *)
(* device agree on where frames begin, and no wakeup is lost but the named    *)
(* one.                                                                     *)
(*                                                                         *)
(* Three ideas carry the induction.  The gate rx.running opens only in a      *)
(* ring that nobody works on, so that handler and tasklet are AtRest from     *)
(* the end of a teardown to the end of the next start.  The lengths that the  *)
(* device has written chain up from slot 0 to the frame in progress, and the  *)
(* consumer stands on a link of that chain.  And a frame that became whole    *)
(* after the tasklet had looked has latched an interrupt since.               *)
(***************************************************************************)
EXTENDS RxEngine, TLAPS

-----------------------------------------------------------------------------
(***************************************************************************)
(* The inductive invariant.                                                 *)
(***************************************************************************)
ProcessStates ==
  {"up", "alloc", "program", "check", "route", "fifo", "mac", "close", "sync", "kill", "mask",
   "disable", "irqfree", "freeirq", "free", "gone"}

TaskletStates == {"idle", "drain", "rearm", "abort", "stop", "closed"}

RxStates == [initialized : BOOLEAN, running : BOOLEAN, route : BOOLEAN]
OwnerStates == [mayOwn : BOOLEAN, quarantined : BOOLEAN, removing : BOOLEAN]
Rings == [tail : Nat, mapped : SUBSET Slots]
Devices ==
  [on : BOOLEAN, cur : 0 .. Posted, frame : [Slots -> Lens \cup {Blank}], left : Int,
   ri : BOOLEAN]
Masks == [fifo : BOOLEAN, mac : BOOLEAN]
Irqs == [installed : BOOLEAN, active : BOOLEAN]
Windows == [alive : BOOLEAN, lost : BOOLEAN]
Processes == [pc : ProcessStates, caller : {"none", "init", "quiesce", "remove"}, ok : BOOLEAN]
Tasklets ==
  [pc : TaskletStates, sched : BOOLEAN, seen : 0 .. Posted, done : 0 .. DrainMax]

TypeOK ==
  /\ rx \in RxStates
  /\ own \in OwnerStates
  /\ ring \in Rings
  /\ dev \in Devices
  /\ mask \in Masks
  /\ irq \in Irqs
  /\ window \in Windows
  /\ p \in Processes
  /\ h \in {"idle", "rx", "mask", "ack", "sched"}
  /\ t \in Tasklets

\* Neither handler nor tasklet is past the gate, and the gate is closed.
AtRest == t.pc = "idle" /\ ~t.sched /\ h \in {"idle", "rx"} /\ ~rx.running

Gate ==
  /\ ~rx.initialized => AtRest
  /\ p.pc \in {"alloc", "program", "check", "route", "fifo", "mac"} => rx.initialized
  /\ p.pc \in {"alloc", "program", "check", "mask", "disable", "irqfree", "freeirq", "free", "gone"}
       => AtRest
  /\ p.pc \in {"sync", "kill"} => ~rx.running
  /\ p.pc = "kill" => h \in {"idle", "rx"}
  /\ p.pc \in {"free", "gone"} => h = "idle" /\ ~irq.installed

\* An engine that is on may own memory, and a start begins with one that is off.
Ownership ==
  /\ dev.on => own.mayOwn
  /\ p.pc \in {"alloc", "program"} => ~own.mayOwn

\* What is past the gate finds every slot from the consumer on mapped.
Mapping ==
  /\ p.pc \in {"program", "check"} => ring.tail = 0 /\ ring.mapped = Slots
  /\ ~AtRest => ring.tail .. Posted - 1 \subseteq ring.mapped

\* Where the frame that begins at i ends.
End(i) == i + PlanSegments(dev.frame[i])

\* A frame that has been begun is followed by another, or ends where the device
\* stands, or lacks just what the device has left to write.
Linked(i) ==
  /\ End(i) < dev.cur => dev.frame[End(i)] # Blank
  /\ End(i) = dev.cur => dev.left <= 0
  /\ End(i) > dev.cur => dev.left = End(i) - dev.cur

\* A frame begins at i, or will.
Boundary(i) ==
  /\ i <= dev.cur
  /\ i < dev.cur => dev.frame[i] # Blank
  /\ i = dev.cur => dev.left <= 0

Chained ==
  /\ \A i \in dev.cur .. Posted - 1 : dev.frame[i] = Blank
  /\ \A i \in 0 .. dev.cur - 1 : dev.frame[i] # Blank => Linked(i)
  /\ Boundary(0)
  /\ Boundary(ring.tail)

\* An interrupt that is latched, or one whose tasklet has yet to look.
Pending == dev.ri \/ h = "sched" \/ t.sched

\* A frame that begins at i is there to the last byte, and the drain would take it.
Complete(i) == dev.frame[i] # Blank /\ PlanOk(dev.frame[i]) /\ End(i) <= dev.cur

\* For a tasklet at its drain, for one at rest, and for a ring not yet opened.
DrainWoken ==
  t.pc = "drain" =>
    /\ t.seen <= dev.cur
    /\ \A i \in 0 .. dev.cur - 1 : Complete(i) /\ t.seen < End(i) => Pending

RestWoken ==
  t.pc \in {"idle", "rearm"} /\ rx.running /\ Reaches /\ FrameWaits
    => Pending \/ t.done = DrainMax

StartWoken == p.pc = "check" /\ Reaches /\ FrameWaits => dev.ri

Woken == DrainWoken /\ RestWoken /\ StartWoken

\* Whoever took the source or the line away while RX runs will bring it back, or
\* close the gate.
Armed ==
  /\ rx.running /\ Reaches /\ p.pc \in {"mac", "up"} =>
       mask.fifo \/ h \in {"ack", "sched"} \/ t.sched \/ t.pc # "idle"
  /\ rx.running /\ Reaches /\ p.pc = "up" => mask.mac \/ t.pc \in {"stop", "closed"}
  /\ rx.running /\ p.pc \in {"fifo", "mac", "up"} => rx.route \/ t.pc \in {"stop", "closed"}

IInv ==
  /\ TypeOK
  /\ Gate
  /\ Ownership
  /\ DeviceMemoryStays
  /\ Mapping
  /\ Chained
  /\ Woken
  /\ Armed

-----------------------------------------------------------------------------
(***************************************************************************)
(* The arithmetic of a chain.  A quotient is known by the two bounds that    *)
(* pin it down; after SegmentsType nothing looks inside PlanSegments again.   *)
(***************************************************************************)
\* The quotient of a division lies between its bounds.
LEMMA DivBounds ==
  ASSUME NEW a \in Int, NEW b \in Nat \ {0}
  PROVE  /\ a \div b \in Int
         /\ b * (a \div b) <= a
         /\ a < b * (a \div b) + b
BY Z3

\* A product with a positive factor is ordered as the other factor is.
LEMMA ProductBelow ==
  ASSUME NEW b \in Nat \ {0}, NEW x \in Int, NEW y \in Int, b * x < b * y
  PROVE  x < y
BY SMT

\* And no other number lies between those bounds.
LEMMA DivUnique ==
  ASSUME NEW a \in Int, NEW b \in Nat \ {0}, NEW q \in Int, b * q <= a, a < b * q + b
  PROVE  a \div b = q
<1> DEFINE d == a \div b
<1>1. d \in Int /\ b * d <= a /\ a < b * d + b
  BY DivBounds
<1> HIDE DEF d
<1>2. b * q < b * (d + 1) /\ b * d < b * (q + 1)
  BY <1>1
<1>3. q < d + 1 /\ d < q + 1
  BY <1>1, <1>2, ProductBelow
<1>4. d = q
  BY <1>1, <1>3
<1> QED
  BY <1>4 DEF d

\* What ob_rx_d11_rev42_plan_chain makes of a length: the first buffer holds part of
\* the frame, the rest fits the buffers that follow, and the last is not empty.
LEMMA SegmentsBounds ==
  ASSUME NEW len \in Nat
  PROVE  /\ PlanSegments(len) \in Int
         /\ Continuation(len) \in Nat
         /\ Continuation(len) <= BufSize * (PlanSegments(len) - 1)
         /\ BufSize * (PlanSegments(len) - 1) <= Continuation(len) + BufSize - 1
<1> DEFINE c == Continuation(len)
           a == c + BufSize - 1
           d == a \div BufSize
<1>1. c \in Nat /\ BufSize \in Nat \ {0}
  BY FramesAssumption DEF Continuation, FirstLength, Least
<1>2. PlanSegments(len) = 1 + d
  BY DEF PlanSegments
<1>3. c = Continuation(len)
  OBVIOUS
<1> HIDE DEF c
<1>4. a \in Int /\ a = c + BufSize - 1
  BY <1>1
<1> HIDE DEF a
<1>5. d \in Int /\ BufSize * d <= a /\ a < BufSize * d + BufSize
  BY <1>1, <1>4, DivBounds
<1> HIDE DEF d
<1>6. PlanSegments(len) \in Int /\ PlanSegments(len) - 1 = d
  BY <1>2, <1>5
<1>7. c <= BufSize * d /\ BufSize * d <= c + BufSize - 1
  BY <1>1, <1>4, <1>5
<1> QED
  BY <1>1, <1>3, <1>6, <1>7

\* A frame has at least one segment, an empty one just one.
LEMMA SegmentsType ==
  ASSUME NEW len \in Nat
  PROVE  /\ PlanSegments(len) \in Nat \ {0}
         /\ Continuation(len) = 0 => PlanSegments(len) = 1
<1> DEFINE d == PlanSegments(len) - 1
           c == Continuation(len)
<1>1. /\ d \in Int /\ c \in Nat /\ BufSize \in Nat \ {0}
      /\ c <= BufSize * d /\ BufSize * d <= c + BufSize - 1
      /\ PlanSegments(len) \in Int
  BY SegmentsBounds, FramesAssumption
<1>2. PlanSegments(len) = d + 1
  BY <1>1
<1>3. c = Continuation(len)
  OBVIOUS
<1> HIDE DEF d, c
<1>4. d >= 0
  <2>1. BufSize * (0 - 1) < BufSize * d
    BY <1>1
  <2>2. 0 - 1 < d
    BY <2>1, <1>1, ProductBelow
  <2> QED
    BY <2>2, <1>1
<1>5. c = 0 => d = 0
  <2>1. c = 0 => BufSize * d < BufSize * 1
    BY <1>1
  <2>2. c = 0 => d < 1
    BY <2>1, <1>1, ProductBelow
  <2> QED
    BY <2>2, <1>1, <1>4
<1> QED
  BY <1>1, <1>2, <1>3, <1>4, <1>5

\* The device counts the segments of prefix and frame in one division; it and the
\* driver's plan agree on every frame that is not empty.
LEMMA DeviceSegments ==
  ASSUME NEW len \in Nat
  PROVE  \/ (Prefix + len + BufSize - 1) \div BufSize = PlanSegments(len)
         \/ /\ (Prefix + len + BufSize - 1) \div BufSize = 0
            /\ len = 0 /\ PlanSegments(len) = 1
<1> DEFINE d == PlanSegments(len) - 1
           c == Continuation(len)
           total == Prefix + len
           a == total + BufSize - 1
<1>1. /\ BufSize \in Nat \ {0} /\ Prefix \in Nat /\ Prefix <= BufSize
      /\ total \in Nat /\ len <= total
      /\ c \in Nat
      /\ total <= BufSize => c = 0
      /\ total > BufSize => c = total - BufSize
  BY FramesAssumption DEF Continuation, FirstLength, Least
<1>2. /\ d \in Int /\ c <= BufSize * d /\ BufSize * d <= c + BufSize - 1
      /\ c = 0 => d = 0
      /\ PlanSegments(len) \in Int
  BY SegmentsBounds, SegmentsType
<1>3. PlanSegments(len) = d + 1
  BY <1>2
<1>4. (Prefix + len + BufSize - 1) \div BufSize = a \div BufSize
  OBVIOUS
<1> HIDE DEF d, c, total
<1>5. a \in Int /\ a = total + BufSize - 1
  BY <1>1
<1> HIDE DEF a
<1>6. CASE total = 0
  <2>1. BufSize * 0 <= a /\ a < BufSize * 0 + BufSize
    BY <1>1, <1>5, <1>6
  <2>2. a \div BufSize = 0
    BY <2>1, <1>1, <1>5, DivUnique
  <2>3. len = 0 /\ d = 0
    BY <1>1, <1>2, <1>6
  <2> QED
    BY <2>2, <2>3, <1>2, <1>3, <1>4
<1>7. CASE total # 0
  <2>1. BufSize * (d + 1) = BufSize * d + BufSize
    BY <1>1, <1>2
  <2>2. BufSize * d + BufSize <= a /\ a < BufSize * d + BufSize + BufSize
    <3>1. CASE total <= BufSize
      <4>1. BufSize * d = 0
        BY <3>1, <1>1, <1>2
      <4> QED
        BY <3>1, <4>1, <1>1, <1>5, <1>7
    <3>2. CASE total > BufSize
      <4>1. BufSize * d \in Int
        BY <1>1, <1>2
      <4> QED
        BY <3>2, <4>1, <1>1, <1>2, <1>5
    <3> QED
      BY <3>1, <3>2, <1>1
  <2> DEFINE e == d + 1
  <2>3. e \in Int /\ BufSize * e <= a /\ a < BufSize * e + BufSize
    BY <2>1, <2>2, <1>2
  <2> HIDE DEF e
  <2>4. a \div BufSize = e
    BY <2>3, <1>1, <1>5, DivUnique
  <2> QED
    BY <2>4, <1>3, <1>4 DEF e
<1> QED
  BY <1>6, <1>7

\* ob_rx_d11_rev42_copy_chain copies out of a whole chain exactly the frame.
LEMMA CopiedWhole ==
  ASSUME NEW len \in Nat
  PROVE  Copied(len, PlanSegments(len)) = len
<1> DEFINE d == PlanSegments(len) - 1
           first == FirstLength(len)
           c == Continuation(len)
<1>1. /\ d \in Int /\ c <= BufSize * d /\ BufSize \in Nat
      /\ first \in Nat /\ Prefix \in Nat /\ first >= Prefix /\ first - Prefix <= len
      /\ c = Prefix + len - first
  BY SegmentsBounds, FramesAssumption DEF FirstLength, Continuation, Least
<1>2. Copied(len, PlanSegments(len)) = Least(len, first - Prefix) + Least(c, d * BufSize)
  BY DEF Copied
<1> HIDE DEF d, first, c
<1>3. d * BufSize = BufSize * d
  BY <1>1
<1>4. Least(c, d * BufSize) = c
  BY <1>1, <1>3 DEF Least
<1>5. Least(len, first - Prefix) = first - Prefix
  BY <1>1 DEF Least
<1> QED
  BY <1>1, <1>2, <1>4, <1>5

-----------------------------------------------------------------------------
(***************************************************************************)
(* What the steps do, as far as the groups of the invariant look.             *)
(***************************************************************************)
\* What ob_rx_disable_hw may answer: whoever it leaves running owns memory, and "ok"
\* is a stopped engine.
LEMMA DisableOutcome ==
  ASSUME TypeOK, Ownership, NEW o \in DisableHw
  PROVE  /\ o.own \in OwnerStates
         /\ o.on \in BOOLEAN /\ o.ok \in BOOLEAN
         /\ o.on => dev.on /\ o.own.mayOwn
         /\ o.ok => ~o.on
<1>1. /\ own \in OwnerStates /\ dev.on \in BOOLEAN
      /\ own.mayOwn \in BOOLEAN /\ own.quarantined \in BOOLEAN
      /\ dev.on => own.mayOwn
  BY DEF TypeOK, Ownership, OwnerStates, Devices
<1>2. /\ Quarantine(own) \in OwnerStates /\ Quarantine(own).mayOwn
      /\ ConfirmDisabled(own) \in OwnerStates
  BY <1>1 DEF OwnerStates, Quarantine, ConfirmDisabled
<1>3. CASE window.lost
  <2>1. o = [own |-> IF own.mayOwn THEN Quarantine(own) ELSE own, on |-> dev.on, ok |-> FALSE]
    BY <1>3 DEF DisableHw
  <2> QED
    BY <2>1, <1>1, <1>2
<1>4. CASE ~window.lost /\ own.quarantined
  <2>1. o = [own |-> own, on |-> dev.on, ok |-> FALSE]
    BY <1>4 DEF DisableHw
  <2> QED
    BY <2>1, <1>1
<1>5. CASE ~window.lost /\ ~own.quarantined /\ ~own.mayOwn
  <2>1. o = [own |-> own, on |-> dev.on, ok |-> TRUE]
    BY <1>5 DEF DisableHw
  <2> QED
    BY <2>1, <1>1, <1>5
<1>6. CASE ~window.lost /\ ~own.quarantined /\ own.mayOwn
  <2>1. \/ o = [own |-> Quarantine(own), on |-> dev.on, ok |-> FALSE]
        \/ o = [own |-> Quarantine(own), on |-> FALSE, ok |-> FALSE]
        \/ o = [own |-> ConfirmDisabled(own), on |-> FALSE, ok |-> TRUE]
    BY <1>6 DEF DisableHw
  <2> HIDE DEF Quarantine, ConfirmDisabled
  <2>2. ConfirmDisabled(own).mayOwn = FALSE
    BY <1>1 DEF ConfirmDisabled, OwnerStates
  <2>3. CASE o = [own |-> Quarantine(own), on |-> dev.on, ok |-> FALSE]
    BY <2>3, <1>1, <1>2
  <2>4. CASE o = [own |-> Quarantine(own), on |-> FALSE, ok |-> FALSE]
    BY <2>4, <1>1, <1>2
  <2>5. CASE o = [own |-> ConfirmDisabled(own), on |-> FALSE, ok |-> TRUE]
    BY <2>5, <1>1, <1>2
  <2> QED
    BY <2>1, <2>3, <2>4, <2>5
<1> QED
  BY <1>1, <1>3, <1>4, <1>5, <1>6

\* Receive, with the device's count put into the driver's words.
LEMMA ReceiveEffect ==
  ASSUME TypeOK, Receive
  PROVE  /\ dev.on /\ dev.cur < Posted
         /\ dev'.on = dev.on /\ dev'.cur = dev.cur + 1
         /\ \/ /\ dev.left > 0
               /\ dev'.frame = dev.frame /\ dev'.left = dev.left - 1
               /\ dev'.ri = (dev.ri \/ dev'.left = 0)
            \/ /\ dev.left <= 0
               /\ \E len \in Lens :
                    /\ dev'.frame = [dev.frame EXCEPT ![dev.cur] = len]
                    /\ \/ dev'.left = PlanSegments(len) - 1
                       \/ len = 0 /\ PlanSegments(len) = 1 /\ dev'.left = -1
                    /\ dev'.ri = (dev.ri \/ dev'.left = 0)
<1>1. dev.on /\ dev.cur < Posted /\ dev.left \in Int /\ dev \in Devices
  BY DEF Receive, TypeOK, Devices
<1>2. CASE dev.left > 0
  <2>1. dev' = [dev EXCEPT !.cur = @ + 1, !.left = @ - 1, !.ri = @ \/ dev.left = 1]
    BY <1>2 DEF Receive
  <2>2. dev'.left = 0 <=> dev.left = 1
    BY <1>1, <2>1 DEF Devices
  <2> QED
    BY <1>1, <1>2, <2>1, <2>2 DEF Devices
<1>3. CASE ~(dev.left > 0)
  <2>1. PICK len \in Lens :
          LET n == (Prefix + len + BufSize - 1) \div BufSize IN
          dev' = [dev EXCEPT !.cur = @ + 1, !.frame[dev.cur] = len, !.left = n - 1,
                             !.ri = @ \/ n = 1]
    BY <1>3 DEF Receive
  <2> DEFINE n == (Prefix + len + BufSize - 1) \div BufSize
  <2>2. /\ len \in Nat
        /\ PlanSegments(len) \in Nat
        /\ \/ n = PlanSegments(len)
           \/ n = 0 /\ len = 0 /\ PlanSegments(len) = 1
    <3>1. len \in Nat
      BY EngineAssumption
    <3> QED
      BY <3>1, DeviceSegments, SegmentsType
  <2>3. dev' = [dev EXCEPT !.cur = @ + 1, !.frame[dev.cur] = len, !.left = n - 1,
                           !.ri = @ \/ n = 1]
    BY <2>1
  <2> HIDE DEF n
  <2>4. n \in Int /\ (n = 1 <=> n - 1 = 0)
    BY <2>2
  <2>5. /\ dev'.on = dev.on /\ dev'.cur = dev.cur + 1
        /\ dev'.frame = [dev.frame EXCEPT ![dev.cur] = len]
        /\ dev'.left = n - 1
        /\ dev'.ri = (dev.ri \/ dev'.left = 0)
    BY <1>1, <2>3, <2>4 DEF Devices
  <2> QED
    BY <1>1, <1>3, <2>2, <2>5
<1> QED
  BY <1>2, <1>3

-----------------------------------------------------------------------------
(***************************************************************************)
(* Types.                                                                   *)
(***************************************************************************)
\* A driver that is just loaded is in a proper state.
LEMMA InitType == Init => TypeOK
BY EngineAssumption DEF Init, TypeOK, NoRx, NoOwner, EmptyRing, IdleDevice, IdleTasklet,
   Slots, ProcessStates, TaskletStates, RxStates, OwnerStates, Rings, Devices, Masks, Irqs,
   Windows, Processes, Tasklets

\* ob_rx_init leads from one proper state to another.
LEMMA InitStepTypes ==
  ASSUME TypeOK, InitStep
  PROVE  TypeOK'
<1>1. CASE StartInit
  <2>1. rx' \in RxStates /\ own' \in OwnerStates
    BY <1>1 DEF StartInit, NoRx, NoOwner, RxStates, OwnerStates
  <2>2. p' \in Processes
    BY <1>1 DEF StartInit, TypeOK, Processes, ProcessStates
  <2> QED
    BY <2>1, <2>2, <1>1 DEF StartInit, TypeOK
<1>2. CASE Alloc \/ AllocFails
  <2>1. ring' \in Rings
    BY <1>2 DEF Alloc, AllocFails, EmptyRing, Rings
  <2>2. p' \in Processes
    BY <1>2 DEF Alloc, AllocFails, Goto, TypeOK, Processes, ProcessStates
  <2>3. rx' \in RxStates
    BY <1>2 DEF Alloc, AllocFails, TypeOK, RxStates
  <2> QED
    BY <2>1, <2>2, <2>3, <1>2 DEF Alloc, AllocFails, TypeOK
<1>3. CASE Program
  <2>1. dev' \in Devices
    <3>1. IdleDevice \in Devices
      BY EngineAssumption DEF IdleDevice, Devices
    <3>2. [IdleDevice EXCEPT !.on = TRUE] \in Devices
      BY <3>1 DEF Devices
    <3> QED
      BY <3>2, <1>3 DEF Program, Write, TypeOK
  <2>2. p' \in Processes
    BY <1>3 DEF Program, Goto, TypeOK, Processes, ProcessStates
  <2>3. own' \in OwnerStates
    BY <1>3 DEF Program, TypeOK, OwnerStates
  <2> QED
    BY <2>1, <2>2, <2>3, <1>3 DEF Program, TypeOK
<1>4. CASE Programmed \/ ProgramFails \/ Route \/ RouteFails
  <2>1. p' \in Processes
    BY <1>4 DEF Programmed, ProgramFails, Route, RouteFails, Goto, TypeOK, Processes,
       ProcessStates
  <2>2. rx' \in RxStates
    BY <1>4 DEF Programmed, ProgramFails, Route, RouteFails, TypeOK, RxStates
  <2> QED
    BY <2>1, <2>2, <1>4 DEF Programmed, ProgramFails, Route, RouteFails, TypeOK
<1>5. CASE UnmaskFifo \/ UnmaskMac
  <2>1. p' \in Processes
    BY <1>5 DEF UnmaskFifo, UnmaskMac, Goto, TypeOK, Processes, ProcessStates
  <2>2. mask' \in Masks
    BY <1>5 DEF UnmaskFifo, UnmaskMac, Write, TypeOK, Masks
  <2> QED
    BY <2>1, <2>2, <1>5 DEF UnmaskFifo, UnmaskMac, TypeOK
<1> QED
  BY <1>1, <1>2, <1>3, <1>4, <1>5 DEF InitStep

\* So do a quiesce and a remove.
LEMMA TeardownTypes ==
  ASSUME TypeOK, Ownership, StartQuiesce \/ StartRemove \/ QuiesceStep \/ RemoveStep
  PROVE  TypeOK'
<1>1. CASE StartQuiesce \/ StartRemove
  <2>1. p' \in Processes
    <3>1. CASE StartQuiesce
      BY <3>1 DEF StartQuiesce, TypeOK, Processes, ProcessStates
    <3>2. CASE StartRemove
      <4>1. \E pc \in {"close", "irqfree"}, ok \in BOOLEAN :
              p' = [pc |-> pc, caller |-> "remove", ok |-> ok]
        BY <3>2, Zenon DEF StartRemove, MayFree
      <4> QED
        BY <4>1 DEF Processes, ProcessStates
    <3> QED
      BY <1>1, <3>1, <3>2
  <2>2. own' \in OwnerStates
    BY <1>1 DEF StartQuiesce, StartRemove, Quarantine, TypeOK, OwnerStates
  <2> QED
    BY <2>1, <2>2, <1>1 DEF StartQuiesce, StartRemove, TypeOK
<1>2. CASE CloseGate \/ SynchronizeIrq \/ KillTasklet
  <2>1. p' \in Processes
    BY <1>2 DEF CloseGate, SynchronizeIrq, KillTasklet, Goto, TypeOK, Processes, ProcessStates
  <2>2. rx' \in RxStates
    BY <1>2 DEF CloseGate, SynchronizeIrq, KillTasklet, TypeOK, RxStates
  <2> QED
    BY <2>1, <2>2, <1>2 DEF CloseGate, SynchronizeIrq, KillTasklet, TypeOK
<1>3. CASE MaskAll
  <2>1. p' \in Processes
    BY <1>3 DEF MaskAll, Goto, TypeOK, Processes, ProcessStates
  <2>2. rx' \in RxStates
    BY <1>3 DEF MaskAll, TypeOK, RxStates
  <2>3. mask' \in Masks
    <3>1. mask' = mask \/ mask' = [fifo |-> FALSE, mac |-> FALSE]
      BY <1>3 DEF MaskAll, Write
    <3>2. [fifo |-> FALSE, mac |-> FALSE] \in Masks
      BY DEF Masks
    <3> QED
      BY <3>1, <3>2 DEF TypeOK
  <2> QED
    BY <2>1, <2>2, <2>3, <1>3 DEF MaskAll, TypeOK
<1>4. CASE Disable
  <2>1. PICK ok \in BOOLEAN : Return(ok)
    BY <1>4, DisableOutcome DEF Disable
  <2>2. own' \in OwnerStates
    BY <1>4, DisableOutcome DEF Disable, Quarantine, TypeOK, OwnerStates
  <2>3. dev' \in Devices
    BY <1>4, DisableOutcome DEF Disable, TypeOK, Devices
  <2>4. ring' \in Rings
    BY <2>1 DEF Return, TypeOK, Rings
  <2>5. rx' \in RxStates
    BY <2>1 DEF Return, TypeOK, RxStates
  <2>6. p' \in Processes
    BY <2>1 DEF Return, TypeOK, Processes, ProcessStates
  <2> QED
    BY <2>2, <2>3, <2>4, <2>5, <2>6, <1>4 DEF Disable, TypeOK
<1>5. CASE RemoveStep
  <2>1. p' \in Processes
    BY <1>5 DEF RemoveStep, CloseService, FreeIrq, FreeMemory, Goto, TypeOK, Processes,
       ProcessStates
  <2>2. irq' \in Irqs /\ mask' \in Masks
    BY <1>5 DEF RemoveStep, CloseService, FreeIrq, FreeMemory, Write, TypeOK, Irqs, Masks
  <2>3. ring' \in Rings
    BY <1>5 DEF RemoveStep, CloseService, FreeIrq, FreeMemory, TypeOK, Rings
  <2> QED
    BY <2>1, <2>2, <2>3, <1>5 DEF RemoveStep, CloseService, FreeIrq, FreeMemory, TypeOK
<1> QED
  BY <1>1, <1>2, <1>3, <1>4, <1>5 DEF QuiesceStep

\* And handler and tasklet.
LEMMA WorkTypes ==
  ASSUME TypeOK, Ownership, Interrupt \/ HandlerStep \/ TaskletStep
  PROVE  TypeOK'
<1>1. CASE Interrupt \/ HandlerStep
  <2>1. mask' \in Masks /\ t' \in Tasklets
    BY <1>1 DEF Interrupt, HandlerStep, RxIrq, MaskSource, AckSource, ScheduleTasklet, Write,
       TypeOK, Masks, Tasklets
  <2>2. dev' \in Devices
    BY <1>1 DEF Interrupt, HandlerStep, RxIrq, MaskSource, AckSource, ScheduleTasklet, Write,
       TypeOK, Devices
  <2> QED
    BY <2>1, <2>2, <1>1 DEF Interrupt, HandlerStep, RxIrq, MaskSource, AckSource,
       ScheduleTasklet, TypeOK
<1>2. CASE TaskletStart
  <2>1. dev.cur \in 0 .. Posted /\ 0 \in 0 .. DrainMax
    BY EngineAssumption DEF TypeOK, Devices
  <2>2. t' \in Tasklets
    BY <2>1, <1>2 DEF TaskletStart, TypeOK, Tasklets, TaskletStates
  <2> QED
    BY <2>2, <1>2 DEF TaskletStart, TypeOK
<1>3. CASE TakeFrame
  <2>1. ring.tail \in Slots /\ ring.tail \in Nat
    BY <1>3, EngineAssumption DEF TakeFrame, Waiting, Slots, TypeOK, Rings, Tasklets
  <2>2. HeadLen \in Nat
    BY <2>1, <1>3, EngineAssumption
       DEF TakeFrame, Whole, PlanOk, LengthOk, HeadLen, Blank, TypeOK, Devices
  <2>3. PlanSegments(HeadLen) \in Nat
    BY <2>2, SegmentsType
  <2>4. ring' \in Rings
    BY <2>1, <2>3, <1>3 DEF TakeFrame, TypeOK, Rings
  <2>5. t' \in Tasklets
    BY <1>3, EngineAssumption DEF TakeFrame, Waiting, TypeOK, Tasklets
  <2> QED
    BY <2>4, <2>5, <1>3 DEF TakeFrame, TypeOK
<1>4. CASE FrameIncomplete \/ FrameFails \/ Drained
  <2>1. t' \in Tasklets
    BY <1>4 DEF FrameIncomplete, FrameFails, Drained, TypeOK, Tasklets, TaskletStates
  <2> QED
    BY <2>1, <1>4 DEF FrameIncomplete, FrameFails, Drained, TypeOK
<1>5. CASE Rearm \/ Abort \/ Closed
  <2>1. t' \in Tasklets
    BY <1>5 DEF Rearm, Abort, Closed, TypeOK, Tasklets, TaskletStates
  <2>2. mask' \in Masks /\ rx' \in RxStates
    BY <1>5 DEF Rearm, Abort, Closed, Write, TypeOK, Masks, RxStates
  <2> QED
    BY <2>1, <2>2, <1>5 DEF Rearm, Abort, Closed, TypeOK
<1>6. CASE StopEngine
  <2>1. t' \in Tasklets /\ mask' \in Masks
    BY <1>6 DEF StopEngine, Write, TypeOK, Tasklets, TaskletStates, Masks
  <2>2. dev' \in Devices
    BY <1>6, DisableOutcome DEF StopEngine, TypeOK, Devices
  <2>3. own' \in OwnerStates
    BY <1>6, DisableOutcome DEF StopEngine
  <2> QED
    BY <2>1, <2>2, <2>3, <1>6 DEF StopEngine, TypeOK
<1> QED
  BY <1>1, <1>2, <1>3, <1>4, <1>5, <1>6 DEF TaskletStep

\* And the device, the bus and the start path.
LEMMA OutsideTypes ==
  ASSUME TypeOK, Receive \/ OpenService \/ WindowDies \/ LatchLoss
  PROVE  TypeOK'
<1>1. CASE Receive
  <2>1. dev' = [on |-> dev'.on, cur |-> dev'.cur, frame |-> dev'.frame,
                left |-> dev'.left, ri |-> dev'.ri]
    BY <1>1 DEF Receive, TypeOK, Devices
  <2>2. /\ dev.on \in BOOLEAN /\ dev.ri \in BOOLEAN /\ dev.cur \in 0 .. Posted
        /\ dev.left \in Int /\ Posted \in Nat
    BY EngineAssumption DEF TypeOK, Devices
  <2>3. dev'.on \in BOOLEAN /\ dev'.cur \in 0 .. Posted
    BY <1>1, <2>2, ReceiveEffect
  <2>4. dev'.ri \in BOOLEAN
    <3>1. dev'.ri = (dev.ri \/ dev'.left = 0)
      BY <1>1, ReceiveEffect
    <3> QED
      BY <3>1, <2>2
  <2>5. dev'.frame \in [Slots -> Lens \cup {Blank}]
    BY <1>1, ReceiveEffect DEF TypeOK, Devices
  <2>6. dev'.left \in Int
    <3>1. \A len \in Lens : PlanSegments(len) \in Int
      BY SegmentsType, EngineAssumption
    <3>2. \/ dev'.left = dev.left - 1
          \/ \E len \in Lens : dev'.left = PlanSegments(len) - 1 \/ dev'.left = -1
      BY <1>1, ReceiveEffect
    <3> QED
      BY <3>1, <3>2, <2>2
  <2>7. dev' \in Devices
    BY <2>1, <2>3, <2>4, <2>5, <2>6 DEF Devices
  <2> QED
    BY <2>7, <1>1 DEF Receive, TypeOK
<1>2. CASE OpenService \/ WindowDies \/ LatchLoss
  <2>1. irq' \in Irqs /\ window' \in Windows
    BY <1>2 DEF OpenService, WindowDies, LatchLoss, TypeOK, Irqs, Windows
  <2> QED
    BY <2>1, <1>2 DEF OpenService, WindowDies, LatchLoss, TypeOK
<1> QED
  BY <1>1, <1>2

\* Every step keeps the types.
LEMMA KeepsTypes ==
  ASSUME TypeOK, Ownership, [Next]_vars
  PROVE  TypeOK'
<1>1. CASE Next
  BY <1>1, InitStepTypes, TeardownTypes, WorkTypes, OutsideTypes DEF Next
<1>2. CASE UNCHANGED vars
  BY <1>2 DEF vars, TypeOK
<1> QED
  BY <1>1, <1>2

-----------------------------------------------------------------------------
(***************************************************************************)
(* The gate: no context works in a ring that another one tears down.         *)
(***************************************************************************)
\* ob_rx_init opens the gate last, over a ring nobody works in.
LEMMA InitStepGate ==
  ASSUME TypeOK, Gate, InitStep
  PROVE  Gate'
<1> USE DEF Gate, AtRest, Goto
<1>1. rx \in RxStates /\ p \in Processes
  BY DEF TypeOK
<1>2. CASE StartInit
  BY <1>1, <1>2 DEF StartInit, RxStates, Processes, NoRx
<1>3. CASE Alloc \/ AllocFails \/ Program
  BY <1>1, <1>3 DEF Alloc, AllocFails, Program, RxStates, Processes
<1>4. CASE Programmed \/ ProgramFails
  BY <1>1, <1>4 DEF Programmed, ProgramFails, RxStates, Processes
<1>5. CASE Route \/ RouteFails \/ UnmaskFifo \/ UnmaskMac
  BY <1>1, <1>5 DEF Route, RouteFails, UnmaskFifo, UnmaskMac, RxStates, Processes
<1> QED
  BY <1>2, <1>3, <1>4, <1>5 DEF InitStep

\* A quiesce closes it first and waits for whoever is past it; a remove without an
\* engine finds nobody there.
LEMMA TeardownGate ==
  ASSUME TypeOK, Gate, StartQuiesce \/ StartRemove \/ QuiesceStep \/ RemoveStep
  PROVE  Gate'
<1> USE DEF Gate, AtRest, Goto
<1>1. rx \in RxStates /\ p \in Processes /\ irq \in Irqs
  BY DEF TypeOK
<1>2. CASE StartQuiesce
  BY <1>1, <1>2 DEF StartQuiesce, Processes
<1>3. CASE StartRemove
  BY <1>1, <1>3 DEF StartRemove, Processes
<1>4. CASE CloseGate \/ SynchronizeIrq \/ KillTasklet
  BY <1>1, <1>4 DEF CloseGate, SynchronizeIrq, KillTasklet, RxStates, Processes
<1>5. CASE MaskAll
  BY <1>1, <1>5 DEF MaskAll, RxStates, Processes
<1>6. CASE Disable
  <2>1. /\ rx'.running = FALSE /\ p'.pc \in {"irqfree", "up"}
        /\ UNCHANGED <<irq, h, t>>
    BY <1>1, <1>6 DEF Disable, Return, RxStates, Processes
  <2> QED
    BY <2>1, <1>6 DEF Disable
<1>7. CASE RemoveStep
  BY <1>1, <1>7 DEF RemoveStep, CloseService, FreeIrq, FreeMemory, Processes, Irqs
<1> QED
  BY <1>2, <1>3, <1>4, <1>5, <1>6, <1>7 DEF QuiesceStep

\* Nobody passes a gate that is closed.
LEMMA WorkGate ==
  ASSUME TypeOK, Gate, Interrupt \/ HandlerStep \/ TaskletStep
  PROVE  Gate'
<1> USE DEF Gate, AtRest
<1>1. rx \in RxStates /\ p \in Processes /\ t \in Tasklets
  BY DEF TypeOK
<1>2. CASE Interrupt
  BY <1>2 DEF Interrupt
<1>3. CASE HandlerStep
  BY <1>1, <1>3 DEF HandlerStep, RxIrq, MaskSource, AckSource, ScheduleTasklet, Tasklets
<1>4. CASE TaskletStart
  BY <1>1, <1>4 DEF TaskletStart, Tasklets
<1>5. CASE TakeFrame \/ FrameIncomplete \/ FrameFails \/ Drained
  <2>1. /\ t.pc = "drain"
        /\ UNCHANGED <<rx, p, irq, h>>
    BY <1>5 DEF TakeFrame, FrameIncomplete, FrameFails, Drained, Waiting
  <2> QED
    BY <2>1
<1>6. CASE Rearm \/ Abort \/ StopEngine \/ Closed
  <2>1. /\ t.pc # "idle"
        /\ rx'.initialized = rx.initialized /\ (~rx.running => ~rx'.running)
        /\ UNCHANGED <<p, irq, h>>
    BY <1>1, <1>6 DEF Rearm, Abort, StopEngine, Closed, RxStates
  <2> QED
    BY <2>1
<1> QED
  BY <1>2, <1>3, <1>4, <1>5, <1>6 DEF TaskletStep

\* Every step keeps the gate.
LEMMA KeepsGate ==
  ASSUME TypeOK, Gate, [Next]_vars
  PROVE  Gate'
<1>1. CASE Receive \/ OpenService \/ WindowDies \/ LatchLoss
  <2>1. UNCHANGED <<rx, p, h, t>>
    BY <1>1 DEF Receive, OpenService, WindowDies, LatchLoss
  <2>2. p.pc \in {"free", "gone"} => irq'.installed = irq.installed
    BY <1>1 DEF Receive, OpenService, WindowDies, LatchLoss
  <2> QED
    BY <2>1, <2>2 DEF Gate, AtRest
<1>2. CASE UNCHANGED vars
  BY <1>2 DEF vars, Gate, AtRest
<1> QED
  BY <1>1, <1>2, InitStepGate, TeardownGate, WorkGate DEF Next

-----------------------------------------------------------------------------
(***************************************************************************)
(* Who owns the posted memory, and that it stays.                            *)
(***************************************************************************)
\* What the drain takes lies before the device: the frames it calls whole are.
LEMMA TakenLiesBehind ==
  ASSUME TypeOK, Woken, TakeFrame
  PROVE  /\ HeadLen \in Nat /\ HeadLen > 0 /\ HeadLen # Blank
         /\ ring.tail \in Nat /\ ring.tail < dev.cur
         /\ PlanSegments(HeadLen) \in Nat \ {0}
         /\ ring'.tail = End(ring.tail) /\ ring'.tail <= dev.cur
         /\ ring'.mapped = ring.mapped \ (ring.tail .. ring'.tail - 1)
<1>1. /\ ring.tail \in Nat /\ t.seen \in Nat /\ dev.cur \in Nat /\ dev.cur <= Posted
      /\ Posted \in Nat
  BY EngineAssumption DEF TypeOK, Rings, Tasklets, Devices
<1>2. ring.tail < t.seen /\ t.seen <= dev.cur
  BY DEF TakeFrame, Waiting, Woken, DrainWoken
<1>3. HeadLen \in Nat /\ HeadLen > 0 /\ HeadLen # Blank
  <2>1. ring.tail \in Slots
    BY <1>1, <1>2 DEF Slots
  <2>2. HeadLen \in Lens \cup {Blank}
    BY <2>1 DEF HeadLen, TypeOK, Devices
  <2> QED
    BY <2>2, EngineAssumption DEF TakeFrame, Whole, PlanOk, LengthOk, Blank
<1>4. PlanSegments(HeadLen) \in Nat \ {0}
  BY <1>3, SegmentsType
<1>5. PlanSegments(HeadLen) <= t.seen - ring.tail
  BY DEF TakeFrame, Whole
<1>6. /\ ring'.tail = ring.tail + PlanSegments(HeadLen)
      /\ ring'.mapped = ring.mapped \ (ring.tail .. ring.tail + PlanSegments(HeadLen) - 1)
  BY DEF TakeFrame, Needed
<1>7. End(ring.tail) = ring.tail + PlanSegments(HeadLen)
  BY DEF End, HeadLen
<1> QED
  BY <1>1, <1>2, <1>3, <1>4, <1>5, <1>6, <1>7

\* An engine that is on may own memory, and a start begins with one that is off.
LEMMA KeepsOwnership ==
  ASSUME TypeOK, Ownership, [Next]_vars
  PROVE  Ownership'
<1> USE DEF Ownership, Goto
<1>1. own \in OwnerStates /\ p \in Processes /\ dev \in Devices
  BY DEF TypeOK
<1>2. CASE StartInit \/ Alloc \/ AllocFails
  BY <1>1, <1>2 DEF StartInit, Alloc, AllocFails, NoOwner, MayInitialize, MayFree, Processes
<1>3. CASE Program
  BY <1>1, <1>3 DEF Program, OwnerStates, Processes
<1>4. CASE Programmed \/ ProgramFails \/ Route \/ RouteFails \/ UnmaskFifo \/ UnmaskMac
  BY <1>1, <1>4 DEF Programmed, ProgramFails, Route, RouteFails, UnmaskFifo, UnmaskMac, Processes
<1>5. CASE StartQuiesce
  BY <1>1, <1>5 DEF StartQuiesce, Quarantine, OwnerStates, Processes
<1>6. CASE StartRemove
  <2>1. p'.pc \in {"close", "irqfree"} /\ UNCHANGED dev
    BY <1>6 DEF StartRemove
  <2>2. own.mayOwn => own'.mayOwn
    BY <1>1, <1>6 DEF StartRemove, Quarantine, OwnerStates
  <2> QED
    BY <2>1, <2>2
<1>7. CASE CloseGate \/ SynchronizeIrq \/ KillTasklet \/ MaskAll
  BY <1>1, <1>7 DEF CloseGate, SynchronizeIrq, KillTasklet, MaskAll, Processes
<1>8. CASE Disable
  <2>1. p'.pc \in {"irqfree", "up"}
    BY <1>1, <1>8 DEF Disable, Return, Processes
  <2>2. CASE own.mayOwn
    <3>1. PICK o \in DisableHw :
            /\ own' = IF o.ok THEN o.own ELSE Quarantine(o.own)
            /\ dev' = [dev EXCEPT !.on = o.on]
      BY <1>8, <2>2 DEF Disable
    <3>2. o.own \in OwnerStates /\ (o.on => o.own.mayOwn)
      BY DisableOutcome
    <3>3. dev'.on => own'.mayOwn
      BY <1>1, <3>1, <3>2 DEF Quarantine, Devices, OwnerStates
    <3> QED
      BY <2>1, <3>3
  <2>3. CASE ~own.mayOwn
    BY <1>8, <2>1, <2>3 DEF Disable
  <2> QED
    BY <2>2, <2>3
<1>9. CASE RemoveStep
  BY <1>1, <1>9 DEF RemoveStep, CloseService, FreeIrq, FreeMemory, Processes
<1>10. CASE Interrupt \/ HandlerStep
  BY <1>1, <1>10 DEF Interrupt, HandlerStep, RxIrq, MaskSource, AckSource, ScheduleTasklet,
     Write, Devices
<1>11. CASE StopEngine
  <2>1. PICK o \in DisableHw : own' = o.own /\ dev' = [dev EXCEPT !.on = o.on]
    BY <1>11 DEF StopEngine
  <2>2. (o.on => o.own.mayOwn) /\ (~own.mayOwn => ~o.own.mayOwn)
    BY <1>1, DisableOutcome DEF DisableHw, Quarantine, ConfirmDisabled, OwnerStates
  <2> QED
    BY <1>1, <1>11, <2>1, <2>2 DEF StopEngine, Devices
<1>12. CASE TaskletStart \/ TakeFrame \/ FrameIncomplete \/ FrameFails \/ Drained
  BY <1>12 DEF TaskletStart, TakeFrame, FrameIncomplete, FrameFails, Drained
<1>13. CASE Rearm \/ Abort \/ Closed
  BY <1>13 DEF Rearm, Abort, Closed
<1>14. CASE Receive
  BY <1>14, ReceiveEffect DEF Receive
<1>15. CASE OpenService \/ WindowDies \/ LatchLoss
  BY <1>15 DEF OpenService, WindowDies, LatchLoss
<1>16. CASE UNCHANGED vars
  BY <1>16 DEF vars
<1> QED
  BY <1>2, <1>3, <1>4, <1>5, <1>6, <1>7, <1>8, <1>9, <1>10, <1>11, <1>12, <1>13, <1>14,
     <1>15, <1>16, Zenon DEF Next, InitStep, QuiesceStep, TaskletStep

\* The steps that touch the ring or move the device; every other leaves both, but
\* that the handler acknowledges what was latched.
LEMMA OtherStepsKeepRing ==
  ASSUME TypeOK, [Next]_vars,
         ~Alloc, ~AllocFails, ~Program, ~Disable, ~FreeMemory, ~TakeFrame, ~StopEngine, ~Receive
  PROVE  /\ ring' = ring
         /\ dev'.on = dev.on /\ dev'.cur = dev.cur
         /\ dev'.frame = dev.frame /\ dev'.left = dev.left
         /\ dev'.ri = dev.ri \/ AckSource
<1>1. CASE AckSource
  BY <1>1 DEF AckSource, Write, TypeOK, Devices
<1>2. CASE ~AckSource
  <2>1. ring' = ring /\ dev' = dev
    <3>1. CASE InitStep
      BY <3>1 DEF InitStep, StartInit, Programmed, ProgramFails, Route, RouteFails, UnmaskFifo,
         UnmaskMac
    <3>2. CASE StartQuiesce \/ StartRemove
      BY <3>2 DEF StartQuiesce, StartRemove
    <3>3. CASE QuiesceStep \/ RemoveStep
      BY <3>3 DEF QuiesceStep, CloseGate, SynchronizeIrq, KillTasklet, MaskAll, RemoveStep,
         CloseService, FreeIrq
    <3>4. CASE Interrupt \/ HandlerStep
      BY <3>4, <1>2 DEF Interrupt, HandlerStep, RxIrq, MaskSource, ScheduleTasklet
    <3>5. CASE TaskletStep
      BY <3>5 DEF TaskletStep, TaskletStart, FrameIncomplete, FrameFails, Drained, Rearm, Abort,
         Closed
    <3>6. CASE OpenService \/ WindowDies \/ LatchLoss
      BY <3>6 DEF OpenService, WindowDies, LatchLoss
    <3>7. CASE UNCHANGED vars
      BY <3>7 DEF vars
    <3> QED
      BY <3>1, <3>2, <3>3, <3>4, <3>5, <3>6, <3>7 DEF Next
  <2> QED
    BY <2>1
<1> QED
  BY <1>1, <1>2

\* A stop leaves the device where it stands, and on only if it was.
LEMMA StopKeepsDevice ==
  ASSUME TypeOK, Ownership, Disable \/ StopEngine
  PROVE  /\ dev'.on => dev.on
         /\ dev'.cur = dev.cur /\ dev'.frame = dev.frame /\ dev'.left = dev.left
         /\ dev'.ri = dev.ri
<1>1. CASE dev' = dev
  BY <1>1
<1>2. CASE ~(dev' = dev)
  <2>1. PICK o \in DisableHw : dev' = [dev EXCEPT !.on = o.on]
    BY <1>2 DEF Disable, StopEngine
  <2>2. o.on => dev.on
    BY DisableOutcome
  <2> QED
    BY <2>1, <2>2 DEF TypeOK, Devices
<1> QED
  BY <1>1, <1>2

\* Buffers are freed only behind an engine that is off.
LEMMA FreedBehindAStop ==
  ASSUME TypeOK, Ownership, Disable \/ FreeMemory, ring' # ring
  PROVE  ~dev'.on
<1>1. /\ own \in OwnerStates /\ dev \in Devices
      /\ dev.on => own.mayOwn
  BY DEF TypeOK, Ownership
<1>2. CASE Disable
  <2>1. CASE own.mayOwn
    <3>1. PICK o \in DisableHw : dev' = [dev EXCEPT !.on = o.on] /\ Return(o.ok)
      BY <1>2, <2>1 DEF Disable
    <3>2. o.ok
      BY <3>1 DEF Return
    <3>3. ~o.on
      BY <3>2, DisableOutcome
    <3> QED
      BY <1>1, <3>1, <3>3 DEF Devices
  <2>2. CASE ~own.mayOwn
    BY <1>1, <1>2, <2>2 DEF Disable
  <2> QED
    BY <2>1, <2>2
<1>3. CASE FreeMemory
  BY <1>1, <1>3 DEF FreeMemory, MayFree
<1> QED
  BY <1>2, <1>3

\* Memory the device may still write stays mapped.
LEMMA KeepsMemory ==
  ASSUME TypeOK, Gate, Ownership, DeviceMemoryStays, Mapping, Woken, [Next]_vars
  PROVE  DeviceMemoryStays'
<1> USE DEF DeviceMemoryStays
<1>1. /\ dev \in Devices /\ ring \in Rings /\ p \in Processes
      /\ dev.cur \in Nat /\ ring.tail \in Nat /\ Posted \in Nat
  BY EngineAssumption DEF TypeOK, Devices, Rings
<1>2. CASE Alloc
  BY <1>1, <1>2 DEF Alloc, Slots
<1>3. CASE AllocFails
  BY <1>3 DEF AllocFails, Ownership
<1>4. CASE Program
  <2>1. ring'.mapped = Slots /\ dev'.cur \in Nat
    BY <1>1, <1>4 DEF Program, Mapping, Write, IdleDevice
  <2> QED
    BY <1>1, <2>1 DEF Slots
<1>5. CASE Disable \/ FreeMemory
  <2>1. CASE ring' # ring
    BY <1>5, <2>1, FreedBehindAStop
  <2>2. CASE ring' = ring
    <3>1. dev'.cur = dev.cur /\ (dev'.on => dev.on)
      BY <1>5, StopKeepsDevice DEF FreeMemory
    <3> QED
      BY <2>2, <3>1
  <2> QED
    BY <2>1, <2>2
<1>6. CASE TakeFrame
  <2>1. /\ ring'.mapped = ring.mapped \ (ring.tail .. ring'.tail - 1)
        /\ ring'.tail \in Nat /\ ring'.tail <= dev.cur
    BY <1>1, <1>6, TakenLiesBehind DEF End, HeadLen
  <2>2. dev' = dev
    BY <1>6 DEF TakeFrame
  <2> QED
    BY <1>1, <2>1, <2>2
<1>7. CASE StopEngine
  BY <1>7, StopKeepsDevice DEF StopEngine
<1>8. CASE Receive
  <2>1. dev'.on = dev.on /\ dev'.cur = dev.cur + 1
    BY <1>8, ReceiveEffect
  <2>2. ring' = ring
    BY <1>8 DEF Receive
  <2> QED
    BY <1>1, <2>1, <2>2
<1>9. CASE ~Alloc /\ ~AllocFails /\ ~Program /\ ~Disable /\ ~FreeMemory /\ ~TakeFrame
           /\ ~StopEngine /\ ~Receive
  BY <1>9, OtherStepsKeepRing
<1> QED
  BY <1>2, <1>3, <1>4, <1>5, <1>6, <1>7, <1>8, <1>9

\* Only the start that programmed the ring lets anybody in.
LEMMA OnlyProgrammedOpens ==
  ASSUME TypeOK, [Next]_vars, AtRest, ~Programmed
  PROVE  AtRest'
<1> USE DEF AtRest
<1>1. rx \in RxStates /\ t \in Tasklets
  BY DEF TypeOK
<1>2. CASE InitStep
  BY <1>1, <1>2 DEF InitStep, StartInit, Alloc, AllocFails, Program, ProgramFails, Route,
     RouteFails, UnmaskFifo, UnmaskMac, NoRx, RxStates
<1>3. CASE StartQuiesce \/ StartRemove \/ RemoveStep
  BY <1>3 DEF StartQuiesce, StartRemove, RemoveStep, CloseService, FreeIrq, FreeMemory
<1>4. CASE QuiesceStep
  <2>1. rx'.running = FALSE \/ rx'.running = rx.running
    BY <1>1, <1>4 DEF QuiesceStep, CloseGate, SynchronizeIrq, KillTasklet, MaskAll, Disable,
       Return, RxStates
  <2>2. UNCHANGED <<h, t>>
    BY <1>4 DEF QuiesceStep, CloseGate, SynchronizeIrq, KillTasklet, MaskAll, Disable
  <2> QED
    BY <2>1, <2>2
<1>5. CASE Interrupt \/ HandlerStep
  BY <1>5 DEF Interrupt, HandlerStep, RxIrq, MaskSource, AckSource, ScheduleTasklet
<1>6. CASE TaskletStep
  BY <1>6 DEF TaskletStep, TaskletStart, TakeFrame, FrameIncomplete, FrameFails, Drained,
     Waiting, Rearm, Abort, StopEngine, Closed
<1>7. CASE Receive \/ OpenService \/ WindowDies \/ LatchLoss
  BY <1>7 DEF Receive, OpenService, WindowDies, LatchLoss
<1>8. CASE UNCHANGED vars
  BY <1>8 DEF vars
<1> QED
  BY <1>2, <1>3, <1>4, <1>5, <1>6, <1>7, <1>8 DEF Next

\* Whoever is past the gate finds the slots from the consumer on mapped.
LEMMA KeepsMapping ==
  ASSUME TypeOK, Gate, Woken, Mapping, [Next]_vars
  PROVE  Mapping'
<1>1. /\ ring \in Rings /\ p \in Processes
      /\ dev.cur \in Nat /\ ring.tail \in Nat /\ Posted \in Nat
  BY EngineAssumption DEF TypeOK, Devices, Rings
<1>2. CASE Alloc
  <2>1. AtRest'
    BY <1>2, OnlyProgrammedOpens DEF Gate, Alloc, Programmed
  <2> QED
    BY <2>1, <1>2 DEF Mapping, Alloc
<1>3. CASE AllocFails \/ Disable \/ FreeMemory
  <2>1. AtRest'
    BY <1>3, OnlyProgrammedOpens DEF Gate, AllocFails, Disable, FreeMemory, Programmed
  <2>2. p'.pc \notin {"program", "check"}
    BY <1>1, <1>3 DEF AllocFails, Disable, Return, FreeMemory, Goto, Processes
  <2> QED
    BY <2>1, <2>2 DEF Mapping
<1>4. CASE Program
  <2>1. AtRest'
    BY <1>4, OnlyProgrammedOpens DEF Gate, Program, Programmed
  <2> QED
    BY <2>1, <1>4 DEF Mapping, Program
<1>5. CASE Programmed
  <2>1. ring' = ring /\ p'.pc = "route"
    BY <1>1, <1>5 DEF Programmed, Goto, Processes
  <2>2. ring.tail = 0 /\ ring.mapped = Slots
    BY <1>5 DEF Programmed, Mapping
  <2> QED
    BY <2>1, <2>2 DEF Mapping, Slots
<1>6. CASE TakeFrame
  <2>1. /\ ring'.mapped = ring.mapped \ (ring.tail .. ring'.tail - 1)
        /\ ring'.tail \in Nat /\ ring.tail <= ring'.tail
    BY <1>1, <1>6, TakenLiesBehind DEF End, HeadLen
  <2>2. ~AtRest /\ UNCHANGED p
    BY <1>6 DEF TakeFrame, Waiting, AtRest
  <2> QED
    BY <1>1, <2>1, <2>2 DEF Mapping, Gate
<1>7. CASE ~Alloc /\ ~AllocFails /\ ~Program /\ ~Disable /\ ~FreeMemory /\ ~TakeFrame
           /\ ~Programmed
  <2>1. ring' = ring
    BY <1>7, OtherStepsKeepRing DEF Receive, StopEngine
  <2>2. ~AtRest' => ~AtRest
    BY <1>7, OnlyProgrammedOpens
  <2>3. p'.pc \in {"program", "check"} => p.pc \in {"program", "check"}
    <3>1. CASE InitStep
      BY <1>1, <1>7, <3>1 DEF InitStep, StartInit, ProgramFails, Route, RouteFails, UnmaskFifo,
         UnmaskMac, Goto, Processes
    <3>2. CASE StartQuiesce \/ StartRemove
      <4>1. CASE StartQuiesce
        BY <1>1, <4>1 DEF StartQuiesce, Processes
      <4>2. CASE StartRemove
        BY <4>2 DEF StartRemove
      <4> QED
        BY <3>2, <4>1, <4>2
    <3>3. CASE QuiesceStep \/ RemoveStep
      BY <1>1, <1>7, <3>3 DEF QuiesceStep, CloseGate, SynchronizeIrq, KillTasklet, MaskAll,
         RemoveStep, CloseService, FreeIrq, Goto, Processes
    <3>4. CASE UNCHANGED p
      BY <3>4
    <3> QED
      BY <1>7, <3>1, <3>2, <3>3, <3>4 DEF Next, vars, Interrupt, HandlerStep, RxIrq, MaskSource,
         AckSource, ScheduleTasklet, TaskletStep, TaskletStart, FrameIncomplete, FrameFails,
         Drained, Rearm, Abort, StopEngine, Closed, Receive, OpenService, WindowDies, LatchLoss
  <2> QED
    BY <2>1, <2>2, <2>3 DEF Mapping
<1> QED
  BY <1>2, <1>3, <1>4, <1>5, <1>6, <1>7

-----------------------------------------------------------------------------
(***************************************************************************)
(* Where frames begin.                                                       *)
(***************************************************************************)
\* The ends of frames that have been begun are natural numbers behind their beginnings.
LEMMA EndIsBehind ==
  ASSUME TypeOK, NEW i \in Slots, dev.frame[i] # Blank
  PROVE  End(i) \in Nat /\ i < End(i)
<1>1. dev.frame[i] \in Nat /\ i \in Nat
  <2>1. dev.frame[i] \in Lens
    BY DEF TypeOK, Devices
  <2>2. dev.frame[i] \in Nat
    BY <2>1, EngineAssumption
  <2> QED
    BY <2>2, EngineAssumption DEF Slots
<1>2. PlanSegments(dev.frame[i]) \in Nat \ {0}
  BY <1>1, SegmentsType
<1> QED
  BY <1>1, <1>2 DEF End

\* One more buffer filled: the frame in progress grows, or one begins where the last
\* one ended.
LEMMA ReceiveChains ==
  ASSUME TypeOK, Chained, Receive
  PROVE  Chained'
<1>1. /\ dev.cur \in Nat /\ Posted \in Nat /\ dev.left \in Int /\ ring.tail \in Nat
      /\ dev.frame \in [Slots -> Lens \cup {Blank}]
      /\ dev.cur < Posted /\ dev.cur \in Slots /\ Slots = 0 .. Posted - 1
  BY EngineAssumption, ReceiveEffect DEF TypeOK, Devices, Rings, Slots
<1>2. dev'.cur = dev.cur + 1 /\ ring' = ring
  BY ReceiveEffect DEF Receive
<1>3. CASE dev.left > 0
  <2>1. dev'.frame = dev.frame /\ dev'.left = dev.left - 1
    BY <1>1, <1>3, ReceiveEffect
  <2>2. \A i : End(i)' = End(i)
    BY <2>1 DEF End
  <2>3. \A i \in dev'.cur .. Posted - 1 : dev'.frame[i] = Blank
    BY <1>1, <1>2, <2>1 DEF Chained
  <2>4. dev.frame[dev.cur] = Blank
    BY <1>1 DEF Chained
  <2>5. ASSUME NEW i \in 0 .. dev'.cur - 1, dev'.frame[i] # Blank
        PROVE  Linked(i)'
    <3>1. i \in 0 .. dev.cur - 1 /\ i \in Slots /\ dev.frame[i] # Blank
      BY <1>1, <1>2, <2>1, <2>4, <2>5
    <3>2. Linked(i) /\ End(i) \in Nat
      BY <3>1, EndIsBehind DEF Chained
    <3> QED
      BY <1>1, <1>2, <1>3, <2>1, <2>2, <3>2 DEF Linked
  <2>6. ASSUME NEW i \in Nat, Boundary(i)
        PROVE  Boundary(i)'
    BY <1>1, <1>2, <1>3, <2>1, <2>6 DEF Boundary
  <2> QED
    BY <1>1, <1>2, <2>3, <2>5, <2>6 DEF Chained
<1>4. CASE ~(dev.left > 0)
  <2>1. PICK len \in Lens :
          /\ dev'.frame = [dev.frame EXCEPT ![dev.cur] = len]
          /\ \/ dev'.left = PlanSegments(len) - 1
             \/ len = 0 /\ PlanSegments(len) = 1 /\ dev'.left = -1
    BY <1>1, <1>4, ReceiveEffect
  <2>2. len \in Nat /\ len # Blank /\ PlanSegments(len) \in Nat \ {0}
    BY EngineAssumption, SegmentsType DEF Blank
  <2>3. /\ dev'.frame[dev.cur] = len
        /\ \A i \in Slots : i # dev.cur => dev'.frame[i] = dev.frame[i]
    BY <1>1, <2>1
  <2>4. \A i \in Slots :
          /\ i = dev.cur => End(i)' = dev.cur + PlanSegments(len)
          /\ i # dev.cur => End(i)' = End(i)
    <3>1. \A i \in Slots : End(i)' = i + PlanSegments(dev'.frame[i])
      BY DEF End
    <3> QED
      BY <2>3, <3>1 DEF End
  <2>5. \A i \in dev'.cur .. Posted - 1 : dev'.frame[i] = Blank
    BY <1>1, <1>2, <2>3 DEF Chained
  <2>6. ASSUME NEW i \in 0 .. dev'.cur - 1, dev'.frame[i] # Blank
        PROVE  Linked(i)'
    <3>1. CASE i = dev.cur
      <4>1. /\ End(i)' = dev.cur + PlanSegments(len)
            /\ End(i)' \in Nat /\ End(i)' >= dev'.cur
            /\ dev'.left \in Int
        <5>1. End(i)' = dev.cur + PlanSegments(len)
          BY <1>1, <2>4, <3>1
        <5>2. dev'.left \in Int
          BY <2>1, <2>2
        <5> QED
          BY <5>1, <5>2, <1>1, <1>2, <2>2
      <4>2. End(i)' = dev'.cur => dev'.left <= 0
        BY <1>1, <1>2, <2>1, <2>2, <4>1
      <4>3. End(i)' > dev'.cur => dev'.left = End(i)' - dev'.cur
        BY <1>1, <1>2, <2>1, <2>2, <4>1
      <4> QED
        BY <1>1, <1>2, <4>1, <4>2, <4>3 DEF Linked
    <3>2. CASE i # dev.cur
      <4>1. i \in 0 .. dev.cur - 1 /\ i \in Slots /\ dev.frame[i] # Blank
        BY <1>1, <1>2, <2>3, <2>6, <3>2
      <4>2. Linked(i) /\ End(i) \in Nat /\ End(i)' = End(i)
        BY <4>1, <3>2, <2>4, EndIsBehind DEF Chained
      <4>3. End(i) <= dev.cur
        BY <1>1, <1>4, <4>2 DEF Linked
      <4>4. dev'.frame[End(i)] # Blank
        <5>1. CASE End(i) = dev.cur
          BY <5>1, <2>2, <2>3
        <5>2. CASE End(i) < dev.cur
          <6>1. dev.frame[End(i)] # Blank /\ End(i) \in Slots /\ End(i) # dev.cur
            BY <1>1, <4>2, <5>2 DEF Linked
          <6> QED
            BY <6>1, <2>3
        <5> QED
          BY <1>1, <4>2, <4>3, <5>1, <5>2
      <4> QED
        BY <1>1, <1>2, <4>2, <4>3, <4>4 DEF Linked
    <3> QED
      BY <3>1, <3>2
  <2>7. ASSUME NEW i \in Nat, Boundary(i)
        PROVE  Boundary(i)'
    <3>1. i <= dev.cur
      BY <2>7 DEF Boundary
    <3>2. dev'.frame[i] # Blank
      <4>1. CASE i = dev.cur
        BY <4>1, <2>2, <2>3
      <4>2. CASE i < dev.cur
        <5>1. dev.frame[i] # Blank /\ i \in Slots /\ i # dev.cur
          BY <1>1, <2>7, <4>2 DEF Boundary
        <5> QED
          BY <5>1, <2>3
      <4> QED
        BY <1>1, <3>1, <4>1, <4>2
    <3> QED
      BY <1>1, <1>2, <3>1, <3>2 DEF Boundary
  <2> QED
    BY <1>1, <1>2, <2>5, <2>6, <2>7 DEF Chained
<1> QED
  BY <1>3, <1>4

\* The consumer steps from the beginning of a frame to the beginning of the next.
LEMMA TakeFrameChains ==
  ASSUME TypeOK, Chained, Woken, TakeFrame
  PROVE  Chained'
<1>1. /\ dev.cur \in Nat /\ Posted \in Nat /\ dev.cur <= Posted
      /\ Slots = 0 .. Posted - 1
  BY EngineAssumption DEF TypeOK, Devices, Slots
<1>2. /\ dev.frame[ring.tail] # Blank
      /\ ring.tail \in Nat /\ ring.tail < dev.cur
      /\ ring'.tail = End(ring.tail) /\ ring'.tail <= dev.cur
  BY TakenLiesBehind DEF HeadLen
<1>3. ring.tail \in Slots /\ ring.tail \in 0 .. dev.cur - 1
  BY <1>1, <1>2
<1>4. Linked(ring.tail) /\ ring'.tail \in Nat
  BY <1>2, <1>3, EndIsBehind DEF Chained
<1>5. dev' = dev
  BY DEF TakeFrame
<1>6. Boundary(ring.tail)'
  BY <1>1, <1>2, <1>4, <1>5 DEF Linked, Boundary
<1> QED
  BY <1>5, <1>6 DEF Chained, Linked, Boundary, End

\* Drain and device agree on where frames begin, through restarts and stops.
LEMMA KeepsChained ==
  ASSUME TypeOK, Ownership, Chained, Mapping, Woken, [Next]_vars
  PROVE  Chained'
<1>1. /\ dev \in Devices /\ ring \in Rings
      /\ dev.cur \in Nat /\ Posted \in Nat /\ ring.tail \in Nat
  BY EngineAssumption DEF TypeOK, Devices, Rings
<1>2. ASSUME dev'.cur = dev.cur, dev'.frame = dev.frame, dev'.left = dev.left,
             ring'.tail = ring.tail \/ ring'.tail = 0
      PROVE  Chained'
  BY <1>2 DEF Chained, Linked, Boundary, End
<1>3. CASE Alloc \/ AllocFails
  BY <1>2, <1>3 DEF Alloc, AllocFails, EmptyRing
<1>4. CASE Program
  <2>1. ring'.tail = 0
    BY <1>4 DEF Program, Mapping
  <2>2. CASE Reaches
    <3>1. /\ dev'.cur = 0 /\ dev'.left = 0
          /\ dev'.frame = [i \in Slots |-> Blank]
      BY <1>4, <2>2 DEF Program, Write, IdleDevice
    <3> QED
      BY <1>1, <2>1, <3>1 DEF Chained, Boundary, Slots
  <2>3. CASE ~Reaches
    BY <1>2, <1>4, <2>1, <2>3 DEF Program, Write
  <2> QED
    BY <2>2, <2>3
<1>5. CASE Disable \/ StopEngine
  <2>1. ring'.tail = ring.tail
    BY <1>1, <1>5 DEF Disable, StopEngine, Return, Rings
  <2> QED
    BY <1>2, <1>5, <2>1, StopKeepsDevice
<1>6. CASE FreeMemory
  <2>1. ring'.tail = ring.tail /\ dev' = dev
    BY <1>1, <1>6 DEF FreeMemory, Rings
  <2> QED
    BY <1>2, <2>1
<1>7. CASE TakeFrame
  BY <1>7, TakeFrameChains
<1>8. CASE Receive
  BY <1>8, ReceiveChains
<1>9. CASE ~Alloc /\ ~AllocFails /\ ~Program /\ ~Disable /\ ~FreeMemory /\ ~TakeFrame
           /\ ~StopEngine /\ ~Receive
  BY <1>2, <1>9, OtherStepsKeepRing
<1> QED
  BY <1>3, <1>4, <1>5, <1>6, <1>7, <1>8, <1>9

-----------------------------------------------------------------------------
(***************************************************************************)
(* No wakeup is lost.                                                        *)
(***************************************************************************)
\* What waits at the consumer is a complete frame.
LEMMA WaitingIsComplete ==
  ASSUME TypeOK
  PROVE  FrameWaits <=> ring.tail < dev.cur /\ Complete(ring.tail)
<1>1. ring.tail \in Nat /\ dev.cur \in Nat /\ dev.cur <= Posted /\ Posted \in Nat
  BY EngineAssumption DEF TypeOK, Rings, Devices
<1>2. End(ring.tail) = ring.tail + PlanSegments(HeadLen)
  BY DEF End, HeadLen
<1>3. ASSUME ring.tail < dev.cur, PlanOk(HeadLen)
      PROVE  HeadLen # Blank /\ PlanSegments(HeadLen) \in Nat
  <2>1. ring.tail \in Slots
    BY <1>1, <1>3 DEF Slots
  <2>2. HeadLen \in Lens \cup {Blank}
    BY <2>1 DEF TypeOK, Devices, HeadLen
  <2>3. HeadLen \in Nat /\ HeadLen # Blank
    BY <1>3, <2>2, EngineAssumption DEF PlanOk, LengthOk, Blank
  <2> QED
    BY <2>3, SegmentsType
<1> QED
  BY <1>1, <1>2, <1>3 DEF FrameWaits, Complete, HeadLen

\* The buffer that completes a frame latches I_RI.
LEMMA CompletedIsLatched ==
  ASSUME TypeOK, Chained, Receive, NEW i \in 0 .. dev'.cur - 1, Complete(i)'
  PROVE  dev'.ri \/ (i \in 0 .. dev.cur - 1 /\ Complete(i) /\ End(i)' = End(i))
<1>1. /\ dev.cur \in Nat /\ Posted \in Nat /\ dev.left \in Int /\ dev.cur < Posted
      /\ dev.frame \in [Slots -> Lens \cup {Blank}]
      /\ dev.cur \in Slots /\ Slots = 0 .. Posted - 1
      /\ dev'.cur = dev.cur + 1 /\ (dev'.left = 0 => dev'.ri)
  <2>1. /\ dev.cur \in Nat /\ Posted \in Nat /\ dev.left \in Int
        /\ dev.frame \in [Slots -> Lens \cup {Blank}]
    BY EngineAssumption DEF TypeOK, Devices
  <2>2. dev.cur < Posted /\ dev'.cur = dev.cur + 1
    BY ReceiveEffect
  <2>3. dev'.left = 0 => dev'.ri
    BY ReceiveEffect
  <2> QED
    BY <2>1, <2>2, <2>3 DEF Slots
<1>2. i \in Slots /\ i \in Nat
  BY <1>1
<1>3. CASE dev.left > 0
  <2>1. dev'.frame = dev.frame /\ dev'.left = dev.left - 1
    BY <1>1, <1>3, ReceiveEffect
  <2>2. End(i)' = End(i)
    BY <2>1 DEF End
  <2>3. dev.frame[i] # Blank /\ PlanOk(dev.frame[i]) /\ End(i) <= dev.cur + 1
    BY <1>1, <2>1, <2>2 DEF Complete
  <2>4. i \in 0 .. dev.cur - 1
    BY <1>1, <1>2, <2>3 DEF Chained
  <2>5. Linked(i) /\ End(i) \in Nat
    BY <1>2, <2>3, <2>4, EndIsBehind DEF Chained
  <2>6. CASE End(i) = dev.cur + 1
    <3>1. dev.left = 1
      BY <1>1, <2>5, <2>6 DEF Linked
    <3> QED
      BY <1>1, <2>1, <3>1
  <2>7. CASE End(i) # dev.cur + 1
    BY <1>1, <2>2, <2>3, <2>4, <2>5, <2>7 DEF Complete
  <2> QED
    BY <2>6, <2>7
<1>4. CASE ~(dev.left > 0)
  <2>1. PICK len \in Lens :
          /\ dev'.frame = [dev.frame EXCEPT ![dev.cur] = len]
          /\ \/ dev'.left = PlanSegments(len) - 1
             \/ len = 0 /\ PlanSegments(len) = 1 /\ dev'.left = -1
    BY <1>1, <1>4, ReceiveEffect
  <2>2. len \in Nat /\ PlanSegments(len) \in Nat \ {0}
    BY EngineAssumption, SegmentsType
  <2>3. CASE i = dev.cur
    <3>1. dev'.frame[i] = len
      BY <1>1, <2>1, <2>3
    <3>2. PlanOk(len) /\ End(i)' = i + PlanSegments(len) /\ End(i)' <= dev'.cur
      BY <3>1 DEF Complete, End
    <3>3. PlanSegments(len) = 1
      BY <1>1, <2>2, <2>3, <3>2
    <3>4. len # 0
      BY <3>2 DEF PlanOk, LengthOk
    <3>5. dev'.left = 0
      BY <2>1, <3>3, <3>4
    <3> QED
      BY <1>1, <3>5
  <2>4. CASE i # dev.cur
    <3>1. dev'.frame[i] = dev.frame[i] /\ i \in 0 .. dev.cur - 1
      BY <1>1, <1>2, <2>1, <2>4
    <3>2. End(i)' = End(i) /\ dev.frame[i] # Blank /\ PlanOk(dev.frame[i])
      BY <3>1 DEF Complete, End
    <3>3. Linked(i) /\ End(i) \in Nat
      BY <1>2, <3>1, <3>2, EndIsBehind DEF Chained
    <3>4. End(i) <= dev.cur
      BY <1>1, <1>4, <3>3 DEF Linked
    <3> QED
      BY <3>1, <3>2, <3>4 DEF Complete
  <2> QED
    BY <2>3, <2>4
<1> QED
  BY <1>3, <1>4

\* What is pending stays so until the tasklet looks or a new ring is started: the
\* handler hands on what it acknowledges.
LEMMA PendingStays ==
  ASSUME TypeOK, Ownership, Pending, [Next]_vars, ~TaskletStart, ~Program
  PROVE  Pending'
<1> USE DEF Pending
<1>1. t \in Tasklets /\ dev \in Devices
  BY DEF TypeOK
<1>2. CASE AckSource \/ ScheduleTasklet
  BY <1>1, <1>2 DEF AckSource, ScheduleTasklet, Tasklets
<1>3. CASE ~AckSource /\ ~ScheduleTasklet
  <2>1. dev.ri => dev'.ri
    <3>1. CASE Disable \/ StopEngine
      BY <3>1, StopKeepsDevice
    <3>2. CASE Receive
      <4>1. dev'.ri = (dev.ri \/ dev'.left = 0)
        BY <3>2, ReceiveEffect
      <4> QED
        BY <4>1
    <3>3. CASE Alloc \/ AllocFails \/ FreeMemory \/ TakeFrame
      BY <3>3 DEF Alloc, AllocFails, FreeMemory, TakeFrame
    <3>4. CASE ~Alloc /\ ~AllocFails /\ ~Program /\ ~Disable /\ ~FreeMemory /\ ~TakeFrame
               /\ ~StopEngine /\ ~Receive
      <4>1. dev'.ri = dev.ri
        BY <1>3, <3>4, OtherStepsKeepRing
      <4> QED
        BY <4>1
    <3> QED
      BY <3>1, <3>2, <3>3, <3>4
  <2>2. h = "sched" => h' = "sched"
    <3>1. CASE InitStep
      BY <3>1 DEF InitStep, StartInit, Alloc, AllocFails, Program, Programmed, ProgramFails,
         Route, RouteFails, UnmaskFifo, UnmaskMac
    <3>2. CASE StartQuiesce \/ StartRemove \/ QuiesceStep \/ RemoveStep
      BY <3>2 DEF StartQuiesce, StartRemove, QuiesceStep, CloseGate, SynchronizeIrq, KillTasklet,
         MaskAll, Disable, RemoveStep, CloseService, FreeIrq, FreeMemory
    <3>3. CASE Interrupt \/ HandlerStep
      BY <1>3, <3>3 DEF Interrupt, HandlerStep, RxIrq, MaskSource
    <3>4. CASE TaskletStep
      BY <3>4 DEF TaskletStep, TaskletStart, TakeFrame, FrameIncomplete, FrameFails, Drained,
         Rearm, Abort, StopEngine, Closed
    <3>5. CASE Receive \/ OpenService \/ WindowDies \/ LatchLoss \/ UNCHANGED vars
      BY <3>5 DEF Receive, OpenService, WindowDies, LatchLoss, vars
    <3> QED
      BY <3>1, <3>2, <3>3, <3>4, <3>5 DEF Next
  <2>3. t.sched => t'.sched
    <3>1. CASE InitStep
      BY <3>1 DEF InitStep, StartInit, Alloc, AllocFails, Program, Programmed, ProgramFails,
         Route, RouteFails, UnmaskFifo, UnmaskMac
    <3>2. CASE StartQuiesce \/ StartRemove \/ QuiesceStep \/ RemoveStep
      BY <3>2 DEF StartQuiesce, StartRemove, QuiesceStep, CloseGate, SynchronizeIrq, KillTasklet,
         MaskAll, Disable, RemoveStep, CloseService, FreeIrq, FreeMemory
    <3>3. CASE Interrupt \/ HandlerStep
      BY <1>3, <3>3 DEF Interrupt, HandlerStep, RxIrq, MaskSource
    <3>4. CASE TaskletStep
      <4>1. t'.sched = t.sched
        BY <1>1, <3>4 DEF TaskletStep, TakeFrame, FrameIncomplete, FrameFails, Drained,
           Rearm, Abort, StopEngine, Closed, Tasklets
      <4> QED
        BY <4>1
    <3>5. CASE Receive \/ OpenService \/ WindowDies \/ LatchLoss \/ UNCHANGED vars
      BY <3>5 DEF Receive, OpenService, WindowDies, LatchLoss, vars
    <3> QED
      BY <3>1, <3>2, <3>3, <3>4, <3>5 DEF Next
  <2> QED
    BY <2>1, <2>2, <2>3
<1> QED
  BY <1>2, <1>3

\* One more buffer takes nothing off what is pending.
LEMMA ReceivePending ==
  ASSUME TypeOK, Receive, Pending
  PROVE  Pending'
<1>1. dev.ri => dev'.ri
  <2>1. dev'.ri = (dev.ri \/ dev'.left = 0)
    BY ReceiveEffect
  <2> QED
    BY <2>1
<1>2. UNCHANGED <<h, t>>
  BY DEF Receive
<1> QED
  BY <1>1, <1>2 DEF Pending

\* A length the plan accepts is that of a frame.
LEMMA PlannedIsFrame ==
  ASSUME NEW len \in Lens \cup {Blank}, PlanOk(len)
  PROVE  len \in Nat /\ len # Blank /\ PlanSegments(len) \in Nat \ {0}
<1>1. len \in Nat /\ len # Blank
  BY EngineAssumption DEF PlanOk, LengthOk, Blank
<1> QED
  BY <1>1, SegmentsType

\* A frame that waits once the device has filled a buffer waited before, or is latched.
LEMMA ReceivedIsLatched ==
  ASSUME TypeOK, TypeOK', Chained, Receive, FrameWaits'
  PROVE  dev'.ri \/ FrameWaits
<1>1. /\ ring.tail \in Nat /\ dev.cur \in Nat
      /\ UNCHANGED ring /\ dev'.cur = dev.cur + 1
  <2>1. dev'.cur = dev.cur + 1
    BY ReceiveEffect
  <2>2. UNCHANGED ring
    BY DEF Receive
  <2> QED
    BY <2>1, <2>2 DEF TypeOK, Rings, Devices
<1>2. PICK i \in Nat : i = ring.tail
  BY <1>1
<1>3. /\ i < dev'.cur /\ PlanOk(dev'.frame[i])
      /\ PlanSegments(dev'.frame[i]) <= dev'.cur - i
  BY <1>1, <1>2 DEF FrameWaits, HeadLen
<1>4. i \in 0 .. dev'.cur - 1 /\ i \in Slots /\ dev'.cur \in Nat
  BY <1>1, <1>2, <1>3, EngineAssumption DEF TypeOK, Devices, Slots
<1>5. Complete(i)'
  <2>1. dev'.frame[i] \in Lens \cup {Blank}
    BY <1>4 DEF TypeOK, Devices
  <2>2. dev'.frame[i] # Blank /\ PlanSegments(dev'.frame[i]) \in Nat
    BY <1>3, <2>1, PlannedIsFrame
  <2>3. i + PlanSegments(dev'.frame[i]) <= dev'.cur
    BY <1>3, <1>4, <2>2
  <2> QED
    BY <1>3, <2>2, <2>3 DEF Complete, End
<1>6. dev'.ri \/ (i \in 0 .. dev.cur - 1 /\ Complete(i))
  BY <1>4, <1>5, CompletedIsLatched
<1>7. i \in 0 .. dev.cur - 1 /\ Complete(i) => FrameWaits
  BY <1>1, <1>2, WaitingIsComplete
<1> QED
  BY <1>6, <1>7

\* The loss of the register window is final.
LEMMA LossIsFinal ==
  ASSUME TypeOK, [Next]_vars, Reaches'
  PROVE  Reaches
<1> USE DEF Reaches
<1>1. CASE InitStep
  BY <1>1 DEF InitStep, StartInit, Alloc, AllocFails, Program, Programmed, ProgramFails, Route,
     RouteFails, UnmaskFifo, UnmaskMac
<1>2. CASE StartQuiesce \/ StartRemove \/ QuiesceStep \/ RemoveStep
  BY <1>2 DEF StartQuiesce, StartRemove, QuiesceStep, CloseGate, SynchronizeIrq, KillTasklet,
     MaskAll, Disable, RemoveStep, CloseService, FreeIrq, FreeMemory
<1>3. CASE Interrupt \/ HandlerStep
  BY <1>3 DEF Interrupt, HandlerStep, RxIrq, MaskSource, AckSource, ScheduleTasklet
<1>4. CASE TaskletStep
  BY <1>4 DEF TaskletStep, TaskletStart, TakeFrame, FrameIncomplete, FrameFails, Drained,
     Rearm, Abort, StopEngine, Closed
<1>5. CASE WindowDies \/ LatchLoss
  BY <1>5 DEF WindowDies, LatchLoss, TypeOK, Windows
<1>6. CASE Receive \/ OpenService \/ UNCHANGED vars
  BY <1>6 DEF Receive, OpenService, vars
<1> QED
  BY <1>1, <1>2, <1>3, <1>4, <1>5, <1>6 DEF Next

\* Only the tasklet moves itself; the handler marks it scheduled.
LEMMA OthersKeepTasklet ==
  ASSUME TypeOK, [Next]_vars, ~TaskletStep
  PROVE  t'.pc = t.pc /\ t'.seen = t.seen /\ t'.done = t.done
<1>1. CASE InitStep
  BY <1>1 DEF InitStep, StartInit, Alloc, AllocFails, Program, Programmed, ProgramFails, Route,
     RouteFails, UnmaskFifo, UnmaskMac
<1>2. CASE StartQuiesce \/ StartRemove \/ QuiesceStep \/ RemoveStep
  BY <1>2 DEF StartQuiesce, StartRemove, QuiesceStep, CloseGate, SynchronizeIrq, KillTasklet,
     MaskAll, Disable, RemoveStep, CloseService, FreeIrq, FreeMemory
<1>3. CASE Interrupt \/ HandlerStep
  BY <1>3 DEF Interrupt, HandlerStep, RxIrq, MaskSource, AckSource, ScheduleTasklet, TypeOK,
     Tasklets
<1>4. CASE Receive \/ OpenService \/ WindowDies \/ LatchLoss \/ UNCHANGED vars
  BY <1>4 DEF Receive, OpenService, WindowDies, LatchLoss, vars
<1> QED
  BY <1>1, <1>2, <1>3, <1>4 DEF Next

\* Only the process moves itself.
LEMMA OthersKeepProcess ==
  ASSUME [Next]_vars, ~InitStep, ~StartQuiesce, ~StartRemove, ~QuiesceStep, ~RemoveStep
  PROVE  p' = p
BY DEF Next, vars, Interrupt, HandlerStep, RxIrq, MaskSource, AckSource, ScheduleTasklet,
   TaskletStep, TaskletStart, TakeFrame, FrameIncomplete, FrameFails, Drained, Rearm, Abort,
   StopEngine, Closed, Receive, OpenService, WindowDies, LatchLoss

\* RX runs from the end of its start.
LEMMA RunsOnceProgrammed ==
  ASSUME TypeOK, [Next]_vars, rx'.running, ~Programmed
  PROVE  rx.running
<1>1. rx \in RxStates
  BY DEF TypeOK
<1>2. CASE InitStep
  BY <1>1, <1>2 DEF InitStep, StartInit, Alloc, AllocFails, Program, ProgramFails, Route,
     RouteFails, UnmaskFifo, UnmaskMac, NoRx, RxStates
<1>3. CASE StartQuiesce \/ StartRemove \/ RemoveStep
  BY <1>3 DEF StartQuiesce, StartRemove, RemoveStep, CloseService, FreeIrq, FreeMemory
<1>4. CASE QuiesceStep
  BY <1>1, <1>4 DEF QuiesceStep, CloseGate, SynchronizeIrq, KillTasklet, MaskAll, Disable,
     Return, RxStates
<1>5. CASE Interrupt \/ HandlerStep
  BY <1>5 DEF Interrupt, HandlerStep, RxIrq, MaskSource, AckSource, ScheduleTasklet
<1>6. CASE TaskletStep
  BY <1>1, <1>6 DEF TaskletStep, TaskletStart, TakeFrame, FrameIncomplete, FrameFails, Drained,
     Rearm, Abort, StopEngine, Closed, RxStates
<1>7. CASE Receive \/ OpenService \/ WindowDies \/ LatchLoss \/ UNCHANGED vars
  BY <1>7 DEF Receive, OpenService, WindowDies, LatchLoss, vars
<1> QED
  BY <1>2, <1>3, <1>4, <1>5, <1>6, <1>7 DEF Next

\* What a frame is does not change but by what the device writes.
LEMMA CompleteStays ==
  ASSUME TypeOK, Ownership, [Next]_vars, ~Program, ~Receive
  PROVE  /\ dev'.cur = dev.cur
         /\ \A i : (Complete(i)' <=> Complete(i)) /\ End(i)' = End(i)
<1>1. dev'.cur = dev.cur /\ dev'.frame = dev.frame
  <2>1. CASE Disable \/ StopEngine
    BY <2>1, StopKeepsDevice
  <2>2. CASE Alloc \/ AllocFails \/ FreeMemory \/ TakeFrame
    BY <2>2 DEF Alloc, AllocFails, FreeMemory, TakeFrame
  <2>3. CASE ~Alloc /\ ~AllocFails /\ ~Disable /\ ~FreeMemory /\ ~TakeFrame /\ ~StopEngine
    BY <2>3, OtherStepsKeepRing
  <2> QED
    BY <2>1, <2>2, <2>3
<1> QED
  BY <1>1 DEF Complete, End

\* A frame that becomes whole behind the tasklet's back is latched.
LEMMA KeepsDrainWoken ==
  ASSUME TypeOK, Gate, Ownership, Chained, DrainWoken, [Next]_vars
  PROVE  DrainWoken'
<1> SUFFICES ASSUME t'.pc = "drain" PROVE DrainWoken'
  BY DEF DrainWoken
<1>1. /\ dev.cur \in Nat /\ t \in Tasklets
      /\ \A i \in 0 .. dev.cur - 1 : dev.frame[i] # Blank => End(i) \in Nat
  <2>1. dev.cur \in Nat /\ dev.cur <= Posted /\ Posted \in Nat
    BY EngineAssumption DEF TypeOK, Devices
  <2>2. \A i \in 0 .. dev.cur - 1 : i \in Slots
    BY <2>1 DEF Slots
  <2> QED
    BY <2>1, <2>2, EndIsBehind DEF TypeOK
<1>2. CASE TaskletStart
  <2>1. t'.seen = dev.cur /\ dev' = dev
    BY <1>1, <1>2 DEF TaskletStart, Tasklets
  <2>2. \A i : (Complete(i)' <=> Complete(i)) /\ End(i)' = End(i)
    BY <2>1 DEF Complete, End
  <2>3. \A i \in 0 .. dev.cur - 1 : ~(Complete(i) /\ dev.cur < End(i))
    BY <1>1 DEF Complete
  <2> QED
    BY <1>1, <2>1, <2>2, <2>3 DEF DrainWoken
<1>3. ASSUME ~TaskletStart
      PROVE  t.pc = "drain" /\ t'.seen = t.seen
  <2>1. CASE TaskletStep
    BY <1>1, <1>3, <2>1 DEF TaskletStep, TakeFrame, FrameIncomplete, FrameFails, Drained, Rearm,
       Abort, StopEngine, Closed, Tasklets
  <2>2. CASE ~TaskletStep
    BY <2>2, OthersKeepTasklet
  <2> QED
    BY <2>1, <2>2
<1>4. CASE Program
  BY <1>4, <1>3 DEF Program, TaskletStart, Gate, AtRest
<1>5. CASE Receive
  <2>1. /\ t.pc = "drain" /\ t'.seen = t.seen /\ dev'.cur = dev.cur + 1
        /\ UNCHANGED <<h, t>>
    BY <1>3, <1>5, ReceiveEffect DEF Receive, TaskletStart
  <2>2. ASSUME NEW i \in 0 .. dev'.cur - 1, Complete(i)', t.seen < End(i)'
        PROVE  Pending'
    <3>1. CASE dev'.ri
      BY <3>1 DEF Pending
    <3>2. CASE i \in 0 .. dev.cur - 1 /\ Complete(i) /\ End(i)' = End(i)
      <4>1. Pending
        BY <2>1, <2>2, <3>2 DEF DrainWoken
      <4> QED
        BY <4>1, <1>5, ReceivePending
    <3> QED
      BY <1>5, <2>2, <3>1, <3>2, CompletedIsLatched
  <2>3. t.seen <= dev'.cur
    BY <1>1, <2>1 DEF DrainWoken, Tasklets
  <2> QED
    BY <2>1, <2>2, <2>3 DEF DrainWoken
<1>6. CASE ~TaskletStart /\ ~Program /\ ~Receive
  <2>1. t.pc = "drain" /\ t'.seen = t.seen
    BY <1>3, <1>6
  <2>2. /\ dev'.cur = dev.cur
        /\ \A i : (Complete(i)' <=> Complete(i)) /\ End(i)' = End(i)
    BY <1>6, CompleteStays
  <2>3. Pending => Pending'
    BY <1>6, PendingStays
  <2> QED
    BY <2>1, <2>2, <2>3 DEF DrainWoken
<1> QED
  BY <1>2, <1>4, <1>5, <1>6

\* Nor is it forgotten while the tasklet rests.
LEMMA KeepsRestWoken ==
  ASSUME TypeOK, Gate, Ownership, Chained, Woken, [Next]_vars
  PROVE  RestWoken'
<1> SUFFICES ASSUME t'.pc \in {"idle", "rearm"}, rx'.running, Reaches', FrameWaits'
             PROVE  Pending' \/ t'.done = DrainMax
  BY DEF RestWoken
<1>1. /\ rx \in RxStates /\ t \in Tasklets /\ p \in Processes
      /\ ring.tail \in Nat /\ dev.cur \in Nat
  BY DEF TypeOK, Rings, Devices
<1>2. TypeOK' /\ Reaches
  BY KeepsTypes, LossIsFinal
<1>4. CASE Programmed
  <2>1. UNCHANGED <<ring, dev, h, t, window>>
    BY <1>4 DEF Programmed
  <2>2. p.pc = "check" /\ FrameWaits
    BY <1>4, <2>1 DEF Programmed, FrameWaits, HeadLen
  <2> QED
    BY <1>2, <2>1, <2>2 DEF Woken, StartWoken, Pending
<1>5. ASSUME ~Programmed
      PROVE  rx.running /\ ~AtRest
  BY <1>5, RunsOnceProgrammed DEF AtRest
<1>6. ASSUME Alloc \/ AllocFails \/ Program \/ Disable \/ FreeMemory
      PROVE  FALSE
  <2>1. AtRest /\ ~Programmed
    BY <1>6 DEF Alloc, AllocFails, Program, Disable, FreeMemory, Programmed, Gate
  <2> QED
    BY <2>1, <1>5
<1>7. CASE TaskletStep
  <2>1. CASE TaskletStart
    BY <1>1, <1>2, <1>5, <2>1 DEF TaskletStart, Tasklets, Programmed
  <2>2. CASE TakeFrame \/ FrameFails \/ Abort \/ StopEngine
    BY <1>1, <2>2 DEF TakeFrame, Waiting, FrameFails, Abort, StopEngine, Tasklets
  <2>3. CASE Closed
    BY <1>1, <2>3 DEF Closed, RxStates
  <2>4. CASE Rearm
    <3>1. /\ t.pc = "rearm" /\ t'.done = t.done /\ t'.sched = t.sched
          /\ UNCHANGED <<rx, ring, dev, h>>
      BY <1>1, <2>4 DEF Rearm, Tasklets
    <3>2. FrameWaits
      BY <3>1 DEF FrameWaits, HeadLen
    <3> QED
      BY <1>2, <3>1, <3>2 DEF Woken, RestWoken, Pending
  <2>5. CASE FrameIncomplete \/ Drained
    <3>1. /\ t.pc = "drain" /\ t'.sched = t.sched /\ t'.done = t.done
          /\ UNCHANGED <<ring, dev, h>>
      BY <1>1, <2>5 DEF FrameIncomplete, Drained, Waiting, Tasklets
    <3>2. FrameWaits
      BY <3>1 DEF FrameWaits, HeadLen
    <3>3. ring.tail < dev.cur /\ Complete(ring.tail) /\ ring.tail \in 0 .. dev.cur - 1
      BY <1>1, <3>2, WaitingIsComplete
    <3>4. End(ring.tail) = ring.tail + PlanSegments(HeadLen) /\ PlanSegments(HeadLen) \in Nat \ {0}
      <4>1. HeadLen \in Lens
        BY <3>3, EngineAssumption DEF Complete, HeadLen, TypeOK, Devices, Slots
      <4> QED
        BY <4>1, EngineAssumption, SegmentsType DEF End, HeadLen
    <3>5. t.seen < End(ring.tail) \/ t.done = DrainMax
      <4>1. CASE FrameIncomplete
        BY <1>1, <3>2, <3>4, <4>1 DEF FrameIncomplete, Whole, Tasklets
      <4>2. CASE Drained
        BY <1>1, <3>1, <3>4, <4>2, EngineAssumption DEF Drained, Waiting, Tasklets
      <4> QED
        BY <2>5, <4>1, <4>2
    <3>6. t.seen < End(ring.tail) => Pending
      BY <3>1, <3>3 DEF Woken, DrainWoken
    <3>7. Pending => Pending'
      BY <3>1 DEF Pending
    <3> QED
      BY <3>1, <3>5, <3>6, <3>7
  <2> QED
    BY <1>7, <2>1, <2>2, <2>3, <2>4, <2>5 DEF TaskletStep
<1>8. CASE Receive
  <2>1. /\ UNCHANGED <<rx, ring, h, t>>
        /\ dev'.cur = dev.cur + 1 /\ rx.running
    BY <1>5, <1>8, ReceiveEffect DEF Receive, Programmed
  <2>2. dev'.ri \/ FrameWaits
    BY <1>2, <1>8, ReceivedIsLatched
  <2>3. CASE dev'.ri
    BY <2>3 DEF Pending
  <2>4. CASE FrameWaits
    <3>1. Pending \/ t.done = DrainMax
      BY <1>2, <2>1, <2>4 DEF Woken, RestWoken
    <3> QED
      BY <1>8, <2>1, <3>1, ReceivePending
  <2> QED
    BY <2>2, <2>3, <2>4
<1>9. CASE ~Programmed /\ ~TaskletStep /\ ~Receive
  <2>1. /\ rx.running
        /\ ~Alloc /\ ~AllocFails /\ ~Program /\ ~Disable /\ ~FreeMemory
        /\ ~TakeFrame /\ ~StopEngine /\ ~TaskletStart
    BY <1>5, <1>6, <1>9 DEF TaskletStep
  <2>2. t.pc = t'.pc /\ t'.done = t.done
    BY <1>9, OthersKeepTasklet
  <2>3. ring' = ring /\ dev'.cur = dev.cur /\ dev'.frame = dev.frame
    BY <1>9, <2>1, OtherStepsKeepRing
  <2>4. FrameWaits
    BY <2>3 DEF FrameWaits, HeadLen
  <2>5. Pending \/ t.done = DrainMax
    BY <1>2, <2>1, <2>2, <2>4 DEF Woken, RestWoken
  <2> QED
    BY <2>1, <2>2, <2>5, PendingStays
<1> QED
  BY <1>4, <1>7, <1>8, <1>9

\* A ring that is not yet opened has whatever waits in it latched.
LEMMA KeepsStartWoken ==
  ASSUME TypeOK, Gate, Ownership, Chained, Woken, [Next]_vars
  PROVE  StartWoken'
<1> SUFFICES ASSUME p'.pc = "check", Reaches', FrameWaits'
             PROVE  dev'.ri
  BY DEF StartWoken
<1>1. p \in Processes /\ ring.tail \in Nat /\ dev.cur \in Nat
  BY DEF TypeOK, Rings, Devices
<1>2. TypeOK' /\ Reaches
  BY KeepsTypes, LossIsFinal
<1>3. CASE Program
  <2>1. dev'.cur = 0
    BY <1>2, <1>3 DEF Program, Write, IdleDevice
  <2> QED
    BY <1>2, <2>1 DEF FrameWaits, TypeOK, Rings
<1>4. ASSUME ~Program
      PROVE  p.pc = "check" /\ p' = p
  <2>1. CASE InitStep
    BY <1>1, <1>4, <2>1 DEF InitStep, StartInit, Alloc, AllocFails, Programmed, ProgramFails,
       Route, RouteFails, UnmaskFifo, UnmaskMac, Goto, Processes
  <2>2. CASE StartQuiesce
    BY <1>1, <2>2 DEF StartQuiesce, Processes
  <2>3. CASE StartRemove
    BY <2>3 DEF StartRemove
  <2>4. CASE QuiesceStep \/ RemoveStep
    BY <1>1, <2>4 DEF QuiesceStep, CloseGate, SynchronizeIrq, KillTasklet, MaskAll, Disable,
       Return, RemoveStep, CloseService, FreeIrq, FreeMemory, Goto, Processes
  <2> QED
    BY <2>1, <2>2, <2>3, <2>4, OthersKeepProcess
<1>5. CASE Receive
  <2>1. /\ p.pc = "check" /\ UNCHANGED ring /\ dev'.cur = dev.cur + 1
    BY <1>4, <1>5, ReceiveEffect DEF Receive, Program
  <2>2. dev'.ri \/ FrameWaits
    BY <1>2, <1>5, ReceivedIsLatched
  <2>3. CASE FrameWaits
    <3>1. dev.ri
      BY <1>2, <2>1, <2>3 DEF Woken, StartWoken
    <3>2. dev'.ri = (dev.ri \/ dev'.left = 0)
      BY <1>5, ReceiveEffect
    <3> QED
      BY <3>1, <3>2
  <2> QED
    BY <2>2, <2>3
<1>6. CASE ~Program /\ ~Receive
  <2>1. AtRest /\ p.pc = "check"
    BY <1>4, <1>6 DEF Gate
  <2>2. /\ ~Alloc /\ ~AllocFails /\ ~Disable /\ ~FreeMemory /\ ~TakeFrame /\ ~StopEngine
        /\ ~AckSource
    BY <2>1 DEF Alloc, AllocFails, Disable, FreeMemory, TakeFrame, Waiting, StopEngine, AckSource,
       AtRest
  <2>3. /\ ring' = ring /\ dev'.cur = dev.cur /\ dev'.frame = dev.frame
        /\ dev'.ri = dev.ri
    BY <1>6, <2>2, OtherStepsKeepRing
  <2>4. FrameWaits
    BY <2>3 DEF FrameWaits, HeadLen
  <2> QED
    BY <1>2, <2>1, <2>3, <2>4 DEF Woken, StartWoken
<1> QED
  BY <1>3, <1>5, <1>6

-----------------------------------------------------------------------------
(***************************************************************************)
(* Whoever disarms the interrupt while RX runs arms it again or closes RX.   *)
(***************************************************************************)
\* The two contexts that mask and unmask while RX runs hand the duty on.
LEMMA WorkArmed ==
  ASSUME TypeOK, Armed, Interrupt \/ HandlerStep \/ TaskletStep
  PROVE  Armed'
<1>1. /\ rx \in RxStates /\ mask \in Masks /\ t \in Tasklets
      /\ UNCHANGED <<p, window>>
  BY DEF TypeOK, Interrupt, HandlerStep, RxIrq, MaskSource, AckSource, ScheduleTasklet,
     TaskletStep, TaskletStart, TakeFrame, FrameIncomplete, FrameFails, Drained, Rearm, Abort,
     StopEngine, Closed
<1>2. Reaches' <=> Reaches
  BY <1>1 DEF Reaches
<1>3. CASE Interrupt \/ RxIrq
  BY <1>1, <1>2, <1>3 DEF Armed, Interrupt, RxIrq
<1>4. CASE MaskSource
  BY <1>1, <1>2, <1>4 DEF Armed, MaskSource, Write, Masks
<1>5. CASE AckSource \/ ScheduleTasklet
  BY <1>1, <1>2, <1>5 DEF Armed, AckSource, ScheduleTasklet, Tasklets
<1>6. CASE TaskletStart
  BY <1>1, <1>2, <1>6 DEF Armed, TaskletStart, Tasklets
<1>7. CASE TakeFrame \/ FrameIncomplete \/ FrameFails \/ Drained
  <2>1. /\ t.pc = "drain" /\ t'.pc # "idle" /\ UNCHANGED <<rx, mask>>
    BY <1>1, <1>7 DEF TakeFrame, FrameIncomplete, FrameFails, Drained, Waiting, Tasklets
  <2> QED
    BY <1>1, <1>2, <2>1 DEF Armed
<1>8. CASE Rearm
  <2>1. /\ t.pc = "rearm" /\ UNCHANGED rx
        /\ mask'.mac = mask.mac /\ (Reaches => mask'.fifo)
    BY <1>1, <1>8 DEF Rearm, Write, Masks
  <2> QED
    BY <1>1, <1>2, <2>1 DEF Armed
<1>9. CASE Abort
  <2>1. t'.pc = "stop"
    BY <1>1, <1>9 DEF Abort, Tasklets
  <2> QED
    BY <1>1, <1>2, <2>1 DEF Armed
<1>10. CASE StopEngine
  <2>1. t'.pc = "closed"
    BY <1>1, <1>10 DEF StopEngine, Tasklets
  <2> QED
    BY <1>1, <1>2, <2>1 DEF Armed
<1>11. CASE Closed
  <2>1. rx'.running = FALSE
    BY <1>1, <1>11 DEF Closed, RxStates
  <2> QED
    BY <2>1 DEF Armed
<1> QED
  BY <1>3, <1>4, <1>5, <1>6, <1>7, <1>8, <1>9, <1>10, <1>11 DEF HandlerStep, TaskletStep

\* So does every other step while RX runs.
LEMMA KeepsArmed ==
  ASSUME TypeOK, Gate, Armed, [Next]_vars
  PROVE  Armed'
<1> SUFFICES ASSUME rx'.running PROVE Armed'
  BY DEF Armed
<1>1. /\ rx \in RxStates /\ mask \in Masks /\ p \in Processes
  BY DEF TypeOK
<1>2. Reaches' => Reaches
  BY LossIsFinal
<1>3. CASE Programmed
  <2>1. p'.pc = "route"
    BY <1>1, <1>3 DEF Programmed, Goto, Processes
  <2> QED
    BY <2>1 DEF Armed
<1>4. ASSUME ~Programmed
      PROVE  rx.running
  BY <1>4, RunsOnceProgrammed
<1>5. CASE StartInit \/ Alloc \/ AllocFails \/ Program \/ ProgramFails
  BY <1>4, <1>5 DEF StartInit, Alloc, AllocFails, Program, ProgramFails, Programmed, Gate, AtRest
<1>6. CASE Route
  <2>1. p'.pc = "fifo" /\ rx'.route
    BY <1>1, <1>6 DEF Route, Goto, Processes, RxStates
  <2> QED
    BY <2>1 DEF Armed
<1>7. CASE RouteFails
  <2>1. p'.pc = "close"
    BY <1>1, <1>7 DEF RouteFails, Goto, Processes
  <2> QED
    BY <2>1 DEF Armed
<1>8. CASE UnmaskFifo
  <2>1. /\ p.pc = "fifo" /\ p'.pc = "mac" /\ UNCHANGED <<rx, t>> /\ (Reaches => mask'.fifo)
    BY <1>1, <1>8 DEF UnmaskFifo, Write, Goto, Processes, Masks
  <2> QED
    BY <1>2, <2>1 DEF Armed
<1>9. CASE UnmaskMac
  <2>1. /\ p.pc = "mac" /\ p'.pc = "up" /\ UNCHANGED <<rx, h, t>>
        /\ mask'.fifo = mask.fifo /\ (Reaches => mask'.mac)
    BY <1>1, <1>9 DEF UnmaskMac, Write, Goto, Processes, Masks
  <2> QED
    BY <1>2, <2>1 DEF Armed
<1>10. CASE StartQuiesce
  <2>1. UNCHANGED <<rx, mask, h, t>> /\ (p' = p \/ p'.pc = "close")
    BY <1>1, <1>10 DEF StartQuiesce, Processes
  <2> QED
    BY <1>2, <2>1 DEF Armed
<1>11. CASE StartRemove
  <2>1. p'.pc \in {"close", "irqfree"}
    BY <1>11 DEF StartRemove
  <2> QED
    BY <2>1 DEF Armed
<1>12. CASE QuiesceStep \/ RemoveStep
  <2>1. CASE KillTasklet \/ SynchronizeIrq
    BY <1>1, <2>1 DEF KillTasklet, SynchronizeIrq, Goto, Processes, Armed
  <2>2. CASE CloseGate
    BY <1>1, <2>2 DEF CloseGate, RxStates
  <2>3. CASE MaskAll \/ Disable \/ RemoveStep
    BY <1>4, <2>3 DEF MaskAll, Disable, RemoveStep, CloseService, FreeIrq, FreeMemory, Programmed,
       Gate, AtRest
  <2> QED
    BY <1>12, <2>1, <2>2, <2>3 DEF QuiesceStep
<1>13. CASE Interrupt \/ HandlerStep \/ TaskletStep
  BY <1>13, WorkArmed
<1>14. CASE Receive \/ OpenService \/ WindowDies \/ LatchLoss \/ UNCHANGED vars
  <2>1. UNCHANGED <<rx, mask, p, h, t>>
    BY <1>14 DEF Receive, OpenService, WindowDies, LatchLoss, vars
  <2> QED
    BY <1>2, <2>1 DEF Armed
<1> QED
  BY <1>3, <1>5, <1>6, <1>7, <1>8, <1>9, <1>10, <1>11, <1>12, <1>13, <1>14 DEF Next, InitStep

-----------------------------------------------------------------------------
(***************************************************************************)
(* The theorems.                                                            *)
(***************************************************************************)
\* The invariant holds at the start ...
LEMMA InitIInv == Init => IInv
<1> SUFFICES ASSUME Init PROVE IInv
  OBVIOUS
<1> USE DEF Init, NoRx, NoOwner, EmptyRing, IdleDevice, IdleTasklet
<1>1. TypeOK
  BY InitType
<1>2. Gate /\ Ownership /\ DeviceMemoryStays /\ Mapping
  BY DEF Gate, AtRest, Ownership, DeviceMemoryStays, Mapping
<1>3. Chained
  BY EngineAssumption DEF Chained, Boundary, Slots
<1>4. Woken /\ Armed
  BY DEF Woken, DrainWoken, RestWoken, StartWoken, Armed
<1> QED
  BY <1>1, <1>2, <1>3, <1>4 DEF IInv

\* ... and every step keeps it.
LEMMA NextIInv == IInv /\ [Next]_vars => IInv'
<1> SUFFICES ASSUME IInv, [Next]_vars PROVE IInv'
  OBVIOUS
<1>1. /\ TypeOK /\ Gate /\ Ownership /\ DeviceMemoryStays
      /\ Mapping /\ Chained /\ Woken /\ Armed
  BY DEF IInv
<1>2. TypeOK' /\ Gate' /\ Ownership'
  BY <1>1, KeepsTypes, KeepsGate, KeepsOwnership
<1>3. DeviceMemoryStays' /\ Mapping' /\ Chained'
  BY <1>1, KeepsMemory, KeepsMapping, KeepsChained
<1>4. DrainWoken' /\ RestWoken' /\ StartWoken'
  BY <1>1, KeepsDrainWoken, KeepsRestWoken, KeepsStartWoken DEF Woken
<1>5. Armed'
  BY <1>1, KeepsArmed
<1> QED
  BY <1>2, <1>3, <1>4, <1>5 DEF IInv, Woken

\* The invariant holds of every behaviour.
THEOREM Invariance == Spec => []IInv
BY InitIInv, NextIInv, PTL DEF Spec

\* The engine, its ring and its three contexts keep their types.
THEOREM TypeCorrect == Spec => []TypeOK
<1>1. IInv => TypeOK
  BY DEF IInv
<1> QED
  BY <1>1, Invariance, PTL

\* ob_rx_lifecycle.h: no buffer the device may still write is unmapped, whatever a stop,
\* a failed start, a lost device or a remove comes to.
THEOREM MemoryIsSafe == Spec => []DeviceMemoryStays
<1>1. IInv => DeviceMemoryStays
  BY DEF IInv
<1> QED
  BY <1>1, Invariance, PTL

\* ob_rx_quiesce_locked and ob_irq_free: behind the two waits nobody else is at work.
THEOREM TeardownIsAlone == Spec => []TeardownAlone
<1>1. IInv => TeardownAlone
  <2> SUFFICES ASSUME IInv PROVE TeardownAlone
    OBVIOUS
  <2>1. /\ p.pc \in {"mask", "disable", "irqfree", "freeirq", "free", "gone"} => AtRest
        /\ p.pc = "gone" => h = "idle" /\ ~irq.installed
    BY DEF IInv, Gate
  <2> QED
    BY <2>1 DEF TeardownAlone, AtRest
<1> QED
  BY <1>1, Invariance, PTL

\* Handler, tasklet and device never all wait for each other while a frame is there.
THEOREM NoWakeupIsLost == Spec => []NoLostWakeup
<1>1. IInv => NoLostWakeup
  BY DEF IInv, Woken, RestWoken, Pending, Armed, NoLostWakeup
<1> QED
  BY <1>1, Invariance, PTL

\* ob_rx_drain: the consumer stands at the beginning of a frame, whose slots are mapped, and
\* what is copied out of them is the whole of it.
THEOREM DrainIsInStep == Spec => []ConsumerInStep
<1>1. ASSUME IInv, Waiting
      PROVE  /\ HeadLen # Blank
             /\ ring.tail \in ring.mapped
             /\ Whole => Owned /\ Copied(HeadLen, PlanSegments(HeadLen)) = HeadLen
  <2>1. /\ ring.tail \in Nat /\ t.seen \in Nat /\ dev.cur \in Nat /\ dev.cur <= Posted
        /\ Posted \in Nat
    BY <1>1, EngineAssumption DEF IInv, TypeOK, Rings, Tasklets, Devices
  <2>2. ring.tail < t.seen /\ t.seen <= dev.cur /\ ~AtRest
    BY <1>1 DEF Waiting, IInv, Woken, DrainWoken, AtRest
  <2>3. HeadLen # Blank
    BY <1>1, <2>1, <2>2 DEF IInv, Chained, Boundary, HeadLen
  <2>4. ring.tail .. Posted - 1 \subseteq ring.mapped
    BY <1>1, <2>2 DEF IInv, Mapping
  <2>5. ring.tail \in ring.mapped
    BY <2>1, <2>2, <2>4
  <2>6. HeadLen \in Nat
    <3>1. ring.tail \in Slots
      BY <2>1, <2>2 DEF Slots
    <3>2. HeadLen \in Lens
      BY <1>1, <2>3, <3>1 DEF IInv, TypeOK, Devices, HeadLen
    <3> QED
      BY <3>2, EngineAssumption
  <2>7. ASSUME Whole
        PROVE  Owned /\ Copied(HeadLen, PlanSegments(HeadLen)) = HeadLen
    <3>1. PlanSegments(HeadLen) \in Nat /\ PlanSegments(HeadLen) <= t.seen - ring.tail
      BY <2>6, <2>7, SegmentsType DEF Whole
    <3>2. Needed \subseteq ring.tail .. Posted - 1
      BY <2>1, <2>2, <3>1 DEF Needed
    <3> QED
      BY <2>4, <2>6, <3>2, CopiedWhole DEF Owned
  <2> QED
    BY <2>3, <2>5, <2>7
<1>2. IInv => ConsumerInStep
  BY <1>1 DEF ConsumerInStep
<1> QED
  BY <1>2, Invariance, PTL

=============================================================================
