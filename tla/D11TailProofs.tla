---------------------------- MODULE D11TailProofs ----------------------------
(***************************************************************************)
(* Proofs about D11Tail for any number of slots and boards, any capacity of  *)
(* the registries, and any length of the polls, the FIFO programming, the    *)
(* MHF words and the table.                                                *)
(*                                                                         *)
(* The inductive invariant says what a run has not done yet at its early     *)
(* stages (Untouched), what the loop over the FIFO entries has counted        *)
(* (Counted), that a device whose programming stopped half way is in the      *)
(* FIFO registry and out of any run (Doomed), that only a dead window has      *)
(* swallowed a write and a checked read follows it (Swallowed), and that a     *)
(* live owner is the one its device's handle names (Held).                     *)
(***************************************************************************)
EXTENDS D11Tail, TLAPS, WellFoundedInduction

\* The stages before the FIFO programming, and those before the owner exists.
Prelude == {"absent", "guarded", "admitted", "prefix", "mutated", "gate", "poll540"}

Unowned == Prelude \cup {"poll530", "postread", "t1", "dma"}

\* The stages in which an owner may be live.
Owning == BandInit \cup {"t2", "validate", "teardown", "retain"}

TypeOK ==
  /\ config \in Configs
  /\ hw \in [Devices -> Hw]
  /\ owners \in OwnerRegistry
  /\ fatal \in FatalRegistry
  /\ fifo \in FifoRegistry
  /\ window \subseteq Devices
  /\ halfDone \subseteq Devices /\ classified \subseteq Devices /\ sawOnes \subseteq Devices

(***************************************************************************)
(* The parts of the invariant about one run, of its struct ob_hw h.          *)
(***************************************************************************)
\* struct ob_hw starts from zero, and a lost device runs no further.
Untouched(h) ==
  /\ h.stage = "absent" => h = Gone
  /\ h.stage \in Unowned =>
       h.handle = NoEntry /\ ~h.lost /\ ~h.fatal /\ h.deadWrites = 0

\* Each entry is completed or continued, and continued under the opt-in only.
Counted(h, optIn) ==
  /\ h.stage \in Prelude => h.n = 0 /\ h.completed = 0 /\ h.continued = 0
  /\ h.stage \in {"poll530", "postread"} =>
       h.n \in 1 .. NumEntries /\ h.completed + h.continued = h.n - 1
  /\ h.stage \in Later => h.completed + h.continued = NumEntries
  /\ h.stage = "postread" \/ h.continued > 0 => optIn

\* A window swallows one write at most, and none while it answers.
Swallowed(h, answers) ==
  /\ h.deadWrites <= 1
  /\ answers \/ h.stage \in {"mhfdata", "record"} => h.deadWrites = 0

RunOK(h, optIn, answers) == Untouched(h) /\ Counted(h, optIn) /\ Swallowed(h, answers)

Runs == \A d \in Devices : RunOK(hw[d], config.optIn, d \in window)

\* A device whose FIFO programming stopped is refused, and stays so: the module is pinned.
Doomed ==
  /\ \A d \in halfDone :
       /\ hw[d].stage \in {"absent", "bound"}
       /\ At(d, "bound") => hw[d].fatal
       /\ FifoRefused(fifo, d)
  /\ halfDone # {} => fifo.pinned
  /\ sawOnes \subseteq halfDone

\* A live owner is named by the handle of a device that has yet to give it back.
Held ==
  \A i \in Entries :
    owners.entry[i].state = "LIVE" =>
      \E d \in Devices :
        owners.entry[i].id = d /\ hw[d].handle = i /\ hw[d].stage \in Owning

IInv ==
  /\ TypeOK
  /\ Runs
  /\ Doomed
  /\ Held

-----------------------------------------------------------------------------
(***************************************************************************)
(* The registries.                                                          *)
(***************************************************************************)
\* Natural numbers in order, which is well founded.
Before == {ss \in Nat \X Nat : ss[1] < ss[2]}

\* Every set of entry numbers has a least one.
LEMMA BeforeIsWellFounded == IsWellFoundedOn(Before, Nat)
BY NatLessThanWellFounded, Zenon DEF OpToRel, Before

\* The entry a new owner takes is one of the registry.
LEMMA FirstFreeIsEntry ==
  ASSUME NEW o, FreeEntries(o) # {}
  PROVE  FirstFree(o) \in Entries
<1>1. FreeEntries(o) \subseteq Nat /\ FreeEntries(o) \subseteq Entries
  BY RegistryAssumption DEF FreeEntries, Entries
<1>2. PICK i \in FreeEntries(o) : \A j \in FreeEntries(o) : ~(<<j, i>> \in Before)
  BY <1>1, BeforeIsWellFounded, WFMin
<1>3. ASSUME NEW j \in FreeEntries(o)
      PROVE  i <= j
  <2>1. i \in Nat /\ j \in Nat /\ (j < i => <<j, i>> \in Before)
    BY <1>1 DEF Before
  <2> QED
    BY <1>2, <2>1
<1>4. FirstFree(o) \in FreeEntries(o)
  BY <1>2, <1>3 DEF FirstFree
<1> QED
  BY <1>1, <1>4

\* ob_dma_owner_create makes one live owner, of the device, where it returns the handle, or none.
LEMMA CreateEffect ==
  ASSUME NEW o \in OwnerRegistry, NEW d \in Devices
  PROVE  /\ Create(o, d) \in OwnerRegistry
         /\ CreateResult(o, d) # "OK" => Create(o, d).entry = o.entry
         /\ CreateResult(o, d) = "OK" =>
              /\ FirstFree(o) \in Entries
              /\ Create(o, d).entry[FirstFree(o)] = [state |-> "LIVE", id |-> d]
              /\ \A j \in Entries :
                   j # FirstFree(o) => Create(o, d).entry[j] = o.entry[j]
<1>1. CreateResult(o, d) \in {"OK", "EBUSY", "ENOSPC"}
  BY DEF CreateResult
<1>2. CASE CreateResult(o, d) = "OK"
  <2>1. FirstFree(o) \in Entries
    BY <1>2, FirstFreeIsEntry DEF CreateResult
  <2>2. Create(o, d) = [o EXCEPT !.entry[FirstFree(o)] = [state |-> "LIVE", id |-> d]]
    BY <1>2 DEF Create
  <2> QED
    BY <1>2, <2>1, <2>2 DEF OwnerRegistry
<1>3. CASE CreateResult(o, d) = "ENOSPC"
  BY <1>3 DEF Create, OwnerRegistry
<1>4. CASE CreateResult(o, d) = "EBUSY"
  BY <1>4 DEF Create, OwnerRegistry
<1> QED
  BY <1>1, <1>2, <1>3, <1>4

\* ob_dma_owner_release frees the entry if it is the device's live one.
LEMMA ReleaseEffect ==
  ASSUME NEW o \in OwnerRegistry, NEW d \in Devices, NEW i \in Entries
  PROVE  /\ ReleaseOwner(o, i, d) \in OwnerRegistry
         /\ \A j \in Entries :
              ReleaseOwner(o, i, d).entry[j] = o.entry[j]
              \/ ReleaseOwner(o, i, d).entry[j] = EmptyEntry
         /\ o.entry[i].id = d => ReleaseOwner(o, i, d).entry[i].state # "LIVE"
BY DEF ReleaseOwner, MayRelease, OwnerRegistry, EmptyEntry

\* ob_dma_owner_retain leaves no live owner in the entry, and the others alone.
LEMMA RetainEffect ==
  ASSUME NEW o \in OwnerRegistry, NEW i \in Entries, NEW p \in BOOLEAN
  PROVE  /\ RetainOwner(o, i, p) \in OwnerRegistry
         /\ \A j \in Entries : j # i => RetainOwner(o, i, p).entry[j] = o.entry[j]
         /\ RetainOwner(o, i, p).entry[i].state # "LIVE"
<1>1. CASE o.entry[i].state = "LIVE"
  <2> DEFINE e == [o.entry EXCEPT ![i].state = "RETAINED"]
             b == (o.pinned \/ p)
  <2>1. RetainOwner(o, i, p) = [o EXCEPT !.entry = e, !.pinned = b]
    BY <1>1 DEF RetainOwner
  <2>2. o.entry[i] \in [state : {"LIVE", "RETAINED"}, id : Devices]
    BY <1>1 DEF OwnerRegistry, EmptyEntry
  <2>3. e \in [Entries -> {EmptyEntry} \cup [state : {"LIVE", "RETAINED"}, id : Devices]]
    BY <2>2 DEF OwnerRegistry
  <2>4. b \in BOOLEAN
    OBVIOUS
  <2>5. e[i].state = "RETAINED" /\ \A j \in Entries : j # i => e[j] = o.entry[j]
    BY <2>2 DEF OwnerRegistry
  <2> HIDE DEF e, b
  <2>6. RetainOwner(o, i, p).entry = e /\ RetainOwner(o, i, p) \in OwnerRegistry
    BY <2>1, <2>3, <2>4 DEF OwnerRegistry
  <2> QED
    BY <2>5, <2>6
<1>2. CASE o.entry[i].state # "LIVE"
  BY <1>2 DEF RetainOwner
<1> QED
  BY <1>1, <1>2

\* ob_dma_fatal_latch gives a fatal registry again.
LEMMA LatchEffect ==
  ASSUME NEW f \in FatalRegistry, NEW d \in Devices
  PROVE  Latch(f, d) \in FatalRegistry
BY DEF Latch, FatalRegistry

\* ob_d3a1_fifo_failure_record: the device is refused from now on, whether or not
\* there was room, nothing that was refused is not, and the module is pinned.
LEMMA RecordEffect ==
  ASSUME NEW f \in FifoRegistry, NEW d \in Devices
  PROVE  /\ RecordFailure(f, d) \in FifoRegistry
         /\ RecordFailure(f, d).pinned
         /\ FifoRefused(RecordFailure(f, d), d)
         /\ \A e \in Devices : FifoRefused(f, e) => FifoRefused(RecordFailure(f, d), e)
<1>1. CASE d \in f.used \/ Cardinality(f.used) < FifoCap
  <2>1. RecordFailure(f, d) =
          [used |-> f.used \cup {d}, poisoned |-> f.poisoned \/ FALSE, pinned |-> TRUE]
    BY <1>1 DEF RecordFailure
  <2> QED
    BY <2>1 DEF FifoRegistry, FifoRefused
<1>2. CASE ~(d \in f.used \/ Cardinality(f.used) < FifoCap)
  <2>1. RecordFailure(f, d) = [used |-> f.used, poisoned |-> TRUE, pinned |-> TRUE]
    BY <1>2, Zenon DEF RecordFailure
  <2> QED
    BY <2>1 DEF FifoRegistry, FifoRefused
<1> QED
  BY <1>1, <1>2

-----------------------------------------------------------------------------
(***************************************************************************)
(* One step of one device.                                                  *)
(***************************************************************************)
\* A step changes the struct ob_hw of one device; no other window comes back.
LEMMA DeviceStep ==
  ASSUME IInv, NEW d \in Devices, NEW h \in Hw, hw' = [hw EXCEPT ![d] = h],
         config' = config,
         owners' \in OwnerRegistry, fatal' \in FatalRegistry, fifo' \in FifoRegistry,
         window' \subseteq Devices, \A e \in Devices : e # d /\ e \in window' => e \in window,
         halfDone' \subseteq Devices, classified' \subseteq Devices, sawOnes' \subseteq Devices,
         RunOK(h, config.optIn, d \in window'),
         Doomed', Held'
  PROVE  IInv'
<1>1. hw \in [Devices -> Hw]
  BY DEF IInv, TypeOK
<1>2. TypeOK'
  <2>1. hw' \in [Devices -> Hw]
    BY <1>1
  <2>2. config' \in Configs
    BY DEF IInv, TypeOK
  <2> QED
    BY <2>1, <2>2 DEF TypeOK
<1>3. Runs'
  <2> SUFFICES ASSUME NEW e \in Devices
               PROVE  RunOK(hw'[e], config.optIn, e \in window')
    BY DEF Runs
  <2>1. CASE e = d
    <3>1. hw'[e] = h
      BY <1>1, <2>1
    <3> QED
      BY <2>1, <3>1
  <2>2. CASE e # d
    <3>1. hw'[e] = hw[e]
      BY <1>1, <2>2
    <3>2. RunOK(hw[e], config.optIn, e \in window)
      BY DEF IInv, Runs
    <3>3. e \in window' => e \in window
      BY <2>2
    <3> QED
      BY <3>1, <3>2, <3>3 DEF RunOK, Swallowed
  <2> QED
    BY <2>1, <2>2
<1> QED
  BY <1>2, <1>3 DEF IInv

\* A device that runs is not one whose FIFO programming stopped half way.
LEMMA RunningIsNotDoomed ==
  ASSUME IInv, NEW d \in Devices, hw[d].stage \notin {"absent", "bound"}
  PROVE  d \notin halfDone
BY DEF IInv, Doomed

\* The FIFO failures are as they were, and so are the devices they concern.
LEMMA DoomedStays ==
  ASSUME IInv, NEW d \in Devices, NEW h \in Hw, hw' = [hw EXCEPT ![d] = h],
         UNCHANGED <<fifo, halfDone, sawOnes>>,
         d \in halfDone => h.stage = "absent" \/ (h.stage = "bound" /\ h.fatal)
  PROVE  Doomed'
<1>1. hw \in [Devices -> Hw] /\ halfDone \subseteq Devices
  BY DEF IInv, TypeOK
<1>2. ASSUME NEW e \in halfDone
      PROVE  /\ hw'[e].stage \in {"absent", "bound"}
             /\ hw'[e].stage = "bound" => hw'[e].fatal
  <2>1. hw[e].stage \in {"absent", "bound"} /\ (hw[e].stage = "bound" => hw[e].fatal)
    BY DEF IInv, Doomed, At
  <2>2. hw'[e] = IF e = d THEN h ELSE hw[e]
    BY <1>1
  <2> QED
    BY <2>1, <2>2
<1> QED
  BY <1>2 DEF IInv, Doomed, At

\* The entries are as they were, and so is what the handle of a live one says.
LEMMA HeldStays ==
  ASSUME IInv, NEW d \in Devices, NEW h \in Hw, hw' = [hw EXCEPT ![d] = h],
         owners'.entry = owners.entry,
         hw[d].stage \in Owning => h.stage \in Owning /\ h.handle = hw[d].handle
  PROVE  Held'
<1>1. hw \in [Devices -> Hw]
  BY DEF IInv, TypeOK
<1> SUFFICES ASSUME NEW i \in Entries, owners.entry[i].state = "LIVE"
             PROVE  \E e \in Devices : /\ owners.entry[i].id = e
                                       /\ hw'[e].handle = i /\ hw'[e].stage \in Owning
  BY DEF Held
<1>2. PICK e \in Devices : owners.entry[i].id = e /\ hw[e].handle = i /\ hw[e].stage \in Owning
  BY DEF IInv, Held
<1>3. hw'[e] = IF e = d THEN h ELSE hw[e]
  BY <1>1
<1> QED
  BY <1>2, <1>3

\* A step of a run that touches neither of these registries.
LEMMA RunStep ==
  ASSUME IInv, NEW d \in Devices, NEW h \in Hw, hw' = [hw EXCEPT ![d] = h],
         UNCHANGED <<config, owners, fifo, window, halfDone, sawOnes>>,
         fatal' \in FatalRegistry, classified' \subseteq Devices,
         hw[d].stage \notin {"absent", "bound"},
         RunOK(h, config.optIn, d \in window),
         hw[d].stage \in Owning => h.stage \in Owning /\ h.handle = hw[d].handle
  PROVE  IInv'
<1>1. Doomed'
  BY RunningIsNotDoomed, DoomedStays
<1>2. Held'
  BY HeldStays
<1>3. /\ owners' \in OwnerRegistry /\ fifo' \in FifoRegistry /\ window' \subseteq Devices
      /\ halfDone' \subseteq Devices /\ sawOnes' \subseteq Devices
  BY DEF IInv, TypeOK
<1> QED
  BY <1>1, <1>2, <1>3, DeviceStep

\* A struct ob_hw that is gone is in order.
LEMMA GoneIsOK ==
  ASSUME NEW d \in Devices
  PROVE  Gone \in Hw /\ RunOK(Gone, config.optIn, d \in window)
<1>1. Gone \in Hw
  BY DEF Gone, Hw, Stages, Waiting
<1>2. Untouched(Gone) /\ Swallowed(Gone, d \in window)
  BY DEF Gone, Untouched, Swallowed
<1>3. Counted(Gone, config.optIn)
  BY DEF Gone, Counted, Later, BandInit
<1> QED
  BY <1>1, <1>2, <1>3 DEF RunOK

\* What is known of the run of a device.
LEMMA RunIsOK ==
  ASSUME IInv, NEW d \in Devices
  PROVE  /\ hw[d] \in Hw /\ config.optIn \in BOOLEAN
         /\ Untouched(hw[d]) /\ Counted(hw[d], config.optIn) /\ Swallowed(hw[d], d \in window)
BY DEF IInv, TypeOK, Runs, RunOK, Configs

\* The probe fails before anything is owned.
LEMMA RunForgotten ==
  ASSUME IInv, NEW d \in Devices, Forget(d),
         UNCHANGED <<config, owners, fifo, window, halfDone, sawOnes>>,
         fatal' \in FatalRegistry, classified' \subseteq Devices,
         hw[d].stage \in Unowned \ {"absent"}
  PROVE  IInv'
<1>1. hw' = [hw EXCEPT ![d] = Gone]
  BY DEF Forget
<1>2. Gone \in Hw /\ RunOK(Gone, config.optIn, d \in window)
  BY GoneIsOK
<1>3. hw[d].stage \notin {"absent", "bound"} /\ hw[d].stage \notin Owning
  BY DEF Unowned, Prelude, Owning, BandInit
<1> QED
  BY <1>1, <1>2, <1>3, RunStep

\* Only the stage moves on.
LEMMA GotoIsStep ==
  ASSUME IInv, NEW d \in Devices, NEW s \in Stages, Goto(d, s)
  PROVE  /\ hw' = [hw EXCEPT ![d] = [hw[d] EXCEPT !.stage = s]]
         /\ [hw[d] EXCEPT !.stage = s] \in Hw
<1>1. hw[d] \in Hw
  BY RunIsOK
<1> QED
  BY <1>1 DEF Goto, Hw

\* On the way to the FIFO programming.
LEMMA PreludeStep ==
  ASSUME IInv, NEW d \in Devices, NEW s \in Prelude \ {"absent"}, Goto(d, s),
         UNCHANGED <<config, registries, window, histories>>,
         hw[d].stage \in Prelude \ {"absent"}
  PROVE  IInv'
<1> DEFINE h == [hw[d] EXCEPT !.stage = s]
<1>1. s \in Stages
  BY DEF Prelude, Stages, Waiting, Fixup
<1>2. h \in Hw /\ hw' = [hw EXCEPT ![d] = h]
  BY <1>1, GotoIsStep
<1>3. /\ h.stage = s /\ h.handle = hw[d].handle /\ h.lost = hw[d].lost /\ h.fatal = hw[d].fatal
      /\ h.deadWrites = hw[d].deadWrites /\ h.n = hw[d].n /\ h.completed = hw[d].completed
      /\ h.continued = hw[d].continued
  BY RunIsOK DEF Hw
<1> HIDE DEF h
<1>4. Untouched(h) /\ Swallowed(h, d \in window)
  BY <1>3, RunIsOK DEF Untouched, Swallowed, Prelude, Unowned
<1>5. Counted(h, config.optIn)
  BY <1>3, RunIsOK DEF Counted, Prelude, Later, BandInit
<1>6. hw[d].stage \notin Owning /\ hw[d].stage \notin {"absent", "bound"}
  BY DEF Prelude, Owning, BandInit
<1>7. fatal' \in FatalRegistry /\ classified' \subseteq Devices
      /\ UNCHANGED <<config, owners, fifo, window, halfDone, sawOnes>>
  BY DEF registries, histories, IInv, TypeOK
<1> QED
  BY <1>2, <1>4, <1>5, <1>6, <1>7, RunStep DEF RunOK

-----------------------------------------------------------------------------
(***************************************************************************)
(* Admission and the prefix.                                                *)
(***************************************************************************)
\* The guard lets no device in whose FIFO programming stopped half way.
LEMMA GuardFifoStep ==
  ASSUME IInv, NEW d \in Devices, GuardFifo(d)
  PROVE  IInv'
<1> DEFINE h == [hw[d] EXCEPT !.stage = "guarded"]
<1>1. hw[d] = Gone
  BY RunIsOK DEF GuardFifo, At, Untouched
<1>2. h \in Hw /\ hw' = [hw EXCEPT ![d] = h]
  BY GotoIsStep DEF GuardFifo, Stages, Waiting
<1>3. h = [Gone EXCEPT !.stage = "guarded"]
  BY <1>1
<1>4. RunOK(h, config.optIn, d \in window')
  BY <1>3 DEF Gone, RunOK, Untouched, Counted, Swallowed, Later, BandInit
<1>5. d \notin halfDone
  BY DEF GuardFifo, IInv, Doomed
<1>6. h.stage = "guarded" /\ hw[d].stage = "absent"
  BY <1>1, <1>3 DEF Gone
<1> HIDE DEF h
<1>7. UNCHANGED <<config, owners, fatal, fifo, halfDone, classified, sawOnes>>
      /\ window' = window \cup {d}
  BY DEF GuardFifo, registries, histories
<1>8. Doomed'
  BY <1>2, <1>5, <1>7, DoomedStays
<1>9. Held'
  BY <1>2, <1>6, <1>7, HeldStays DEF Owning, BandInit
<1>10. /\ owners' \in OwnerRegistry /\ fatal' \in FatalRegistry /\ fifo' \in FifoRegistry
       /\ window' \subseteq Devices
       /\ halfDone' \subseteq Devices /\ classified' \subseteq Devices /\ sawOnes' \subseteq Devices
  BY <1>7 DEF IInv, TypeOK
<1> QED
  BY <1>2, <1>4, <1>7, <1>8, <1>9, <1>10, DeviceStep

\* The other admission steps, D2A, D2B and the gate lead on or the probe fails.
LEMMA PrefixStep ==
  ASSUME IInv, NEW d \in Devices,
         GuardFatal(d) \/ Preflight(d) \/ Prefix(d) \/ PrefixRest(d) \/ Gate(d)
  PROVE  IInv'
<1>1. /\ hw[d].stage \in Prelude \ {"absent"}
      /\ UNCHANGED <<config, registries, window, histories>>
  BY DEF GuardFatal, Preflight, Prefix, PrefixRest, Gate, At, Prelude
<1>2. Forget(d) \/ \E s \in Prelude \ {"absent"} : Goto(d, s)
  BY DEF GuardFatal, Preflight, Prefix, PrefixRest, Gate, Prelude
<1>3. CASE Forget(d)
  <2>1. fatal' \in FatalRegistry /\ classified' \subseteq Devices
        /\ UNCHANGED <<config, owners, fifo, window, halfDone, sawOnes>>
    BY <1>1 DEF registries, histories, IInv, TypeOK
  <2> QED
    BY <1>1, <1>3, <2>1, RunForgotten DEF Unowned
<1>4. CASE \E s \in Prelude \ {"absent"} : Goto(d, s)
  BY <1>1, <1>4, PreludeStep
<1> QED
  BY <1>2, <1>3, <1>4

\* What the latch of a loss leaves of the run.
LEMMA LostFields ==
  ASSUME IInv, NEW d \in Devices, NEW s \in Stages,
         NEW why \in {"NONE", "DMA", "T2", "VALIDATE", "D3B"}
  PROVE  LET h == LostIn(d, s, why)
         IN  /\ h \in Hw
             /\ h.stage = s /\ h.handle = hw[d].handle /\ h.deadWrites = hw[d].deadWrites
             /\ h.completed = hw[d].completed /\ h.continued = hw[d].continued
             /\ h.n = hw[d].n
             /\ ~hw[d].lost => h.fatal
<1>1. hw[d] \in Hw
  BY RunIsOK
<1> DEFINE f == (hw[d].fatal \/ ~hw[d].lost)
<1>2. LostIn(d, s, why) = [hw[d] EXCEPT !.stage = s, !.lost = TRUE, !.fatal = f, !.failed = why]
  BY DEF LostIn
<1>3. f \in BOOLEAN /\ (~hw[d].lost => f)
  OBVIOUS
<1>4. PICK x \in BOOLEAN : x = f
  BY <1>3
<1> DEFINE h == [hw[d] EXCEPT !.stage = s, !.lost = TRUE, !.fatal = x, !.failed = why]
<1>5. LostIn(d, s, why) = h
  BY <1>2, <1>4
<1>6. ~hw[d].lost => x
  BY <1>3, <1>4
<1> HIDE DEF f
<1>7. /\ h \in Hw
      /\ h.stage = s /\ h.handle = hw[d].handle /\ h.deadWrites = hw[d].deadWrites
      /\ h.completed = hw[d].completed /\ h.continued = hw[d].continued
      /\ h.n = hw[d].n /\ h.fatal = x
  BY <1>1 DEF Hw
<1> HIDE DEF h
<1> QED
  BY <1>5, <1>6, <1>7

\* ob_dev_lost_latch keeps the fatal registry one.
LEMMA LatchLostType ==
  ASSUME IInv, NEW d \in Devices, LatchLost(d)
  PROVE  fatal' \in FatalRegistry
<1>1. fatal \in FatalRegistry
  BY DEF IInv, TypeOK
<1> QED
  BY <1>1, LatchEffect DEF LatchLost

\* A device lost before there is an owner stays bound, and its record is fatal.
LEMMA LostEarly ==
  ASSUME IInv, NEW d \in Devices, LoseTo(d, "bound", "NONE"),
         hw[d].stage \in Unowned \ {"absent"}
  PROVE  /\ LostIn(d, "bound", "NONE") \in Hw
         /\ hw' = [hw EXCEPT ![d] = LostIn(d, "bound", "NONE")]
         /\ RunOK(LostIn(d, "bound", "NONE"), config.optIn, d \in window)
         /\ LostIn(d, "bound", "NONE").stage = "bound" /\ LostIn(d, "bound", "NONE").fatal
         /\ fatal' \in FatalRegistry
         /\ hw[d].stage \notin Owning /\ hw[d].stage \notin {"absent", "bound"}
<1> DEFINE h == LostIn(d, "bound", "NONE")
<1>1. "bound" \in Stages
  BY DEF Stages, Waiting
<1>2. /\ h \in Hw
      /\ h.stage = "bound" /\ h.handle = hw[d].handle /\ h.deadWrites = hw[d].deadWrites
      /\ h.completed = hw[d].completed /\ h.continued = hw[d].continued
      /\ ~hw[d].lost => h.fatal
  BY <1>1, LostFields
<1>3. hw' = [hw EXCEPT ![d] = h]
  BY DEF LoseTo
<1> HIDE DEF h
<1>4. ~hw[d].lost
  BY RunIsOK DEF Untouched
<1>5. Untouched(h) /\ Swallowed(h, d \in window)
  BY <1>2, RunIsOK DEF Untouched, Swallowed, Unowned, Prelude
<1>6. Counted(h, config.optIn)
  BY <1>2, RunIsOK DEF Counted, Later, BandInit, Prelude
<1>7. fatal' \in FatalRegistry
  BY LatchLostType DEF LoseTo
<1>8. hw[d].stage \notin Owning /\ hw[d].stage \notin {"absent", "bound"}
  BY DEF Owning, Unowned, Prelude, BandInit
<1>9. /\ h \in Hw /\ hw' = [hw EXCEPT ![d] = h] /\ RunOK(h, config.optIn, d \in window)
      /\ h.stage = "bound" /\ h.fatal
  BY <1>2, <1>3, <1>4, <1>5, <1>6 DEF RunOK
<1> QED
  BY <1>7, <1>8, <1>9 DEF h

\* The prefix that loses its device leaves it bound.
LEMMA PrefixLostStep ==
  ASSUME IInv, NEW d \in Devices, PrefixLost(d)
  PROVE  IInv'
<1>1. hw[d].stage = "mutated" /\ LoseTo(d, "bound", "NONE")
      /\ UNCHANGED <<config, owners, fifo, window, halfDone, classified, sawOnes>>
  BY DEF PrefixLost, At, histories
<1>2. classified' \subseteq Devices /\ hw[d].stage \in Unowned \ {"absent"}
  BY <1>1 DEF IInv, TypeOK, Unowned, Prelude
<1> QED
  BY <1>1, <1>2, LostEarly, RunStep

-----------------------------------------------------------------------------
(***************************************************************************)
(* The FIFO programming.                                                    *)
(***************************************************************************)
\* A poll goes on.
LEMMA PollAgainStep ==
  ASSUME IInv, NEW d \in Devices, PollAgain(d), sawOnes' = sawOnes, hw[d].stage \in Fixup
  PROVE  IInv'
<1> DEFINE h == [hw[d] EXCEPT !.reads = @ + 1]
<1>1. hw[d] \in Hw /\ hw' = [hw EXCEPT ![d] = h]
  BY RunIsOK DEF PollAgain
<1>2. h \in Hw
  BY <1>1 DEF Hw
<1>3. /\ h.stage = hw[d].stage /\ h.handle = hw[d].handle /\ h.lost = hw[d].lost
      /\ h.fatal = hw[d].fatal /\ h.deadWrites = hw[d].deadWrites /\ h.n = hw[d].n
      /\ h.completed = hw[d].completed /\ h.continued = hw[d].continued
  BY <1>1 DEF Hw
<1> HIDE DEF h
<1>4. Untouched(h) /\ Swallowed(h, d \in window)
  BY <1>3, RunIsOK DEF Untouched, Swallowed, Fixup
<1>5. Counted(h, config.optIn)
  BY <1>3, RunIsOK DEF Counted
<1>6. hw[d].stage \notin {"absent", "bound"} /\ hw[d].stage \notin Owning
  BY DEF Fixup, Owning, BandInit
<1>7. fatal' \in FatalRegistry /\ classified' \subseteq Devices
      /\ UNCHANGED <<config, owners, fifo, window, halfDone, sawOnes>>
  BY DEF PollAgain, registries, IInv, TypeOK
<1> QED
  BY <1>1, <1>2, <1>4, <1>5, <1>6, <1>7, RunStep DEF RunOK

\* The poll of an entry is over, completed or continued: on to the next, or to T1.
LEMMA NextEntryStep ==
  ASSUME IInv, NEW d \in Devices, NEW a \in {0, 1}, NEW b \in {0, 1},
         NextEntry(d, a, b), sawOnes' = sawOnes,
         \/ hw[d].stage = "poll540" /\ a = 0 /\ b = 0
         \/ /\ hw[d].stage \in {"poll530", "postread"} /\ a + b = 1
            /\ b = 1 => hw[d].stage = "postread"
  PROVE  IInv'
<1> DEFINE last == (hw[d].n = NumEntries)
           h == [hw[d] EXCEPT !.stage = IF last THEN "t1" ELSE "poll530",
                              !.n = IF last THEN 0 ELSE @ + 1,
                              !.reads = 0,
                              !.completed = @ + a,
                              !.continued = @ + b]
<1>1. hw[d] \in Hw /\ hw' = [hw EXCEPT ![d] = h]
  BY RunIsOK DEF NextEntry
<1>2. h \in Hw
  <2> DEFINE s == IF last THEN "t1" ELSE "poll530"
             n == IF last THEN 0 ELSE hw[d].n + 1
             c == hw[d].completed + a
             e == hw[d].continued + b
  <2>1. s \in Stages /\ n \in Nat /\ c \in Nat /\ e \in Nat
    BY <1>1 DEF Hw, Stages, Fixup
  <2>2. h = [hw[d] EXCEPT !.stage = s, !.n = n, !.reads = 0, !.completed = c, !.continued = e]
    BY <1>1
  <2> HIDE DEF s, n, c, e, h
  <2> QED
    BY <1>1, <2>1, <2>2 DEF Hw
<1>3. /\ h.stage = (IF last THEN "t1" ELSE "poll530")
      /\ h.n = (IF last THEN 0 ELSE hw[d].n + 1)
      /\ h.completed = hw[d].completed + a /\ h.continued = hw[d].continued + b
      /\ h.handle = hw[d].handle /\ h.lost = hw[d].lost
      /\ h.fatal = hw[d].fatal /\ h.deadWrites = hw[d].deadWrites
  BY <1>1 DEF Hw
<1> HIDE DEF h
<1>4. /\ hw[d].handle = NoEntry /\ ~hw[d].lost /\ ~hw[d].fatal /\ hw[d].deadWrites = 0
  BY RunIsOK DEF Untouched, Unowned, Prelude
<1>5. Untouched(h) /\ Swallowed(h, d \in window)
  BY <1>3, <1>4 DEF Untouched, Swallowed
<1>6. Counted(h, config.optIn)
  <2>1. /\ hw[d].n \in Nat /\ hw[d].completed \in Nat /\ hw[d].continued \in Nat
        /\ NumEntries \in Nat \ {0}
    BY <1>1, TailAssumption DEF Hw
  <2>2. CASE hw[d].stage = "poll540"
    <3>1. hw[d].n = 0 /\ hw[d].completed = 0 /\ hw[d].continued = 0 /\ a = 0 /\ b = 0
      BY <2>2, RunIsOK DEF Counted, Prelude
    <3>2. ~last
      BY <2>1, <3>1
    <3>3. h.stage = "poll530" /\ h.n = 1 /\ h.completed = 0 /\ h.continued = 0
      BY <1>3, <3>1, <3>2
    <3> QED
      BY <2>1, <3>3 DEF Counted, Prelude, Later, BandInit
  <2>3. CASE hw[d].stage \in {"poll530", "postread"}
    <3>1. /\ hw[d].n \in 1 .. NumEntries
          /\ hw[d].completed + hw[d].continued = hw[d].n - 1
          /\ hw[d].stage = "postread" \/ hw[d].continued > 0 => config.optIn
          /\ a + b = 1
      BY <2>3, RunIsOK DEF Counted
    <3>2. h.completed + h.continued = hw[d].n
      BY <1>3, <2>1, <3>1
    <3>3. h.continued > 0 => config.optIn
      BY <1>3, <2>1, <3>1
    <3>4. CASE last
      <4>1. h.stage = "t1" /\ h.completed + h.continued = NumEntries
        BY <1>3, <3>2, <3>4
      <4> QED
        BY <3>3, <4>1 DEF Counted, Prelude
    <3>5. CASE ~last
      <4>1. h.stage = "poll530" /\ h.n = hw[d].n + 1
        BY <1>3, <3>5
      <4>2. h.n \in 1 .. NumEntries /\ h.completed + h.continued = h.n - 1
        BY <2>1, <3>1, <3>2, <3>5, <4>1
      <4> QED
        BY <3>3, <4>1, <4>2 DEF Counted, Prelude, Later, BandInit
    <3> QED
      BY <3>4, <3>5
  <2> QED
    BY <2>2, <2>3
<1>7. hw[d].stage \notin {"absent", "bound"} /\ hw[d].stage \notin Owning
  BY DEF Owning, BandInit
<1>8. fatal' \in FatalRegistry /\ classified' \subseteq Devices
      /\ UNCHANGED <<config, owners, fifo, window, halfDone, sawOnes>>
  BY DEF NextEntry, registries, IInv, TypeOK
<1> QED
  BY <1>1, <1>2, <1>5, <1>6, <1>7, <1>8, RunStep DEF RunOK

\* A stage that the FIFO programming has not left: nothing owned, lost or swallowed.
LEMMA FixupIsUnowned ==
  ASSUME NEW d \in Devices, hw[d].stage \in Fixup
  PROVE  hw[d].stage \in Unowned \ {"absent"} /\ hw[d].stage \notin {"absent", "bound"}
         /\ hw[d].stage \notin Owning
BY DEF Fixup, Unowned, Prelude, Owning, BandInit

\* The programming fails: the device joins those that are refused, and is gone or bound.
LEMMA FixupFailsStep ==
  ASSUME IInv, NEW d \in Devices, hw[d].stage \in Fixup,
         FixupInvalid(d) \/ FixupExpired(d),
         sawOnes' \in {sawOnes, sawOnes \cup {d}}
  PROVE  IInv'
<1>1. FixupFails(d)
  BY DEF FixupInvalid, FixupExpired
<1>2. /\ fifo \in FifoRegistry /\ halfDone \subseteq Devices /\ sawOnes \subseteq Devices
      /\ hw \in [Devices -> Hw]
  BY DEF IInv, TypeOK
<1>3. PICK h \in Hw : /\ hw' = [hw EXCEPT ![d] = h]
                      /\ RunOK(h, config.optIn, d \in window)
                      /\ h.stage \in {"absent", "bound"} /\ (h.stage = "bound" => h.fatal)
                      /\ fatal' \in FatalRegistry
  <2>1. CASE FixupInvalid(d)
    BY <2>1, FixupIsUnowned, LostEarly DEF FixupInvalid
  <2>2. CASE FixupExpired(d)
    <3>1. hw' = [hw EXCEPT ![d] = Gone] /\ fatal' \in FatalRegistry
      BY <2>2 DEF FixupExpired, Forget, IInv, TypeOK
    <3>2. Gone.stage = "absent"
      BY DEF Gone
    <3> QED
      BY <3>1, <3>2, GoneIsOK
  <2> QED
    BY <2>1, <2>2
<1>4. /\ fifo' = RecordFailure(fifo, d) /\ halfDone' = halfDone \cup {d}
      /\ classified' = classified \cup {d} /\ UNCHANGED <<config, owners, window>>
  BY <1>1 DEF FixupFails
<1>5. /\ fifo' \in FifoRegistry /\ fifo'.pinned /\ FifoRefused(fifo', d)
      /\ \A e \in Devices : FifoRefused(fifo, e) => FifoRefused(fifo', e)
  BY <1>2, <1>4, RecordEffect
<1>6. Doomed'
  <2>1. ASSUME NEW e \in halfDone'
        PROVE  /\ hw'[e].stage \in {"absent", "bound"}
               /\ hw'[e].stage = "bound" => hw'[e].fatal
               /\ FifoRefused(fifo', e)
    <3>1. CASE e = d
      BY <1>2, <1>3, <1>5, <3>1
    <3>2. CASE e # d
      <4>1. e \in halfDone /\ e \in Devices /\ hw'[e] = hw[e]
        BY <1>2, <1>3, <1>4, <3>2
      <4>2. /\ hw[e].stage \in {"absent", "bound"}
            /\ hw[e].stage = "bound" => hw[e].fatal
            /\ FifoRefused(fifo, e)
        BY <4>1 DEF IInv, Doomed, At
      <4> QED
        BY <1>5, <4>1, <4>2
    <3> QED
      BY <3>1, <3>2
  <2>2. sawOnes' \subseteq halfDone'
    BY <1>4 DEF IInv, Doomed
  <2> QED
    BY <1>5, <2>1, <2>2 DEF Doomed, At
<1>7. Held'
  BY <1>3, <1>4, FixupIsUnowned, HeldStays
<1>8. /\ owners' \in OwnerRegistry /\ window' \subseteq Devices
      /\ halfDone' \subseteq Devices /\ classified' \subseteq Devices /\ sawOnes' \subseteq Devices
  BY <1>4 DEF IInv, TypeOK
<1> QED
  BY <1>3, <1>4, <1>5, <1>6, <1>7, <1>8, DeviceStep

\* An expired entry is continued under the opt-in only.
LEMMA ContinueStep ==
  ASSUME IInv, NEW d \in Devices, hw[d].stage = "poll530", config.optIn, Goto(d, "postread"),
         UNCHANGED <<config, registries, window, halfDone, classified, sawOnes>>
  PROVE  IInv'
<1> DEFINE h == [hw[d] EXCEPT !.stage = "postread"]
<1>1. h \in Hw /\ hw' = [hw EXCEPT ![d] = h]
  BY GotoIsStep DEF Stages, Fixup
<1>2. /\ h.stage = "postread" /\ h.handle = hw[d].handle /\ h.lost = hw[d].lost
      /\ h.fatal = hw[d].fatal /\ h.deadWrites = hw[d].deadWrites /\ h.n = hw[d].n
      /\ h.completed = hw[d].completed /\ h.continued = hw[d].continued
  BY RunIsOK DEF Hw
<1> HIDE DEF h
<1>3. Untouched(h) /\ Swallowed(h, d \in window)
  BY <1>2, RunIsOK DEF Untouched, Swallowed, Unowned
<1>4. Counted(h, config.optIn)
  BY <1>2, RunIsOK DEF Counted, Later, BandInit, Prelude
<1>5. fatal' \in FatalRegistry /\ classified' \subseteq Devices
      /\ UNCHANGED <<config, owners, fifo, window, halfDone, sawOnes>>
  BY DEF registries, IInv, TypeOK
<1>6. hw[d].stage \notin {"absent", "bound"} /\ hw[d].stage \notin Owning
  BY DEF Owning, BandInit
<1> QED
  BY <1>1, <1>3, <1>4, <1>5, <1>6, RunStep DEF RunOK

\* What a read of the poll does: goes on, fails, expires or is complete.
LEMMA PollResults ==
  ASSUME NEW v \in {"busy", "done", "ones"}, NEW reads
  PROVE  /\ PollResult(v, reads) \in {"INVALID", "COMPLETE", "EXPIRED", "AGAIN"}
         /\ v = "ones" <=> PollResult(v, reads) = "INVALID"
BY DEF PollResult

\* One read of the flush register.
LEMMA Poll540Step ==
  ASSUME IInv, NEW d \in Devices, NEW v \in {"busy", "done", "ones"}, Poll540(d, v)
  PROVE  IInv'
<1> DEFINE r == PollResult(v, hw[d].reads + 1)
<1>1. hw[d].stage = "poll540" /\ hw[d].stage \in Fixup
  BY DEF Poll540, At, Fixup
<1>2. r \in {"INVALID", "COMPLETE", "EXPIRED", "AGAIN"} /\ (v = "ones" <=> r = "INVALID")
  BY PollResults
<1>3. /\ sawOnes' = IF v = "ones" THEN sawOnes \cup {d} ELSE sawOnes
      /\ r = "INVALID" => FixupInvalid(d)
      /\ r = "EXPIRED" => FixupExpired(d)
      /\ r = "COMPLETE" => NextEntry(d, 0, 0)
      /\ r = "AGAIN" => PollAgain(d)
  BY DEF Poll540
<1> HIDE DEF r
<1>4. CASE r \in {"INVALID", "EXPIRED"}
  BY <1>1, <1>3, <1>4, FixupFailsStep
<1>5. CASE r = "COMPLETE"
  BY <1>1, <1>2, <1>3, <1>5, NextEntryStep
<1>6. CASE r = "AGAIN"
  BY <1>1, <1>2, <1>3, <1>6, PollAgainStep
<1> QED
  BY <1>2, <1>4, <1>5, <1>6

\* One read of the register of a FIFO entry.
LEMMA Poll530Step ==
  ASSUME IInv, NEW d \in Devices, NEW v \in {"busy", "done", "ones"}, Poll530(d, v)
  PROVE  IInv'
<1> DEFINE r == PollResult(v, hw[d].reads + 1)
<1>1. hw[d].stage = "poll530" /\ hw[d].stage \in Fixup
  BY DEF Poll530, At, Fixup
<1>2. r \in {"INVALID", "COMPLETE", "EXPIRED", "AGAIN"} /\ (v = "ones" <=> r = "INVALID")
  BY PollResults
<1>3. /\ sawOnes' = IF v = "ones" THEN sawOnes \cup {d} ELSE sawOnes
      /\ r = "INVALID" => FixupInvalid(d)
      /\ r = "EXPIRED" => EntryExpired(d)
      /\ r = "COMPLETE" => NextEntry(d, 1, 0)
      /\ r = "AGAIN" => PollAgain(d)
  BY DEF Poll530
<1> HIDE DEF r
<1>4. CASE r = "INVALID" \/ (r = "EXPIRED" /\ ~config.optIn)
  <2>1. FixupInvalid(d) \/ FixupExpired(d)
    BY <1>3, <1>4 DEF EntryExpired
  <2> QED
    BY <1>1, <1>3, <2>1, FixupFailsStep
<1>5. CASE r = "EXPIRED" /\ config.optIn
  <2>1. Goto(d, "postread") /\ UNCHANGED <<config, registries, window, halfDone, classified>>
    BY <1>3, <1>5 DEF EntryExpired
  <2> QED
    BY <1>1, <1>2, <1>3, <1>5, <2>1, ContinueStep
<1>6. CASE r = "COMPLETE"
  BY <1>1, <1>2, <1>3, <1>6, NextEntryStep
<1>7. CASE r = "AGAIN"
  BY <1>1, <1>2, <1>3, <1>7, PollAgainStep
<1> QED
  BY <1>2, <1>4, <1>5, <1>6, <1>7

\* The read after an entry expired and is continued.
LEMMA PostReadStep ==
  ASSUME IInv, NEW d \in Devices, NEW v \in {"busy", "done", "ones"}, PostRead(d, v)
  PROVE  IInv'
<1>1. hw[d].stage = "postread" /\ hw[d].stage \in Fixup
      /\ sawOnes' = IF v = "ones" THEN sawOnes \cup {d} ELSE sawOnes
  BY DEF PostRead, At, Fixup
<1>2. CASE v = "ones"
  BY <1>1, <1>2, FixupFailsStep DEF PostRead
<1>3. CASE v # "ones"
  BY <1>1, <1>3, NextEntryStep DEF PostRead
<1> QED
  BY <1>2, <1>3

-----------------------------------------------------------------------------
(***************************************************************************)
(* T1, DMA, T2, validation and the band initialisation.                     *)
(***************************************************************************)
\* T1 goes through.
LEMMA T1Step ==
  ASSUME IInv, NEW d \in Devices, T1(d)
  PROVE  IInv'
<1> DEFINE h == [hw[d] EXCEPT !.stage = "dma"]
<1>1. hw[d].stage = "t1" /\ UNCHANGED <<config, registries, window, histories>>
  BY DEF T1, At
<1>2. h \in Hw /\ hw' = [hw EXCEPT ![d] = h]
  BY GotoIsStep DEF T1, Stages
<1>3. /\ h.stage = "dma" /\ h.handle = hw[d].handle /\ h.lost = hw[d].lost
      /\ h.fatal = hw[d].fatal /\ h.deadWrites = hw[d].deadWrites
      /\ h.completed = hw[d].completed /\ h.continued = hw[d].continued
  BY RunIsOK DEF Hw
<1> HIDE DEF h
<1>4. Untouched(h) /\ Swallowed(h, d \in window)
  BY <1>1, <1>3, RunIsOK DEF Untouched, Swallowed, Unowned
<1>5. Counted(h, config.optIn)
  BY <1>1, <1>3, RunIsOK DEF Counted, Later, Prelude
<1>6. fatal' \in FatalRegistry /\ classified' \subseteq Devices
      /\ UNCHANGED <<config, owners, fifo, window, halfDone, sawOnes>>
  BY <1>1 DEF registries, histories, IInv, TypeOK
<1>7. hw[d].stage \notin {"absent", "bound"} /\ hw[d].stage \notin Owning
  BY <1>1 DEF Owning, BandInit
<1> QED
  BY <1>2, <1>4, <1>5, <1>6, <1>7, RunStep DEF RunOK

\* T1 fails before anything is owned.
LEMMA T1FailsStep ==
  ASSUME IInv, NEW d \in Devices, T1Fails(d)
  PROVE  IInv'
<1>1. /\ hw[d].stage = "t1" /\ classified' = classified \cup {d}
      /\ UNCHANGED <<config, owners, fifo, window, halfDone, sawOnes>>
      /\ (Forget(d) /\ UNCHANGED fatal) \/ LoseTo(d, "bound", "NONE")
  BY DEF T1Fails, At
<1>2. hw[d].stage \in Unowned \ {"absent"} /\ classified' \subseteq Devices
  BY <1>1 DEF Unowned, IInv, TypeOK
<1>3. CASE Forget(d) /\ UNCHANGED fatal
  <2>1. fatal' \in FatalRegistry
    BY <1>3 DEF IInv, TypeOK
  <2> QED
    BY <1>1, <1>2, <1>3, <2>1, RunForgotten
<1>4. CASE LoseTo(d, "bound", "NONE")
  BY <1>1, <1>2, <1>4, LostEarly, RunStep
<1> QED
  BY <1>1, <1>3, <1>4

\* A step among those made while an owner may be live: what it may not change, and
\* what it must not have done to a window that answers.
LEMMA OwningStep ==
  ASSUME IInv, NEW d \in Devices, hw[d].stage \in Owning,
         NEW h \in Hw, hw' = [hw EXCEPT ![d] = h],
         h.stage \in Owning, h.handle = hw[d].handle,
         h.completed = hw[d].completed, h.continued = hw[d].continued,
         h.stage \in Later => hw[d].stage \in Later,
         Swallowed(h, d \in window),
         UNCHANGED <<config, owners, fifo, window, halfDone, sawOnes>>,
         fatal' \in FatalRegistry, classified' \subseteq Devices
  PROVE  IInv'
<1>1. Untouched(h)
  BY DEF Untouched, Owning, BandInit, Unowned, Prelude
<1>2. Counted(h, config.optIn)
  BY RunIsOK DEF Counted, Owning, BandInit, Prelude, Later
<1>3. hw[d].stage \notin {"absent", "bound"}
  BY DEF Owning, BandInit
<1> QED
  BY <1>1, <1>2, <1>3, RunStep DEF RunOK

\* A step that only leads on, to a stage that is not about to write.
LEMMA OwningGoto ==
  ASSUME IInv, NEW d \in Devices, hw[d].stage \in Owning, NEW s \in Owning, Goto(d, s),
         s \in Later => hw[d].stage \in Later,
         s \notin {"mhfdata", "record"} \/ Answers(d),
         UNCHANGED <<config, registries, window, histories>>
  PROVE  IInv'
<1> DEFINE h == [hw[d] EXCEPT !.stage = s]
<1>1. s \in Stages
  BY DEF Owning, Stages
<1>2. h \in Hw /\ hw' = [hw EXCEPT ![d] = h]
  BY <1>1, GotoIsStep
<1>3. /\ h.stage = s /\ h.handle = hw[d].handle /\ h.deadWrites = hw[d].deadWrites
      /\ h.completed = hw[d].completed /\ h.continued = hw[d].continued
  BY RunIsOK DEF Hw
<1> HIDE DEF h
<1>4. Swallowed(h, d \in window)
  BY <1>3, RunIsOK DEF Swallowed, Answers
<1>5. fatal' \in FatalRegistry /\ classified' \subseteq Devices
      /\ UNCHANGED <<config, owners, fifo, window, halfDone, sawOnes>>
  BY DEF registries, histories, IInv, TypeOK
<1> QED
  BY <1>2, <1>3, <1>4, <1>5, OwningStep

\* A step that fails, or loses the device, leads to the teardown.
LEMMA StepFailsStep ==
  ASSUME IInv, NEW d \in Devices, hw[d].stage \in Owning,
         NEW why \in {"T2", "VALIDATE", "D3B"}, StepFails(d, why) \/ StepLost(d, why)
  PROVE  IInv'
<1>1. CASE StepFails(d, why)
  <2> DEFINE h == [hw[d] EXCEPT !.stage = "teardown", !.failed = why]
  <2>1. hw[d] \in Hw /\ hw' = [hw EXCEPT ![d] = h]
    BY <1>1, RunIsOK DEF StepFails
  <2>2. h \in Hw
    BY <2>1 DEF Hw, Stages
  <2>3. /\ h.stage = "teardown" /\ h.handle = hw[d].handle /\ h.deadWrites = hw[d].deadWrites
        /\ h.completed = hw[d].completed /\ h.continued = hw[d].continued
    BY <2>1 DEF Hw
  <2> HIDE DEF h
  <2>4. Swallowed(h, d \in window)
    BY <2>3, RunIsOK DEF Swallowed
  <2>5. fatal' \in FatalRegistry /\ classified' \subseteq Devices
        /\ UNCHANGED <<config, owners, fifo, window, halfDone, sawOnes>>
    BY <1>1 DEF StepFails, registries, histories, IInv, TypeOK
  <2> QED
    BY <2>1, <2>2, <2>3, <2>4, <2>5, OwningStep DEF Owning, Later, BandInit
<1>2. CASE StepLost(d, why)
  <2> DEFINE h == LostIn(d, "teardown", why)
  <2>1. "teardown" \in Stages
    BY DEF Stages
  <2>2. /\ h \in Hw /\ hw' = [hw EXCEPT ![d] = h]
        /\ h.stage = "teardown" /\ h.handle = hw[d].handle /\ h.deadWrites = hw[d].deadWrites
        /\ h.completed = hw[d].completed /\ h.continued = hw[d].continued
    BY <1>2, <2>1, LostFields DEF StepLost, LoseTo
  <2> HIDE DEF h
  <2>3. Swallowed(h, d \in window)
    BY <2>2, RunIsOK DEF Swallowed
  <2>4. fatal' \in FatalRegistry
    BY <1>2, LatchLostType DEF StepLost, LoseTo
  <2>5. classified' \subseteq Devices
        /\ UNCHANGED <<config, owners, fifo, window, halfDone, sawOnes>>
    BY <1>2 DEF StepLost, histories, IInv, TypeOK
  <2> QED
    BY <2>2, <2>3, <2>4, <2>5, OwningStep DEF Owning, Later, BandInit
<1> QED
  BY <1>1, <1>2

-----------------------------------------------------------------------------
\* T2 and the validation, either way.
LEMMA T2ValidateStep ==
  ASSUME IInv, NEW d \in Devices, T2(d) \/ T2Fails(d) \/ Validate(d) \/ ValidateFails(d)
  PROVE  IInv'
<1>1. CASE T2(d)
  BY <1>1, OwningGoto DEF T2, At, Owning, BandInit, Later
<1>2. CASE T2Fails(d)
  BY <1>2, StepFailsStep DEF T2Fails, At, Owning
<1>3. CASE Validate(d)
  <2>1. AfterPrefix \in {"teardown", "witness", "checkpoint"}
    BY DEF AfterPrefix
  <2> QED
    BY <1>3, <2>1, OwningGoto DEF Validate, At, Owning, BandInit, Later
<1>4. CASE ValidateFails(d)
  BY <1>4, StepFailsStep DEF ValidateFails, At, Owning
<1> QED
  BY <1>1, <1>2, <1>3, <1>4

\* A trusted read leads on from a window that answers, or to the teardown.
LEMMA TrustedStep ==
  ASSUME IInv, NEW d \in Devices, hw[d].stage \in BandInit,
         NEW s \in BandInit \cup {"teardown"}, Trusted(d, s)
  PROVE  IInv'
<1>1. hw[d].stage \in Owning /\ hw[d].stage \in Later /\ s \in Owning
  BY DEF Owning, Later
<1>2. CASE StepLost(d, "D3B")
  BY <1>1, <1>2, StepFailsStep
<1>3. CASE ~StepLost(d, "D3B")
  BY <1>1, <1>3, OwningGoto DEF Trusted
<1> QED
  BY <1>2, <1>3

\* A word written to a window that had swallowed none: it may have swallowed this one.
LEMMA WrittenStep ==
  ASSUME IInv, NEW d \in Devices, hw[d].stage \in {"mhfdata", "record"},
         NEW s \in {"mhf", "table", "recordcheck"}, NEW more \in BOOLEAN, Written(d, s, more)
  PROVE  IInv'
<1> DEFINE n == IF more THEN hw[d].n + 1 ELSE 0
           w == IF Answers(d) THEN hw[d].deadWrites ELSE hw[d].deadWrites + 1
           h == [hw[d] EXCEPT !.stage = s, !.n = n, !.deadWrites = w]
<1>1. hw[d] \in Hw /\ hw[d].deadWrites = 0
  BY RunIsOK DEF Swallowed
<1>2. n \in Nat /\ w \in Nat /\ w <= 1 /\ (Answers(d) => w = 0)
  BY <1>1 DEF Hw
<1>3. s \in Stages /\ s \in BandInit
  BY DEF Stages, BandInit
<1>4. hw' = [hw EXCEPT ![d] = h]
  BY <1>1 DEF Written
<1> HIDE DEF n, w
<1>5. h \in Hw
  BY <1>1, <1>2, <1>3 DEF Hw
<1>6. /\ h.stage = s /\ h.handle = hw[d].handle /\ h.deadWrites = w
      /\ h.completed = hw[d].completed /\ h.continued = hw[d].continued
  BY <1>1 DEF Hw
<1> HIDE DEF h
<1>7. Swallowed(h, d \in window)
  BY <1>2, <1>6 DEF Swallowed, Answers
<1>8. fatal' \in FatalRegistry /\ classified' \subseteq Devices
      /\ UNCHANGED <<config, owners, fifo, window, halfDone, sawOnes>>
  BY DEF Written, registries, histories, IInv, TypeOK
<1>9. hw[d].stage \in Owning /\ hw[d].stage \in Later /\ h.stage \in Owning
  BY <1>3, <1>6 DEF Owning, Later, BandInit
<1> QED
  BY <1>4, <1>5, <1>6, <1>7, <1>8, <1>9, OwningStep

\* A witness leads on, or to the teardown with the device perhaps marked lost.
LEMMA WitnessStep ==
  ASSUME IInv, NEW d \in Devices, Witness(d)
  PROVE  IInv'
<1>1. hw[d].stage = "witness" /\ hw[d].stage \in Owning /\ hw[d].stage \in Later
      /\ UNCHANGED <<config, registries, window, histories>>
  BY DEF Witness, At, Owning, Later, BandInit
<1>2. CASE Goto(d, "checkpoint")
  BY <1>1, <1>2, OwningGoto DEF Owning, BandInit
<1>3. CASE ~Goto(d, "checkpoint")
  <2>1. PICK verdict :
          hw' = [hw EXCEPT ![d].stage = "teardown", ![d].failed = "D3B",
                           ![d].lost = @ \/ verdict = "stalled"]
    BY <1>3 DEF Witness
  <2> DEFINE f == (hw[d].lost \/ verdict = "stalled")
  <2>2. hw[d] \in Hw
    BY RunIsOK
  <2>3. hw' = [hw EXCEPT ![d] = [hw[d] EXCEPT !.stage = "teardown", !.failed = "D3B", !.lost = f]]
    BY <2>1, <2>2
  <2>4. f \in BOOLEAN
    OBVIOUS
  <2>5. PICK x \in BOOLEAN : x = f
    BY <2>4
  <2> DEFINE h == [hw[d] EXCEPT !.stage = "teardown", !.failed = "D3B", !.lost = x]
  <2>6. hw' = [hw EXCEPT ![d] = h]
    BY <2>3, <2>5
  <2> HIDE DEF f
  <2>7. /\ h \in Hw
        /\ h.stage = "teardown" /\ h.handle = hw[d].handle /\ h.deadWrites = hw[d].deadWrites
        /\ h.completed = hw[d].completed /\ h.continued = hw[d].continued
    BY <2>2 DEF Hw, Stages
  <2> HIDE DEF h
  <2>8. Swallowed(h, d \in window)
    BY <2>7, RunIsOK DEF Swallowed
  <2>9. fatal' \in FatalRegistry /\ classified' \subseteq Devices
        /\ UNCHANGED <<config, owners, fifo, window, halfDone, sawOnes>>
    BY <1>1 DEF registries, histories, IInv, TypeOK
  <2> QED
    BY <1>1, <2>6, <2>7, <2>8, <2>9, OwningStep DEF Owning, Later, BandInit
<1> QED
  BY <1>2, <1>3

\* The steps of ob_d3b_test.
LEMMA BandStep ==
  ASSUME IInv, NEW d \in Devices, Band(d)
  PROVE  IInv'
<1>1. CASE Witness(d)
  BY <1>1, WitnessStep
<1>2. CASE Checkpoint(d) \/ MhfSelect(d) \/ Table(d) \/ BandCheck(d)
  BY <1>2, TrustedStep DEF Checkpoint, MhfSelect, Table, BandCheck, At, BandInit
<1>3. CASE MhfData(d)
  <2> DEFINE f == (hw[d].n + 1 < NumMhf)
  <2>0. f \in BOOLEAN
    OBVIOUS
  <2>1. PICK more \in BOOLEAN : more = f
    BY <2>0
  <2>2. hw[d].stage = "mhfdata" /\ Written(d, IF more THEN "mhf" ELSE "table", more)
    BY <1>3, <2>1 DEF MhfData, At
  <2> QED
    BY <2>2, WrittenStep
<1>4. CASE Record(d)
  <2> DEFINE f == (hw[d].n + 1 < NumRecords)
  <2>0. f \in BOOLEAN
    OBVIOUS
  <2>1. PICK more \in BOOLEAN : more = f
    BY <2>0
  <2>2. hw[d].stage = "record" /\ Written(d, "recordcheck", more)
    BY <1>4, <2>1 DEF Record, At
  <2> QED
    BY <2>2, WrittenStep
<1>5. CASE RecordCheck(d)
  <2>1. (IF hw[d].n = 0 THEN "bandcheck" ELSE "record") \in BandInit \cup {"teardown"}
    BY DEF BandInit
  <2> QED
    BY <1>5, <2>1, TrustedStep DEF RecordCheck, At, BandInit
<1>6. CASE TableMissing(d) \/ BandCheckFails(d)
  BY <1>6, StepFailsStep DEF TableMissing, BandCheckFails, At, Owning, BandInit
<1> QED
  BY <1>1, <1>2, <1>3, <1>4, <1>5, <1>6 DEF Band

-----------------------------------------------------------------------------
(***************************************************************************)
(* The owner: made by the DMA step, given back or retained by the teardown.  *)
(***************************************************************************)
\* The owner just made is named by the handle.
LEMMA HeldAfterCreate ==
  ASSUME IInv, NEW d \in Devices, NEW h \in Hw, hw' = [hw EXCEPT ![d] = h],
         hw[d].stage \notin Owning, CreateResult(owners, d) = "OK",
         owners' = Create(owners, d), h.handle = FirstFree(owners), h.stage \in Owning
  PROVE  Held'
<1>1. hw \in [Devices -> Hw] /\ owners \in OwnerRegistry
  BY DEF IInv, TypeOK
<1>2. /\ FirstFree(owners) \in Entries
      /\ owners'.entry[FirstFree(owners)] = [state |-> "LIVE", id |-> d]
      /\ \A j \in Entries : j # FirstFree(owners) => owners'.entry[j] = owners.entry[j]
  BY <1>1, CreateEffect
<1> SUFFICES ASSUME NEW i \in Entries, owners'.entry[i].state = "LIVE"
             PROVE  \E e \in Devices : /\ owners'.entry[i].id = e
                                       /\ hw'[e].handle = i /\ hw'[e].stage \in Owning
  BY DEF Held
<1>3. CASE i = FirstFree(owners)
  <2>1. hw'[d] = h /\ owners'.entry[i].id = d
    BY <1>1, <1>2, <1>3
  <2> QED
    BY <1>3, <2>1
<1>4. CASE i # FirstFree(owners)
  <2>1. owners'.entry[i] = owners.entry[i]
    BY <1>2, <1>4
  <2>2. PICK e \in Devices :
          owners.entry[i].id = e /\ hw[e].handle = i /\ hw[e].stage \in Owning
    BY <2>1 DEF IInv, Held
  <2>3. e # d /\ hw'[e] = hw[e]
    BY <1>1, <2>2
  <2> QED
    BY <2>1, <2>2, <2>3
<1> QED
  BY <1>3, <1>4

\* No live owner of the device is left, and the others are as they were.
LEMMA HeldWithout ==
  ASSUME IInv, NEW d \in Devices, NEW h \in Hw, hw' = [hw EXCEPT ![d] = h],
         \A i \in Entries : owners'.entry[i].state = "LIVE" =>
                              owners'.entry[i] = owners.entry[i] /\ owners.entry[i].id # d
  PROVE  Held'
<1>1. hw \in [Devices -> Hw]
  BY DEF IInv, TypeOK
<1> SUFFICES ASSUME NEW i \in Entries, owners'.entry[i].state = "LIVE"
             PROVE  \E e \in Devices : /\ owners'.entry[i].id = e
                                       /\ hw'[e].handle = i /\ hw'[e].stage \in Owning
  BY DEF Held
<1>2. owners'.entry[i] = owners.entry[i] /\ owners.entry[i].id # d
  OBVIOUS
<1>3. PICK e \in Devices : owners.entry[i].id = e /\ hw[e].handle = i /\ hw[e].stage \in Owning
  BY <1>2 DEF IInv, Held
<1>4. hw'[e] = hw[e]
  BY <1>1, <1>2, <1>3
<1> QED
  BY <1>2, <1>3, <1>4

\* A live owner of the device is the one its handle names.
LEMMA LiveIsHandle ==
  ASSUME IInv, NEW d \in Devices, NEW i \in Entries,
         owners.entry[i].state = "LIVE", owners.entry[i].id = d
  PROVE  hw[d].handle = i /\ hw[d].stage \in Owning
BY DEF IInv, Held

\* ob_dma_owner_retain_d3a0 leaves no live owner of the device, made or found.
LEMMA RetainedEffect ==
  ASSUME IInv, NEW d \in Devices
  PROVE  /\ Retained(d) \in OwnerRegistry
         /\ Handle(d) \in Entries \cup {NoEntry}
         /\ \A i \in Entries : Retained(d).entry[i].state = "LIVE" =>
              Retained(d).entry[i] = owners.entry[i] /\ owners.entry[i].id # d
<1> DEFINE b == ~fatal.pinned
<1>1. hw[d].handle \in Entries \cup {NoEntry} /\ owners \in OwnerRegistry /\ NoEntry \notin Entries
  BY RunIsOK DEF Hw, IInv, TypeOK, Entries, NoEntry
<1>2. b \in BOOLEAN
  OBVIOUS
<1>3. PICK p \in BOOLEAN : p = b
  BY <1>2
<1>4. Retained(d) = IF Handle(d) = NoEntry THEN Ensured(d)
                    ELSE RetainOwner(Ensured(d), Handle(d), p)
  BY <1>3 DEF Retained
<1> HIDE DEF b
<1>5. CASE hw[d].handle # NoEntry
  <2>1. Retained(d) = RetainOwner(owners, hw[d].handle, p) /\ Handle(d) = hw[d].handle
    BY <1>4, <1>5 DEF Handle, Ensured
  <2>2. /\ Retained(d) \in OwnerRegistry
        /\ \A j \in Entries : j # hw[d].handle => Retained(d).entry[j] = owners.entry[j]
        /\ Retained(d).entry[hw[d].handle].state # "LIVE"
    BY <1>1, <1>5, <2>1, RetainEffect
  <2> QED
    BY <1>1, <2>1, <2>2, LiveIsHandle
<1>6. CASE hw[d].handle = NoEntry /\ CreateResult(owners, d) = "OK"
  <2> DEFINE o == Create(owners, d)
             f == FirstFree(owners)
  <2>1. /\ o \in OwnerRegistry /\ f \in Entries
        /\ \A j \in Entries : j # f => o.entry[j] = owners.entry[j]
    BY <1>1, <1>6, CreateEffect
  <2>2. Handle(d) = f /\ Ensured(d) = o
    BY <1>6 DEF Handle, Ensured
  <2> HIDE DEF o, f
  <2>3. Retained(d) = RetainOwner(o, f, p)
    BY <1>1, <1>4, <2>1, <2>2
  <2>4. /\ Retained(d) \in OwnerRegistry
        /\ \A j \in Entries : j # f => Retained(d).entry[j] = o.entry[j]
        /\ Retained(d).entry[f].state # "LIVE"
    BY <2>1, <2>3, RetainEffect
  <2> QED
    BY <1>1, <1>6, <2>1, <2>2, <2>4, LiveIsHandle
<1>7. CASE hw[d].handle = NoEntry /\ CreateResult(owners, d) # "OK"
  <2>1. Handle(d) = NoEntry /\ Ensured(d) = Create(owners, d)
    BY <1>7 DEF Handle, Ensured
  <2>2. Create(owners, d) \in OwnerRegistry /\ Create(owners, d).entry = owners.entry
    BY <1>1, <1>7, CreateEffect
  <2>3. Retained(d) = Create(owners, d)
    BY <1>4, <2>1
  <2> QED
    BY <1>1, <1>7, <2>1, <2>2, <2>3, LiveIsHandle
<1> QED
  BY <1>5, <1>6, <1>7

\* No owner is made: the registry refused, or the pool failed and the owner was released.
LEMMA DmaRefusedStep ==
  ASSUME IInv, NEW d \in Devices, DmaRefused(d)
  PROVE  IInv'
<1> DEFINE h == [hw[d] EXCEPT !.stage = "teardown", !.failed = "DMA"]
<1>1. hw[d].stage = "dma" /\ UNCHANGED <<config, fatal, fifo, window, histories>>
  BY DEF DmaRefused, At
<1>2. h \in Hw /\ hw' = [hw EXCEPT ![d] = h]
  BY RunIsOK DEF DmaRefused, Hw, Stages
<1>3. /\ h.stage = "teardown" /\ h.deadWrites = hw[d].deadWrites
      /\ h.completed = hw[d].completed /\ h.continued = hw[d].continued
  BY RunIsOK DEF Hw
<1> HIDE DEF h
<1>4. owners' \in OwnerRegistry /\ owners'.entry = owners.entry
  <2>1. owners \in OwnerRegistry
    BY DEF IInv, TypeOK
  <2>2. owners' = IF CreateResult(owners, d) = "OK" THEN owners ELSE Create(owners, d)
    BY DEF DmaRefused
  <2> QED
    BY <2>1, <2>2, CreateEffect
<1>5. Untouched(h) /\ Swallowed(h, d \in window)
  BY <1>3, RunIsOK DEF Untouched, Swallowed, Unowned, Prelude
<1>6. Counted(h, config.optIn)
  BY <1>1, <1>3, RunIsOK DEF Counted, Later, Prelude, BandInit
<1>7. d \notin halfDone
  BY <1>1, RunningIsNotDoomed
<1>8. Doomed'
  BY <1>1, <1>2, <1>7, DoomedStays DEF histories
<1>9. Held'
  BY <1>1, <1>2, <1>4, HeldStays DEF Owning, BandInit
<1>10. /\ fatal' \in FatalRegistry /\ fifo' \in FifoRegistry
       /\ window' = window /\ window' \subseteq Devices /\ config' = config
       /\ halfDone' \subseteq Devices /\ classified' \subseteq Devices /\ sawOnes' \subseteq Devices
  BY <1>1 DEF histories, IInv, TypeOK
<1> QED
  BY <1>2, <1>4, <1>5, <1>6, <1>8, <1>9, <1>10, DeviceStep DEF RunOK

\* The owner is made, and named by the handle whatever becomes of the engines.
LEMMA OwnerMade ==
  ASSUME IInv, NEW d \in Devices, Dma(d), NEW h \in Hw, hw' = [hw EXCEPT ![d] = h],
         h.stage \in {"t2", "teardown"}, h.handle = FirstFree(owners),
         h.deadWrites = 0, h.completed = hw[d].completed, h.continued = hw[d].continued,
         fatal' \in FatalRegistry
  PROVE  IInv'
<1>1. /\ hw[d].stage = "dma" /\ UNCHANGED <<config, fifo, window, histories>>
      /\ CreateResult(owners, d) = "OK" /\ owners' = Create(owners, d)
  BY DEF Dma, At
<1>2. owners' \in OwnerRegistry
  BY <1>1, CreateEffect DEF IInv, TypeOK
<1>3. Untouched(h) /\ Swallowed(h, d \in window)
  BY DEF Untouched, Swallowed, Unowned, Prelude
<1>4. Counted(h, config.optIn)
  BY <1>1, RunIsOK DEF Counted, Later, Prelude, BandInit
<1>5. d \notin halfDone
  BY <1>1, RunningIsNotDoomed
<1>6. Doomed'
  BY <1>1, <1>5, DoomedStays DEF histories
<1>7. hw[d].stage \notin Owning /\ h.stage \in Owning
  BY <1>1 DEF Owning, BandInit
<1>8. Held'
  BY <1>1, <1>7, HeldAfterCreate
<1>9. /\ fifo' \in FifoRegistry
      /\ window' = window /\ window' \subseteq Devices /\ config' = config
      /\ halfDone' \subseteq Devices /\ classified' \subseteq Devices /\ sawOnes' \subseteq Devices
  BY <1>1 DEF histories, IInv, TypeOK
<1> QED
  BY <1>2, <1>3, <1>4, <1>6, <1>8, <1>9, DeviceStep DEF RunOK

\* ob_d3a0_bringup once there is an owner.
LEMMA DmaStep ==
  ASSUME IInv, NEW d \in Devices, Dma(d)
  PROVE  IInv'
<1> DEFINE i == FirstFree(owners)
           held == [hw[d] EXCEPT !.handle = i]
<1>1. hw[d] \in Hw /\ hw[d].deadWrites = 0
  BY RunIsOK DEF Dma, At, Untouched, Unowned
<1>2. i \in Entries
  BY CreateEffect DEF Dma, IInv, TypeOK
<1>3. \/ hw' = [hw EXCEPT ![d] = [held EXCEPT !.stage = "t2"]] /\ UNCHANGED fatal
      \/ hw' = [hw EXCEPT ![d] = [held EXCEPT !.stage = "teardown", !.failed = "DMA"]] /\ UNCHANGED fatal
      \/ hw' = [hw EXCEPT ![d] = [LostIn(d, "teardown", "DMA") EXCEPT !.handle = i]] /\ LatchLost(d)
  BY DEF Dma
<1> HIDE DEF i
<1>4. /\ held \in Hw /\ held.handle = i /\ held.deadWrites = 0
      /\ held.completed = hw[d].completed /\ held.continued = hw[d].continued
  BY <1>1, <1>2 DEF Hw
<1> HIDE DEF held
<1>5. fatal \in FatalRegistry
  BY DEF IInv, TypeOK
<1>6. CASE hw' = [hw EXCEPT ![d] = [held EXCEPT !.stage = "t2"]] /\ UNCHANGED fatal
  <2> DEFINE h == [held EXCEPT !.stage = "t2"]
  <2>1. /\ h \in Hw /\ h.stage = "t2" /\ h.handle = i /\ h.deadWrites = 0
        /\ h.completed = hw[d].completed /\ h.continued = hw[d].continued
    BY <1>4 DEF Hw, Stages
  <2>2. hw' = [hw EXCEPT ![d] = h]
    BY <1>6
  <2> HIDE DEF h
  <2> QED
    BY <1>5, <1>6, <2>1, <2>2, OwnerMade DEF i
<1>7. CASE hw' = [hw EXCEPT ![d] = [held EXCEPT !.stage = "teardown", !.failed = "DMA"]] /\ UNCHANGED fatal
  <2> DEFINE h == [held EXCEPT !.stage = "teardown", !.failed = "DMA"]
  <2>1. /\ h \in Hw /\ h.stage = "teardown" /\ h.handle = i /\ h.deadWrites = 0
        /\ h.completed = hw[d].completed /\ h.continued = hw[d].continued
    BY <1>4 DEF Hw, Stages
  <2>2. hw' = [hw EXCEPT ![d] = h]
    BY <1>7
  <2> HIDE DEF h
  <2> QED
    BY <1>5, <1>7, <2>1, <2>2, OwnerMade DEF i
<1>8. CASE hw' = [hw EXCEPT ![d] = [LostIn(d, "teardown", "DMA") EXCEPT !.handle = i]] /\ LatchLost(d)
  <2> DEFINE l == LostIn(d, "teardown", "DMA")
             h == [l EXCEPT !.handle = i]
  <2>1. "teardown" \in Stages
    BY DEF Stages
  <2>2. /\ l \in Hw /\ l.stage = "teardown" /\ l.deadWrites = hw[d].deadWrites
        /\ l.completed = hw[d].completed /\ l.continued = hw[d].continued
    BY <2>1, LostFields
  <2>3. hw' = [hw EXCEPT ![d] = h]
    BY <1>8
  <2> HIDE DEF l
  <2>4. /\ h \in Hw /\ h.stage = "teardown" /\ h.handle = i /\ h.deadWrites = 0
        /\ h.completed = hw[d].completed /\ h.continued = hw[d].continued
    BY <1>1, <1>2, <2>2 DEF Hw
  <2> HIDE DEF h
  <2>5. fatal' \in FatalRegistry
    BY <1>8, LatchLostType
  <2> QED
    BY <2>3, <2>4, <2>5, OwnerMade DEF i
<1> QED
  BY <1>3, <1>6, <1>7, <1>8

-----------------------------------------------------------------------------
(***************************************************************************)
(* The end of the run, and of the device.                                   *)
(***************************************************************************)
\* The run of a device ends with no live owner left to it.
LEMMA RunEnds ==
  ASSUME IInv, NEW d \in Devices, NEW h \in Hw, hw' = [hw EXCEPT ![d] = h],
         h = Gone \/ (/\ h.stage = "bound" /\ h.deadWrites = hw[d].deadWrites
                      /\ h.continued = hw[d].continued),
         d \in halfDone => h = Gone,
         owners' \in OwnerRegistry,
         \A i \in Entries : owners'.entry[i].state = "LIVE" =>
                              owners'.entry[i] = owners.entry[i] /\ owners.entry[i].id # d,
         classified' \subseteq Devices,
         UNCHANGED <<config, fatal, fifo, window, halfDone, sawOnes>>
  PROVE  IInv'
<1>1. RunOK(h, config.optIn, d \in window)
  <2>1. CASE h = Gone
    BY <2>1, GoneIsOK
  <2>2. CASE h # Gone
    <3>1. h.stage = "bound" /\ h.deadWrites = hw[d].deadWrites /\ h.continued = hw[d].continued
      BY <2>2
    <3>2. Untouched(h) /\ Swallowed(h, d \in window)
      BY <3>1, RunIsOK DEF Untouched, Swallowed, Unowned, Prelude
    <3>3. Counted(h, config.optIn)
      BY <3>1, RunIsOK DEF Counted, Later, Prelude, BandInit
    <3> QED
      BY <3>2, <3>3 DEF RunOK
  <2> QED
    BY <2>1, <2>2
<1>2. d \in halfDone => h.stage = "absent"
  BY DEF Gone
<1>3. Doomed'
  BY <1>2, DoomedStays
<1>4. Held'
  BY HeldWithout
<1>5. /\ fatal' \in FatalRegistry /\ fifo' \in FifoRegistry /\ window' = window
      /\ window' \subseteq Devices /\ halfDone' \subseteq Devices /\ sawOnes' \subseteq Devices
  BY DEF IInv, TypeOK
<1> QED
  BY <1>1, <1>3, <1>4, <1>5, DeviceStep

\* The classification is one of a device.
LEMMA ClassifyType ==
  ASSUME IInv, NEW d \in Devices, NEW v \in BOOLEAN, Classify(d, v)
  PROVE  classified' \subseteq Devices
BY DEF Classify, IInv, TypeOK

\* The engines were seen to stop, and the owner is given back.
LEMMA TeardownOkStep ==
  ASSUME IInv, NEW d \in Devices, TeardownOk(d)
  PROVE  IInv'
<1>1. /\ hw[d].stage = "teardown"
      /\ UNCHANGED <<config, fatal, fifo, window, halfDone, sawOnes>>
      /\ owners' = IF hw[d].handle = NoEntry THEN owners
                   ELSE ReleaseOwner(owners, hw[d].handle, d)
  BY DEF TeardownOk, At
<1>2. /\ hw[d] \in Hw /\ hw[d].handle \in Entries \cup {NoEntry} /\ NoEntry \notin Entries
      /\ owners \in OwnerRegistry
  BY RunIsOK DEF Hw, Entries, NoEntry, IInv, TypeOK
<1>3. /\ owners' \in OwnerRegistry
      /\ \A i \in Entries : owners'.entry[i].state = "LIVE" =>
           owners'.entry[i] = owners.entry[i] /\ owners.entry[i].id # d
  <2>1. CASE hw[d].handle = NoEntry
    BY <1>1, <1>2, <2>1, LiveIsHandle
  <2>2. CASE hw[d].handle # NoEntry
    <3>1. owners' = ReleaseOwner(owners, hw[d].handle, d)
      BY <1>1, <2>2
    <3>2. /\ owners' \in OwnerRegistry
          /\ \A j \in Entries : owners'.entry[j] = owners.entry[j] \/ owners'.entry[j] = EmptyEntry
          /\ owners.entry[hw[d].handle].id = d => owners'.entry[hw[d].handle].state # "LIVE"
      BY <1>2, <2>2, <3>1, ReleaseEffect
    <3>3. EmptyEntry.state # "LIVE"
      BY DEF EmptyEntry
    <3> QED
      BY <3>2, <3>3, LiveIsHandle
  <2> QED
    BY <2>1, <2>2
<1>4. classified' \subseteq Devices
  BY ClassifyType DEF TeardownOk
<1>5. d \notin halfDone
  BY <1>1, RunningIsNotDoomed
<1>6. CASE hw[d].failed # "NONE"
  <2>1. hw' = [hw EXCEPT ![d] = Gone]
    BY <1>6 DEF TeardownOk
  <2>2. Gone \in Hw
    BY GoneIsOK
  <2> QED
    BY <1>1, <1>3, <1>4, <2>1, <2>2, RunEnds
<1>7. CASE hw[d].failed = "NONE"
  <2> DEFINE h == [hw[d] EXCEPT !.stage = "bound", !.handle = NoEntry]
  <2>1. hw' = [hw EXCEPT ![d] = h]
    BY <1>2, <1>7 DEF TeardownOk
  <2>2. /\ h \in Hw /\ h.stage = "bound" /\ h.deadWrites = hw[d].deadWrites
        /\ h.continued = hw[d].continued
    BY <1>2 DEF Hw, Stages, Waiting
  <2> HIDE DEF h
  <2> QED
    BY <1>1, <1>3, <1>4, <1>5, <2>1, <2>2, RunEnds
<1> QED
  BY <1>6, <1>7

\* An engine does not stop, or the device is found lost.
LEMMA TeardownFailsStep ==
  ASSUME IInv, NEW d \in Devices, TeardownFails(d)
  PROVE  IInv'
<1>1. /\ hw[d].stage = "teardown" /\ fatal' = Latch(fatal, d)
      /\ UNCHANGED <<config, owners, fifo, window, halfDone, classified, sawOnes>>
  BY DEF TeardownFails, At, histories
<1>2. hw[d] \in Hw /\ Swallowed(hw[d], d \in window)
  BY RunIsOK
<1>3. PICK lost \in BOOLEAN :
        hw' = [hw EXCEPT ![d].stage = "retain", ![d].fatal = TRUE, ![d].lost = lost]
  BY DEF TeardownFails
<1> DEFINE h == [hw[d] EXCEPT !.stage = "retain", !.fatal = TRUE, !.lost = lost]
<1>4. hw' = [hw EXCEPT ![d] = h]
  BY <1>2, <1>3
<1>5. /\ h \in Hw /\ h.stage = "retain" /\ h.handle = hw[d].handle
      /\ h.deadWrites = hw[d].deadWrites
      /\ h.completed = hw[d].completed /\ h.continued = hw[d].continued
  BY <1>2, <1>3 DEF Hw, Stages
<1> HIDE DEF h
<1>6. Swallowed(h, d \in window)
  BY <1>2, <1>5 DEF Swallowed
<1>7. fatal' \in FatalRegistry /\ classified' \subseteq Devices
  BY <1>1, LatchEffect DEF IInv, TypeOK
<1>8. hw[d].stage \in Owning /\ h.stage \in Owning /\ h.stage \notin Later
  BY <1>1, <1>5 DEF Owning, Later, BandInit
<1> QED
  BY <1>1, <1>4, <1>5, <1>6, <1>7, <1>8, OwningStep

\* The device was lost before: its engines are not touched.
LEMMA TeardownLostStep ==
  ASSUME IInv, NEW d \in Devices, TeardownLost(d)
  PROVE  IInv'
<1>1. /\ hw[d].stage = "teardown"
      /\ UNCHANGED <<config, owners, fatal, fifo, window, halfDone, classified, sawOnes>>
  BY DEF TeardownLost, At, registries, histories
<1>2. hw[d] \in Hw /\ Swallowed(hw[d], d \in window)
  BY RunIsOK
<1> DEFINE f == (hw[d].fatal \/ hw[d].failed # "D3B")
<1>3. hw' = [hw EXCEPT ![d] = [hw[d] EXCEPT !.stage = "retain", !.fatal = f]]
  BY <1>2 DEF TeardownLost
<1>4. f \in BOOLEAN
  OBVIOUS
<1>5. PICK x \in BOOLEAN : x = f
  BY <1>4
<1> DEFINE h == [hw[d] EXCEPT !.stage = "retain", !.fatal = x]
<1>6. hw' = [hw EXCEPT ![d] = h]
  BY <1>3, <1>5
<1> HIDE DEF f
<1>7. /\ h \in Hw /\ h.stage = "retain" /\ h.handle = hw[d].handle
      /\ h.deadWrites = hw[d].deadWrites
      /\ h.completed = hw[d].completed /\ h.continued = hw[d].continued
  BY <1>2 DEF Hw, Stages
<1> HIDE DEF h
<1>8. Swallowed(h, d \in window)
  BY <1>2, <1>7 DEF Swallowed
<1>9. fatal' \in FatalRegistry /\ classified' \subseteq Devices
  BY <1>1 DEF IInv, TypeOK
<1>10. hw[d].stage \in Owning /\ h.stage \in Owning /\ h.stage \notin Later
  BY <1>1, <1>7 DEF Owning, Later, BandInit
<1> QED
  BY <1>1, <1>6, <1>7, <1>8, <1>9, <1>10, OwningStep

\* The owner is retained, and the device stays bound or its probe fails.
LEMMA RetainStep ==
  ASSUME IInv, NEW d \in Devices, Retain(d)
  PROVE  IInv'
<1>1. /\ hw[d].stage = "retain" /\ owners' = Retained(d)
      /\ UNCHANGED <<config, fatal, fifo, window, halfDone, sawOnes>>
  BY DEF Retain, At
<1>2. hw[d] \in Hw
  BY RunIsOK
<1>3. /\ owners' \in OwnerRegistry
      /\ Handle(d) \in Entries \cup {NoEntry}
      /\ \A i \in Entries : owners'.entry[i].state = "LIVE" =>
           owners'.entry[i] = owners.entry[i] /\ owners.entry[i].id # d
  BY <1>1, RetainedEffect
<1>4. classified' \subseteq Devices
  BY ClassifyType DEF Retain
<1>5. d \notin halfDone
  BY <1>1, RunningIsNotDoomed
<1>6. CASE ~hw[d].fatal
  <2>1. hw' = [hw EXCEPT ![d] = Gone]
    BY <1>6 DEF Retain
  <2>2. Gone \in Hw
    BY GoneIsOK
  <2> QED
    BY <1>1, <1>3, <1>4, <2>1, <2>2, RunEnds
<1>7. CASE hw[d].fatal
  <2> DEFINE a == Handle(d)
             h == [hw[d] EXCEPT !.stage = "bound", !.handle = a]
  <2>1. hw' = [hw EXCEPT ![d] = h]
    BY <1>2, <1>7 DEF Retain
  <2> HIDE DEF a
  <2>2. /\ h \in Hw /\ h.stage = "bound" /\ h.deadWrites = hw[d].deadWrites
        /\ h.continued = hw[d].continued
    BY <1>2, <1>3 DEF Hw, Stages, Waiting, a
  <2> HIDE DEF h
  <2> QED
    BY <1>1, <1>3, <1>4, <1>5, <2>1, <2>2, RunEnds
<1> QED
  BY <1>6, <1>7

\* remove: a device whose programming stopped half way may go, it stays refused.
LEMMA RemoveStep ==
  ASSUME IInv, NEW d \in Devices, Remove(d)
  PROVE  IInv'
<1>1. /\ hw[d].stage = "bound" /\ hw' = [hw EXCEPT ![d] = Gone]
      /\ owners' = IF hw[d].fatal THEN Retained(d) ELSE owners
      /\ UNCHANGED <<config, fatal, fifo, window, halfDone, classified, sawOnes>>
  BY DEF Remove, At, Forget, histories
<1>2. /\ owners' \in OwnerRegistry
      /\ \A i \in Entries : owners'.entry[i].state = "LIVE" =>
           owners'.entry[i] = owners.entry[i] /\ owners.entry[i].id # d
  <2>1. CASE hw[d].fatal
    <3>1. owners' = Retained(d)
      BY <1>1, <2>1
    <3> QED
      BY <3>1, RetainedEffect
  <2>2. CASE ~hw[d].fatal
    <3>1. owners' = owners /\ owners \in OwnerRegistry
      BY <1>1, <2>2 DEF IInv, TypeOK
    <3>2. "bound" \notin Owning
      BY DEF Owning, BandInit
    <3> QED
      BY <1>1, <3>1, <3>2, LiveIsHandle
  <2> QED
    BY <2>1, <2>2
<1>3. Gone \in Hw /\ classified' \subseteq Devices
  BY <1>1, GoneIsOK DEF IInv, TypeOK
<1> QED
  BY <1>1, <1>2, <1>3, RunEnds

\* A window that stops answering has swallowed nothing yet.
LEMMA WindowDiesStep ==
  ASSUME IInv, NEW d \in Devices, WindowDies(d)
  PROVE  IInv'
<1>1. /\ UNCHANGED <<config, hw, owners, fatal, fifo, halfDone, classified, sawOnes>>
      /\ window' = window \ {d}
  BY DEF WindowDies, registries, histories
<1>2. TypeOK'
  BY <1>1 DEF IInv, TypeOK
<1>3. ASSUME NEW e \in Devices
      PROVE  RunOK(hw[e], config.optIn, e \in window')
  <2>1. RunOK(hw[e], config.optIn, e \in window)
    BY DEF IInv, Runs
  <2>2. e \in window' => e \in window
    BY <1>1
  <2> QED
    BY <2>1, <2>2 DEF RunOK, Swallowed
<1>4. Runs'
  BY <1>1, <1>3 DEF Runs
<1>5. Doomed' /\ Held'
  BY <1>1 DEF IInv, Doomed, Held, At
<1> QED
  BY <1>2, <1>4, <1>5 DEF IInv

\* The module goes only when no reference holds it, hence when no device stopped half way.
LEMMA ReloadStep ==
  ASSUME IInv, Reload
  PROVE  IInv'
<1>1. /\ \A d \in Devices : hw[d].stage = "absent"
      /\ ~fifo.pinned /\ config' \in Configs
      /\ owners' = NoOwners /\ fatal' = NoFatal /\ fifo' = NoFifoFailures
      /\ UNCHANGED <<hw, window, halfDone, classified, sawOnes>>
  BY DEF Reload, At, Pinned, histories
<1>2. halfDone = {} /\ sawOnes = {}
  BY <1>1 DEF IInv, Doomed
<1>3. owners' \in OwnerRegistry /\ fatal' \in FatalRegistry /\ fifo' \in FifoRegistry
  BY <1>1 DEF NoOwners, OwnerRegistry, NoFatal, FatalRegistry, NoFifoFailures, FifoRegistry
<1>4. TypeOK'
  BY <1>1, <1>3 DEF IInv, TypeOK
<1>5. ASSUME NEW d \in Devices
      PROVE  RunOK(hw'[d], config'.optIn, d \in window')
  <2>1. hw'[d] = Gone
    BY <1>1, RunIsOK DEF Untouched
  <2>2. Untouched(Gone) /\ Swallowed(Gone, d \in window')
    BY DEF Gone, Untouched, Swallowed
  <2>3. Counted(Gone, config'.optIn)
    BY DEF Gone, Counted, Later, BandInit
  <2> QED
    BY <2>1, <2>2, <2>3 DEF RunOK
<1>6. Runs'
  BY <1>5 DEF Runs
<1>7. Doomed'
  BY <1>1, <1>2 DEF Doomed
<1>8. Held'
  BY <1>1 DEF Held, NoOwners, EmptyEntry
<1> QED
  BY <1>4, <1>6, <1>7, <1>8 DEF IInv

-----------------------------------------------------------------------------
(***************************************************************************)
(* The invariant, and what follows from it.                                 *)
(***************************************************************************)
\* Nothing has run when the module is first loaded.
LEMMA InitIInv ==
  ASSUME Init
  PROVE  IInv
<1>1. owners \in OwnerRegistry /\ fatal \in FatalRegistry /\ fifo \in FifoRegistry
  BY DEF Init, NoOwners, OwnerRegistry, NoFatal, FatalRegistry, NoFifoFailures, FifoRegistry
<1>2. hw \in [Devices -> Hw] /\ \A d \in Devices : hw[d] = Gone
  <2>1. Gone \in Hw
    BY DEF Gone, Hw, Stages, Waiting
  <2> QED
    BY <2>1 DEF Init
<1>3. TypeOK
  BY <1>1, <1>2 DEF Init, TypeOK
<1>4. Runs
  BY <1>2, GoneIsOK DEF Runs
<1>5. Doomed
  BY DEF Init, Doomed
<1>6. Held
  BY DEF Init, Held, NoOwners, EmptyEntry
<1> QED
  BY <1>3, <1>4, <1>5, <1>6 DEF IInv

\* Every step of a probe.
LEMMA ProbeStep ==
  ASSUME IInv, NEW d \in Devices, Step(d)
  PROVE  IInv'
<1>1. CASE Admission(d) \/ D2b(d) \/ Gate(d)
  BY <1>1, GuardFifoStep, PrefixStep, PrefixLostStep DEF Admission, D2b
<1>2. CASE FifoFixup(d)
  BY <1>1, <1>2, Poll540Step, Poll530Step, PostReadStep DEF FifoFixup
<1>3. CASE TailSteps(d)
  BY <1>3, T1Step, T1FailsStep, DmaRefusedStep, DmaStep, T2ValidateStep DEF TailSteps
<1>4. CASE Band(d)
  BY <1>4, BandStep
<1>5. CASE Teardown(d)
  BY <1>5, TeardownOkStep, TeardownFailsStep, TeardownLostStep, RetainStep DEF Teardown
<1> QED
  BY <1>1, <1>2, <1>3, <1>4, <1>5 DEF Step

\* The inductive step.
LEMMA NextIInv ==
  ASSUME IInv, [Next]_vars
  PROVE  IInv'
<1>1. CASE Next
  BY <1>1, ProbeStep, RemoveStep, WindowDiesStep, ReloadStep DEF Next
<1>2. CASE UNCHANGED vars
  <2>1. UNCHANGED <<config, hw, owners, fatal, fifo, window, halfDone, classified, sawOnes>>
    BY <1>2 DEF vars
  <2> QED
    BY <2>1 DEF IInv, TypeOK, Runs, Doomed, Held, At
<1> QED
  BY <1>1, <1>2

\* The invariant holds on every path.
THEOREM Invariance == Spec => []IInv
<1>1. Init => IInv
  BY InitIInv
<1>2. IInv /\ [Next]_vars => IInv'
  BY NextIInv
<1> QED
  BY <1>1, <1>2, PTL DEF Spec

\* Every variable keeps its type.
THEOREM TypeCorrect == Spec => []TypeOK
<1>1. IInv => TypeOK
  BY DEF IInv
<1> QED
  BY <1>1, Invariance, PTL

\* A device whose FIFO programming stopped half way is never driven again, with
\* whatever room in its registry and across reloads of the module.
THEOREM NoSecondTry == Spec => []NeverRetried
<1>1. IInv => NeverRetried
  BY DEF IInv, Doomed, NeverRetried, Waiting
<1> QED
  BY <1>1, Invariance, PTL

\* T1 and what follows run only after every FIFO entry was completed, or continued
\* under the opt-in, and after all-ones not at all.
THEOREM TailIsEarned == Spec => []TailOnlyWhenEarned
<1>1. IInv => TailOnlyWhenEarned
  <2> SUFFICES ASSUME IInv
               PROVE  TailOnlyWhenEarned
    OBVIOUS
  <2>1. ASSUME NEW d \in Devices, hw[d].stage \in Later
        PROVE  /\ hw[d].completed + hw[d].continued = NumEntries
               /\ hw[d].continued > 0 => config.optIn
    BY <2>1, RunIsOK DEF Counted
  <2>2. ASSUME NEW d \in sawOnes
        PROVE  hw[d].stage \notin Later /\ (At(d, "bound") => hw[d].fatal)
    <3>1. hw[d].stage \in {"absent", "bound"} /\ (At(d, "bound") => hw[d].fatal)
      BY DEF IInv, Doomed
    <3> QED
      BY <3>1 DEF Later, BandInit
  <2> QED
    BY <2>1, <2>2 DEF TailOnlyWhenEarned
<1> QED
  BY <1>1, Invariance, PTL

\* At most one word is written to a window that has stopped answering.
THEOREM DeadWritesAreBounded == Spec => []OneDeadWrite
<1>1. IInv => OneDeadWrite
  BY DEF IInv, Runs, RunOK, Swallowed, OneDeadWrite
<1> QED
  BY <1>1, Invariance, PTL

\* No live owner outlives the struct ob_hw of its device.
THEOREM OwnersAreAccounted == Spec => []NoLiveOwnerLeft
<1>1. IInv => NoLiveOwnerLeft
  <2>1. "absent" \notin Owning
    BY DEF Owning, BandInit
  <2> QED
    BY <2>1 DEF IInv, Held, NoLiveOwnerLeft, At
<1> QED
  BY <1>1, Invariance, PTL

=============================================================================
