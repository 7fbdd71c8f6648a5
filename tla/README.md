# OpenBRCM: models, checks and proofs

OpenBRCM is an out-of-tree Linux driver for the Broadcom BCM4352/BCM4360.  This
directory holds TLA+ models of the parts of the driver that decide something
over time, the TLC configurations that check them, and theorems that TLAPS
proves about them.  Paths are relative to the repository; `ob_x.c:12` means
`src/src/ob_x.c:12`.

    tlc -workers 2 -config <cfg> <Module>.tla     # a run of PROJECT.json
    tlapm <Module>Proofs.tla                      # for the eight modules of section 4, up to ten minutes each

`PROJECT.json` lists, by machine: the components and how far each is modelled,
the runs, for every property a mutant of the model that breaks it, the source
lines behind every definition, the disagreements found, the hazards and the
theorems.

## 1. The system

### 1.1 How the parts fit

`ob_probe` (`ob_core.c`) selects one of the bring-up modes named by module
parameters; modes are mutually exclusive (`ob_core.c:1163-1198`) and without
one the probe is refused with `-EOPNOTSUPP` (`ob_core.c:1232-1238`).  All modes
are made of the same stages: power-up and the identity ladder of `ob_si.c`, the
attach identity, the firmware chain (D2A: core, ucode, PSM; D2B: initvals), PHY
and radio stages.  `bringup_test_only=1` runs the whole path to `ob_dma_init`,
`ob_irq_init`, `ob_mac80211_register`; RX stays dormant there, as nothing calls
`ob_rx_init`, and the TX backend answers `-EOPNOTSUPP`.  The DMA, D3A1 and D3B
modes program real DMA engines and tear them down in the same probe; they are
the ones that can leave the machine with a device writing to memory nobody owns.

Per device there is one `struct ob_hw`, freed by devres when the probe fails or
the driver unbinds.  What must survive it lives in module-wide registries: DMA
owners (`ob_dma_owner.c`), fatal devices (`ob_dma_fatal.c`) and FIFO failures
(`ob_d3a1.c`).  Retaining anything pins the module.  A stage that fails after it
wrote to the core marks the device retained (`fw_stage_retain`), and `ob_probe`
then returns success, so that nothing else takes the device over.

### 1.2 Inventory

| Component | State | Operations | What is hard | Correct when | Model |
|---|---|---|---|---|---|
| TX ring (`ob_dma.h`) | slots FREE/RESERVED/SUBMITTED/COMPLETED/RECLAIMED/CANCELED, head, tail, generations | reserve, bind, transition, unmap, release | releases out of order, wrap, generation limit | no slot leaked, stale tickets match nothing | TxRing |
| TX path, software queues (`ob_tx_path.c`, `ob_tx_sw.c`) | four queues over one ring, backpressure flags, `running`, `faulted` | start, stop, submit, complete, reclaim, complete_reclaimed | four queues share descriptors; refusals half way; partial stop; who wakes a stopped queue | each packet in one place, mapped exactly while the device may read it, FIFO per queue, no lost wake | TxPath, TxQueues |
| Event queue (`ob_dpc_sw.c`) | ring of events, `accepting`, `dev_lost`, `failed`, `dispatching` | enqueue, dispatch, quiesce, mark lost, cancel | callbacks re-enter the queue during a dispatch | events conserved, in order, silent after a stop | DpcSw |
| DMA owner registry (`ob_dma_owner.c`) | eight owners LIVE/RETAINED, poisoned, pinned | create, release, retain, refuse | full, poisoned, another board in the slot | every allocation has a holder | DmaRegistry |
| Fatal registry (`ob_dma_fatal.c`) | eight devices, overflow, pin | latch, refuse | full; unload | doomed slot refused until reboot | DmaRegistry |
| D3A0 DMA life cycle (`ob_d3a0.c`) | `lc`: programmed engines, `free_allowed`, `fatal`; `dev_lost` | bring-up, validate, quiesce, teardown, remove | loss between any two accesses; one engine of five does not stop | memory freed only after every engine stopped | DmaLifetime |
| D3A1/D3B modes (`ob_d3a1.c`, `ob_d3b.c`) | FIFO registry, poll counters, boundary witness | FIFO programming, T1, DMA, T2, validate, MHF, bsinitvals | all-ones reads that look like completion; failure with DMA live; second probe | half-programmed device never retried, no tail after an invalid read | D11Tail |
| Probe, modes, remove (`ob_core.c`, `ob_main.c`) | mode, life-cycle states, retain mark, resources | admission, probe, remove | failure after a hardware write; a stage that asks for a state no stage left | retained, not returned as an error; a healthy device binds | Admission, Programs, Bringup |
| Silicon interconnect (`ob_si.c`) | core state, OTP power and controls | power-up, identity rungs, OTP, SPROM | early return with the OTP powered; bcma calls that know no latch | what is borrowed is returned | Interconnect |
| Firmware, ucode, initvals (`ob_fw*`, `ob_ucode*`, `ob_initvals.c`) | chain stage, `mutated`, `retain` | identity, D2A, common, publish | failure after the first write | retained iff mutated | Programs |
| Guarded access (`ob_guard.c`) | `dev_lost` | trusted read, latch | loss between check and access, code that sets the latch past its record | nothing touches a lost device | Bringup, DmaLifetime |
| D11 MAC life cycle (`ob_lifecycle.*`) | EN_MAC, wake bitmap, refcount, `suspended` | suspend, resume, wake override | timeout half way | record and hardware agree, or the caller is told | D11Mac |
| PHY calibration (`ob_acphy_cal_*`) | staged writes, MAC bracket | witness, write stage, replay, setstate | a failure inside a bracket, or in its close | as found, or reported | CalStages |
| RX engine (`ob_rx.c`), interrupts (`ob_irq.c`) | descriptor ring, DMA ownership, masks, service gate | init, drain, quiesce, ISR, remove | interrupt, tasklet, remove at once | memory stays while the device may write it; no lost wake; teardown alone | RxEngine |
| RX frames (`ob_rx_d11_rev42.c`) | - | plan of segments | exact fill, several buffers, partial arrival | consumer never inside a frame | RxFrames |
| PHY life cycle (`ob_phy.h`) | phase, blocker, marks, lookup | begin, advance, block, resume, mark | one order spread over three files | guards open in that order, closed in any other | PhyLadder |
| mac80211 operations (`ob_mac80211.c`), tuning (`bcm43xx_chan_tuning.c`) | start state, channel and base on record | register, start, config, stop | second open that replays nothing, failed channel change | the device is on the channel on record | MacOps |
| PHY and radio stages of a probe (`ob_phy.c`, `ob_radio*`) | PHY and radio states, lent bits | attach, pre-radio, prefix, class 0, post-LPF | a failure half way, roll-back bits | as above | RadioStages |
| PHY routines over callbacks (`ob_phy_*.c`, `ob_acphy_cal_run.c`) | saved registers, held gates, MAC | 23 routines, alone and composed | nested save and restore, refusals behind the first call, failure with the MAC down | complete means clean, failure is told | PhyPower, PhyInit, PhyRoutines |
| TX status (`ob_tx_status*`) | - | decode | - | - | not modelled: nothing calls it |
| Generated tables | data | - | - | - | not modelled |
| Diagnostics (`ob_diag.c`) | output | the `rev42_*` modes | staged path, losses | as for every mode | Programs, Bringup |

`PROJECT.json` "hazards" names the line where each hard behaviour bites and the
property that watches it.

## 2. The modules

    Admission ─┐
    Steps ─ Interconnect ─┤─ Programs ─ Bringup ─ MCBringup, BringupProofs
          └ RadioStages ──┘
    TxRing ─ TxPath (refines TxQueues) ─ MCTxPath, TxPathProofs
    DmaRegistry ─ DmaLifetime ─ MCDmaLifetime, DmaLifetimeProofs
                └ D11Tail ─ MCD11Tail, D11TailProofs
    DpcSw ─ DpcSwProofs              D11Mac ─ CalStages ─ CalStagesProofs
    RxFrames ─ RxEngine ─ RxEngineProofs    PhyLadder ─ MacOps ─ MacOpsProofs
    PhyPower ─ PhyInit ─ PhyRoutines

### TxRing, TxPath, TxQueues

`TxRing` has the ring half of `ob_dma.h` as operators over a record:
reservation, generation-checked transitions, release with the consumer moving
over the free prefix.  `TxPath` is the state machine: one action per operation
of `ob_tx_path.c`, since every caller holds `pub->tx_lock`.

| Action | Code |
|---|---|
| `Start`, `Stop` | `ob_tx_path_start`, `ob_tx_path_stop` with its loop of `ob_tx_sw_stop`, which a refused cancel ends |
| `RefuseFull`, `RefuseNoDescriptor`, `RefuseBackend`, `Accept` | the four outcomes of `ob_tx_path_submit`; a refusal includes the rollback of mapping and descriptor |
| `Complete` | `ob_tx_path_complete`, with a ticket that may be old: only the oldest is disposed of, any other is put back |
| `ReclaimPacket`, `CompleteReclaimed` | the DMA reclaim and the later TX status report |

The backend behind `struct ob_tx_path_ops` is external: it chooses addresses
(0 is legal), refuses prepare, submit or cancel, and reports in any order.
`TxQueues` is the promise to the caller: one FIFO per access category, tickets
never issued twice.  `TxPath!ImplementsQueues` is that specification under the
mapping "the pending slots from the tail, oldest first"; descriptors, mappings
and backpressure disappear.

### DpcSw

The event queue of `ob_dpc_sw.c`.  Calls are serialised by the driver, but
`ops->process` may call back; so `Dispatch` runs to its first callback,
`ProcessReturns`/`ProcessFails` from one callback to the next, and every other
operation may happen while one runs.  An event is its serial number; two
histories record what was delivered and what was given back.

### DmaRegistry, DmaLifetime

`DmaRegistry` has the two registries as operators over records and is shared by
the two state machines that use them.  In `DmaLifetime` each device
`<<slot, board>>` has a thread; each action is what it does between two
accesses to the shared registries, because registry calls run under a lock and the
rest of a probe does not.  Stages follow `ob_d3a0_bringup`, `_quiesce`,
`_teardown`, `_remove`.  `memory` and `engine` are the facts the driver must
keep straight: which devices have DMA-visible memory, which engines run.  A
failed register read may find the device lost at every stage.  Most losses are
latched (`LoseTo`); the boundary witness of D3B sets `hw->dev_lost` itself
(`LiveStalled`): no registry is told, the probe fails, and the memory stays with
its owner, who is retained.  An owner may find no memory for itself
(`EnsureOwnerNoMem`, `Keeps`).  `doomed` holds the devices whose DMA was given up
in one of these ways or because an engine did not stop.  External: PCI
hotplug (a slot holds one board at a time) and the module loader, which starts
to unload only when no reference is held and does not look again
(`BeginUnload`, `EndUnload`).  `ProbeDuringUnload` says whether it may start
while a probe is in flight.

Two imprecisions of the code are harmless here.  A module pinned by the owner
registry is pinned once more when another device is latched as fatal, for
`ob_dma_fatal_latch` asks only its own flag (`ob_dma_fatal.c:150-159`, while
`ob_dma_owner.c:445-451` asks both); neither reference is ever put, and the two
flags of the model say no more than whether one is held.  `ob_dma.c:513-514` reads that flag
outside of the lock it then takes; as the flag is never cleared while the module
is loaded, an old value costs a second reference at worst, and the model takes
read and use as one step.

### D11Tail

The D3A1 and D3B runs: admission against three registries, the D2B prefix, the
FIFO programming with its two bounded polls per entry (registers 0x540, 0x530),
T1, DMA bring-up, T2, validation, and in D3B the MHF words and the bsinitvals
table with the boundary witness, whose reads, clocks and island are steps of
their own; then teardown, retention and remove.  The DMA bring-up that
`DmaLifetime` takes apart is one step here.  External: the device, whose
register window may die (all reads all-ones, writes dropped) at any time or
return one all-ones read; module reload, which empties the registries.

### D11Mac, CalStages

`D11Mac` has the scripts of `ob_lifecycle.h` (suspend, resume, the two wake
overrides) and their kernel bindings as operators from a MAC to the set of its
possible outcomes: a read that fails, one that lies once, a window that dies
before any access.  `CalStages` is the state machine of the four stages that
put a bracket around PHY or radio writes: the radio stage (`rev4`), the
calibration write stage, the replay with its setstate, the witness.  An action
is one callback of the stage's table or the register accesses between two of
them; `Worse` is the order in which a first failure and a failing close are
combined into the status.  The replay shares the two callbacks of the PHY entry
and exit with the write stage but hands them its own record, which they take for
a `struct ob_hw`: in the stage `w2` they succeed or fail without touching the
device (`Astray`), or end the thread (`Oops`).  Its MAC callbacks find the
device.  Both entries, a running MAC and one paused at
startup, are explored: the startup word of production has EN_MAC clear, and the
code reads and handles both.

### RxFrames, RxEngine

`RxFrames` is the segment plan of a received frame (prefix, length, buffers).
In `RxEngine` three contexts share the ring: the process context (init,
quiesce, remove under `rx_lifecycle_lock`), the handler of a shared interrupt
line, and the drain tasklet; each action is what a context does between two
accesses that another one can see (masks, acknowledgments, the service gate,
`synchronize_irq`, `tasklet_kill`).  External: the device writing frames, other
users of the line, a dying window, the loss latch of another component.  RX is
dormant in this version; `ActivationSupported = TRUE` admits the engine as
`ob_rx_dma_activation_supported` would, and `OpenService` stands for the start
path that does not exist yet.

### Admission, Steps, Interconnect, RadioStages, Programs, Bringup

A load is the set of its boolean parameters.  `Admission` turns it into the
mode `ob_probe` would choose, or a refusal.  Every mode is a *program*: the
sequence of its steps (`Steps`), assembled from the stages in `Interconnect`
(power-up, identity rungs, OTP, SPROM), `RadioStages` (attach, PHY and radio)
and `Programs` (firmware, isolated modes, the normal tail).  A step has a kind,
which says how the device is touched and which answers it takes, and the name of
the stage it is in, which decides what its failure means.  `Bringup` interprets
the kinds: one action per kind (gates on the published states, supplies, bus and
bcma calls, plain, guarded, checked and trusted reads, writes, transitions of
the wrapper, marks, what is lent and given back, kept failures, acquisition of
the last resources), then the failure rules of `ob_probe`, release, remove,
rebind, reboot.  A run of accesses that fail for the same reason is one step.
The isolated DMA tests, which `DmaLifetime` and `D11Tail` take apart, are one
step: clean, with an unverified stop, with a latched loss, or with a loss seen
by the boundary witness.

### PhyLadder, MacOps

`PhyLadder` is the one-shot PHY life cycle of `ob_phy.h`: each operation a guard
and a new record.  `MacOps` is `ob_mac80211.c` on a registered device: the
stages of `ob_ops_start`, `ob_ops_config`, stop and reload, on every kind of
board the stages distinguish (blocked before the radio, revision 1, failing
calibration inputs...).  The device may die anywhere; a loss is noticed only
where a stage reads, and a tuning row is written without a read.

### PhyPower, PhyInit, PhyRoutines

The routines of the PHY that run over a table of callbacks, most of them
exercised by host tests, some by the live path too.  `PhyPower` and
`PhyInit` write each down as a program of *brackets*: save, set and restore of
a register, take and give of a clock, gate or reset, suspend and enable of the
MAC, refusals, and plain calls; the branches depend
on a set of *facts* about the input.  `PhyRoutines` runs them on every subset of
the facts a routine branches on, with the backend failing at any call.  A
failing call leaves the register as it was.  `said` holds the fields of the
result that tell of the MAC, and its `mac_state`; what a suspension that worked,
one that failed and an enable set depends on the kind of result (`Sets`, `Tries`,
`Clears`): 9a539 has one flag, which is as clear behind a failed suspension as in
front of it, the power results have `mac_state` and what was tried, the export of
the receive cores has the sequence and its end but no `mac_state`, the CRS and the
calibration result have nothing.

### MC modules and proof modules

`MCTxPath`, `MCDmaLifetime`, `MCD11Tail` add symmetry (packets; slots and
boards), `MCDmaLifetime` a bound on the devices present at once, `MCBringup`
the sets of loads.  A module `XProofs` extends `X` and holds the theorems about
it; `X` itself has no proof in it.  A definition under a comment "Mutant:" is a
plausible bug in the definition that follows it, which a property must catch;
nothing else refers to it.

## 3. The runs

| Run | Configuration, instance | Shows |
|---|---|---|
| `tx` | `TxPath_all`: 2 queues of 2, 3 packets, ring of 4, generations to 2, 4 submissions | ownership, mappings, descriptors and backpressure stay exact; TxPath implements TxQueues; every packet is disposed of and every stopped queue woken under `FairSpec` (36 000 states) |
| `dpc` | `DpcSw`: capacity 3, batch 2, 7 events | events conserved, in order, silent after a stop; deadlock checked |
| `dma_lifetime` | `MCDmaLifetime_safety`: 3 slots, 2 boards, registries of 2, two devices present at once | memory accountable, doomed slots refused, TX engines stop first, retained owners stay (1.3 million states up to symmetry) |
| `dma_stop` | `DmaLifetime_stop`: 1 device | *violated*: rings freed with the RX engine enabled |
| `tail_safety` | `MCD11Tail_safety`: 2 slots, 1 board, FIFO registry of 1, 2 entries, 2 reads per poll | half-programmed devices never retried, no tail after an all-ones read, at most one write into a dead window, no live owner left (1.4 million states up to symmetry) |
| `tail_live` | `D11Tail_live`: 1 device | every run ends |
| `cal_safety` | `CalStages_safety`: four stages, both entries, `MaxRefs` 1 | who took the MAC down brings it up, nobody else does, and the stages say when they could not (935 states) |
| `rx` | `RxEngine_safety`: 4 buffers, drain budget 2, frames of one and three buffers and of an impossible length | memory the device may write stays mapped, the teardown is alone and ends, no wakeup is lost but the one named below (556 000 states) |
| `bringup` | `MCBringup_safety`: every load with one or two parameters | a half-programmed core is kept, published states are true, a device lost in this load or on record is not touched, everything acquired or lent is given back, a load is refused only for a reason; deadlock checked (57 000 states) |
| `loss_record` | `MCBringup_LossIsOnRecord` | *violated*: a latched loss without a fatal record |
| `mac_ops` | `MacOps_safety`: 5 channels, 5 kinds of boards | an open interface is tuned to the channel on record and stands at a documented stop; deadlock checked |
| `phy` | `PhyRoutines_safety`: 23 routines, every subset of their facts, every failing call | a routine that completes has undone its brackets, what one that fails left the MAC in can be told from its result (227 000 states) |

`MCTxPath_safety.cfg` is a larger instance of the TX invariants (six submissions
up to symmetry of the packets, 62 500 states; symmetry is not sound for the
temporal properties, so `tx` does without).  The configurations not in the
table reproduce what section 5 says of each.

The properties, and what a violation would mean:

- `SlotAgreement` (with the types): software slot, descriptor and queue record
  name the same packet; `ConsumerAtOldest`: the ring's tail stands at the oldest
  used slot; `MappingsExact`: mapped exactly while the device may read it;
  `FullQueueIsStopped`; `ImplementsQueues`; `EveryPacketDisposed`;
  `StoppedQueueWakes`.
- `Conserved`, `InOrder`, `FailureIsLast`, `NothingAfterStop` for the event queue.
- `MemoryAccountable`, `NeverDrivenAgain`, `NoTxAfterFree`, `RetainedForever`
  for DMA memory.
- `NeverRetried`, `TailOnlyWhenEarned` (the tail starts only behind reads that
  were all valid, within the bound, or behind an expiry that was said),
  `OneDeadWrite`, `NoLiveOwnerLeft`, `EveryRunEnds`.
- `OverrideHoldsWake`, `ForeignPauseKept`, `CleanOrRefusedIsBalanced`,
  `LeftDownIsReported` for the MAC brackets.
- `DeviceMemoryStays`, `TeardownAlone`, `NoLostWakeup`, `ConsumerInStep`,
  `TeardownEnds` for RX.
- `HalfProgrammedIsRetained`, `StateMatchesDevice`, `SilentAfterLoss`,
  `ResourcesBalanced`, `HealthyProbeBinds`, `BorrowedIsReturned` for the probe.
- `ReadyIsTuned`, `OpenAtDocumentedStop`, `FailsForAReason` for mac80211.
- `CompleteIsClean`, `FailureIsTold` for the PHY routines.

**Exceptions written into a property** are cases in which the code does something
else and says so, or in which section 5 says so:

- `NoLostWakeup`: a drain that used up its budget re-arms the source without
  scheduling itself (`ob_rx.c:490-504`); frames already acknowledged wait for
  the next one.
- `HalfProgrammedIsRetained` excepts the DMA modes (section 5, 3).
- `HealthyProbeBinds` excepts three loads that can never succeed:
  `rev42_diag_full`, `radio2069_rev4_probe` (section 5, 6 and 7) and
  `sprom_evidence` without `sprom_diag`, which is a documented refusal.
- `SilentAfterLoss` speaks of a loss that this load latched, whether it was
  recorded or not, and of any load of a device on record.  A device whose loss
  was latched without a record and that is bound again is not on record: it is
  driven, which is what `LossIsOnRecord` shows (section 5, 2).  Nor does it
  count the bypass reads of the wrapper witness, which are made on purpose to
  see whether the wrapper still answers.
- `OverrideHoldsWake` and `CleanOrRefusedIsBalanced` speak, in the replay, of the
  MAC it suspends and of the device's own refcount, which its PHY entries do not
  reach (section 5, 8).
- `BorrowedIsReturned` speaks of every path for the OTP and of the successful
  ones for the radio bits: a class 0 failure is a fail-stop.
- `FailureIsTold` names three inputs refused late (`RefusesLate`) and two
  results without a place for the MAC (section 5, 9).  The flag of 9a539 tells
  only together with the status: a failed routine with a clear flag may have
  failed in its suspension.

**Bounds.**  Ring of 4 with queues of 2: three usable descriptors, so one queue
can be full while the ring still has room for the other, three packets allow a
full queue beside a busy one, and two generations suffice for a stale ticket and
for a slot refused at its maximum; `Submissions` caps the packets accepted, and
four are enough for each descriptor to be used twice around a partial stop.
Capacity 3 against seven events wraps the event ring twice with a callback in
progress; batch 2 < capacity leaves events behind a batch.  Registries of two
entries and three slots: both fit-all and full registries occur, with two
probes that both passed the guards; two boards give a different device in the
slot of a retained one.  At most two devices are present at once
(`MaxPresent`), as every conflict over a registry is between two threads; the
third slot's record is left by a board already gone.  One TX engine and one RX
engine stand for four and one: what matters is that some of several stop.  Two
FIFO entries have a last and a not-last; two reads per poll have a last and a
not-last; one registry entry makes the second failing device find it full.
`MaxRefs` 1: the stages open at most one reference beyond what they found.
Four RX buffers with a budget of two: a frame of three buffers neither fits
twice nor leaves a round number, so frames wrap and arrive in part.  Two
parameters per load reach every mode and every modifier of each, and every
conflict of two modes; a third parameter only adds a second modifier.  The five
channels are the known one, one with and one without a row, and two wide ones,
with and without.

**Deadlock** is checked for `dpc`, `bringup`, `mac_ops`.  The other systems
really stop: generations or submissions are used up (`tx`), every device is
refused until a reboot (`dma_*`, `tail_*`), a stage or routine ends (`cal_safety`,
`phy`), the driver is gone (`rx`).

**Fairness.**  `TxPath!FairSpec`: the backend reports each packet it accepted,
which is the contract in the comment of `struct ob_tx_path_ops`; nothing makes
mac80211 start or stop the path.  It is weak fairness of `Report(q)` with its
enabling condition written out.  `EveryPacketDisposed` is checked for packets
with a frame ID (`IdValid = {TRUE}`): one queued without an ID and then
reclaimed is refused by every report, as the code says, and leaves only with a
stop.  `D11Tail!FairSpec`: weak fairness of each running probe thread, which
the kernel schedules; no fairness is assumed of hotplug, remove or the loader,
and none of the hardware, whose polls are bounded.  `RxEngine!FairSpec`: weak
fairness of the handler the kernel entered, of the tasklet it scheduled and of
the thread in a quiesce or remove; strong fairness of `SynchronizeIrq` and
`FreeIrq`, because `synchronize_irq` waits only for the handlers in flight when
it is called, so that a line that keeps firing cannot hold it up.

## 4. What is proved

Every theorem holds for every value of the constants that satisfies the `ASSUME`
of its module, which is what the code requires of its sizes (`Capacity` positive,
a ring of at least two slots, 0 a legal DMA address...).  A run checks most of
these properties on a small instance; each inductive invariant `IInv` was itself
checked by TLC on the instance of the run before it was proved (that of `Bringup`,
which says that points exist, with the points computed along the programs, on
the loads with one parameter and a few pairs).  All proofs have the same shape:
the initial states satisfy `IInv`, each action keeps it, one lemma per action or
per group of actions that disturb the same parts, and `IInv` implies the property.

| Module | Theorems (property of a run) | `IInv` besides the types |
|---|---|---|
| `TxPathProofs` | `TypeCorrect`, `SlotsAgree` (`SlotAgreement`), `ConsumerRestsAtOldest` (`ConsumerAtOldest`), `MappingsAreExact` (`MappingsExact`), `FullQueuesAreStopped` (`FullQueueIsStopped`), `PathRefinesQueues` (`ImplementsQueues`) | `PathOK`, `FlowOK`, `~faulted` |
| `DpcSwProofs` | `TypeCorrect`, `EventsConserved` (`Conserved`), `EventsInOrder` (`InOrder`), `FailureEndsDelivery` (`FailureIsLast`), `StoppedQueueIsSilent` (`NothingAfterStop`) | `WindowHolds` and what the histories hold |
| `DmaLifetimeProofs` | `TypeCorrect`, `MemoryIsAccountable` (`MemoryAccountable`), `SlotNeverDrivenAgain` (`NeverDrivenAgain`), `TxEnginesStopFirst` (`NoTxAfterFree`), `RetainedOwnersStay` (`RetainedForever`) | `Handles`, `Accounting`, `Pinning`, `Refusing`, `Engines`, `Exclusive` |
| `D11TailProofs` | `TypeCorrect`, `NoSecondTry` (`NeverRetried`), `TailIsEarned` (`TailOnlyWhenEarned`), `DeadWritesAreBounded` (`OneDeadWrite`), `OwnersAreAccounted` (`NoLiveOwnerLeft`) | `Runs`, `Doomed`, `Held` |
| `CalStagesProofs` | `TypeCorrect`, `WakeIsHeld` (`OverrideHoldsWake`), `PauseStays` (`ForeignPauseKept`), `EndsBalanced` (`CleanOrRefusedIsBalanced`), `LossIsReported` (`LeftDownIsReported`) | `Started`, `OnPath`, `Decided`, `WakeHeld`, `PauseKept`, `Balanced`, `WordsRestored` |
| `RxEngineProofs` | `TypeCorrect`, `MemoryIsSafe` (`DeviceMemoryStays`), `TeardownIsAlone` (`TeardownAlone`), `NoWakeupIsLost` (`NoLostWakeup`), `DrainIsInStep` (`ConsumerInStep`) | `Gate`, `Ownership`, `Mapping`, `Chained`, `Woken`, `Armed` |
| `BringupProofs` | `Invariance`, `TypeCorrect`, `HalfProgrammed` (`HalfProgrammedIsRetained`), `StatesMatch` (`StateMatchesDevice`), `Silence` (`SilentAfterLoss`), `Balance` (`ResourcesBalanced`), `HealthyBinds` (`HealthyProbeBinds`), `Returned` (`BorrowedIsReturned`) | `~late`, `Sound`, `Probing`, `Idle`, `Bound`, `Failed` |
| `MacOpsProofs` | `TypeCorrect`, `RecordIsTruth` (`ReadyIsTuned`), `OpensAtAStop` (`OpenAtDocumentedStop`), `NoGuardIsClosed` (`FailsForAReason`) | `Climbing`, `Starting`, `Untouched`, `OnRecord`, `LossIsOdd` |

**TxPath.**  `SlotAgreement` says that the three records of a packet name each
other, and nothing of where `head` and `tail` stand, whether a packet is pending
twice, or what a slot outside the window holds; a reservation after a wrap could
break it.  `PathOK` adds those: in each queue `head` follows from `tail` and
`pending` and every slot outside is clear (`QueueOK`), each pending slot joins
a ring slot and each used ring slot a pending one (`Joins`, `Owned`), the slots
outside `tail .. head` are free and the tail is in use (`OutsideIsFree`,
`TailInUse`), and `live` counts the pending slots mapped at each address
(`Counted`).  `FlowOK` ties acceptance and backpressure to `running`.  That
`~faulted` is part of it means that no call sequence reaches the inconsistency
branches of `ob_tx_path.c`.  The two loops of `Stop` are recursive functions:
what is proved is that they exist and what each turn does, and the first turn
that would break the invariant (there is a least one) is a contradiction.

The refinement reads a queue as the sequence of its packets from the tail on
(`QueueOf`), the tickets spent as all generations up to the current one of each
slot (`SpentOf`), and `accepting` as open.  `Start` is `OpenAll` or
`OpenRefused`; `RefuseFull` stutters; a submission refused for want of a
descriptor or by the backend spends a ticket (`Fail`), an accepted one is
`Enqueue`; `Complete` and `CompleteReclaimed` of the oldest packet are `Finish`,
of any other a stutter; `ReclaimPacket` is `Reclaim` and `Stop` is `Close`, of
the whole queues or of the front that was canceled before a refusal.

**DpcSw.**  Order in a wrapping ring is not inductive by itself: the window of
`count` slots from `tail` holds exactly the youngest `count` serials in order
(`WindowHolds`), `head` is the window's end, the running callback has the event
after the last processed one, an open queue has neither failed nor given
anything back, and the two histories hold what was delivered and returned.

**DmaLifetime.**  Proved under the hypothesis `~ProbeDuringUnload`, without
which `MemoryAccountable` is false (`DmaLifetime_unload.cfg`).  The invariant
ties the handle in `struct ob_hw` to the registry entry (`Handles`), memory to
handle or retained entry (`Accounting`), retention to the pin (`Pinning`), a
doomed slot to refusal by the fatal registry, full or not, or by the owner that
was retained (`Refusing`), running
engines to memory (`Engines`), and says a slot holds one board (`Exclusive`).

**D11Tail.**  `Runs` says of each run what it has not touched at its early
stages, that completed and continued entries add up to those the loop has
passed, and that only a dead window has swallowed a write, with the checked
read still ahead.  `Doomed` says that a device whose programming stopped is out
of any run, refused by the FIFO registry whether it fitted or not, and the
module pinned, which is why a reload cannot forget it.  `Held`: a live owner is
named by the handle of a run that has yet to give it back.

**CalStages.**  Each script of `D11Mac` is first reduced to what it may leave
(the `Outcome` lemmas): what holds whatever read lies and wherever the window
dies, and what more holds when it returns 0.  `Balanced` then says, step by
step of each stage, whether the MAC is as found or held, how many references
are open and who has to give them back, unless a callback has failed;
`Decided` says which steps belong to a failure.

**RxEngine.**  `Gate` says that handler and tasklet rest from the end of a
teardown to the end of the next start.  `Chained` follows the frame lengths in
the ring as links from slot 0 to the frame in progress and puts the consumer on
a link, for any set of lengths; quotients enter only by the two bounds that pin
them down.  `Woken` is the lost-wakeup argument: a frame that became whole
after the tasklet had looked has latched an interrupt since, or the tasklet is
scheduled, or the last drain used up its budget.  `Armed` says who will restore
each mask that is off.

**MacOps.**  While a start is in progress its stage determines the PHY life cycle
exactly (`Climbing`), with one lemma per rung showing that the guards of
`ob_phy.h` are open there; `Starting` says what the other records are meanwhile,
`Untouched` what they are before the first start, `OnRecord` that an interface
is open or on record only behind a start that went through, and `LossIsOdd` that
a loss is one of the reasons a start may fail for.

**Bringup.**  A run can only try some sets of parameters; the theorems hold for
every set of loads (`LoadsAssumption` says no more than that a load is a set of
parameters), with all modifiers at once and in any order of loads, removals,
losses and reboots.  A program has up to two hundred steps, and what a step
needs was often done by another stage, so `IInv` cannot name the steps.  Its
core, `Probing`, says that the program in progress can be labelled: there is a
`Point` in front of every step, such that each step links its two points and the
state fits the one in front of the next step.  A point holds what the program
knows there: the states published, how far the firmware chain is, what is lent
and acquired, whether the OTP word was read, whether a failure is being kept.
`Link` is about a single step: what may be relied on there (`Allows`), where it
leads if it goes right (`Moves`), and that the probe may be given up there
(`Exits`).  Two arguments meet in it.

- *Of the programs*, never of states: each piece of `Interconnect`,
  `RadioStages` and `Programs` leads from its entry point to its exit point for
  every load and mode (`Does`, `Runs`), and pieces are joined as in a Hoare
  logic, up to `ProgramRuns`: every program leads from `Start` to a point where
  a probe may end.  This is where "no gate asks for a state that no stage
  leaves" and "whatever is taken is given back on every path" are proved.
- *Of the kinds of steps*, never of programs: an action that takes a step from a
  state that fits its point leaves one that fits the next point, or is caught at
  the nearest step that catches a kept failure (the least such step, by the
  library's well-foundedness of the naturals), or ends the probe in a state that
  satisfies `Bound` or `Failed`.  One lemma per action.

The one jump in a program, of a board that the radio prefix does not support,
lands: a mode with the step `board` has a step `blocked` (`RadioIsBlocked`), and
`Allows` asks of both the same point, behind the firmware chain with nothing
lent.  `Sound`, `Bound` and `Failed` say what outlives the probe; `Idle`, what a
load starts from.  What `Allows` asks of a gate is waived for the three kinds of
loads that `HealthyProbeBinds` names and for no others (`Exempt`); the staged
diagnosis never gets past one of its gates, and the points behind are `never`.

Only model-checked: the two invariants of `PhyRoutines`, a module without
constants, whose run is exhaustive (all routines, all facts, every failing call),
so that it already shows all a theorem would; and all liveness
(`EveryPacketDisposed`, `StoppedQueueWakes`, `EveryRunEnds`, `TeardownEnds`),
which is out of the prover's reach together with `ENABLED` and induction over
data.

## 5. Where code and comments disagree

With a run:

1. `dma_stop`: the RX engine is enabled before `lc->rx` says so
   (`ob_d3a0.c:551`, `:1054-1057`); a readback that differs makes the teardown
   skip it and free its rings, against `ob_d3a0.h:154-155`.
2. `loss_record`: the wrapper modes (`ob_diag.c:198`, `:534`), the identity
   probes (`ob_si.c:1728` and eight more) and the boundary witness
   (`ob_d3b.c:523`, also `D11Tail_lost.cfg`) set `hw->dev_lost` themselves;
   `ob_dev_lost_latch` then never runs, no fatal record is written, and the next
   binding drives the device again, against `ob_d3a0.h:378-384`.

With a configuration that reproduces it:

3. `D11Tail_mutation.cfg`: the modes that run D2A through `ob_initvals_run_d2b`
   return a failure after the first hardware write as a probe error
   (`ob_core.c:1463`), against `ob_core.c:772-773`.
4. `D11Tail_classified.cfg`: the reboot-required classification lives in
   `struct ob_hw` (`ob_d3a1.c:1241`) and is gone at the next probe, against
   `ob_d11_tail_plan.h:141-144`.
5. `DmaLifetime_unload.cfg`: the module pin is taken with `__module_get` when it
   may already be too late (`ob_dma_fatal.c:188`), against `ob_d3a0.c:991-993`.
   `TxPath_publish.cfg`: a refused submission releases its descriptor in place
   but the producer index stays advanced (`ob_tx_path.c:212`); behind an older
   packet the hole is exposed by the next publication, against
   `ob_tx_path.h:14-16`.
6. `MCBringup_StagedDiagRuns.cfg`: D2A asks for the core in a state
   (`ob_ucode.c:322`, `:149`) that `rev42_diag_probe` never publishes, so
   `rev42_diag_full=1` fails on every device, against `ob_diag.c:13-16`.
7. `CalStages_QuiescedEntryAccepted.cfg`: a MAC paused at startup is accepted by
   `ob_d11_quiesce_for_radio` and refused by the synthesizer step
   (`ob_radio.h:583`), so the branch logged at `ob_radio.c:1788-1790` cannot be
   reached.  For the same reason `radio2069_rev4_probe` can never succeed
   behind the firmware chain, which leaves the MAC so on purpose
   (`ob_lifecycle.c:94`, `ob_lifecycle.h:119`; `Bringup!Rev4ProbeRuns`).
   `CalStages_SuspendUnwinds.cfg`: a suspend that fails leaves the wake
   override and the cleared EN_MAC, against `ob_acphy_cal_write_stage.h:121`.
   `CalStages_ReplayFailStop.cfg`: the replay returns 0 for every status
   (`ob_phy.c:1757-1771`), against `ob_core.c:2047-2048`.

8. `CalStages_WritesAreBracketed.cfg`: `ob_acphy_calibration_w2_replay` passes
   `&w2`, a `struct ob_acphy_cal_w2_ctx` (`ob_phy.c:1521-1526`), as the context
   (`:1720`) of callbacks (`:1715-1716`) that cast it to `struct ob_hw *`
   (`:1179-1195`).  They read and write the latch, refcount and bitmap of a
   device (`ob_core.h:408`, `:458-459`) past the end of `w2`, so that the replay
   writes PHY 0x0070 without an entry that counts at the device, against
   `ob_acphy_cal_w2_replay.h:23`.  The outcomes are undefined; the model has
   success, failure and a fault, and leaves out what else on the stack may change.

Written into properties as exceptions, or seen while modelling:

9. PHY routines that refuse behind calls they made (`PhyRoutines!RefusesLate`):
   `ob_phy_9a539.c` with a band or limits its children refuse, the composition
   of `ob_phy_post_lpf.c` (`nested_912` is compared at :48-62, behind the LPF
   block), `ob_phy_a7089_txpwr.c` without its MAC operations.
   `ob_acphy_cal_run` and the Farrow routine may stop with the MAC suspended,
   and their results have no place for it.
10. The copy of the nested bytes (`nested_456`, `coefficient_matrix_after`) and
   the carrier-search count change before the effects they stand for.  The PHY
   restore of a register that was read wrong is never noticed.
11. Read-modify-writes that take all ones for a value: `ob_radio.c:818-821`,
    `ob_phy_post_lpf.c:365-367`, `ob_diag.c:860-861`, `:1159-1161`, `:1608`,
    `:1718-1724`.  The OTP diagnosis clears its power bit again instead of
    restoring the word it found (`ob_si.c:977-980`).
12. The `sb_reset` mode uses plain accesses only, so a loss there is a probe
    error; the boundary witness takes all ones of a fast read of the island for
    a live window (`ob_d3b.c:724-747`).
13. `ob_dma.c:513` leaves `hw->dma_owner` set after the owner was transferred,
    where `ob_dma_owner.h:17-18` says it is cleared.
14. An interface opened first on a wide channel fails its start for good.
15. A handler of the shared line between the two unmasks of the RX init can
    abort the tasklet before the init writes the second mask
    (`ob_rx.c:580-596`); harmless, as the quiesce masks both.

## 6. Not modelled, and why

Register values, and the value checks behind a failing step (a step may fail,
which is what its caller sees); which registers the straight-line parts of PHY
and radio stages write; descriptor encodings; the M32 family of `ob_dma.c`;
recorded evidence, counters, the device loss trace and logging; live-resource
censuses, adopted handles and reference counts of the owner registry; the
802.11 header check and the queue operations the path never calls; the
decoding of RX and TX status words, which nothing reaches in this version; the
arithmetic of `ob_channel.c` and `ob_rate.c`; the device profiles, which are
data, and the gate number.  The generated tables (`ob_acphy_tables.h`,
`ob_acphy_init_ops.h`, `ob_acphy_channels.h`, `bcm43xx_chan_tuning_data.c`: some
22 000 lines) are data.  The calibration kick is a read only, as
`ob_acphy_cal_w2_kick_allowed` is false.

## 7. Plan

1. The decoders (RX and TX status, frame IDs) against reference definitions,
   once a caller reaches them; the RX half of the descriptor ring with its
   encodings.
2. `DmaLifetime` and `D11Tail` as refinements of one abstract specification of
   "memory outlives the engines", which the module-wide registries implement
   for both.
