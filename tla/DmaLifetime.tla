---------------------------- MODULE DmaLifetime ----------------------------
(***************************************************************************)
(* The life of D3A0 DMA memory: src/ob_d3a0.c, run by the dma-test, D3A1   *)
(* and D3B modes of ob_probe (src/ob_core.c), on several devices at once,  *)
(* over the registries of DmaRegistry.                                     *)
(*                                                                         *)
(* A probe consults both registries, creates an owner, allocates the       *)
(* rings, programs four TX engines and one RX engine, validates them and   *)
(* tears everything down again.  Memory is freed only after every engine   *)
(* it knows to be programmed was seen to stop; else it is retained, the    *)
(* device stays bound, and only a reboot clears the record.  Each action   *)
(* is what one device's thread does between two accesses to the shared     *)
(* registries.  A trusted register read may find the device lost.          *)
(*                                                                         *)
(* External: PCI hotplug (a slot holds one board at a time) and the module *)
(* loader, which unloads the module when nothing holds a reference to it   *)
(* and does not look again once it has begun.                              *)
(***************************************************************************)
EXTENDS DmaRegistry

CONSTANTS
  NumTx,            \* OB_D3A0_TX_CHANNELS = 4
  ProbeDuringUnload \* may the loader begin while a probe is still running

ASSUME LifetimeAssumption ==
  /\ NumTx \in Nat \ {0}
  /\ ProbeDuringUnload \in BOOLEAN

TxChannels == 0 .. NumTx - 1
Rx == NumTx                    \* the FIFO0 RX engine, programmed last
Channels == 0 .. NumTx

VARIABLES
  hw,         \* device |-> struct ob_hw of its probe, Gone when there is none
  owners,     \* the owner registry
  fatal,      \* the fatal registry
  memory,     \* devices with DMA-visible memory allocated
  engine,     \* device |-> engines whose enable bit is set in the hardware
  unloading,  \* the module is being unloaded
  doomed      \* history: devices whose DMA was given up

vars == <<hw, owners, fatal, memory, engine, unloading, doomed>>

-----------------------------------------------------------------------------
\* Where the thread of a device is.
Stages == {"absent", "guarded", "admitted", "prefix", "owner", "alloc",
           "program", "live", "teardown", "free", "finish", "retain", "bound"}

\* handle: hw->dma_owner.  lc: struct ob_d3a0_lifecycle.
Gone ==
  [stage |-> "absent", handle |-> NoEntry, programmed |-> {}, failed |-> FALSE,
   lost |-> FALSE, freeAllowed |-> FALSE, fatal |-> FALSE]

Hw ==
  [stage : Stages, handle : Entries \cup {NoEntry},
   programmed : SUBSET Channels,  \* lc->tx[], lc->rx = OB_D3A0_PROGRAMMED
   failed : BOOLEAN,              \* what ob_d3a0_test will return
   lost : BOOLEAN,                \* hw->dev_lost
   freeAllowed : BOOLEAN,         \* lc->free_allowed, lc->engines_stopped
   fatal : BOOLEAN]               \* lc->fatal

Init ==
  /\ hw = [d \in Devices |-> Gone]
  /\ owners = NoOwners
  /\ fatal = NoFatal
  /\ memory = {}
  /\ engine = [d \in Devices |-> {}]
  /\ unloading = FALSE
  /\ doomed = {}

At(d, stage) == hw[d].stage = stage
Goto(d, stage) == hw' = [hw EXCEPT ![d].stage = stage]

\* Bring-up fails: what was set up is torn down, and so is the probe.
FailTo(d, stage) == hw' = [hw EXCEPT ![d].stage = stage, ![d].failed = TRUE]

\* ob_dev_lost_latch: no free, and the device is recorded.
LoseTo(d, stage) ==
  /\ hw' = [hw EXCEPT ![d].stage = stage, ![d].failed = TRUE, ![d].lost = TRUE,
                      ![d].fatal = TRUE, ![d].freeAllowed = FALSE]
  /\ fatal' = Latch(fatal, d)
  /\ doomed' = doomed \cup {d}

-----------------------------------------------------------------------------
(***************************************************************************)
(* Admission (ob_probe): the owner registry, then the fatal registry, then *)
(* both again right before the hardware is touched.                        *)
(***************************************************************************)
GuardOwner(d) ==
  /\ At(d, "absent")
  /\ ~unloading
  /\ \A e \in Devices : SameSlot(d, e) => At(e, "absent")
  /\ ~OwnerRefused(owners, d)
  /\ Goto(d, "guarded")
  /\ UNCHANGED <<owners, fatal, memory, engine, unloading, doomed>>

GuardFatal(d) ==
  /\ At(d, "guarded")
  /\ Goto(d, IF FatalRefused(fatal, d) THEN "absent" ELSE "admitted")
  /\ UNCHANGED <<owners, fatal, memory, engine, unloading, doomed>>

\* ob_d11_prefix_entry_preflight
Preflight(d) ==
  /\ At(d, "admitted")
  /\ Goto(d, IF FatalRefused(fatal, d) \/ OwnerRefused(owners, d) THEN "absent"
             ELSE "prefix")
  /\ UNCHANGED <<owners, fatal, memory, engine, unloading, doomed>>

\* The D2B prefix resets the D11 core, which stops every engine.  It may also
\* fail or find the device lost; nothing is allocated then.
Prefix(d) ==
  /\ At(d, "prefix")
  /\ engine' = [engine EXCEPT ![d] = {}]
  /\ Goto(d, "owner")
  /\ UNCHANGED <<owners, fatal, memory, unloading, doomed>>

PrefixFails(d) ==
  /\ At(d, "prefix")
  /\ hw' = [hw EXCEPT ![d] = Gone]
  /\ UNCHANGED <<owners, fatal, memory, engine, unloading, doomed>>

PrefixLost(d) ==
  /\ At(d, "prefix")
  /\ LoseTo(d, "bound")
  /\ UNCHANGED <<owners, memory, engine, unloading>>

-----------------------------------------------------------------------------
(***************************************************************************)
(* ob_d3a0_bringup.                                                        *)
(***************************************************************************)

\* The owner comes first.  A refusal may poison the registry.
EnsureOwner(d) ==
  /\ At(d, "owner")
  /\ owners' = Create(owners, d)
  /\ IF CreateResult(owners, d) = "OK"
     THEN hw' = [hw EXCEPT ![d].stage = "alloc", ![d].handle = FirstFree(owners)]
     ELSE FailTo(d, "teardown")
  /\ UNCHANGED <<fatal, memory, engine, unloading, doomed>>

\* The owner itself is kzalloc'ed, with no memory for it nothing was changed.
EnsureOwnerNoMem(d) ==
  /\ At(d, "owner")
  /\ CreateResult(owners, d) = "OK"
  /\ FailTo(d, "teardown")
  /\ UNCHANGED <<owners, fatal, memory, engine, unloading, doomed>>

\* ob_dma_owner_finish
Released(d) ==
  IF hw[d].handle = NoEntry THEN owners ELSE ReleaseOwner(owners, hw[d].handle, d)

\* No pool: the owner is released before anything was allocated.
PoolFails(d) ==
  /\ At(d, "alloc")
  /\ owners' = Released(d)
  /\ hw' = [hw EXCEPT ![d].stage = "teardown", ![d].failed = TRUE,
                      ![d].handle = NoEntry]
  /\ UNCHANGED <<fatal, memory, engine, unloading, doomed>>

Allocate(d) ==
  /\ At(d, "alloc")
  /\ memory' = memory \cup {d}
  /\ Goto(d, "program")
  /\ UNCHANGED <<owners, fatal, engine, unloading, doomed>>

\* Mutant: the owner is released as if the pool did not exist either.
AllocateFailsReleased(d) ==
  /\ At(d, "alloc")
  /\ memory' = memory \cup {d}
  /\ owners' = Released(d)
  /\ FailTo(d, "teardown")
  /\ UNCHANGED <<fatal, engine, unloading, doomed>>

\* The pool exists but a ring or a buffer does not.
AllocateFails(d) ==
  /\ At(d, "alloc")
  /\ memory' = memory \cup {d}
  /\ FailTo(d, "teardown")
  /\ UNCHANGED <<owners, fatal, engine, unloading, doomed>>

NextChannel(d) == Cardinality(hw[d].programmed)

\* ob_d3a0_tx_program: CONTROL is read, then written with the enable bit.
ProgramTx(d, ch) ==
  /\ At(d, "program")
  /\ ch = NextChannel(d)
  /\ engine' = [engine EXCEPT ![d] = @ \cup {ch}]
  /\ hw' = [hw EXCEPT ![d].programmed = @ \cup {ch}]
  /\ UNCHANGED <<owners, fatal, memory, unloading, doomed>>

ProgramTxLost(d, ch) ==
  /\ At(d, "program")
  /\ ch = NextChannel(d)
  /\ LoseTo(d, "teardown")
  /\ UNCHANGED <<owners, memory, engine, unloading>>

\* ob_d3a0_rx_program: the enable bit is written first; the readbacks that
\* follow may match, differ (the engine may be running or not) or be lost.
ProgramRx(d) ==
  /\ At(d, "program")
  /\ NextChannel(d) = Rx
  /\ engine' = [engine EXCEPT ![d] = @ \cup {Rx}]
  /\ hw' = [hw EXCEPT ![d].stage = "live", ![d].programmed = @ \cup {Rx}]
  /\ UNCHANGED <<owners, fatal, memory, unloading, doomed>>

ProgramRxFails(d) ==
  /\ At(d, "program")
  /\ NextChannel(d) = Rx
  /\ \E on \in SUBSET {Rx} : engine' = [engine EXCEPT ![d] = @ \cup on]
  /\ FailTo(d, "teardown")
  /\ UNCHANGED <<owners, fatal, memory, unloading, doomed>>

ProgramRxLost(d) ==
  /\ At(d, "program")
  /\ NextChannel(d) = Rx
  /\ engine' = [engine EXCEPT ![d] = @ \cup {Rx}]
  /\ LoseTo(d, "teardown")
  /\ UNCHANGED <<owners, memory, unloading>>

\* ob_d3a0_validate and, in the D3A1 and D3B modes, what runs while the
\* engines are live.
Live(d) ==
  /\ At(d, "live")
  /\ Goto(d, "teardown") \/ FailTo(d, "teardown")
  /\ UNCHANGED <<owners, fatal, memory, engine, unloading, doomed>>

\* A trusted read comes back all-ones.
LiveLost(d) ==
  /\ At(d, "live")
  /\ LoseTo(d, "teardown")
  /\ UNCHANGED <<owners, memory, engine, unloading>>

\* The boundary witness of D3B sets hw->dev_lost itself when a read stalls: no
\* registry is told, the teardown is left out, and lc->fatal stays clear.
LiveStalled(d) ==
  /\ At(d, "live")
  /\ hw' = [hw EXCEPT ![d].stage = "retain", ![d].failed = TRUE, ![d].lost = TRUE]
  /\ doomed' = doomed \cup {d}
  /\ UNCHANGED <<owners, fatal, memory, engine, unloading>>

-----------------------------------------------------------------------------
(***************************************************************************)
(* ob_d3a0_teardown.                                                       *)
(***************************************************************************)

\* After a device loss nothing is written any more.
TeardownLost(d) ==
  /\ At(d, "teardown")
  /\ hw[d].lost
  /\ Goto(d, "retain")
  /\ UNCHANGED <<owners, fatal, memory, engine, unloading, doomed>>

\* The first read of ob_d3a0_quiesce finds the device lost.
QuiesceLost(d) ==
  /\ At(d, "teardown")
  /\ ~hw[d].lost
  /\ LoseTo(d, "retain")
  /\ UNCHANGED <<owners, memory, engine, unloading>>

\* Every programmed engine was seen to stop.
QuiesceOk(d) ==
  /\ At(d, "teardown")
  /\ ~hw[d].lost
  /\ engine' = [engine EXCEPT ![d] = @ \ hw[d].programmed]
  /\ hw' = [hw EXCEPT ![d].stage = "free", ![d].freeAllowed = TRUE]
  /\ UNCHANGED <<owners, fatal, memory, unloading, doomed>>

\* Mutant: a contained core is good enough to free the memory.
StopFailedContained(d, contained) ==
  /\ hw' = [hw EXCEPT ![d].stage = IF contained THEN "free" ELSE "retain",
                      ![d].failed = TRUE, ![d].freeAllowed = contained,
                      ![d].fatal = ~contained]
  /\ fatal' = Latch(fatal, d)
  /\ doomed' = doomed \cup {d}

\* Some programmed engine did not: containment (a core reset) is tried, but
\* whether it was seen to work makes no difference.
StopFailed(d, contained) ==
  /\ hw' = [hw EXCEPT ![d].stage = "retain", ![d].failed = TRUE,
                      ![d].freeAllowed = FALSE, ![d].fatal = TRUE]
  /\ fatal' = Latch(fatal, d)
  /\ doomed' = doomed \cup {d}

QuiesceFails(d) ==
  /\ At(d, "teardown")
  /\ ~hw[d].lost
  /\ \E running \in SUBSET hw[d].programmed \ {{}}, contained \in BOOLEAN :
       /\ engine' = [engine EXCEPT ![d] = (@ \ hw[d].programmed) \cup running]
       /\ StopFailed(d, contained)
  /\ UNCHANGED <<owners, memory, unloading>>

\* ob_d3a0_free_mem, in the order of the code: the memory, then its owner.
FreeMem(d) ==
  /\ At(d, "free")
  /\ memory' = memory \ {d}
  /\ Goto(d, "finish")
  /\ UNCHANGED <<owners, fatal, engine, unloading, doomed>>

Finish(d) ==
  /\ At(d, "finish")
  /\ owners' = Released(d)
  /\ hw' = IF hw[d].failed THEN [hw EXCEPT ![d] = Gone]
           ELSE [hw EXCEPT ![d].stage = "bound", ![d].handle = NoEntry]
  /\ UNCHANGED <<fatal, memory, engine, unloading, doomed>>

\* ob_dma_owner_retain_d3a0, which makes an owner when there is none yet.
EnsuredHandle(d) ==
  IF hw[d].handle # NoEntry THEN hw[d].handle
  ELSE IF CreateResult(owners, d) = "OK" THEN FirstFree(owners) ELSE NoEntry

Ensured(d) == IF hw[d].handle # NoEntry THEN owners ELSE Create(owners, d)

Retained(d) ==
  IF EnsuredHandle(d) = NoEntry THEN Ensured(d)
  ELSE RetainOwner(Ensured(d), EnsuredHandle(d), ~fatal.pinned)

\* For an owner made that late there may be no memory.
Keeps(d) == {Retained(d)} \cup (IF hw[d].handle = NoEntry THEN {owners} ELSE {})

\* The end of a teardown that could not be verified, or was left out.  ob_probe
\* keeps the device bound for lc->fatal only.
Retain(d) ==
  /\ At(d, "retain")
  /\ owners' \in Keeps(d)
  /\ hw' = IF ~hw[d].fatal THEN [hw EXCEPT ![d] = Gone]
           ELSE [hw EXCEPT ![d].stage = "bound",
                           ![d].handle = IF owners' = Retained(d) THEN EnsuredHandle(d)
                                         ELSE NoEntry]
  /\ UNCHANGED <<fatal, memory, engine, unloading, doomed>>

\* ob_d3a0_remove and its D3A1 and D3B counterparts; devres then frees hw.
Remove(d) ==
  /\ At(d, "bound")
  /\ owners' \in IF hw[d].fatal THEN Keeps(d) ELSE {owners}
  /\ hw' = [hw EXCEPT ![d] = Gone]
  /\ UNCHANGED <<fatal, memory, engine, unloading, doomed>>

-----------------------------------------------------------------------------
Pinned == owners.pinned \/ fatal.pinned
Idle == \A d \in Devices : hw[d].stage \in {"absent", "bound"}

\* The loader refuses while a reference is held.  Loading the module again
\* starts from empty registries.
BeginUnload ==
  /\ ~unloading
  /\ ~Pinned
  /\ ProbeDuringUnload \/ Idle
  /\ unloading' = TRUE
  /\ UNCHANGED <<hw, owners, fatal, memory, engine, doomed>>

EndUnload ==
  /\ unloading
  /\ \A d \in Devices : At(d, "absent")
  /\ owners' = NoOwners
  /\ fatal' = NoFatal
  /\ unloading' = FALSE
  /\ UNCHANGED <<hw, memory, engine, doomed>>

Step(d) ==
  \/ GuardOwner(d)
  \/ GuardFatal(d)
  \/ Preflight(d)
  \/ Prefix(d)
  \/ PrefixFails(d)
  \/ PrefixLost(d)
  \/ EnsureOwner(d)
  \/ EnsureOwnerNoMem(d)
  \/ PoolFails(d)
  \/ Allocate(d)
  \/ AllocateFails(d)
  \/ \E ch \in TxChannels : ProgramTx(d, ch)
  \/ \E ch \in TxChannels : ProgramTxLost(d, ch)
  \/ ProgramRx(d)
  \/ ProgramRxFails(d)
  \/ ProgramRxLost(d)
  \/ Live(d)
  \/ LiveLost(d)
  \/ LiveStalled(d)
  \/ TeardownLost(d)
  \/ QuiesceLost(d)
  \/ QuiesceOk(d)
  \/ QuiesceFails(d)
  \/ FreeMem(d)
  \/ Finish(d)
  \/ Retain(d)
  \/ Remove(d)

Next ==
  \/ \E d \in Devices : Step(d)
  \/ BeginUnload
  \/ EndUnload

Spec == Init /\ [][Next]_vars

-----------------------------------------------------------------------------
(***************************************************************************)
(* Properties.                                                             *)
(***************************************************************************)

\* The variables have the types of the C structures.
TypeOK ==
  /\ hw \in [Devices -> Hw]
  /\ owners \in OwnerRegistry
  /\ fatal \in FatalRegistry
  /\ memory \subseteq Devices
  /\ engine \in [Devices -> SUBSET Channels]
  /\ unloading \in BOOLEAN
  /\ doomed \subseteq Devices

\* Every DMA allocation has an accountable holder: a registry entry names the
\* device, a retained one as soon as struct ob_hw no longer exists; unloading
\* the module cannot make it forget.
\* (ob_d3a0_bringup: "every DMA allocation below needs an accountable holder
\* that survives the devres release of struct ob_hw".)
OwnedBy(d, states) ==
  \E i \in Entries : owners.entry[i].id = d /\ owners.entry[i].state \in states
MemoryAccountable ==
  \A d \in memory :
    OwnedBy(d, IF At(d, "absent") THEN {"RETAINED"} ELSE {"LIVE", "RETAINED"})

\* Until a reboot, neither a device whose DMA was once given up nor any other
\* board in its slot is driven again, whatever the registries had room for.
NeverDrivenAgain ==
  \A d \in doomed, e \in Devices :
    SameSlot(d, e) /\ ~At(e, "absent") /\ ~At(e, "guarded") =>
      e = d /\ (hw[e].fatal \/ hw[e].lost)

\* The TX engines never outlive their rings.
NoTxAfterFree ==
  \A d \in Devices : engine[d] \cap TxChannels # {} => d \in memory

\* A retained owner is never released, re-keyed or re-used.
RetainedForever ==
  [][\A i \in Entries :
       owners.entry[i].state = "RETAINED" => owners'.entry[i] = owners.entry[i]]_vars

\* "free_allowed implies every programmed DMA engine had a verified normal
\* stop" (ob_d3a0.h), the engines whose registers were written included.
FreeAllowedMeansStopped == \A d \in Devices : hw[d].freeAllowed => engine[d] = {}
=============================================================================
