------------------------------ MODULE D11Tail ------------------------------
(***************************************************************************)
(* The D3A1 and D3B modes of ob_probe: src/ob_d3a1.c, src/ob_d3a1.h and    *)
(* src/ob_d3b.c, on several devices at once.                               *)
(*                                                                         *)
(* After the D2B prefix a run flushes the TX FIFOs and programs them entry *)
(* by entry, polling the hardware after each (sub_67efd), then runs        *)
(* T1 -> DMA -> T2 -> validation; D3B goes on with the MHF words and the   *)
(* bsinitvals table while the DMA engines are live.  A device whose FIFO   *)
(* programming stopped half way, or which was lost, must not be tried      *)
(* again before a reboot: a third registry, of FIFO failures, remembers    *)
(* the former, the registries of DmaRegistry the latter.                   *)
(*                                                                         *)
(* External: the device, whose register window may stop answering at any   *)
(* time of a run (every read then gives all-ones, every write is dropped)  *)
(* or give a single all-ones read; PCI hotplug, after which the window     *)
(* answers again; the module loader.                                       *)
(***************************************************************************)
EXTENDS DmaRegistry

CONSTANTS
  FifoCap,     \* OB_D3A1_FIFO_FAIL_MAX = 8
  MaxReads,    \* reads of one bounded poll: OB_D3A1_FIFO_POLL_MAX_ITERS + 1 = 21
  NumEntries,  \* OB_D3A1_FIFO42_ENTRIES = 42
  NumMhf,      \* OB_D3B_MHF_COUNT = 5
  NumRecords   \* OB_D3B_BS_RECORDS = 73

ASSUME TailAssumption ==
  /\ FifoCap \in Nat \ {0}
  /\ MaxReads \in Nat \ {0}
  /\ NumEntries \in Nat \ {0}
  /\ NumMhf \in Nat \ {0}
  /\ NumRecords \in Nat \ {0}

VARIABLES
  config,     \* the module parameters of this load
  hw,         \* device |-> struct ob_hw of its probe, Gone when there is none
  owners,     \* the owner registry
  fatal,      \* the fatal registry
  fifo,       \* the FIFO failure registry
  window,     \* the devices whose register window answers
  halfDone,   \* history: devices whose FIFO programming stopped half way
  classified, \* history: devices a failure record called reboot-required
  sawOnes     \* history: devices a FIFO read of whose run gave all-ones

vars == <<config, hw, owners, fatal, fifo, window, halfDone, classified, sawOnes>>
registries == <<owners, fatal, fifo>>
histories == <<halfDone, classified, sawOnes>>

-----------------------------------------------------------------------------
\* Module parameters: d11_tail_test_only or bsinitvals_test_only, the modifier
\* d11_fifo530_continue, and d3b_boundary_witness, of D3B only.
Configs ==
  {c \in [mode : {"D3A1", "D3B"}, optIn : BOOLEAN, witness : BOOLEAN] :
     c.witness => c.mode = "D3B"}

\* Where the thread of a device is.
Waiting == {"absent", "guarded", "admitted", "bound"}
Fixup == {"poll540", "poll530", "postread"}
BandInit == {"witness", "checkpoint", "mhf", "mhfdata", "table", "record",
             "recordcheck", "bandcheck"}
Stages == Waiting \cup Fixup \cup BandInit \cup
          {"prefix", "mutated", "gate", "t1", "dma", "t2", "validate",
           "teardown", "retain"}

\* The steps of a run that follow the FIFO programming.
Later == BandInit \cup {"t1", "dma", "t2", "validate"}

Gone ==
  [stage |-> "absent", n |-> 0, reads |-> 0, completed |-> 0, continued |-> 0,
   failed |-> "NONE", handle |-> NoEntry, lost |-> FALSE, fatal |-> FALSE,
   deadWrites |-> 0]

Hw ==
  [stage : Stages,
   n : Nat,           \* index of the FIFO entry, MHF word or table record
   reads : Nat,       \* reads made by the poll in progress
   completed : Nat,   \* st->fifo_poll_completed
   continued : Nat,   \* hw->d3a1_fifo530.expired_continued
   failed : {"NONE", "DMA", "T2", "VALIDATE", "D3B"},
   handle : Entries \cup {NoEntry},   \* hw->dma_owner
   lost : BOOLEAN,                    \* hw->dev_lost
   fatal : BOOLEAN,                   \* hw->d3a0.lc.fatal
   deadWrites : Nat]                  \* history: D3B words written to a dead window

FifoRegistry == [used : SUBSET Devices, poisoned : BOOLEAN, pinned : BOOLEAN]
NoFifoFailures == [used |-> {}, poisoned |-> FALSE, pinned |-> FALSE]

Init ==
  /\ config \in Configs
  /\ hw = [d \in Devices |-> Gone]
  /\ owners = NoOwners
  /\ fatal = NoFatal
  /\ fifo = NoFifoFailures
  /\ window = Devices
  /\ halfDone = {}
  /\ classified = {}
  /\ sawOnes = {}

At(d, stage) == hw[d].stage = stage
Goto(d, stage) == hw' = [hw EXCEPT ![d].stage = stage]
Forget(d) == hw' = [hw EXCEPT ![d] = Gone]
Answers(d) == d \in window

\* ob_dev_lost_latch: nothing happens twice.
LatchLost(d) == fatal' = IF hw[d].lost THEN fatal ELSE Latch(fatal, d)
LostIn(d, stage, why) ==
  [hw[d] EXCEPT !.stage = stage, !.lost = TRUE,
                !.fatal = @ \/ ~hw[d].lost, !.failed = why]
LoseTo(d, stage, why) ==
  /\ LatchLost(d)
  /\ hw' = [hw EXCEPT ![d] = LostIn(d, stage, why)]

-----------------------------------------------------------------------------
(***************************************************************************)
(* Admission: the FIFO failure registry, the owner registry, the fatal     *)
(* registry, and the last two again right before D2A.                      *)
(***************************************************************************)

\* ob_d3a1_fifo_reprobe_forbidden
FifoRefused(f, d) == f.poisoned \/ d \in f.used

\* Mutant: a failure that finds no room is forgotten.
RecordFailureNoPoison(f, d) ==
  [used |-> IF Cardinality(f.used) < FifoCap THEN f.used \cup {d} ELSE f.used,
   poisoned |-> f.poisoned, pinned |-> TRUE]

\* ob_d3a1_fifo_failure_record: an unrecordable failure forbids all probes.
RecordFailure(f, d) ==
  LET fits == d \in f.used \/ Cardinality(f.used) < FifoCap
  IN  [used |-> IF fits THEN f.used \cup {d} ELSE f.used,
       poisoned |-> f.poisoned \/ ~fits,
       pinned |-> TRUE]

\* Only this exact board is refused for an earlier FIFO failure, any board in
\* the slot for a retained owner.
GuardFifo(d) ==
  /\ At(d, "absent")
  /\ \A e \in Devices : SameSlot(d, e) => At(e, "absent")
  /\ ~FifoRefused(fifo, d)
  /\ ~OwnerRefused(owners, d)
  /\ Goto(d, "guarded")
  /\ window' = window \cup {d}
  /\ UNCHANGED <<config, registries, histories>>

GuardFatal(d) ==
  /\ At(d, "guarded")
  /\ IF FatalRefused(fatal, d) THEN Forget(d) ELSE Goto(d, "admitted")
  /\ UNCHANGED <<config, registries, window, histories>>

\* ob_d11_prefix_entry_preflight, the checks of the test's own needs, and the
\* preflight once more in ob_d3a1_run_prefix.
Preflight(d) ==
  /\ At(d, "admitted")
  /\ \/ ~FatalRefused(fatal, d) /\ ~OwnerRefused(owners, d) /\ Goto(d, "prefix")
     \/ Forget(d)
  /\ UNCHANGED <<config, registries, window, histories>>

\* ob_initvals_run_d2b: the firmware is requested, then D2A writes to the
\* hardware for the first time.  A failure before that is a probe error.
Prefix(d) ==
  /\ At(d, "prefix")
  /\ Goto(d, "mutated") \/ Forget(d)
  /\ UNCHANGED <<config, registries, window, histories>>

\* The rest of D2A and the common initvals, with their postconditions.
PrefixRest(d) ==
  /\ At(d, "mutated")
  /\ (Answers(d) /\ Goto(d, "gate")) \/ Forget(d)
  /\ UNCHANGED <<config, registries, window, histories>>

PrefixLost(d) ==
  /\ At(d, "mutated")
  /\ LoseTo(d, "bound", "NONE")
  /\ UNCHANGED <<config, owners, fifo, window, histories>>

-----------------------------------------------------------------------------
(***************************************************************************)
(* The FIFO programming, ob_d3a1_fifo_fixup.                               *)
(***************************************************************************)

\* ob_d11_tail_entry_preflight and the live re-check of the D2B exit; then the
\* flush command is written and its poll begins.
Gate(d) ==
  /\ At(d, "gate")
  /\ \/ ~FatalRefused(fatal, d) /\ Answers(d) /\ Goto(d, "poll540")
     \/ Forget(d)
  /\ UNCHANGED <<config, registries, window, histories>>

\* What a read of the polled register may give.
Readable(d) == IF Answers(d) THEN {"busy", "done", "ones"} ELSE {"ones"}

\* Mutant: all-ones merely is a register that is not done yet.
PollResultLate(v, reads) ==
  CASE v = "done" -> "COMPLETE"
    [] v # "done" /\ reads = MaxReads -> "EXPIRED"
    [] OTHER -> "AGAIN"

\* ob_d3a1_poll_core: every read is checked for all-ones first.
PollResult(v, reads) ==
  CASE v = "ones" -> "INVALID"
    [] v = "done" -> "COMPLETE"
    [] v = "busy" /\ reads = MaxReads -> "EXPIRED"
    [] OTHER -> "AGAIN"

PollAgain(d) ==
  /\ hw' = [hw EXCEPT ![d].reads = @ + 1]
  /\ UNCHANGED <<config, registries, window, halfDone, classified>>

\* The failure is recorded before the probe returns, and the run is over: after
\* all-ones the device is lost and stays bound, else the probe fails.
FixupFails(d) ==
  /\ fifo' = RecordFailure(fifo, d)
  /\ halfDone' = halfDone \cup {d}
  /\ classified' = classified \cup {d}
  /\ UNCHANGED <<config, owners, window>>

FixupInvalid(d) == LoseTo(d, "bound", "NONE") /\ FixupFails(d)
FixupExpired(d) == Forget(d) /\ FixupFails(d) /\ UNCHANGED fatal

\* The poll of one register is over: on to the next entry of the loop, or to T1.
NextEntry(d, completed, continued) ==
  /\ hw' = [hw EXCEPT ![d].stage = IF hw[d].n = NumEntries THEN "t1" ELSE "poll530",
                      ![d].n = IF @ = NumEntries THEN 0 ELSE @ + 1,
                      ![d].reads = 0,
                      ![d].completed = @ + completed,
                      ![d].continued = @ + continued]
  /\ UNCHANGED <<config, registries, window, halfDone, classified>>

Poll540(d, v) ==
  /\ At(d, "poll540")
  /\ v \in Readable(d)
  /\ sawOnes' = IF v = "ones" THEN sawOnes \cup {d} ELSE sawOnes
  /\ CASE PollResult(v, hw[d].reads + 1) = "INVALID" -> FixupInvalid(d)
       [] PollResult(v, hw[d].reads + 1) = "EXPIRED" -> FixupExpired(d)
       [] PollResult(v, hw[d].reads + 1) = "COMPLETE" -> NextEntry(d, 0, 0)
       [] PollResult(v, hw[d].reads + 1) = "AGAIN" -> PollAgain(d)

\* Mutant: under the opt-in the same entry is polled again.
EntryExpiredRetries(d) ==
  IF config.optIn
  THEN /\ hw' = [hw EXCEPT ![d].reads = 0]
       /\ UNCHANGED <<config, registries, window, halfDone, classified>>
  ELSE FixupExpired(d)

\* A bounded expiry ends the run, unless d11_fifo530_continue was given.
EntryExpired(d) ==
  \/ ~config.optIn /\ FixupExpired(d)
  \/ /\ config.optIn
     /\ Goto(d, "postread")
     /\ UNCHANGED <<config, registries, window, halfDone, classified>>

Poll530(d, v) ==
  /\ At(d, "poll530")
  /\ v \in Readable(d)
  /\ sawOnes' = IF v = "ones" THEN sawOnes \cup {d} ELSE sawOnes
  /\ CASE PollResult(v, hw[d].reads + 1) = "INVALID" -> FixupInvalid(d)
       [] PollResult(v, hw[d].reads + 1) = "EXPIRED" -> EntryExpired(d)
       [] PollResult(v, hw[d].reads + 1) = "COMPLETE" -> NextEntry(d, 1, 0)
       [] PollResult(v, hw[d].reads + 1) = "AGAIN" -> PollAgain(d)

\* One more read; all-ones is fatal here too.
PostRead(d, v) ==
  /\ At(d, "postread")
  /\ v \in Readable(d)
  /\ sawOnes' = IF v = "ones" THEN sawOnes \cup {d} ELSE sawOnes
  /\ IF v = "ones" THEN FixupInvalid(d) ELSE NextEntry(d, 0, 1)

-----------------------------------------------------------------------------
(***************************************************************************)
(* T1 -> DMA -> T2 -> validation, ob_d11_tail_run.                         *)
(***************************************************************************)

\* ob_d3a1_t1 goes through, meets a postcondition that does not hold, or finds
\* the device lost.  No DMA exists yet, hence no teardown.
T1(d) ==
  /\ At(d, "t1")
  /\ Answers(d)
  /\ Goto(d, "dma")
  /\ UNCHANGED <<config, registries, window, histories>>

T1Fails(d) ==
  /\ At(d, "t1")
  /\ classified' = classified \cup {d}
  /\ \/ Forget(d) /\ UNCHANGED fatal
     \/ LoseTo(d, "bound", "NONE")
  /\ UNCHANGED <<config, owners, fifo, window, halfDone, sawOnes>>

\* ob_d3a0_bringup: the owner first.  A refused owner, or a pool that cannot be
\* created and whose owner is released again, leaves no memory behind.
DmaRefused(d) ==
  /\ At(d, "dma")
  /\ owners' = IF CreateResult(owners, d) = "OK" THEN owners ELSE Create(owners, d)
  /\ hw' = [hw EXCEPT ![d].stage = "teardown", ![d].failed = "DMA"]
  /\ UNCHANGED <<config, fatal, fifo, window, histories>>

\* Then memory and engines, one after the other; the device may be lost meanwhile.
Dma(d) ==
  /\ At(d, "dma")
  /\ CreateResult(owners, d) = "OK"
  /\ owners' = Create(owners, d)
  /\ LET held == [hw[d] EXCEPT !.handle = FirstFree(owners)]
         lost == [LostIn(d, "teardown", "DMA") EXCEPT !.handle = FirstFree(owners)]
     IN  \/ /\ Answers(d)
            /\ hw' = [hw EXCEPT ![d] = [held EXCEPT !.stage = "t2"]]
            /\ UNCHANGED fatal
         \/ /\ hw' = [hw EXCEPT ![d] = [held EXCEPT !.stage = "teardown", !.failed = "DMA"]]
            /\ UNCHANGED fatal
         \/ hw' = [hw EXCEPT ![d] = lost] /\ LatchLost(d)
  /\ UNCHANGED <<config, fifo, window, histories>>

\* A step made while the engines are live fails, or finds the device lost: the
\* engines are torn down.
StepFails(d, why) ==
  /\ hw' = [hw EXCEPT ![d].stage = "teardown", ![d].failed = why]
  /\ UNCHANGED <<config, registries, window, histories>>

StepLost(d, why) ==
  /\ LoseTo(d, "teardown", why)
  /\ UNCHANGED <<config, owners, fifo, window, histories>>

T2(d) ==
  /\ At(d, "t2")
  /\ Answers(d)
  /\ Goto(d, "validate")
  /\ UNCHANGED <<config, registries, window, histories>>

\* Mutant: as before the engines were programmed.
T2FailsNoTeardown(d) ==
  /\ At(d, "t2")
  /\ Forget(d)
  /\ UNCHANGED <<config, registries, window, histories>>

T2Fails(d) == At(d, "t2") /\ (StepFails(d, "T2") \/ StepLost(d, "T2"))

\* ob_d3a1_validate; D3A1 stops here, D3B goes on.
AfterPrefix ==
  CASE config.mode = "D3A1" -> "teardown"
    [] config.witness -> "witness"
    [] OTHER -> "checkpoint"

Validate(d) ==
  /\ At(d, "validate")
  /\ Answers(d)
  /\ Goto(d, AfterPrefix)
  /\ UNCHANGED <<config, registries, window, histories>>

ValidateFails(d) ==
  At(d, "validate") /\ (StepFails(d, "VALIDATE") \/ StepLost(d, "VALIDATE"))

-----------------------------------------------------------------------------
(***************************************************************************)
(* The band initialisation of D3B, ob_d3b_test.                            *)
(***************************************************************************)

\* The boundary witness classes its reads by the time they take, and ends with the
\* first that is not live.  A read that stalls sets hw->dev_lost itself.
\* ChipCommon and the PMU, which no state of the D11 can hide ...
CcReads == {"live", "void", "stalled"}

\* ... the clocks of the D11 and controls above the band ...
D11Clocks(d) == {"void", "stalled"} \cup {class \in {"live"} : Answers(d)}

\* ... and the island.  Without witness_v2 all-ones that come back fast are live.
Island == {"live", "void", "stalled"}

Witness(d) ==
  /\ At(d, "witness")
  /\ \E cc \in CcReads, clocks \in D11Clocks(d), island \in Island :
       LET verdict == IF cc # "live" THEN cc ELSE IF clocks # "live" THEN clocks ELSE island
       IN  IF verdict = "live" THEN Goto(d, "checkpoint")
           ELSE hw' = [hw EXCEPT ![d].stage = "teardown", ![d].failed = "D3B",
                                 ![d].lost = @ \/ verdict = "stalled"]
  /\ UNCHANGED <<config, registries, window, histories>>

\* A trusted read, ob_d3b_checkpoint or the OBJADDR readback of a checked SHM
\* write: the device answers, or it is lost.
Trusted(d, next) ==
  \/ /\ Answers(d)
     /\ Goto(d, next)
     /\ UNCHANGED <<config, registries, window, histories>>
  \/ StepLost(d, "D3B")

\* One word is written, whether the window still answers or not.
Written(d, next, more) ==
  /\ hw' = [hw EXCEPT ![d].stage = next, ![d].n = IF more THEN @ + 1 ELSE 0,
                      ![d].deadWrites = IF Answers(d) THEN @ ELSE @ + 1]
  /\ UNCHANGED <<config, registries, window, histories>>

\* The checkpoint before the MHF words.
Checkpoint(d) == At(d, "checkpoint") /\ Trusted(d, "mhf")

\* ob_ucode_write_shm16_checked for each of the MHF words.
MhfSelect(d) == At(d, "mhf") /\ Trusted(d, "mhfdata")

MhfData(d) ==
  /\ At(d, "mhfdata")
  /\ LET more == hw[d].n + 1 < NumMhf
     IN  Written(d, IF more THEN "mhf" ELSE "table", more)

\* The image of the table is missing or malformed, or the checkpoint before
\* its first record passes, or fails.
TableMissing(d) == At(d, "table") /\ StepFails(d, "D3B")
Table(d) == At(d, "table") /\ Trusted(d, "record")

\* Mutant: the checkpoint follows the whole table only.
RecordUnchecked(d) ==
  /\ At(d, "record")
  /\ LET more == hw[d].n + 1 < NumRecords
     IN  Written(d, IF more THEN "record" ELSE "recordcheck", more)

\* ob_d3b_apply_bs: one record, then a checkpoint.
Record(d) ==
  /\ At(d, "record")
  /\ Written(d, "recordcheck", hw[d].n + 1 < NumRecords)

RecordCheck(d) ==
  /\ At(d, "recordcheck")
  /\ Trusted(d, IF hw[d].n = 0 THEN "bandcheck" ELSE "record")

\* ob_d3b_read_post, ob_d3b_validate
BandCheck(d) == At(d, "bandcheck") /\ Trusted(d, "teardown")
BandCheckFails(d) == At(d, "bandcheck") /\ StepFails(d, "D3B")

-----------------------------------------------------------------------------
(***************************************************************************)
(* ob_d3a0_teardown and the end of the run.                                *)
(***************************************************************************)

\* ob_d3a1_fail_record, written once the teardown has returned.
Classify(d, verified) ==
  classified' = IF hw[d].failed \in {"T2", "VALIDATE"} \/ (hw[d].failed = "DMA" /\ ~verified)
                THEN classified \cup {d} ELSE classified

\* Every engine was seen to stop: the memory is freed and its owner released.
TeardownOk(d) ==
  /\ At(d, "teardown")
  /\ ~hw[d].lost
  /\ Answers(d)
  /\ owners' = IF hw[d].handle = NoEntry THEN owners
               ELSE ReleaseOwner(owners, hw[d].handle, d)
  /\ hw' = IF hw[d].failed # "NONE" THEN [hw EXCEPT ![d] = Gone]
           ELSE [hw EXCEPT ![d].stage = "bound", ![d].handle = NoEntry]
  /\ Classify(d, TRUE)
  /\ UNCHANGED <<config, fatal, fifo, window, halfDone, sawOnes>>

\* An engine does not stop, or the device is found lost meanwhile.
TeardownFails(d) ==
  /\ At(d, "teardown")
  /\ ~hw[d].lost
  /\ fatal' = Latch(fatal, d)
  /\ \E lost \in BOOLEAN :
       hw' = [hw EXCEPT ![d].stage = "retain", ![d].fatal = TRUE, ![d].lost = lost]
  /\ UNCHANGED <<config, owners, fifo, window, histories>>

\* The device was lost before: nothing is written any more.  D3B does not even
\* call the teardown, which would set lc->fatal.
TeardownLost(d) ==
  /\ At(d, "teardown")
  /\ hw[d].lost
  /\ hw' = [hw EXCEPT ![d].stage = "retain",
                      ![d].fatal = @ \/ hw[d].failed # "D3B"]
  /\ UNCHANGED <<config, registries, window, histories>>

\* ob_dma_owner_retain_d3a0, which makes an owner when there is none yet.
Handle(d) ==
  IF hw[d].handle # NoEntry THEN hw[d].handle
  ELSE IF CreateResult(owners, d) = "OK" THEN FirstFree(owners) ELSE NoEntry
Ensured(d) == IF hw[d].handle # NoEntry THEN owners ELSE Create(owners, d)
Retained(d) ==
  IF Handle(d) = NoEntry THEN Ensured(d)
  ELSE RetainOwner(Ensured(d), Handle(d), ~fatal.pinned)

\* ob_probe keeps the device bound exactly if lc->fatal is set.
Retain(d) ==
  /\ At(d, "retain")
  /\ owners' = Retained(d)
  /\ hw' = IF hw[d].fatal
           THEN [hw EXCEPT ![d].stage = "bound", ![d].handle = Handle(d)]
           ELSE [hw EXCEPT ![d] = Gone]
  /\ Classify(d, FALSE)
  /\ UNCHANGED <<config, fatal, fifo, window, halfDone, sawOnes>>

\* ob_d3a1_remove, ob_d3b_remove; devres then frees hw.
Remove(d) ==
  /\ At(d, "bound")
  /\ owners' = IF hw[d].fatal THEN Retained(d) ELSE owners
  /\ Forget(d)
  /\ UNCHANGED <<config, fatal, fifo, window, histories>>

-----------------------------------------------------------------------------
\* External: the register window stops answering.
WindowDies(d) ==
  /\ hw[d].stage \notin Waiting
  /\ Answers(d)
  /\ window' = window \ {d}
  /\ UNCHANGED <<config, hw, registries, histories>>

\* External: the module is unloaded, which no reference may prevent, and loaded
\* again with other parameters.
Pinned == owners.pinned \/ fatal.pinned \/ fifo.pinned
Reload ==
  /\ \A d \in Devices : At(d, "absent")
  /\ ~Pinned
  /\ config' \in Configs
  /\ owners' = NoOwners
  /\ fatal' = NoFatal
  /\ fifo' = NoFifoFailures
  /\ UNCHANGED <<hw, window, histories>>

Admission(d) == GuardFifo(d) \/ GuardFatal(d) \/ Preflight(d)
D2b(d) == Prefix(d) \/ PrefixRest(d) \/ PrefixLost(d)
FifoFixup(d) ==
  \/ Gate(d)
  \/ \E v \in {"busy", "done", "ones"} : Poll540(d, v) \/ Poll530(d, v) \/ PostRead(d, v)
TailSteps(d) ==
  T1(d) \/ T1Fails(d) \/ DmaRefused(d) \/ Dma(d) \/ T2(d) \/ T2Fails(d) \/ Validate(d) \/ ValidateFails(d)
Band(d) ==
  Witness(d) \/ Checkpoint(d) \/ MhfSelect(d) \/ MhfData(d) \/ TableMissing(d) \/ Table(d)
  \/ Record(d) \/ RecordCheck(d) \/ BandCheck(d) \/ BandCheckFails(d)
Teardown(d) == TeardownOk(d) \/ TeardownFails(d) \/ TeardownLost(d) \/ Retain(d)

Step(d) == Admission(d) \/ D2b(d) \/ FifoFixup(d) \/ TailSteps(d) \/ Band(d) \/ Teardown(d)

Next ==
  \/ \E d \in Devices : Step(d) \/ Remove(d) \/ WindowDies(d)
  \/ Reload

Spec == Init /\ [][Next]_vars

\* A probe runs in a kernel thread that is scheduled again and again; nobody has
\* to plug a device in.
Running(d) == hw[d].stage # "absent" /\ Step(d)
FairSpec == Spec /\ \A d \in Devices : WF_vars(Running(d))

-----------------------------------------------------------------------------
(***************************************************************************)
(* Properties.                                                             *)
(***************************************************************************)

\* "No retry": a device whose FIFO programming stopped half way is not driven
\* again, whatever the registry had room for, and not after the module was
\* unloaded and loaded again either (ob_d3a1_fifo_failure_record).
NeverRetried ==
  \A d \in halfDone : hw[d].stage \in Waiting /\ (At(d, "bound") => hw[d].fatal)

\* T1 and all that follows run only when every FIFO entry was completed, or
\* expired and was continued under the explicit opt-in; and a FIFO read that
\* gave all-ones ends the run, whatever the reads after it would have given
\* (ob_d3a1_poll_read_invalid: "one transient invalid observation followed by a
\* legitimate-looking completion").
TailOnlyWhenEarned ==
  /\ \A d \in Devices :
       hw[d].stage \in Later =>
         /\ hw[d].completed + hw[d].continued = NumEntries
         /\ hw[d].continued > 0 => config.optIn
  /\ \A d \in sawOnes : hw[d].stage \notin Later /\ (At(d, "bound") => hw[d].fatal)

\* "bounds the unobserved window to the single record already written when the
\* loss happened" (ob_d3b_apply_bs), over the MHF words and the table together.
OneDeadWrite == \A d \in Devices : hw[d].deadWrites <= 1

\* Nobody is left alone with live engines: once struct ob_hw is gone its owner
\* is either released or retained.
NoLiveOwnerLeft ==
  \A i \in Entries :
    owners.entry[i].state = "LIVE" => ~At(owners.entry[i].id, "absent")

\* Every run ends: bound, or with the probe failed.
EveryRunEnds ==
  \A d \in Devices : ~At(d, "absent") ~> hw[d].stage \in {"absent", "bound"}

\* "this device's fatal record is set, the module is pinned and a reboot is
\* required" whenever hw->dev_lost is latched (ob_d3a0.h).
LostIsRecorded ==
  \A d \in Devices : hw[d].lost => hw[d].fatal /\ FatalRefused(fatal, d) /\ fatal.pinned

\* "The classification is only honest if it is enforced across a second entry"
\* (ob_d11_tail_plan.h): a device whose failure was classified reboot-required
\* is not driven again.
ClassifiedIsRefused ==
  \A d \in classified : hw[d].stage \in Waiting

\* "a D2A failure after the first hardware mutation must not be returned as a
\* probe error" (ob_core.c).
MutationIsRetained ==
  [][\A d \in Devices : At(d, "mutated") => hw'[d].stage # "absent"]_vars
=============================================================================
