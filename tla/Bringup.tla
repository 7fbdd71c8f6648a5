------------------------------ MODULE Bringup ------------------------------
(***************************************************************************)
(* One BCM4352 and the module that drives it, from load to removal: ob_probe *)
(* and ob_remove of ob_core.c with everything they call (module Programs).   *)
(*                                                                         *)
(* The device may die at any point and then answers every read with all      *)
(* ones; a live one may also answer once with all ones, or with something    *)
(* the code does not expect.  dev_lost is a latch: the guarded accessors do  *)
(* not touch the device once it is set, the calls into bcma do.             *)
(***************************************************************************)
EXTENDS Programs
LOCAL INSTANCE Naturals
LOCAL INSTANCE Sequences

CONSTANT Loads    \* the parameter sets a load may come with

ASSUME LoadsAssumption == Loads \subseteq SUBSET Params

VARIABLES
    hw,       \* struct ob_hw: the loss latch, the retain mark, the states the stages publish
    load,     \* the parameters of the load in effect
    at,       \* the step of the program that is next
    phase,    \* "idle", "probe", "bound" or "failed"
    res,      \* what the normal path acquired and has not released
    alive,    \* the device still answers
    did,      \* what was done to the core: "none", "begun", "loaded", "common"
    odd,      \* some answer of the device or of the system was not the right one
    record,   \* which registries refuse the device: "fatal", "owner"; the module is pinned
    late,     \* touched although its loss was latched in this load, or is on record
    lent,     \* what a stage changed and has to put back: OTP power and controls, radio bits
    trying    \* a failure is kept for later: "no", "open", or "failed" once there is one

vars == <<hw, load, at, phase, res, alive, did, odd, record, late, lent, trying>>

Fresh ==
    [lost |-> FALSE, fatal |-> FALSE, retain |-> FALSE, mutated |-> FALSE, suspended |-> FALSE,
     state |-> "none", phy |-> "none", otp |-> "none"]

\* The mode and the steps of every load, worked out once.
ModeOf == [P \in Loads |-> Admit(P)]

ProgramOf == [P \in {Q \in Loads : ModeOf[Q] # "refused"} |-> Program(P, ModeOf[P])]

mode == ModeOf[load]

Todo == ProgramOf[load]

Kind == IF phase = "probe" THEN Todo[at].kind ELSE "nothing"

Place == Todo[at].at

\* What a guarded access hears: with the latch set it fails without touching the device.
Answers ==
    IF hw.lost THEN {"refused"} ELSE IF alive THEN {"right", "wrong", "ones"} ELSE {"ones"}

Init ==
    /\ hw = Fresh /\ load = {} /\ at = 0 /\ phase = "idle" /\ res = {} /\ alive = TRUE
    /\ did = "none" /\ odd = FALSE /\ record = {} /\ late = FALSE /\ lent = {} /\ trying = "no"

(***************************************************************************)
(* Which failures ob_probe keeps the device bound for.                      *)
(***************************************************************************)
DmaModes == {"dma_test", "d11_tail_test", "bsinitvals_test"}

PostPhase == {"class0_post0413", "class0_postphase1", "class0_postphase2_return", "class0_postbmac"}

\* The modes that return before ob_si_probe.
Isolated ==
    DmaModes \cup
    {"sflags_diag", "sprom_evidence", "fw_validate", "ucode_test", "initvals_test",
     "radio_id_probe", "rev42_diag_probe", "rev42_attach_probe", "rev42_sb_reset",
     "rev42_ai_wrapper", "rev42_ai_enable", "rev42_maccontrol_once"}

\* ob_d2a_retain_failure.
D2ARetained(h) == h.lost \/ h.retain

\* The evidence and validation modes return every error, the two firmware tests do not.
KeptFirmware(h) == mode \in {"ucode_test", "initvals_test"} /\ D2ARetained(h)

\* A DMA test is kept for a fatal state only.
KeptDma(h) == mode \in DmaModes /\ h.fatal

KeptDiag(h) ==
    mode \in {"radio_id_probe", "rev42_diag_probe", "rev42_attach_probe", "rev42_sb_reset"}
    /\ h.lost

\* The wrapper modes: a loss, or a wrapper that was written.
KeptWrapper(h) ==
    \/ mode = "rev42_ai_wrapper" /\ h.lost
    \/ mode \in {"rev42_ai_enable", "rev42_maccontrol_once"} /\ (h.lost \/ h.retain)

\* Up to the firmware only the later class 0 modes outlive a loss.
KeptChain(h, place) ==
    \/ mode \in PostPhase /\ h.lost /\ place \in {"si", "attach", "fwprobe", "gate", "ucode", "common"}
    \/ place \in {"gate", "ucode", "common"} /\ h.retain

KeptPhase(h, place) == place \in {"pre_radio", "phase"} /\ h.lost

\* With probe success nothing else takes the device over.
Kept(h, place) ==
    IF mode \in Isolated
    THEN KeptFirmware(h) \/ KeptDma(h) \/ KeptDiag(h) \/ KeptWrapper(h)
    ELSE KeptChain(h, place) \/ KeptPhase(h, place)

\* These run D2A, or the chain, without ob_fw_chain_run around it.
Unchained == {"ucode_test", "initvals_test", "rev42_diag_probe"} \cup DmaModes

RetainedOnLoss(h, place) ==
    CASE place = "ucode" /\ did # "loaded" -> h.lost
      [] place \in {"ucode", "common"} -> TRUE
      [] OTHER -> h.retain

\* The retain mark after a failure in the firmware chain or the wrapper sequence.
Retained(h, place) ==
    CASE place = "ucode" /\ did # "loaded" -> h.mutated \/ (mode \in Unchained /\ h.lost)
      [] place \in {"ucode", "common"} -> TRUE
      [] place = "ai" -> h.mutated \/ h.lost
      [] OTHER -> h.retain

\* The probe ends with the failure of this step, which left the hardware state h.
Abandon(h) ==
    LET g == [h EXCEPT !.retain = Retained(h, Place)]
    IN  /\ hw' = g /\ trying' = "no"
        /\ phase' = IF Kept(g, Place) THEN "bound" ELSE "failed"
        /\ UNCHANGED at

\* Where a kept failure resumes: what was lent is given back, then it is judged or forgotten.
Catch ==
    CHOOSE i \in at + 1 .. Len(Todo) :
        /\ Todo[i].kind \in {"give_power", "give_controls", "verdict", "forget"}
        /\ \A j \in at + 1 .. i - 1 :
              Todo[j].kind \notin {"give_power", "give_controls", "verdict", "forget"}

Fail(h) ==
    IF trying = "no" THEN Abandon(h)
    ELSE hw' = h /\ at' = Catch /\ trying' = "failed" /\ UNCHANGED phase

Proceed(h, t) ==
    /\ hw' = h /\ trying' = t
    /\ IF at = Len(Todo) THEN phase' = "bound" /\ UNCHANGED at
       ELSE at' = at + 1 /\ UNCHANGED phase

Advance(h) == Proceed(h, trying)

Pass(ok, h) == IF ok THEN Advance(h) ELSE Fail(h)

\* A write of the firmware stages or of the wrapper sequence leaves its mark.
Marked == IF Place \in {"ucode", "ai"} THEN [hw EXCEPT !.mutated = TRUE] ELSE hw

\* A guarded access touches the device while the latch is open, a call into bcma always.
\* The latch goes with struct ob_hw: of the losses of earlier loads those on record count.
Touch == late' = (late \/ (record # {} /\ ~hw.lost))

Touched == late' = (late \/ record # {} \/ hw.lost)

Odd(wrong) == odd' = (odd \/ wrong)

Begun == did' = IF Place = "ucode" /\ did = "none" THEN "begun" ELSE did

\* ob_dev_lost_latch writes the fatal record; some code sets dev_lost without it.
Unrecorded ==
    \/ Place = "ai" /\ Kind \in {"check", "transition"}
    \/ mode = "rev42_ai_wrapper"
    \/ Kind \in {"rung_set", "island"}

Latched(h) == [h EXCEPT !.lost = TRUE, !.fatal = h.fatal \/ ~Unrecorded]

OnRecord(latched) == record' = IF latched /\ ~Unrecorded THEN record \cup {"fatal"} ELSE record

(***************************************************************************)
(* The kinds of steps: gates, supplies, accesses.                           *)
(***************************************************************************)
\* The latch, and the states a stage insists on.
Open ==
    [entry |-> ~hw.lost,
     core_ready |-> hw.state \in {"core", "attach"} \/
                    mode \in {"ucode_test", "initvals_test"} \cup DmaModes,
     core_fresh |-> hw.state = "core",
     attach_ready |-> hw.state = "attach",
     unretained |-> ~hw.retain,
     post_ucode |-> hw.state = "post_ucode" /\ ~hw.lost,
     ready_gate |-> hw.phy # "none",
     radio_gate |-> hw.phy = "ready",
     otp_gate |-> hw.otp = "right",
     suspended |-> hw.suspended,
     resume |-> hw.phy = "rev1" /\ ~hw.lost,
     radio_ready |-> hw.phy = "complete" /\ ~hw.lost,
     sprom_asked |-> "sprom_diag" \in load]

Gates ==
    /\ phase = "probe" /\ Kind \in DOMAIN Open
    /\ Pass(Open[Kind], hw)
    /\ UNCHANGED <<load, res, alive, did, odd, record, late, lent>>

\* No device is needed: a firmware file, a profile, the cached SPROM.
Supply ==
    /\ Kind = "supply"
    /\ \E found \in BOOLEAN : Pass(found, hw) /\ Odd(~found)
    /\ UNCHANGED <<load, res, alive, did, record, late, lent>>

\* The board's flags: a board the radio prefix does not support skips all of it.
Board ==
    /\ Kind = "board"
    /\ \/ Advance(hw) /\ UNCHANGED odd
       \/ /\ hw' = [hw EXCEPT !.phy = "blocked"] /\ Odd(TRUE)
          /\ LET end == CHOOSE i \in DOMAIN Todo : Todo[i].kind = "blocked"
             IN  IF end = Len(Todo) THEN phase' = "bound" /\ UNCHANGED at
                 ELSE at' = end + 1 /\ UNCHANGED phase
          /\ UNCHANGED trying
    /\ UNCHANGED <<load, res, alive, did, record, late, lent>>

\* bcma_host_pci_up and bcma_core_set_clockmode know nothing of the latch.
Bus ==
    /\ Kind = "bus"
    /\ Advance(Marked) /\ Begun /\ Touched
    /\ UNCHANGED <<load, res, alive, odd, record, lent>>

\* Nor does bcma_core_enable, which may give up.
Enable ==
    /\ Kind = "enable"
    /\ \E up \in BOOLEAN : Pass(up, Marked) /\ Odd(~up)
    /\ Begun /\ Touched
    /\ UNCHANGED <<load, res, alive, record, lent>>

\* Which answers a plain read, or a checked read-modify-write, takes; no other is a loss.
Accepts ==
    [read |-> {"right"}, rmw |-> {"right"},
     alive |-> {"right", "wrong"}, selector |-> {"right", "ones"}]

Read ==
    /\ Kind \in DOMAIN Accepts
    /\ \E a \in Answers : Pass(a \in Accepts[Kind], hw) /\ Odd(a # "right")
    /\ Touch
    /\ UNCHANGED <<load, res, alive, did, record, lent>>

TrustSnapshotIgnored ==
    /\ Kind \in {"trust", "check", "snapshot", "confirm"}
    /\ \E a \in Answers :
          /\ IF a = "ones"
             THEN IF Kind = "snapshot" THEN Advance(Latched(hw)) ELSE Fail(Latched(hw))
             ELSE Pass(a = "right" \/ Kind \in {"trust", "snapshot"}, hw)
          /\ Odd(a # "right") /\ OnRecord(a = "ones")
    /\ Touch
    /\ UNCHANGED <<load, res, alive, did, lent>>

\* All ones in a trusted read or in a snapshot of the wrapper latch the loss.
Trust ==
    /\ Kind \in {"trust", "check", "snapshot", "confirm"}
    /\ \E a \in Answers :
          /\ IF a = "ones" THEN Fail(Latched(hw))
             ELSE Pass(a = "right" \/ Kind \in {"trust", "snapshot"}, hw)
          /\ Odd(a # "right") /\ OnRecord(a = "ones")
    /\ Touch
    /\ UNCHANGED <<load, res, alive, did, lent>>

Write ==
    /\ Kind = "write"
    /\ Pass(~hw.lost, IF hw.lost THEN hw ELSE Marked) /\ Begun /\ Touch
    /\ UNCHANGED <<load, res, alive, odd, record, lent>>

\* ob_aie_transition: one wrapper write and its readback.
Transition ==
    /\ Kind = "transition"
    /\ \E a \in Answers :
          /\ CASE a = "refused" -> Fail(hw)
               [] a = "ones" -> Fail(Latched(Marked))
               [] OTHER -> Pass(a = "right", Marked)
          /\ Odd(a # "right") /\ OnRecord(a = "ones")
    /\ Touch
    /\ UNCHANGED <<load, res, alive, did, lent>>

\* A posted write, or a read-modify-write whose read nobody checks: suppressed by the latch.
Post ==
    /\ Kind \in {"post", "blind"}
    /\ Advance(hw) /\ Touch
    /\ UNCHANGED <<load, res, alive, did, odd, record, lent>>

\* A calibration stage; what it does to the MAC is module CalStages' subject.
CalibrationStage ==
    /\ Kind = "stage"
    /\ \E a \in Answers :
          /\ IF a # "ones" THEN Pass(a = "right", hw) ELSE Fail(Latched(hw)) \/ Fail(hw)
          /\ Odd(a # "right") /\ OnRecord(hw'.lost)
    /\ Touch
    /\ UNCHANGED <<load, res, alive, did, lent>>

\* One of the DMA tests behind D2B (modules DmaLifetime and D11Tail).  Its teardown stops the
\* engines, or says it could not; the boundary witness sets dev_lost itself, and then only the
\* owner of the live DMA memory is on record.
Part ==
    /\ Kind = "isolated"
    /\ \E a \in Answers :
          /\ \/ a \in {"right", "wrong"} /\ Pass(a = "right", hw) /\ UNCHANGED record
             \/ a = "refused" /\ Fail(hw) /\ UNCHANGED record
             \/ a = "wrong" /\ Fail([hw EXCEPT !.fatal = TRUE]) /\ record' = record \cup {"fatal", "owner"}
             \/ a = "ones" /\ Fail(Latched(hw)) /\ record' = record \cup {"fatal", "owner"}
             \/ /\ a = "ones" /\ "d3b_boundary_witness" \in load
                /\ Fail([hw EXCEPT !.lost = TRUE]) /\ record' = record \cup {"owner"}
          /\ Odd(a # "right")
    /\ Touch
    /\ UNCHANGED <<load, res, alive, did, lent>>

(***************************************************************************)
(* The kinds of steps: failures kept for later, and what is lent meanwhile. *)
(***************************************************************************)
Try ==
    /\ \/ Kind = "try" /\ Proceed(hw, "open")
       \/ Kind = "forget" /\ Proceed(hw, "no")
       \/ Kind = "verdict" /\ IF trying = "failed" THEN Abandon(hw) ELSE Proceed(hw, "no")
    /\ UNCHANGED <<load, res, alive, did, odd, record, late, lent>>

\* A sample of the radio that is judged only after the last trusted read.
Sample ==
    /\ Kind = "sample"
    /\ \E a \in Answers :
          /\ IF a = "refused" THEN Fail(hw)
             ELSE Proceed(hw, IF a = "right" THEN trying ELSE "failed")
          /\ Odd(a # "right")
    /\ Touch
    /\ UNCHANGED <<load, res, alive, did, record, lent>>

\* The OTP is powered only if it is not, and then polled for; all ones look powered.
TakePower ==
    /\ Kind = "take_power"
    /\ \E a \in Answers, powered \in BOOLEAN :
          /\ Advance(hw) /\ Odd(a # "right")
          /\ lent' = IF powered \/ a \in {"ones", "refused"} THEN lent ELSE lent \cup {"power"}
    /\ Touch
    /\ UNCHANGED <<load, res, alive, did, record>>

Powered ==
    /\ Kind = "powered"
    /\ \E a \in Answers :
          IF "power" \in lent THEN Pass(a \in {"right", "ones"}, hw) /\ Odd(a # "right")
          ELSE Advance(hw) /\ UNCHANGED odd
    /\ Touch
    /\ UNCHANGED <<load, res, alive, did, record, lent>>

\* A bit that is never done is a failure; a word of other bits is only told apart later.
OtpWordRead ==
    /\ Kind = "otp_word"
    /\ \E a \in Answers :
          /\ \/ a = "right" /\ Advance([hw EXCEPT !.otp = "right"])
             \/ a = "wrong" /\ Advance([hw EXCEPT !.otp = "other"])
             \/ a # "right" /\ Fail(hw)
          /\ Odd(a # "right")
    /\ Touch
    /\ UNCHANGED <<load, res, alive, did, record, lent>>

TakeControls ==
    /\ Kind = "take_controls"
    /\ Advance(hw) /\ Touch
    /\ lent' = IF hw.lost THEN lent ELSE lent \cup {"controls"}
    /\ UNCHANGED <<load, res, alive, did, odd, record>>

\* The restores run whatever happened before, and check nothing.
Gives == [give_power |-> "power", give_controls |-> "controls"]

Give ==
    /\ Kind \in DOMAIN Gives
    /\ lent' = IF hw.lost THEN lent ELSE lent \ {Gives[Kind]}
    /\ Advance(hw) /\ Touch
    /\ UNCHANGED <<load, res, alive, did, odd, record>>

\* Registers 08ea, 0410, 0411, 0171 and 0371, a bit of each.
Sets ==
    [set_08ea |-> "08ea", set_0410 |-> "0410", set_0411 |-> "0411", set_0171 |-> "0171",
     set_0371 |-> "0371"]

Clears ==
    [clear_08ea |-> "08ea", clear_0410 |-> "0410", clear_0411 |-> "0411", clear_0171 |-> "0171",
     clear_0371 |-> "0371"]

\* A radio bit is changed by a read that is not all ones and a write.
RadioBit ==
    /\ Kind \in DOMAIN Sets \cup DOMAIN Clears
    /\ \E a \in Answers :
          /\ lent' = IF a \notin {"right", "wrong"} THEN lent
                     ELSE IF Kind \in DOMAIN Sets THEN lent \cup {Sets[Kind]}
                     ELSE lent \ {Clears[Kind]}
          /\ Pass(a \in {"right", "wrong"}, hw) /\ Odd(a # "right")
    /\ Touch
    /\ UNCHANGED <<load, res, alive, did, record>>

\* PHY register 019e; nobody looks at what it reads.
PhyBit ==
    /\ \/ Kind = "set_019e" /\ lent' = IF hw.lost THEN lent ELSE lent \cup {"019e"}
       \/ Kind = "clear_019e" /\ lent' = IF hw.lost THEN lent ELSE lent \ {"019e"}
    /\ Pass(~hw.lost, hw) /\ Touch
    /\ UNCHANGED <<load, res, alive, did, odd, record>>

\* A MAC found running is suspended, or fails to; resuming it is checked.
Loose ==
    /\ Kind = "loose"
    /\ \E a \in Answers :
          /\ \/ a = "right" /\ Advance(hw)
             \/ a = "wrong" /\ Advance([hw EXCEPT !.suspended = TRUE])
             \/ a # "right" /\ Fail(hw)
          /\ Odd(a # "right")
    /\ Touch
    /\ UNCHANGED <<load, res, alive, did, record, lent>>

ResumeMac ==
    /\ Kind = "resume_mac"
    /\ IF ~hw.suspended THEN Advance(hw) /\ UNCHANGED odd
       ELSE \E a \in Answers :
               Pass(a \in {"right", "wrong"}, [hw EXCEPT !.suspended = FALSE]) /\ Odd(a # "right")
    /\ Touch
    /\ UNCHANGED <<load, res, alive, did, record, lent>>

(***************************************************************************)
(* The kinds of steps: the identity ladder, which no answer makes fail.     *)
(***************************************************************************)
Stop(h) == hw' = h /\ phase' = "bound" /\ UNCHANGED <<at, trying>>

\* A read that stalls, at a live device or a dead one, ends the ladder.
Rung ==
    /\ Kind \in {"rung", "rung_set"}
    /\ \E a \in Answers, stalls \in BOOLEAN :
          /\ IF Kind = "rung_set" /\ stalls /\ ~hw.lost THEN Stop(Latched(hw))
             ELSE IF stalls \/ (Kind = "rung" /\ hw.lost) THEN Stop(hw) ELSE Advance(hw)
          /\ Odd(a # "right" \/ stalls)
    /\ Touch
    /\ UNCHANGED <<load, res, alive, did, record, lent>>

\* Without a live baseline the witness is void.
Baseline ==
    /\ Kind = "baseline"
    /\ \E a \in Answers, slow \in BOOLEAN :
          /\ IF a \in {"right", "wrong"} /\ ~slow THEN Advance(hw) ELSE Stop(hw)
          /\ Odd(a # "right" \/ slow)
    /\ Touch
    /\ UNCHANGED <<load, res, alive, did, record, lent>>

\* The stall is what the witness is after; one of a second ends it.
Island ==
    /\ Kind = "island"
    /\ \E a \in Answers, stalls \in BOOLEAN :
          /\ IF stalls THEN Advance(Latched(hw)) \/ Stop(Latched(hw)) ELSE Advance(hw)
          /\ Odd(a # "right" \/ stalls)
    /\ Touch
    /\ UNCHANGED <<load, res, alive, did, record, lent>>

\* Reads past the latch, on purpose; the later ones only where the stall was seen.
Bypass ==
    /\ Kind = "bypass" \/ (Kind = "rebypass" /\ hw.lost)
    /\ \E live \in BOOLEAN :
          /\ live => alive
          /\ \/ live /\ Advance(hw)
             \/ ~live /\ Stop(hw)
             \/ ~live /\ Kind = "rebypass" /\ Advance(hw)
          /\ Odd(~live)
    /\ UNCHANGED <<load, res, alive, did, record, late, lent>>

Settled ==
    /\ \/ Kind = "stop" /\ Stop(hw)
       \/ Kind = "rebypass" /\ ~hw.lost /\ Advance(hw)
    /\ UNCHANGED <<load, res, alive, did, odd, record, late, lent>>

(***************************************************************************)
(* What the stages publish.                                                 *)
(***************************************************************************)
\* ob_d2a_run ends with the PSM suspended, and retained, because the core was written.
Loaded ==
    /\ Kind = "loaded" /\ did' = "loaded" /\ Advance([hw EXCEPT !.retain = hw.mutated])
    /\ UNCHANGED <<load, res, alive, odd, record, late, lent>>

Common ==
    /\ Kind = "common" /\ did' = "common" /\ Advance(hw)
    /\ UNCHANGED <<load, res, alive, odd, record, late, lent>>

\* OB_UCORE_EV_STATE_PUBLISHED: only a mode that owns the core has no state yet.
PublishCore ==
    /\ Kind = "publish_core"
    /\ Advance(IF hw.state = "none" THEN [hw EXCEPT !.state = "core"] ELSE hw)
    /\ UNCHANGED <<load, res, alive, did, odd, record, late, lent>>

\* ob_fw_chain_op_publish_ucode and _common: one lifecycle step from the right state.
Publish ==
    /\ \/ /\ Kind = "publish_ucode"
          /\ IF hw.state = "attach" /\ ~hw.lost
             THEN Advance([hw EXCEPT !.state = "suspended"]) ELSE Fail(hw)
       \/ /\ Kind = "publish_common"
          /\ IF hw.state = "suspended" /\ ~hw.lost
             THEN Advance([hw EXCEPT !.state = "post_ucode", !.retain = FALSE]) ELSE Fail(hw)
    /\ UNCHANGED <<load, res, alive, did, odd, record, late, lent>>

Record ==
    /\ \/ Kind = "core_up" /\ Advance([hw EXCEPT !.state = "core"])
       \/ Kind = "identified" /\ Advance([hw EXCEPT !.state = "attach"])
       \/ Kind = "ready" /\ Advance([hw EXCEPT !.phy = "ready"])
       \/ Kind = "blocked" /\ Advance([hw EXCEPT !.phy = "rev1"])
       \/ Kind = "radio_complete" /\ Advance([hw EXCEPT !.phy = "complete"])
    /\ UNCHANGED <<load, res, alive, did, odd, record, late, lent>>

Resources == {"owner", "pool", "rx_ring", "tx_ring", "irq", "register"}

AcquireKept ==
    /\ \E r \in Resources, got \in BOOLEAN :
          /\ Kind = r /\ Pass(got, hw) /\ Odd(~got)
          /\ res' = IF got THEN res \cup {r} ELSE res
    /\ UNCHANGED <<load, alive, did, record, late, lent>>

\* The tail of the normal path: what was acquired before is released on a failure.
Acquire ==
    /\ \E r \in Resources, got \in BOOLEAN :
          /\ Kind = r /\ Pass(got, hw) /\ Odd(~got)
          /\ res' = IF got THEN res \cup {r} ELSE {}
    /\ UNCHANGED <<load, alive, did, record, late, lent>>

(***************************************************************************)
(* Loads, removal, and the device.                                          *)
(***************************************************************************)
\* The probe of the one device, at insmod or at a later bind; a refused one touches
\* nothing, and a device on record in one of the registries is refused in every mode.
Load ==
    /\ phase = "idle" /\ record = {}
    /\ \E P \in Loads :
          /\ ModeOf[P] # "refused"
          /\ load' = P
    /\ hw' = Fresh /\ at' = 1 /\ phase' = "probe" /\ did' = "none" /\ odd' = FALSE
    /\ UNCHANGED <<res, alive, record, late, lent, trying>>

\* What a load leaves behind when its device is given back.
Gone ==
    /\ hw' = Fresh /\ load' = {} /\ at' = 0 /\ phase' = "idle" /\ did' = "none"
    /\ odd' = FALSE /\ lent' = {} /\ trying' = "no"
    /\ UNCHANGED <<alive, record, late>>

\* A probe error: the driver core gives the device back, and ob_remove never runs.
GiveUp == phase = "failed" /\ Gone /\ UNCHANGED res

\* ob_remove in every mode but the normal one touches nothing and releases nothing.
LeaveAsIs == phase = "bound" /\ mode # "normal" /\ Gone /\ UNCHANGED res

\* ob_remove after the normal path: mac80211, the interrupt, the rings.  (A teardown that
\* cannot confirm the engines stopped is module RxEngine's subject.)
Release == phase = "bound" /\ mode = "normal" /\ Gone /\ res' = {}

Die ==
    /\ phase = "probe" /\ alive
    /\ alive' = FALSE
    /\ UNCHANGED <<hw, load, at, phase, res, did, odd, record, late, lent, trying>>

Reboot ==
    /\ phase # "probe"
    /\ hw' = Fresh /\ load' = {} /\ at' = 0 /\ phase' = "idle" /\ res' = {} /\ alive' = TRUE
    /\ did' = "none" /\ odd' = FALSE /\ record' = {} /\ lent' = {} /\ trying' = "no"
    /\ UNCHANGED late

Next ==
    \/ Load \/ GiveUp \/ LeaveAsIs \/ Release \/ Die \/ Reboot
    \/ Gates \/ Supply \/ Board \/ Bus \/ Enable \/ Read \/ Trust \/ Write \/ Transition \/ Post
    \/ CalibrationStage \/ Part \/ Try \/ Sample \/ TakePower \/ Powered \/ OtpWordRead \/ TakeControls \/ Give
    \/ RadioBit \/ PhyBit \/ Loose \/ ResumeMac
    \/ Rung \/ Baseline \/ Island \/ Bypass \/ Settled
    \/ Loaded \/ Common \/ PublishCore \/ Publish \/ Record \/ Acquire

Spec == Init /\ [][Next]_vars

(***************************************************************************)
(* Properties.                                                              *)
(***************************************************************************)
\* "A D2A failure after the first hardware mutation must not be returned as a probe
\* error" (ob_core.c:772): a core half way through D2A or D2B is never given back.  The DMA
\* tests do give it back, see D11Tail!MutationIsRetained.
HalfProgrammedIsRetained ==
    phase = "failed" /\ did \in {"begun", "loaded"} => mode \in DmaModes

\* The lifecycle a later stage trusts says what was really done to this core in this load.
StateMatchesDevice ==
    /\ hw.state = "suspended" => did \in {"loaded", "common"}
    /\ hw.state = "post_ucode" => did = "common" /\ ~hw.retain

\* "After the monotonic latch no MMIO is issued" (ob_diag.h:40): in the load that latched the
\* loss, recorded or not, the device is not touched again, not by bcma either; and while it
\* is on record in a registry no load touches it, whatever its parameters.  Nothing refuses a
\* later binding after a loss that was latched without a record (Unrecorded): that is not
\* counted here, it is what LossIsOnRecord is about.  Nor are the reads that the identity
\* witness sends past the latch on purpose (Bypass).
SilentAfterLoss == ~late

\* mac80211, the interrupt and the rings exist together, on a core that is through the
\* chain, or not at all; every error path has released what came before it.
ResourcesBalanced ==
    /\ phase \in {"idle", "failed"} => res = {}
    /\ phase = "bound" /\ res # {} =>
          res = Resources /\ hw.state = "post_ucode" /\ ~hw.lost
    /\ phase = "bound" /\ mode = "normal" => (res = {} <=> hw.retain)

\* A load is refused only for a reason: some answer of the device or the system was not
\* the right one.  The stages agree on the states they leave and require; three kinds of
\* loads can never succeed (see also StagedDiagRuns and Rev4ProbeRuns).
HealthyProbeBinds ==
    phase = "failed" =>
        \/ odd
        \/ "rev42_diag_full" \in load
        \/ mode = "radio2069_rev4_probe"
        \/ mode = "sprom_evidence" /\ "sprom_diag" \notin load

\* What a stage lends it puts back: the OTP power and controls on every path of si_probe
\* (the "restore" labels of ob_si.c:975 and 1159) while the device can still be told, the
\* radio bits and the PHY bit before the return suffix or the radio prefix report success.
BorrowedIsReturned ==
    alive /\ ~hw.lost =>
        /\ phase \in {"bound", "failed"} => lent \cap {"power", "controls"} = {}
        /\ hw.phy \in {"rev1", "complete"} => lent = {}
        /\ phase = "bound" /\ mode \in {"class0_postphase2_return", "class0_postbmac"} => lent = {}

\* "Once latched ... this device's fatal record is set, the module is pinned and a reboot
\* is required" (ob_d3a0.h:378).
LossIsOnRecord == hw.lost => "fatal" \in record

\* Of radio2069_rev4_probe: "RADIO_MAC_RESUME_NOT_REQUIRED entry_already_quiesced"
\* (ob_radio.c:1788) expects a MAC that the firmware chain left quiesced.
Rev4ProbeRuns ==
    phase = "failed" /\ mode = "radio2069_rev4_probe" => odd

\* Of rev42_diag_full: "the staged path (rev42_diag_full=1) additionally runs the
\* hardware-proven D2A (ucode + PSM) and D2B (common initvals) stages" (ob_diag.c:13).
StagedDiagRuns ==
    phase = "failed" /\ "rev42_diag_full" \in load => odd
=============================================================================
