------------------------------ MODULE Programs ------------------------------
(***************************************************************************)
(* What ob_probe (ob_core.c) does with the hardware, per mode, as the        *)
(* sequence of its steps.  A step has a kind, which says how the device is   *)
(* touched and what a wrong answer leads to (module Bringup interprets the   *)
(* kinds), and the name of the stage ob_probe runs it in.  Logging, values   *)
(* and reads whose value decides nothing are left out.                      *)
(***************************************************************************)
EXTENDS Admission, Interconnect, RadioStages
LOCAL INSTANCE Naturals
LOCAL INSTANCE Sequences

(***************************************************************************)
(* Firmware: D2A (core, upload, PSM) and D2B (common initvals).             *)
(***************************************************************************)
\* ob_ucore_prepare: four AXI snapshots around host-up, enable and clock mode.
Snapshot == <<"snapshot">>

UcodePrepare ==
    <<"entry", "core_ready">> \o Snapshot \o <<"bus">> \o Snapshot \o <<"enable">> \o Snapshot \o
    <<"bus", "confirm", "check", "publish_core">>

\* ob_d2a_run: nothing is touched before the image is known to be the right one.
D2APrepare == <<"entry", "supply", "supply">> \o UcodePrepare

\* MACCONTROL for the upload, the object window, then word after word without a read.
D2AUpload == <<"trust", "write", "check", "write", "check", "write">>

\* The PSM is started, and polled until it reports that it is suspended.
D2AStart == <<"write", "trust", "write", "check", "check", "loaded">>

D2A == D2APrepare \o D2AUpload \o D2AStart

\* ob_d2a_shm_diag, which only the ucode test runs after its D2A.
ShmDiag == <<"entry", "write", "trust">>

\* ob_initvals_apply_common_internal: guarded writes, then plain reads to compare.
Initvals == <<"supply", "supply", "post", "read", "common">>

\* ob_fw_chain_identity_gate: a lost device first, then the two identities must agree.
IdentityGate == <<"entry", "supply">>

ChainPublishedEarly(published) ==
    Stage("gate", IdentityGate) \o
    Stage("ucode", When(published, <<"publish_ucode">>) \o D2A) \o
    Stage("common", Initvals) \o
    Stage("common", When(published, <<"publish_common">>))

\* ob_fw_chain_core; the lifecycle is published only where the policy says so.
Chain(published) ==
    Stage("gate", IdentityGate) \o
    Stage("ucode", D2A) \o
    Stage("common", When(published, <<"publish_ucode">>)) \o
    Stage("common", Initvals) \o
    Stage("common", When(published, <<"publish_common">>))

\* ob_fw_chain_run refuses a hardware state an earlier run left behind.
PublishedChain == Stage("gate", <<"entry", "attach_ready", "unretained">>) \o Chain(TRUE)

(***************************************************************************)
(* The isolated modes that touch the wrapper or the core only.              *)
(***************************************************************************)
\* ob_aie_run: three reads that must show the core in reset, three writes read back.
WrapperIdle == <<"check">>

AiEnable == <<"entry">> \o Times(3, WrapperIdle) \o Times(3, <<"transition">>)

\* ob_d11m_run: the one read is made only behind a transition confirmed to its end.
MaccontrolOnce == <<"trust">>

WrapperRead == <<"trust">>

AiWrapper == <<"entry">> \o Times(3, WrapperRead)

AiWrapperTest == Stage("isolated", AiWrapper)

AiEnableTest == Stage("ai", AiEnable)

MaccontrolOnceTest == AiEnableTest \o Stage("ai", MaccontrolOnce)

\* The ucode test alone reads the FIFO sizes behind its D2A.
UcodeTest == Stage("ucode", D2A \o ShmDiag)

\* ob_diag_prepare.
DiagPrepare == <<"entry", "bus", "enable", "bus", "blind">>

\* ob_diag_radio_read: the window is addressed, and not decided upon.
DiagRadio == <<"write">>

\* ob_diag_test; the staged path adds D2A, D2B and their checkpoints.
DiagTest(P) ==
    Stage("diag", <<"supply", "entry">> \o DiagPrepare \o <<"trust">> \o DiagRadio) \o
    When("rev42_diag_full" \in P,
         Stage("ucode", D2A) \o Stage("diag", <<"trust">>) \o
         Stage("common", Initvals) \o Stage("diag", <<"trust", "trust">>)) \o
    Stage("diag", <<"post", "trust">> \o DiagRadio \o <<"trust", "trust", "read">>)

\* ob_attach_test: the core reset up to a window that answers, the clocks of core and
\* PHY, the two analog writes and the radio window.
AttachCore ==
    <<"supply", "entry", "bus", "bus", "enable", "bus", "alive">>

AttachClocks ==
    Times(3, <<"blind">>) \o <<"trust", "post", "trust">> \o Times(2, <<"blind">>) \o <<"trust">>

AttachSites == Times(3, <<"post", "trust">>)

AttachTest == AttachCore \o AttachClocks \o AttachSites

\* ob_sb_reset_test: plain accesses only, so that nothing here can latch a loss.  A core
\* whose window does not answer, or that is not cold, is left alone.
SbEntry == <<"supply", "entry", "bus", "read", "blind", "supply">>

SbDisable == <<"post", "blind", "post">>

SbRelease == <<"post", "blind", "blind", "post", "post", "read", "alive">>

SbReset == SbEntry \o SbDisable \o SbRelease

(***************************************************************************)
(* The PHY stages behind the firmware chain.                                *)
(***************************************************************************)
\* ob_acphy_pre_radio_run: the PSM word, and the bandwidth of the core clock.
PreRadioRun == <<"write", "trust", "write", "rmw">>

PreRadioUnrecorded ==
    <<"entry", "post_ucode", "supply">> \o PreRadioRun \o <<"read", "read">>

\* ob_acphy_pre_radio_test around it, with two reads that must show what it left.
PreRadio ==
    <<"entry", "post_ucode", "supply">> \o PreRadioRun \o <<"read", "read", "ready">>

CalibrationInputs == <<"radio_ready">>

Class0Modes ==
    [class0_0413 |-> 0, class0_post0413 |-> 1, class0_postphase1 |-> 2,
     class0_postphase2_return |-> 3, class0_postbmac |-> 4]

Class0Test(mode) ==
    Stage("pre_radio", PreRadio) \o Stage("phase", Class0(Class0Modes[mode]))

\* Whatever blocks the prefix, ob_acphy_radio_on_test reports success.
RadioOnTest(P) == Stage("pre_radio", PreRadio) \o Stage("phase", RadioPrefix(P))

PostLpfTest(P) == RadioOnTest(P) \o Stage("phase", PostLpf(P))

\* Of the three calibration stages at most one is asked for.
CalStage(P) ==
    When(P \cap {"cal_stage_witness", "cal_write_stage", "cal_w2_replay"} # {},
         Stage("phase", <<"entry", "stage">>))

CalInputsTest(P) ==
    Stage("phase", Tripoint(P)) \o PostLpfTest(P) \o
    Stage("inputs", CalibrationInputs) \o CalStage(P)

(***************************************************************************)
(* The tail of the normal path.                                             *)
(***************************************************************************)
\* ob_dma_ring_alloc: the block, its address, the slots; what failed leaves nothing.
RingAlloc(ring) == <<ring>>

\* The mask is asked for before anything is held, then the owner that accounts for it.
DmaInit == <<"supply", "owner", "pool">> \o RingAlloc("rx_ring") \o RingAlloc("tx_ring")

NormalTail == DmaInit \o <<"irq", "register">>

AfterChain(P, mode) ==
    CASE mode = "acphy_pre_radio" -> Stage("pre_radio", PreRadio)
      [] mode \in DOMAIN Class0Modes -> Class0Test(mode)
      [] mode = "acphy_radio_on" -> RadioOnTest(P)
      [] mode = "acphy_radio_postlpf" -> PostLpfTest(P)
      [] mode = "acphy_cal_inputs" -> CalInputsTest(P)
      [] mode = "radio2069_rev4_probe" -> Stage("phase", Rev4Probe)
      [] mode = "normal" -> Stage("normal", NormalTail)
      [] OTHER -> << >>

\* ob_fw_request: the file or its older name, of the right size and hash.
FwRequest == <<"supply">>

\* ob_fw_probe reads the three images; a missing file is not an error.
FwProbe == Times(3, FwRequest)

\* The normal path and every mode that stops along it.
Ladder(P, mode) ==
    SiProbe(P, mode) \o
    (IF mode \in {"d11_transaction_timing", "acphy_identity_timing"} THEN << >>
     ELSE Stage("attach", AttachIdentity(P, ShmRoundtrip)) \o Stage("identity_gate", IdentityGate) \o
          Stage("fwprobe", FwProbe) \o PublishedChain \o AfterChain(P, mode))

\* The DMA tests run D2A and D2B on their own account; two of them need the MAC address of
\* the SPROM first.
BoardData == ReadMac

DmaTest(mode) ==
    Stage("dma", When(mode # "dma_test", BoardData) \o <<"entry">>) \o Chain(FALSE) \o
    Stage("dma", <<"isolated">>)

Program(P, mode) ==
    CASE mode = "sflags_diag" -> Stage("isolated", SflagsEvidence)
      [] mode = "sprom_evidence" -> Stage("isolated", SpromEvidence)
      [] mode = "fw_validate" -> Stage("isolated", FwProbe)
      [] mode = "ucode_test" -> UcodeTest
      [] mode = "initvals_test" -> Chain(FALSE)
      [] mode \in {"dma_test", "d11_tail_test", "bsinitvals_test"} -> DmaTest(mode)
      [] mode = "radio_id_probe" -> Stage("isolated", RadioProbe)
      [] mode = "rev42_diag_probe" -> DiagTest(P)
      [] mode = "rev42_attach_probe" -> Stage("isolated", AttachTest)
      [] mode = "rev42_sb_reset" -> Stage("isolated", SbReset)
      [] mode = "rev42_ai_wrapper" -> AiWrapperTest
      [] mode = "rev42_ai_enable" -> AiEnableTest
      [] mode = "rev42_maccontrol_once" -> MaccontrolOnceTest
      [] OTHER -> Ladder(P, mode)
=============================================================================
