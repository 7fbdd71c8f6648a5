----------------------------- MODULE RadioStages -----------------------------
(***************************************************************************)
(* The PHY and radio stages of a probe (ob_radio*.h, ob_radio.c, ob_phy.c,   *)
(* ob_lifecycle.c) as programs of steps.  A run of accesses that fail for    *)
(* the same reason is one step: a checked radio access is "alive" (all ones  *)
(* is a failure, any other value is taken), a PHY access is "write" (only a  *)
(* latched loss fails it; what a PHY register reads is never looked at).     *)
(***************************************************************************)
EXTENDS Steps
LOCAL INSTANCE Naturals
LOCAL INSTANCE Sequences

(***************************************************************************)
(* Attach: who the PHY and the radio are.                                   *)
(***************************************************************************)
\* ob_phy_tripoint_observe, at a point whose turn the load decides: eight PHY reads.
Tripoint(P) == When("phy_tripoint_probe" \in P, <<"write">>)

\* Registers of core 0 are copied to core 1, twice.
CoreMirror == Times(2, <<"write">>)

\* ob_radio_vendor_pre_id: reset by BCMA, then the wrapper must read back as 5.
PreIdentity(P) ==
    <<"entry", "supply", "bus", "enable", "confirm">> \o Tripoint(P) \o CoreMirror

\* ob_radio_sequence between two trusted reads; its samples are judged after the second.
RadioSequence == <<"trust", "write", "sample", "write", "sample", "trust", "verdict">>

Anacore == <<"write">>

\* The blind step clears a clock request in whatever it read.
AcphyReset ==
    <<"entry">> \o Times(3, <<"rmw">>) \o <<"write">> \o Times(4, <<"rmw">>) \o
    <<"write", "blind">>

\* The identity is published before the reset that completes the attach.
AttachIdentity(P, roundtrip) ==
    <<"entry", "core_fresh">> \o PreIdentity(P) \o
    When("p1_shm_roundtrip" \in P, <<"post">> \o roundtrip) \o
    Tripoint(P) \o <<"read">> \o RadioSequence \o
    Anacore \o <<"identified">> \o AcphyReset

\* ob_radio_probe_test.
RadioProbe == PreIdentity({}) \o RadioSequence

(***************************************************************************)
(* The class 0 stages: three phases that trigger and poll the radio, then   *)
(* the suffix that gives back what they set.                                *)
(***************************************************************************)
\* EN_MAC is clear after the firmware chain; a word that has it set is suspended.
Quiesce == <<"entry", "post_ucode", "alive", "alive", "loose">>

\* A trigger bit goes from clear to set, then register 0413 is polled.
Trigger == <<"clear_0410", "set_0410", "set_0411", "read">>

Phase0 ==
    Quiesce \o <<"set_08ea">> \o Times(4, <<"alive">>) \o <<"write">> \o Trigger

Phase1 ==
    <<"clear_0411", "alive", "alive", "clear_0410">> \o Times(3, <<"alive">>) \o
    <<"write">> \o Trigger

Phase2 ==
    <<"clear_0411">> \o Times(5, <<"alive">>) \o <<"clear_0410">> \o Times(3, <<"alive">>) \o
    <<"write", "alive", "set_0171", "alive", "set_0371">> \o Trigger

ReturnSuffix ==
    <<"clear_0411", "alive", "clear_0171", "clear_0371", "clear_0410", "clear_08ea">>

\* Behind the OTP word: one PHY read-modify-write, the branch on register 0, three of
\* ChipCommon, written and read back without a comparison.
PostBmac ==
    <<"otp_gate", "entry", "write", "read">> \o Times(3, <<"alive", "write", "alive">>)

\* The target is re-read before the first access: shared memory and the wrapper's flags.
Class0Gate == <<"entry", "post_ucode", "ready_gate", "read", "read", "read">>

Class0(last) ==
    Class0Gate \o Phase0 \o
    When(last >= 1, Phase1) \o When(last >= 2, Phase2) \o
    When(last >= 3, ReturnSuffix) \o When(last >= 4, PostBmac)

(***************************************************************************)
(* The radio prefix and what follows it.                                    *)
(***************************************************************************)
\* Register 019e is changed for the table writes and put back after them.
LpfStage(P) == Tripoint(P) \o <<"write", "set_019e", "write", "clear_019e", "write">>

\* A word of shared memory is read and, if it is the sentinel, cleared.
ShmWord == <<"write", "trust", "write">>

\* The board's flags decide before anything is touched; otherwise it blocks in the end.
RadioPrefix(P) ==
    <<"entry", "radio_gate", "board">> \o Class0(3) \o LpfStage(P) \o
    ShmWord \o <<"blocked">>

\* ob_96203_live_stage: the operator must supply the gate value.
Live96203 == <<"supply", "alive">>

GoldenUnit == <<"alive">>

InitRun == <<"write">>

\* Goes on only behind the one expected block.
PostLpf(P) ==
    <<"resume">> \o When("acphy_96203_live" \in P, Live96203) \o GoldenUnit \o
    <<"entry">> \o InitRun \o <<"radio_complete">>

\* ob_radio2069_rev4_probe_test: preference registers, then the synthesizer, which only a
\* MAC that this stage suspended itself may enter.
Rev4Probe ==
    Quiesce \o <<"write", "suspended">> \o Times(7, <<"alive">>) \o <<"trust", "resume_mac">>
=============================================================================
