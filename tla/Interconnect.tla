---------------------------- MODULE Interconnect ----------------------------
(***************************************************************************)
(* The silicon interconnect (ob_si.c) as programs of steps: power-up, the   *)
(* identity probes of the D11 window, the OTP, the SPROM.                    *)
(***************************************************************************)
EXTENDS Steps
LOCAL INSTANCE Sequences

\* ob_si_validate_context: pointers and identity first, the loss latch last.
Context == <<"supply", "entry">>

\* ob_si_dump, classified: seven ChipCommon reads, none of them all ones.
FixedWindow == <<"alive">>

Powerup == Context \o FixedWindow \o <<"bus", "enable", "bus", "post">>

\* Eight reads whose values are only printed.
D11Diag == <<"post">>

\* A core that is not enabled is as good as one that is: only all ones fail.
EnableBracket == Context \o <<"alive">>

SflagsEvidence == <<"supply">> \o Context \o <<"alive">>

(***************************************************************************)
(* The SPROM.                                                              *)
(***************************************************************************)
\* Three sizes are tried; the first word and the CRC decide.
ReadMac == Context \o <<"supply", "read", "read">>

\* Only revision 11 is read again, and what that finds is not the caller's business.
ConsumeSprom == <<"supply", "try", "supply">> \o ReadMac \o <<"forget">>

SpromDiag == <<"post", "supply", "read">>

SpromEvidence == Context \o <<"supply", "sprom_asked">> \o SpromDiag

(***************************************************************************)
(* The OTP: it is powered, its two controls are taken over, and both are    *)
(* given back however the reading went.                                     *)
(***************************************************************************)
\* Sixteen bits, each commanded and polled.
OtpWord == <<"take_controls", "otp_word">>

\* The PMU resource is requested if the OTP is not up, then polled for.
OtpPower == <<"take_power", "powered">>

\* ob_si_otp_diag: nothing comes of its result.
OtpDiag ==
    <<"post", "try">> \o OtpPower \o <<"selector", "post">> \o OtpWord \o
    <<"give_power", "give_controls", "forget">>

Otp8e2EarlyReturn ==
    <<"supply", "entry", "read", "read", "try">> \o OtpPower \o OtpWord \o
    <<"verdict", "give_power", "give_controls">>

\* ob_si_otp8e2_probe: the word decides whether the postbmac mode may go on.
Otp8e2 ==
    <<"supply", "entry", "read", "read", "try">> \o OtpPower \o OtpWord \o
    <<"give_power", "give_controls", "verdict">>

(***************************************************************************)
(* The identity ladder: each probe times reads of a window that may stall.  *)
(* A stall ends the probe with success; most probes also set dev_lost.      *)
(***************************************************************************)
IdentityTiming == <<"post">>

Identity3e2 == <<"rung">>

IdentitySpan == Times(2, <<"rung">>)

IdentityControl == <<"rung">>

\* The bisection from 0x02b0 up to 0x03e0 takes nine reads.
IdentityLower == Times(9, <<"rung_set">>)

IdentityEdge2 == Times(2, <<"rung_set">>)

IdentityWide == Times(8, <<"rung_set">>)

IdentityEdge == Times(3, <<"rung_set">>)

IdentityUpper == Times(2, <<"rung_set">>)

IdentityControl16 == <<"rung_set">>

\* The baseline must be live, the island read may stall, the accesses after it bypass
\* the latch on purpose.
WrapperWitness == <<"baseline", "island", "bypass", "rebypass">>

PllWitness == <<"baseline", "rung_set", "rung_set">>

\* The very first access; it always stops the ladder.
FirstAccess == <<"baseline", "rung_set", "stop">>

\* The order of ob_si_probe.
Rungs(P) ==
    When("identity_pll_witness" \in P, PllWitness) \o
    When("identity_wrapper_witness" \in P, WrapperWitness) \o
    When("identity_lower" \in P, IdentityLower) \o
    When("identity_edge2" \in P, IdentityEdge2) \o
    When("identity_wide" \in P, IdentityWide) \o
    When("identity_edge" \in P, IdentityEdge) \o
    When("identity_upper" \in P, IdentityUpper) \o
    When("identity_control16" \in P, IdentityControl16) \o
    When("identity_control" \in P, IdentityControl) \o
    When("identity_span" \in P, IdentitySpan) \o
    When("identity_3e2_first" \in P, Identity3e2)

IdentityLadder(P) ==
    IF "identity_3e0_first" \in P THEN FirstAccess
    ELSE Rungs(P) \o
         When(P \cap {"identity_wrapper_witness", "identity_pll_witness"} = {}, IdentityTiming)

\* ob_si_p1_shm_roundtrip: three patterns through the object window.
ShmRoundtrip == <<"entry">> \o Times(3, <<"post", "read">>)

SiProbe(P, mode) ==
    Stage("si",
        Context \o <<"supply">> \o Powerup \o <<"core_up">> \o
        When("identity_3e0_first" \notin P, D11Diag) \o
        When(mode = "acphy_identity_timing", IdentityLadder(P)) \o
        ConsumeSprom \o
        (IF mode = "class0_postbmac" THEN Otp8e2 ELSE When("otp_diag" \in P, OtpDiag)) \o
        When(mode \in {"radio2069_rev4_probe", "d11_transaction_timing"}, EnableBracket))
=============================================================================
