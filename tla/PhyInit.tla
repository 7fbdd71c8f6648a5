------------------------------ MODULE PhyInit ------------------------------
(***************************************************************************)
(* The initialisation routines of the PHY that run over a backend of         *)
(* callbacks (ob_phy_lpf.c, ob_phy_post_lpf.c, ob_phy_a0be4.c,               *)
(* ob_phy_a6b0f.c, ob_phy_9eaf9.c, ob_phy_9e378.c, ob_phy_farrow_crs.c,      *)
(* ob_phy_post_farrow_continuation.c, ob_phy_9af05_loop.c, and the start of  *)
(* the calibration, ob_acphy_cal_run.c) as programs of the steps of         *)
(* PhyPower.  What a recorded vector does to a register that it saves and    *)
(* puts back is kept; the rest of the vector is "call".                     *)
(***************************************************************************)
EXTENDS PhyPower
LOCAL INSTANCE Naturals
LOCAL INSTANCE Sequences

(***************************************************************************)
(* The low-pass filter block, and what is composed behind it.                *)
(***************************************************************************)
LpfRegisterPrefix == Calls \o << <<"save", "019e">>, <<"set", "019e">> >>

\* 23 table descriptors between the prefix and the restore.
LpfComplete == LpfRegisterPrefix \o Calls \o << <<"restore", "019e">> >> \o Calls

\* The target, the board flags and the stage of the initialisation are asked for first.
LpfInputsSupported(F) == {"target", "boardflags3"} \cap F = {}

LpfStageRun(F) ==
    When(~LpfInputsSupported(F), Refusal) \o When("stage" \in F, Refusal) \o LpfComplete

\* Two bits of one register, and the CCA reset with the PHY clock forced on.
A7089Vector ==
    << <<"save", "019e">>, <<"save", "019e_0">>, <<"set", "019e">>, <<"set", "019e_0">> >> \o
    Calls \o Holding("fgc", Holding("cca", Calls)) \o Calls \o
    << <<"restore", "019e">>, <<"restore", "019e_0">> >>

ValidFixture(F) == {"refused", "no_row"} \cap F = {}

\* nested_912 is compared with the PHY revision only here.
A7089Key1Row63(F) ==
    When(~ValidFixture(F) \/ "912_differs" \in F, Refusal) \o A7089Vector

PostLpfCompose(F) == When(~ValidFixture(F), Refusal) \o LpfComplete \o A7089Key1Row63(F)

\* Revision 1 makes one PHY write more.
A0be4Vector(F) ==
    Calls \o When("revision_1" \in F, Calls) \o Holding("fgc", Holding("cca", Calls)) \o Calls

ValidA0be4(F) == ValidFixture(F) /\ {"912_differs", "core_type"} \cap F = {}

\* Alone it asks whether the block in front of it has been run.
A0be4Selected(F) ==
    When(~ValidA0be4(F) \/ "prior_missing" \in F, Refusal) \o A0be4Vector(F)

ThroughA0be4(F) ==
    When(~ValidA0be4(F), Refusal) \o PostLpfCompose(F) \o A0be4Selected(F \ {"prior_missing"})

\* Between its own save and its own restore the vector saves and restores five times more.
A6b0fVector(F) ==
    Calls \o Times(5, Saving("019e", Calls)) \o When("branch" \in F, Calls)

A6b0fChild == Saving("019e", << >>)

A6b0fParent(F) == Saving("019e", A6b0fChild \o A6b0fVector(F))

ValidA6b0f(F) == ValidA0be4(F) /\ {"boardflags2", "revision_1"} \cap F = {}

A6b0fSelected(F) ==
    When(~ValidA6b0f(F) \/ "prior_missing" \in F, Refusal) \o A6b0fParent(F)

ThroughA6b0f(F) ==
    When(~ValidA6b0f(F), Refusal) \o ThroughA0be4(F) \o A6b0fSelected(F \ {"prior_missing"})

(***************************************************************************)
(* The table streams behind it.                                             *)
(***************************************************************************)
\* One nested bracket for the filter.
Vector9eaf9 == Saving("019e", Calls \o Saving("019e", Calls) \o Calls)

\* The word that is read into the payload, and each of the four samples behind its key.
Valid9eaf9Samples(F) == {"word2_missing", "sample_key"} \cap F = {}

\* A strict fixture is not run: one word of its payload is not known.
Sub9eaf9(F) ==
    When("refused" \in F, Refusal) \o
    When("skip" \notin F,
        When("strict" \in F \/ ~Valid9eaf9Samples(F), Refusal) \o Vector9eaf9)

\* All sixteen variants have the same four nested brackets.
Vector9e378 == Saving("019e", Calls \o Times(4, Saving("019e", Calls)) \o Calls)

Sub9e378(F) ==
    When("refused" \in F, Refusal) \o
    When("skip" \notin F, When("selector" \in F, Refusal) \o Vector9e378)

(***************************************************************************)
(* Farrow filter, CRS thresholds, and the desense helper behind them.        *)
(***************************************************************************)
FarrowRows == {"row_40", "row_48", "row_50", "row_58"}

\* Two samples, and the rows of the one channel and frequency that were recorded.
ValidSelectedInputs(F) == {"sample_key", "other_frequency"} \cap F = {}

\* The saved register is that of the two table writes alone.
Farrow == Calls \o Saving("019e", Calls) \o Calls

CrsWrapper == Suspended("none", Holding("phyreg", Calls))

\* Of the four rows a profile can have, the first alone is supported, and alone.
FarrowCrs(F) ==
    When("refused" \in F, Refusal) \o
    When(F \cap FarrowRows # {},
        When(F \cap FarrowRows # {"row_40"} \/ ~ValidSelectedInputs(F), Refusal) \o
        Farrow \o CrsWrapper)

\* Only software state: it is replaced as a whole, or not at all.
PostFarrowContinue(F) == When("refused" \in F, Refusal)

\* Ends with two registers set; what was found there is its result.
DesensePrefix(F) ==
    When({"refused", "not_complete"} \cap F # {}, Refusal) \o
    << <<"save", "019e">>, <<"set", "019e">>, <<"save", "016c">>, <<"set", "016c">> >>

\* The one branch that is there: the low band, both arguments of the caller, two bytes
\* to copy; and six samples, each behind its key.
Valid9af05(F) ==
    /\ {"refused", "sample_key"} \cap F = {}
    /\ {"low", "argument_sil", "argument_dl"} \subseteq F
    /\ {"nested_912", "other_length"} \cap F = {}

\* Starts where the prefix ends, and is told what that one found.
Chain1Loop(F) ==
    << <<"given", "019e">>, <<"given", "016c">> >> \o
    When(~Valid9af05(F), Refusal) \o
    Calls \o << <<"restore", "016c">>, <<"restore", "019e">> >>

(***************************************************************************)
(* The start of the initial calibration.                                    *)
(***************************************************************************)
\* The identity, the radio behind it, its channel, no failure before, the vendor's own
\* gate, an owner for the receive cores and a platform: in this order, before any call.
AdmitsCalibration(F) ==
    {"target", "prior_missing", "refused", "fatal", "skip", "no_owner", "no_platform"} \cap F = {}

\* The result has no place for the MAC.
Sub925cc == Calls \o << <<"suspend", "none">>, <<"take", "phyreg">> >> \o Calls

\* What follows is not recovered: the MAC stays down, the PHY registers entered.
CalRun(F) ==
    When(~AdmitsCalibration(F), Refusal) \o Calls \o Sub925cc \o << <<"stop", "tail">> >>
=============================================================================
