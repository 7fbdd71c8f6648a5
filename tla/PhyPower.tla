------------------------------ MODULE PhyPower ------------------------------
(***************************************************************************)
(* The transmit-power and gain routines of the PHY (ob_phy_9a539.c and what  *)
(* it calls, ob_phy_txpwr_index.c, ob_phy_96203.c, ob_phy_a7089_txpwr.c) as   *)
(* programs of steps <<verb, object>>, which module PhyRoutines runs.  F is   *)
(* the set of facts about its inputs that a routine branches on.             *)
(*                                                                         *)
(* A run of backend calls that any of them may end is one "call".  A routine *)
(* that is called by another validates its inputs when it is called, so a     *)
(* "refuse" may stand behind calls already made.                            *)
(***************************************************************************)
EXTENDS Steps
LOCAL INSTANCE Naturals
LOCAL INSTANCE Sequences

Calls == << <<"call", "backend">> >>

Refusal == << <<"refuse", "input">> >>

\* A register is read, changed for what follows, and written back as it was read.
Saving(reg, body) ==
    << <<"save", reg>>, <<"set", reg>> >> \o body \o << <<"restore", reg>> >>

\* A clock, a gate or a bit that is clear by rule is taken and given back.
Holding(what, body) == << <<"take", what>> >> \o body \o << <<"give", what>> >>

\* Which fields of the result tell of the MAC is part of the step (PhyRoutines!Sets).
Suspended(how, body) == << <<"suspend", how>> >> \o body \o << <<"enable", how>> >>

(***************************************************************************)
(* ob_phy_99658.c: coefficient tables.                                      *)
(***************************************************************************)
\* The source of the coefficients is the caller's to name, but it has to be this one.  "low"
\* is the low band, "mid" either of the two lower parts of the high one.
SelectSource(argument, F) ==
    CASE argument = 1 /\ "low" \in F -> "arg1_chanspec_low"
      [] argument = 1 /\ "low" \notin F ->
            IF "mid" \in F THEN "arg1_band" ELSE "arg1_other_band"
      [] argument = 2 /\ "low" \notin F -> "arg2_high_band"
      [] argument = 2 /\ "low" \in F ->
            IF "66e_nonzero" \in F THEN "arg2_low_66e_nonzero" ELSE "arg2_low_66e_zero"

\* An input of the recorded kind has bytes that nobody knows; it is not prepared.
Prepares99658(argument, named, F) ==
    "99658_historical" \notin F /\ named = SelectSource(argument, F)

\* The first argument brings literals of its own.
Prepares998cc(argument, named, F) ==
    "998cc_historical" \notin F /\ (argument = 2 => named = "998cc_static_row")

\* Four table writes, two for each chain.
Sub99658(argument, named, F) == When(~Prepares99658(argument, named, F), Refusal) \o Calls

Sub998cc(argument, named, F) == When(~Prepares998cc(argument, named, F), Refusal) \o Calls

\* All four inputs are looked at before the first of the four runs, each of which looks
\* at its own again.
TableStage9af05(F) ==
    LET first == IF "misnamed_1" \in F THEN "none" ELSE SelectSource(1, F)
        second == IF "misnamed_2" \in F THEN "none" ELSE SelectSource(2, F)
        row == IF "misnamed_row" \in F THEN "none" ELSE "998cc_static_row"
    IN  When("refused" \in F, Refusal) \o
        When(\/ ~Prepares99658(1, first, F) \/ ~Prepares998cc(1, "none", F)
             \/ ~Prepares99658(2, second, F) \/ ~Prepares998cc(2, row, F), Refusal) \o
        Sub99658(1, first, F) \o Sub998cc(1, "none", F) \o
        Sub99658(2, second, F) \o Sub998cc(2, row, F)

(***************************************************************************)
(* ob_phy_9a121.c: the gains of the active cores.                           *)
(***************************************************************************)
\* Two PHY words, for the first selector a table word as well.
Sub99f29 == Calls

ActiveChildPrefix == Calls \o Times(5, Sub99f29)

Sub90493 == Calls

\* The gain estimate is taken twice, each time with a sample of the core behind it.
ContinueSelectedCore == Times(2, Sub90493 \o Calls)

\* Samples, then one PHY field and one radio field.
Sub9175a == Calls

Sub91b6e == Calls

\* Per-core limits outside of 1 .. 0x22 are refused, but only if some core is active.
Valid9a121(F) == ~({"cores", "limits"} \subseteq F) /\ "refused" \notin F

Sub9a121(F) ==
    When(~Valid9a121(F), Refusal) \o
    Saving("019e",
        When("cores" \in F, ActiveChildPrefix \o ContinueSelectedCore \o Sub9175a \o Sub91b6e))

\* Validates the limits of its own: the caller of this one has not.
Selector0(F) == When("limits" \in F, Refusal) \o Sub99f29

(***************************************************************************)
(* ob_phy_9a539.c.  A fact named after a nested byte: it changed since the    *)
(* last run.                                                               *)
(***************************************************************************)
Calls99658_1(F) == F \cap {"66e", "66a"} # {}
Calls99658_2(F) == F \cap {"66e", "66b"} # {}
Calls998cc_1(F) == "66c" \in F
Calls998cc_2(F) == "66d" \in F

\* Everything this routine itself asks for, before the MAC is suspended.
Unprepared(F) == "refused" \in F

\* The first run names the other-band source for every high channel ...
Source1(F) == IF "low" \in F THEN "arg1_chanspec_low" ELSE "arg1_other_band"

RightSource1(F) == Prepares99658(1, Source1(F), F)

Run99658_1(F) == When(Calls99658_1(F), Sub99658(1, Source1(F), F))

\* ... and the second the high-band source for every channel.
RightSource2(F) == Prepares99658(2, "arg2_high_band", F)

Run99658_2(F) == When(Calls99658_2(F), Sub99658(2, "arg2_high_band", F))

Run998cc_1(F) == When(Calls998cc_1(F), Sub998cc(1, "none", F))

Run998cc_2(F) == When(Calls998cc_2(F), Sub998cc(2, "998cc_static_row", F))

\* The gains are set again if any of the tables was.
Run9a121(F) ==
    When(Calls99658_1(F) \/ Calls99658_2(F) \/ Calls998cc_1(F) \/ Calls998cc_2(F), Sub9a121(F))

RunOuter99f29(F) == When("cores" \in F, Selector0(F))

Sub8f41b == Calls

Sub8f84d == Calls

Sub90b77 == Calls

NonzeroSupported(F) ==
    Sub90b77 \o Run99658_1(F) \o Run99658_2(F) \o Run998cc_1(F) \o Run998cc_2(F) \o
    Run9a121(F) \o RunOuter99f29(F) \o Sub8f41b \o Sub8f84d \o When("low" \in F, Calls)

Sub9a539(F) ==
    When(Unprepared(F), Refusal) \o
    Suspended("flag",
        Saving("019e",
            (IF "argument" \in F THEN NonzeroSupported(F)
             ELSE Sub8f84d \o Sub90b77 \o When("low" \in F, Calls)) \o
            Calls))

(***************************************************************************)
(* ob_phy_txpwr_index.c: the power index of the selected cores.              *)
(***************************************************************************)
\* Both helpers save and set the register again that the caller holds.
Sub9868f == Saving("019e", Calls)

Sub9c4e4 == Saving("019e", Calls)

TxpwrByIndex(F) ==
    When("refused" \in F, Refusal) \o
    Saving("019e", When("cores" \in F, Sub9868f \o Calls \o Sub9c4e4))

(***************************************************************************)
(* ob_phy_96203.c: radio gate, CCA reset, and the two together.              *)
(***************************************************************************)
\* Polls end after ten rounds either way.
OuterCore == Saving("core_gain", Calls)

Helper96203(F) ==
    Holding("gate", Times(2, OuterCore)) \o When("second_loop" \in F, Holding("gate", Calls))

\* In the special chips the clock is released before the reset bit is.
ResetCca(F) ==
    IF "special" \in F
    THEN << <<"take", "fgc">>, <<"take", "cca">>, <<"take", "019e_0">>,
            <<"give", "fgc">>, <<"give", "cca">>, <<"give", "019e_0">> >> \o Calls
    ELSE Holding("fgc", Holding("cca", Calls)) \o Calls

Test96203(F) == When("refused" \in F, Refusal) \o Helper96203(F)

TestResetCca(F) == When("refused" \in F, Refusal) \o ResetCca(F)

Caller96203(F) ==
    When("refused" \in F, Refusal) \o
    When("selected" \in F, ResetCca(F) \o Calls \o Helper96203(F))

\* The live path does not take an input that nobody owns.
Live96203(F) == When("refused" \in F, Refusal) \o Helper96203(F)

(***************************************************************************)
(* ob_phy_a7089_txpwr.c.                                                    *)
(***************************************************************************)
TxpwrctrlArg0 == Calls

TxpwrctrlNonzero == Calls

\* A hundred polls at most; running out of them is not a failure.
Sub93e47 == Calls

\* Mutant: the register saved last is not put back.
RfseqKeeps019e ==
    << <<"save", "0400">>, <<"save", "019e">>, <<"set", "019e">>, <<"set", "0400">> >> \o
    Calls \o << <<"restore", "0400">> >>

\* What was saved first is put back first.
Rfseq ==
    << <<"save", "0400">>, <<"save", "019e">>, <<"set", "019e">>, <<"set", "0400">> >> \o
    Calls \o << <<"restore", "0400">>, <<"restore", "019e">> >>

\* Without the two MAC operations the hardware arm is not run at all.  0401 stands for
\* its bits 0x7000: the bits 7 get a value of the caller, the bits 0x70 keep the new state.
RxcoreSetstate(how, F) ==
    When("context_31" \in F,
        When("no_platform" \in F, << <<"refuse", "operation">> >>) \o
        Suspended(how,
            << <<"save", "0401">>, <<"save", "0400">>, <<"set", "0401">>, <<"set", "0400">> >> \o
            Rfseq \o Rfseq \o << <<"restore", "0401">>, <<"restore", "0400">> >>))

\* The count is decremented first; only at zero is there anything to program.
StayInCarriersearch(F) == When("count_runs_out" \in F, Calls)

PostAa63e(F) ==
    Sub93e47 \o When("32c" \in F, Calls \o When("mask_differs" \in F, RxcoreSetstate("rxcore", F))) \o
    ResetCca(F) \o When("special" \in F, Calls) \o StayInCarriersearch(F)

\* The state the caller says the MAC is in is the first to be handed back; it may be unknown.
Told(F) ==
    When("told_enabled" \in F, << <<"tell", "ENABLED">> >>) \o
    When("told_suspended" \in F, << <<"tell", "SUSPENDED">> >>)

\* sub_9949f is not there: the vendor's next step after the suspension is where this stops.
Sub995abTail(F) ==
    Told(F) \o
    When({"bytes_change", "context_31"} \subseteq F,
        When("no_platform" \in F, << <<"refuse", "operation">> >>) \o
        << <<"suspend", "sub_99528">>, <<"stop", "sub_9949f">> >>) \o
    (IF "fa0" \in F THEN TxpwrctrlNonzero ELSE TxpwrctrlArg0) \o
    When("post_aa63e" \in F, PostAa63e(F))

TssiPhyWrite == Calls

ValidA7089(F) == "refused" \notin F /\ ("post_aa63e" \in F => "tail" \in F)

Phy040a == Calls

A7089Txpwr(F) ==
    When(~ValidA7089(F), Refusal) \o
    Caller96203(F) \o When({"special", "pi_3"} \cap F # {}, Phy040a) \o
    Times(2, TxpwrByIndex(F \cup {"cores"})) \o TxpwrctrlArg0 \o TssiPhyWrite \o
    When("tail" \in F, Sub995abTail(F))

\* The export hands on what the routine did, not the state of the MAC itself.
RxcoreSetstateExport(F) == When("refused" \in F, Refusal) \o RxcoreSetstate("export", F)
=============================================================================
