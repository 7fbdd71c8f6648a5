----------------------------- MODULE CalStages -----------------------------
(***************************************************************************)
(* The stages of a probe that suspend the MAC around PHY or radio writes:   *)
(*   rev4   the radio stage of ob_radio2069_rev4_probe_test (ob_radio.c)    *)
(*   write  ob_acphy_cal_write_stage_run, the first calibration write       *)
(*   w2     ob_acphy_cal_w2_replay_run with the setstate before it          *)
(*   look   ob_acphy_cal_stage_witness_run, which only reads                *)
(* with their kernel callbacks in ob_phy.c and the report of ob_core.c.  A  *)
(* probe runs one of them, in one thread.  An action is one callback, or    *)
(* a run of register accesses between two callbacks that can change what    *)
(* happens next; the device may stop answering in any of them.              *)
(***************************************************************************)
EXTENDS D11Mac

CONSTANT Stages     \* the stages to start

ASSUME StageAssumption == Stages \subseteq {"rev4", "write", "w2", "look"}

VARIABLES
    mac,        \* the MAC and what struct ob_hw records of it
    stage,      \* the stage this probe runs
    step,       \* the step it is at
    owns,       \* result->mac_suspended, or radio_stage_owns_suspend
    entered,    \* result->phyreg_entered
    depth,      \* mac_depth of the replay's callbacks
    took,       \* mac_entered: the outer hold took the MAC down
    phy,        \* PHY words the setstate forces: as found, forced or wrong
    saved,      \* what was read of them before
    writes,     \* writes issued to PHY 0x0070
    status,     \* result->status, all refusals as one; "oops" if the thread was killed
    found       \* history: the MAC at the start of the stage

vars == <<mac, stage, step, owns, entered, depth, took, phy, saved, writes, status, found>>

bracket == <<owns, entered>>
nesting == <<depth, took>>
words == <<phy, saved>>

Words == {"0400", "0401", "019E"}

Restored == [w \in Words |-> "found"]

\* The order of the steps of each stage when every one succeeds.
Script ==
    [look |-> <<"contract", "sample">>,
     rev4 |-> <<"quiesce", "synth", "sentinel", "own">>,
     write |-> <<"contract", "admit", "suspend", "enter", "disable", "restore", "exit", "resume",
                 "compare">>,
     w2 |-> <<"contract", "admit", "hold", "save", "force", "rfseq0", "rfseq1", "unforce", "release",
              "post", "suspend", "enter", "disable", "kick", "restore", "exit", "resume", "compare">>]

Steps == {"closeExit", "closeMac", "drop", "end"} \cup
         UNION {{Script[s][i] : i \in DOMAIN Script[s]} : s \in DOMAIN Script}

After(p) ==
    LET i == CHOOSE j \in DOMAIN Script[stage] : Script[stage][j] = p
    IN  IF i + 1 \in DOMAIN Script[stage] THEN Script[stage][i + 1] ELSE "end"

\* Found: running, or paused at startup with bit 26 set.
Init ==
    /\ mac \in {[en |-> e, wake |-> TRUE, alive |-> TRUE, lost |-> FALSE,
                 bitmap |-> {}, refs |-> 0, suspended |-> FALSE] : e \in BOOLEAN}
    /\ stage \in Stages
    /\ step = Script[stage][1]
    /\ owns = FALSE /\ entered = FALSE
    /\ depth = 0 /\ took = FALSE
    /\ phy = Restored /\ saved = Restored
    /\ writes = 0
    /\ status = "running"
    /\ found = mac

Good(o) == o.ok /\ ~o.m.lost

\* A failed callback is a loss when the latch is set, else a failed bracket;
\* a callback that returned 0 on a lost device is a loss.
Classified(o) == IF o.m.lost THEN "lost" ELSE "bracket_failed"

\* After a callback of outcome o: the next step, or stop.
Goes(o, stop) ==
    /\ mac' = o.m
    /\ step' = IF Good(o) THEN After(step) ELSE stop
    /\ status' = IF Good(o) THEN status ELSE Classified(o)

\* PHY accesses do not fail or latch on a device not known to be lost.
PhyAccess == {mac} \cup {Dead(mac)}

(***************************************************************************)
(* The callbacks that take the MAC down and up.  The replay counts: a       *)
(* nested hold only increments, and the last release resumes only a MAC     *)
(* that the first hold took down.                                           *)
(***************************************************************************)
SuspendOutcomes ==
    IF stage = "w2" /\ mac.lost THEN {Failed(mac)}
    ELSE IF stage = "w2" /\ depth > 0 THEN {Done(mac)}
    ELSE CalSuspend(mac)

Nested(o) ==
    IF stage # "w2" THEN UNCHANGED nesting
    ELSE /\ depth' = IF o.ok THEN depth + 1 ELSE depth
         /\ took' = IF depth = 0 /\ o.ok THEN o.m.suspended # mac.suspended ELSE took

ResumeOutcomes ==
    IF stage # "w2" THEN EnableMac(mac)
    ELSE IF mac.lost \/ depth = 0 THEN {Failed(mac)}
    ELSE IF depth = 1 /\ took THEN EnableMac(mac) ELSE {Done(mac)}

\* Mutant: the depth is not counted down.
Released ==
    IF stage # "w2" \/ mac.lost \/ depth = 0 THEN UNCHANGED nesting
    ELSE depth' = depth - 1 /\ took' = (took /\ depth > 1)

(***************************************************************************)
(* Calibration.  The stage is admitted by the identity of the device, then  *)
(* by the PHY words it finds.  A PHY read cannot fail, so a word that was   *)
(* read of a dead window is a wrong word.                                   *)
(***************************************************************************)
\* The identity, a completed radio stage, the controlled channel; and, both known and both
\* of the one recorded fixture, the PLL selector and the row of the channel.
ContractFacts ==
    {"target", "radio", "chanspec", "selector_known", "selector_0", "row_known", "row_63"}

\* What is wrong comes before what is not known, and neither is admitted.
ContractAdmits(F) ==
    /\ {"target", "radio", "chanspec"} \subseteq F
    /\ "selector_known" \in F => "selector_0" \in F
    /\ "row_known" \in F => "row_63" \in F
    /\ {"selector_known", "row_known"} \subseteq F

\* An identity other than the controlled one is no error: the stage is blocked.
Contract ==
    /\ step = "contract"
    /\ \E F \in SUBSET ContractFacts :
          /\ step' = IF ContractAdmits(F) THEN After(step) ELSE "end"
          /\ status' = IF ContractAdmits(F) THEN status ELSE "refused"
    /\ UNCHANGED <<mac, stage, bracket, nesting, words, writes, found>>

\* PHY 0x0380: clear at once, clear later, or the bound is reached.
PollEnds(m) == {"exhausted"} \cup {end \in {"clear", "later"} : m.alive}

\* The witness reports whatever it reads.
Sample ==
    /\ step = "sample"
    /\ mac' \in PhyAccess
    /\ step' = "end" /\ status' = "ok"
    /\ UNCHANGED <<stage, bracket, nesting, words, writes, found>>

\* The words 0x0401 and 0x0400 may read as they should only if they are as found;
\* 0x0070 and 0x0380 may differ in any case.
Matches(m) == m.alive /\ phy["0400"] = "found" /\ phy["0401"] = "found"

Compares(m) ==
    \/ Matches(m) /\ step' = After(step)
       /\ status' = IF After(step) = "end" THEN "ok" ELSE status
    \/ step' = "end" /\ status' = "refused"

\* A poll that is clear only later is a different state: refused.
Prestate ==
    /\ step = "admit" /\ stage = "write"
    /\ \E m \in PhyAccess : \E end \in PollEnds(m) :
          /\ mac' = m
          /\ IF end = "clear" THEN Compares(m) ELSE step' = "end" /\ status' = "refused"
    /\ UNCHANGED <<stage, bracket, nesting, words, writes, found>>

EntrySample ==
    /\ step = "admit" /\ stage = "w2"
    /\ \E m \in PhyAccess : mac' = m /\ Compares(m)
    /\ UNCHANGED <<stage, bracket, nesting, words, writes, found>>

\* What the setstate left.
PostSample ==
    /\ step = "post"
    /\ \E m \in PhyAccess : mac' = m /\ Compares(m)
    /\ UNCHANGED <<stage, bracket, nesting, words, writes, found>>

\* Behind the bracket nothing may have moved.
PostState ==
    /\ step = "compare" /\ stage = "write"
    /\ \E m \in PhyAccess : mac' = m /\ Compares(m)
    /\ UNCHANGED <<stage, bracket, nesting, words, writes, found>>

PostIdentity ==
    /\ step = "compare" /\ stage = "w2"
    /\ \E m \in PhyAccess : mac' = m /\ Compares(m)
    /\ UNCHANGED <<stage, bracket, nesting, words, writes, found>>

\* The setstate does not look at the latch after its hold: the PHY read that
\* follows fails and the hold is dropped.
Hold ==
    /\ step = "hold"
    /\ \E o \in SuspendOutcomes :
        /\ Goes(o, IF o.ok THEN "drop" ELSE "end")
        /\ Nested(o)
    /\ UNCHANGED <<stage, bracket, words, writes, found>>

Save ==
    /\ step = "save"
    /\ \E m \in PhyAccess, lies \in SUBSET {"0400", "0401"} :
        /\ mac' = m
        /\ saved' = [w \in Words |-> IF w \in lies \/ ~m.alive THEN "wrong" ELSE "found"]
    /\ step' = After(step)
    /\ UNCHANGED <<stage, bracket, nesting, phy, writes, status, found>>

\* A write reaches the register or is dropped by a dead window; which of the
\* two words got through before it died is open.
ForceWords ==
    /\ step = "force"
    /\ \E m \in PhyAccess, through \in SUBSET {"0400", "0401"} :
        /\ m.alive => through = {"0400", "0401"}
        /\ mac.alive \/ through = {}
        /\ mac' = m
        /\ phy' = [w \in Words |-> IF w \in through THEN "forced" ELSE phy[w]]
    /\ step' = After(step)
    /\ UNCHANGED <<stage, bracket, nesting, saved, writes, status, found>>

\* 0x019e is forced and put back around a poll that ends on a clear bit or on
\* its bound, with the same consequence.
Rfseq ==
    /\ step \in {"rfseq0", "rfseq1"}
    /\ \E m \in PhyAccess, left \in {phy["019E"], "forced", "wrong"} :
        /\ m.alive => left # "forced"
        /\ mac.alive \/ left = phy["019E"]
        /\ mac' = m
        /\ phy' = [phy EXCEPT !["019E"] = left]
    /\ step' = After(step)
    /\ UNCHANGED <<stage, bracket, nesting, saved, writes, status, found>>

\* 0x0401 gets its low bits from a constant and its high bits from the word
\* saved, 0x0400 the word saved.
Unforce ==
    /\ step = "unforce"
    /\ \E m \in PhyAccess, through \in SUBSET {"0400", "0401"} :
        /\ m.alive => through = {"0400", "0401"}
        /\ mac.alive \/ through = {}
        /\ mac' = m
        /\ phy' = [w \in Words |-> IF w \in through THEN saved[w] ELSE phy[w]]
    /\ step' = After(step)
    /\ UNCHANGED <<stage, bracket, nesting, saved, writes, status, found>>

\* The failure of the hold's release after a lost read is not looked at.
Release ==
    /\ step \in {"release", "drop"}
    /\ \E o \in ResumeOutcomes :
        /\ mac' = o.m
        /\ step' = IF step = "release" /\ Good(o) THEN After(step) ELSE "end"
        /\ status' = IF step = "release" /\ ~Good(o) THEN Classified(o) ELSE status
    /\ Released
    /\ UNCHANGED <<stage, bracket, words, writes, found>>

\* A failed suspend returns at once.  The write stage has the MAC to resume only
\* if it took it down ...
Suspend ==
    /\ step = "suspend" /\ stage = "write"
    /\ \E o \in SuspendOutcomes :
        /\ Goes(o, "end")
        /\ owns' = (Good(o) /\ o.m.suspended # mac.suspended)
    /\ UNCHANGED <<stage, entered, nesting, words, writes, found>>

\* ... the replay has a hold to release in any case.
OpenBracket ==
    /\ step = "suspend" /\ stage = "w2"
    /\ \E o \in SuspendOutcomes :
        /\ Goes(o, "end")
        /\ Nested(o)
        /\ owns' = Good(o)
    /\ UNCHANGED <<stage, entered, words, writes, found>>

(***************************************************************************)
(* The entry of the PHY registers.  The replay passes its own record as the *)
(* context, and the two callbacks take it for a struct ob_hw: the latch,    *)
(* the bitmap and the refcount they look at are words of the stack, and so  *)
(* are those they change.  They return success or failure, the device as it *)
(* was, or look for its registers behind a wild pointer.                    *)
(***************************************************************************)
Astray == {Done(mac), Failed(mac)}

EnterOutcomes == IF stage = "w2" THEN Astray ELSE PhyregEnter(mac)

ExitOutcomes == IF stage = "w2" THEN Astray ELSE PhyregExit(mac)

\* The wild access: the thread ends there, and nobody closes or returns anything.
Oops ==
    /\ stage = "w2"
    /\ step \in {"enter", "exit"} \/ (step = "closeExit" /\ entered)
    /\ step' = "end" /\ status' = "oops"
    /\ UNCHANGED <<mac, stage, bracket, nesting, words, writes, found>>

Enter ==
    /\ step = "enter"
    /\ \E o \in EnterOutcomes :
        /\ Goes(o, "closeMac")
        /\ entered' = Good(o)
    /\ UNCHANGED <<stage, owns, nesting, words, writes, found>>

\* One arm on PHY 0x0070: the word read must be the admitted one, else nothing
\* is written; the word read back must be the one written.
OneArm ==
    \E m \in PhyAccess :
        /\ mac' = m
        /\ \/ /\ step' = "closeExit" /\ status' = "refused"
              /\ writes' \in {writes} \cup {n \in {writes + 1} : mac.alive}
           \/ m.alive /\ step' = After(step) /\ writes' = writes + 1 /\ UNCHANGED status

Arm ==
    /\ step \in {"disable", "restore"} /\ stage = "write"
    /\ OneArm
    /\ UNCHANGED <<stage, bracket, nesting, words, found>>

ReplayArm ==
    /\ step \in {"disable", "restore"} /\ stage = "w2"
    /\ OneArm
    /\ UNCHANGED <<stage, bracket, nesting, words, found>>

\* ob_acphy_cal_w2_kick_allowed is false: PHY 0x0380 is read and never written.
Kick ==
    /\ step = "kick"
    /\ mac' \in PhyAccess
    /\ step' = After(step)
    /\ UNCHANGED <<stage, bracket, nesting, words, writes, status, found>>

Exit ==
    /\ step = "exit"
    /\ \E o \in ExitOutcomes :
        /\ Goes(o, IF o.ok THEN "closeExit" ELSE "closeMac")
        /\ entered' = ~Good(o)
    /\ UNCHANGED <<stage, owns, nesting, words, writes, found>>

\* The write stage resumes only a MAC that it took down.
Resume ==
    /\ step = "resume" /\ stage = "write"
    /\ \/ /\ owns
          /\ \E o \in ResumeOutcomes :
                /\ Goes(o, "end")
                /\ owns' = ~Good(o)
       \/ /\ ~owns
          /\ step' = After(step)
          /\ UNCHANGED <<mac, owns, status>>
    /\ UNCHANGED <<stage, entered, nesting, words, writes, found>>

CloseBracket ==
    /\ step = "resume" /\ stage = "w2"
    /\ \E o \in ResumeOutcomes :
        /\ Goes(o, "end")
        /\ owns' = ~Good(o)
    /\ Released
    /\ UNCHANGED <<stage, entered, words, writes, found>>

(***************************************************************************)
(* The close after a refusal or failure inside the bracket: the exit once   *)
(* more unless the exit is what failed, then the resume.  A close call that *)
(* fails decides the status, a loss before all.                             *)
(***************************************************************************)
\* Mutant: the close keeps the first status.
FirstStatus(o) == status

Worse(o) == IF Good(o) \/ status = "lost" THEN status ELSE Classified(o)

CloseExit ==
    /\ step = "closeExit"
    /\ \/ /\ entered
          /\ \E o \in ExitOutcomes :
                mac' = o.m /\ entered' = ~Good(o) /\ status' = Worse(o)
       \/ ~entered /\ UNCHANGED <<mac, entered, status>>
    /\ step' = "closeMac"
    /\ UNCHANGED <<stage, owns, nesting, words, writes, found>>

CloseMac ==
    /\ step = "closeMac"
    /\ \/ /\ owns
          /\ \E o \in ResumeOutcomes :
                mac' = o.m /\ owns' = ~Good(o) /\ status' = Worse(o)
          /\ Released
       \/ ~owns /\ UNCHANGED <<mac, owns, nesting, status>>
    /\ step' = "end"
    /\ UNCHANGED <<stage, entered, words, writes, found>>

(***************************************************************************)
(* The radio stage: quiesce, preferred registers and synthesizer, sentinel, *)
(* resume if the quiesce took the MAC down.                                 *)
(***************************************************************************)
Quiesce ==
    /\ step = "quiesce"
    /\ \E o \in QuiesceForRadio(mac) :
        /\ Goes(o, "end")
        /\ owns' = IF o.ok THEN o.m.suspended ELSE owns
    /\ UNCHANGED <<stage, entered, nesting, words, writes, found>>

\* The checked transition refuses unless the MAC is recorded as suspended.
Synth ==
    /\ step = "synth"
    /\ \E o \in Read(mac) : Goes(IF mac.suspended THEN o ELSE Failed(mac), "end")
    /\ UNCHANGED <<stage, bracket, nesting, words, writes, found>>

\* The sentinel is read through the trusted wrapper, which latches a loss.
Sentinel ==
    /\ step = "sentinel"
    /\ \E o \in Read(mac) : Goes([o EXCEPT !.m.lost = ~o.ok], "end")
    /\ UNCHANGED <<stage, bracket, nesting, words, writes, found>>

Own ==
    /\ step = "own"
    /\ \E o \in IF owns THEN EnableMac(mac) ELSE {Done(mac)} :
        /\ mac' = o.m
        /\ status' = IF o.ok THEN "ok" ELSE Classified(o)
        /\ owns' = (owns /\ ~o.ok)
    /\ step' = "end"
    /\ UNCHANGED <<stage, entered, nesting, words, writes, found>>

Next ==
    \/ Contract \/ Sample \/ Prestate \/ EntrySample \/ PostSample \/ PostState \/ PostIdentity
    \/ Hold \/ Save \/ ForceWords \/ Rfseq \/ Unforce \/ Release
    \/ Suspend \/ OpenBracket \/ Oops \/ Enter \/ Arm \/ ReplayArm \/ Kick \/ Exit
    \/ Resume \/ CloseBracket \/ CloseExit \/ CloseMac
    \/ Quiesce \/ Synth \/ Sentinel \/ Own

Spec == Init /\ [][Next]_vars

(***************************************************************************)
(* What the probe returns: a lost device stays bound; the radio stage and   *)
(* the write stage return what failed, a refusal is no error.  The replay   *)
(* returns 0 whatever its status is, if it returns.                         *)
(***************************************************************************)
Unsettled == status \in {"bracket_failed", "lost", "oops"}

LookReturns == IF Unsettled THEN "error" ELSE "ok"

WriteReturns == IF Unsettled THEN "error" ELSE "ok"

ReplayReturns == "ok"

RadioReturns == IF Unsettled THEN "error" ELSE "ok"

Returns == [look |-> LookReturns, write |-> WriteReturns, w2 |-> ReplayReturns,
            rev4 |-> RadioReturns]

\* Mutant: a failed bracket is no error.
Lenient ==
    IF step # "end" \/ status = "oops" THEN "none" ELSE IF mac.lost THEN "bound"
    ELSE IF status = "lost" THEN "error" ELSE "ok"

Report ==
    IF step # "end" \/ status = "oops" THEN "none"
    ELSE IF mac.lost THEN "bound" ELSE Returns[stage]

-----------------------------------------------------------------------------
\* While an override is recorded bit 26 is set in a MAC that answers: nobody
\* else's clear takes it away (wlc_ucode_wake_override_clear writes only when
\* the bitmap empties).  In the write stage two owners share it; in the replay
\* only the suspend override reaches the device (Astray).
OverrideHoldsWake == mac.alive /\ mac.bitmap # {} => mac.wake

\* A pause that the stage found is never lifted by it, on no path, nested
\* holds and closes after a failure included.
ForeignPauseKept == ~found.en => ~mac.en

\* A stage that ends clean or refuses leaves the MAC, the refcount, the
\* nesting and the PHY words compared after the bracket as it found them.  The
\* refcount is that of the device, which the replay's entries never reach.
CleanOrRefusedIsBalanced ==
    step = "end" /\ status \in {"ok", "refused"} =>
        /\ mac.en = found.en /\ mac.refs = found.refs /\ mac.suspended = found.suspended
        /\ depth = 0 /\ ~took
        /\ status = "ok" => phy["0400"] = "found" /\ phy["0401"] = "found"

\* The radio and the write stage never report success with the MAC left down
\* or the refcount up.
LeftDownIsReported ==
    step = "end" /\ stage # "w2" /\ (mac.en # found.en \/ mac.refs # 0) => Report # "ok"

\* Against "The bracket stays OPEN across the kick and its poll"
\* (ob_acphy_cal_w2_replay.h:23): PHY 0x0070 is written only between an entry and
\* an exit that count at this device.
WritesAreBracketed == [][writes' # writes => mac.refs > 0]_vars

\* Against ob_core.c:2047: a failed callback of the replay stops the probe.
ReplayFailStop == step = "end" /\ status = "bracket_failed" => Report # "ok"

\* Against ob_acphy_cal_write_stage.h: a failed suspend was unwound.
SuspendUnwinds ==
    [][step = "suspend" /\ step' = "end" /\ status' = "bracket_failed" =>
            mac'.en = found.en /\ mac'.bitmap = {}]_vars

\* Against ob_radio.c:1790: a MAC found paused at startup goes through the
\* radio stage; once quiesced, the synthesizer step accepts it.
QuiescedEntryAccepted == step = "synth" => mac.suspended
=============================================================================
