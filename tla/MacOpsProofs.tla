---------------------------- MODULE MacOpsProofs ----------------------------
(***************************************************************************)
(* Proofs about MacOps for every set of channels, of known channels and of   *)
(* tuning rows.                                                             *)
(*                                                                         *)
(* While a start is in progress its stage determines the PHY life cycle      *)
(* exactly: so every guard that ob_phy.h puts in the way is open when the    *)
(* stages call it in their order, and a start can fail only for what the     *)
(* device or the channel gives as a reason.                                 *)
(***************************************************************************)
EXTENDS MacOps, TLAPS

(***************************************************************************)
(* The rungs of the life cycle that a start climbs.                         *)
(***************************************************************************)
Rung(p, b, d, l) == [phase |-> p, blocker |-> b, done |-> d, lookup |-> l]

Fresh == Rung("pre_radio", "none", {}, "none")
Ready == Rung("pre_radio_ready", "none", {}, "none")
Prefixed == Rung("radio", "none", {"prefix"}, "none")
Filtered == Rung("radio", "none", {"prefix", "lpf"}, "none")
Found == Rung("radio", "none", {"prefix", "lpf"}, "found")
Waits == Rung("blocked", "rev1_after_sub92500", {"prefix", "lpf"}, "found")
Sequenced == Rung("radio", "none", {"prefix", "lpf", "sequence"}, "found")
Complete == Rung("radio_complete", "none", {"prefix", "lpf", "sequence"}, "found")
Calibrating == Rung("calibration", "none", {"prefix", "lpf", "sequence"}, "found")
Unfit == Rung("blocked", "calibration_inputs", {"prefix", "lpf", "sequence"}, "found")

\* The phases a start goes through, and what it must have marked.
LEMMA OrderOf ==
  /\ {"pre_radio", "pre_radio_ready", "radio", "radio_complete"} \subseteq DOMAIN Order
  /\ Order["pre_radio"] = "pre_radio_ready" /\ Order["pre_radio_ready"] = "radio"
  /\ Order["radio"] = "radio_complete" /\ Order["radio_complete"] = "calibration"
BY SMT DEF Order

\* What the later phases of the PHY life cycle ask for.
LEMMA NeededFor ==
  /\ Needed("pre_radio_ready") = {} /\ Needed("radio") = {} /\ Needed("calibration") = {}
  /\ Needed("radio_complete") = {"prefix", "lpf", "sequence"}
BY Zenon DEF Needed

\* A phase may be left for the next one when what that one needs is marked.
LEMMA AdvanceFrom ==
  ASSUME NEW p \in DOMAIN Order, NEW b, NEW d, NEW l, Needed(Order[p]) \subseteq d
  PROVE  MayAdvance(Rung(p, b, d, l), Order[p])
<1>1. Rung(p, b, d, l).phase = p /\ Rung(p, b, d, l).done = d
  BY DEF Rung
<1> QED
  BY <1>1, Zenon DEF MayAdvance

\* The start and its first two phases.
LEMMA ReadyRung ==
  /\ MayBegin(NotStarted) /\ Begun(NotStarted) = Fresh
  /\ MayAdvance(Fresh, "pre_radio_ready") /\ Advanced(Fresh, "pre_radio_ready") = Ready
<1>1. MayBegin(NotStarted) /\ Begun(NotStarted) = Fresh
  BY DEF MayBegin, NotStarted, Begun, Moved, Fresh, Rung
<1>2. MayAdvance(Fresh, "pre_radio_ready")
  BY AdvanceFrom, OrderOf, NeededFor DEF Fresh
<1>3. Advanced(Fresh, "pre_radio_ready") = Ready
  BY DEF Advanced, Moved, Fresh, Ready, Rung
<1> QED
  BY <1>1, <1>2, <1>3

\* The boards that are not supported block before the radio part.
LEMMA BlockedRung ==
  ASSUME NEW b \in LpfBlockers
  PROVE  MayBlock(Ready, b) /\ Blocked(Ready, b) = Rung("blocked", b, {}, "none")
BY DEF MayBlock, Blocked, Moved, Ready, Rung

\* The radio part is entered, and its prefix marked.
LEMMA PrefixRung ==
  /\ MayAdvance(Ready, "radio")
  /\ MayMark(Advanced(Ready, "radio"), "prefix")
  /\ Marked(Advanced(Ready, "radio"), "prefix") = Prefixed
<1> DEFINE R == Rung("radio", "none", {}, "none")
<1>1. MayAdvance(Ready, "radio")
  BY AdvanceFrom, OrderOf, NeededFor DEF Ready
<1>2. Advanced(Ready, "radio") = R
  BY DEF Advanced, Moved, Ready, Rung
<1>3. MayMark(R, "prefix")
  BY DEF MayMark, Rung
<1>4. Marked(R, "prefix") = Prefixed
  BY DEF Marked, Prefixed, Rung
<1> QED
  BY <1>1, <1>2, <1>3, <1>4

\* The analog filter, the row of the channel, and the block behind it.
LEMMA FoundRung ==
  /\ MayMark(Prefixed, "lpf") /\ "prefix" \in Prefixed.done
  /\ Marked(Prefixed, "lpf") = Filtered
  /\ MayLookUp(Filtered) /\ LookedUp(Filtered, TRUE) = Found
  /\ MayBlock(Found, "rev1_after_sub92500") /\ Blocked(Found, "rev1_after_sub92500") = Waits
<1>1. MayMark(Prefixed, "lpf") /\ "prefix" \in Prefixed.done
  BY DEF MayMark, Prefixed, Rung
<1>2. Marked(Prefixed, "lpf") = Filtered
  BY DEF Marked, Prefixed, Filtered, Rung
<1>3. MayLookUp(Filtered) /\ LookedUp(Filtered, TRUE) = Found
  BY DEF MayLookUp, LookedUp, Filtered, Found, Rung
<1>4. MayBlock(Found, "rev1_after_sub92500")
  BY DEF MayBlock, Found, Rung
<1>5. Blocked(Found, "rev1_after_sub92500") = Waits
  BY DEF Blocked, Moved, Found, Waits, Rung
<1> QED
  BY <1>1, <1>2, <1>3, <1>4, <1>5

\* The sequence resumes behind the block and completes the radio part.
LEMMA CompleteRung ==
  /\ MayResume(Waits) /\ {"prefix", "lpf"} \subseteq Waits.done /\ Waits.lookup = "found"
  /\ SequenceMarked(Waits) = Complete
<1>1. MayResume(Waits) /\ {"prefix", "lpf"} \subseteq Waits.done /\ Waits.lookup = "found"
  BY DEF MayResume, Waits, Rung
<1>2. Resumed(Waits) = Found
  BY DEF Resumed, Moved, Waits, Found, Rung
<1>3. MayMark(Found, "sequence")
  BY DEF MayMark, Found, Rung
<1>4. Marked(Found, "sequence") = Sequenced
  BY DEF Marked, Found, Sequenced, Rung
<1>5. MayAdvance(Sequenced, "radio_complete")
  BY AdvanceFrom, OrderOf, NeededFor DEF Sequenced
<1>6. Advanced(Sequenced, "radio_complete") = Complete
  BY DEF Advanced, Moved, Sequenced, Complete, Rung
<1>7. SequenceMarked(Waits) = Complete
  BY <1>2, <1>3, <1>4, <1>5, <1>6 DEF SequenceMarked
<1> QED
  BY <1>1, <1>7

\* Calibration is entered and has no inputs.
LEMMA CalibrationRung ==
  /\ MayAdvance(Complete, "calibration") /\ Advanced(Complete, "calibration") = Calibrating
  /\ MayBlock(Calibrating, "calibration_inputs")
  /\ Blocked(Calibrating, "calibration_inputs") = Unfit
<1>1. MayAdvance(Complete, "calibration")
  BY AdvanceFrom, OrderOf, NeededFor DEF Complete
<1>2. Advanced(Complete, "calibration") = Calibrating
  BY DEF Advanced, Moved, Complete, Calibrating, Rung
<1>3. MayBlock(Calibrating, "calibration_inputs")
  BY DEF MayBlock, Calibrating, Rung
<1>4. Blocked(Calibrating, "calibration_inputs") = Unfit
  BY DEF Blocked, Moved, Calibrating, Unfit, Rung
<1> QED
  BY <1>1, <1>2, <1>3, <1>4

-----------------------------------------------------------------------------
(***************************************************************************)
(* The inductive invariant.                                                 *)
(***************************************************************************)
\* The stops an open interface may be at.
Stopped ==
  \/ phy.phase = "pre_radio_ready" /\ phy.done = {}
  \/ phy.phase = "blocked" /\ phy.blocker \in LpfBlockers /\ phy.done = {}
  \/ /\ phy.phase = "blocked" /\ phy.blocker = "calibration_inputs"
     /\ phy.done = {"prefix", "lpf", "sequence"} /\ phy.lookup = "found"

\* The life cycle each stage of the start finds.
Climbing ==
  /\ at = "pre_radio" => phy = Fresh
  /\ at = "radio" => phy = Ready
  /\ at = "lpf" => phy = Prefixed
  /\ at = "sub92500" => phy = Filtered
  /\ at = "post_lpf" => phy = Waits
  /\ at = "calibration" => phy = Complete
  /\ at = "tune" => Stopped

\* A start in progress is the first one, on a channel, of a closed interface.
Starting ==
  at # "idle" =>
    /\ ~up /\ base = None /\ chanspec \in Chans
    /\ start = IF at = "pre_radio" THEN "in_progress" ELSE "ready"

Untouched ==
  start = "not_started" => phy = NotStarted /\ chanspec = None /\ base = None /\ ~up

\* An interface is open, or on record, only behind a start that went through.
OnRecord ==
  /\ up => base # None
  /\ base # None => Stopped /\ start = "ready"

LossIsOdd == lost => odd

IInv ==
  /\ TypeOK
  /\ Climbing
  /\ Starting
  /\ Untouched
  /\ OnRecord
  /\ LossIsOdd
  /\ ReadyIsTuned
  /\ FailsForAReason

-----------------------------------------------------------------------------
(***************************************************************************)
(* The two ways a stage ends.                                               *)
(***************************************************************************)
\* Every rung is a life cycle.
LEMMA RungTypes ==
  ASSUME NEW p \in Phases, NEW b \in Blockers, NEW d \in SUBSET Marks,
         NEW l \in {"none", "found", "missed"}
  PROVE  Rung(p, b, d, l) \in Ladders
BY DEF Rung, Ladders

\* The records a start can leave of the PHY life cycle have their type.
LEMMA RungsAreLadders ==
  /\ {NotStarted, Fresh, Ready, Prefixed, Filtered, Waits, Complete, Unfit} \subseteq Ladders
  /\ \A b \in LpfBlockers : Rung("blocked", b, {}, "none") \in Ladders
<1>1. {"not_started", "pre_radio", "pre_radio_ready", "radio", "radio_complete", "blocked",
       "failed"} \subseteq Phases
  BY OrderOf DEF Phases
<1>2. {"none", "rev1_after_sub92500", "calibration_inputs"} \cup LpfBlockers \subseteq Blockers
  BY DEF Blockers
<1>3. {{}, {"prefix"}, {"prefix", "lpf"}, {"prefix", "lpf", "sequence"}} \subseteq SUBSET Marks
  BY DEF Marks
<1>4. NotStarted = Rung("not_started", "none", {}, "none")
  BY DEF NotStarted, Rung
<1>5. NotStarted \in Ladders /\ Fresh \in Ladders /\ Ready \in Ladders
  BY <1>1, <1>2, <1>3, <1>4, RungTypes DEF Fresh, Ready
<1>6. Prefixed \in Ladders /\ Filtered \in Ladders
  BY <1>1, <1>2, <1>3, RungTypes DEF Prefixed, Filtered
<1>7. Waits \in Ladders /\ Complete \in Ladders /\ Unfit \in Ladders
  BY <1>1, <1>2, <1>3, RungTypes DEF Waits, Complete, Unfit
<1>8. \A b \in LpfBlockers : Rung("blocked", b, {}, "none") \in Ladders
  BY <1>1, <1>2, <1>3, RungTypes
<1> QED
  BY <1>5, <1>6, <1>7, <1>8

\* A failing life cycle keeps its type.
LEMMA FailedType ==
  ASSUME NEW s \in Ladders
  PROVE  Failed(s) \in Ladders
<1>1. "failed" \in Phases /\ "none" \in Blockers
  BY DEF Phases, Blockers
<1>2. Moved(s, "failed", "none") \in Ladders
  BY <1>1 DEF Moved, Ladders
<1> QED
  BY <1>2, Zenon DEF Failed

\* The fail label of ob_ops_start: the failure must have its reason.
LEMMA FailStartKeeps ==
  ASSUME IInv, NEW s \in Ladders, FailStart(s), UNCHANGED <<board, alive>>,
         ~up, base = None,
         lost' \in BOOLEAN, odd' \in BOOLEAN, lost' => odd',
         odd' \/ chanspec \in Wide \/ chanspec \notin Rows
  PROVE  IInv'
<1>1. /\ phy' = Failed(s) /\ start' = "failed" /\ at' = "idle"
      /\ UNCHANGED <<chanspec, base, chip, up, board, alive>>
  BY DEF FailStart
<1>2. TypeOK'
  BY <1>1, FailedType DEF IInv, TypeOK
<1>3. Climbing' /\ Starting' /\ Untouched'
  BY <1>1 DEF Climbing, Starting, Untouched
<1>4. OnRecord' /\ ReadyIsTuned'
  BY <1>1 DEF OnRecord, ReadyIsTuned
<1>5. LossIsOdd' /\ FailsForAReason'
  BY <1>1 DEF LossIsOdd, FailsForAReason
<1> QED
  BY <1>2, <1>3, <1>4, <1>5 DEF IInv

Later == {"radio", "lpf", "sub92500", "post_lpf", "calibration", "tune"}

\* A stage behind the pre-radio setup ended well.
LEMMA GoKeeps ==
  ASSUME IInv, at \in Later, NEW s \in Ladders, NEW next \in Later, Go(s, next),
         UNCHANGED <<board, alive>>, Climbing',
         lost' \in BOOLEAN, odd' \in BOOLEAN, lost' => odd'
  PROVE  IInv'
<1>1. phy' = s /\ at' = next /\ UNCHANGED <<start, chanspec, base, chip, up, board, alive>>
  BY DEF Go
<1>2. at # "idle" /\ at # "pre_radio" /\ at' # "idle" /\ at' # "pre_radio"
  BY <1>1 DEF Later
<1>3. TypeOK'
  BY <1>1 DEF IInv, TypeOK, Later
<1>4. ~up /\ base = None /\ chanspec \in Chans /\ start = "ready"
  BY <1>2 DEF IInv, Starting
<1>5. Starting' /\ Untouched' /\ OnRecord' /\ ReadyIsTuned'
  BY <1>1, <1>2, <1>4 DEF Starting, Untouched, OnRecord, ReadyIsTuned
<1>6. LossIsOdd' /\ FailsForAReason'
  BY <1>1, <1>4 DEF LossIsOdd, FailsForAReason
<1> QED
  BY <1>3, <1>5, <1>6 DEF IInv

\* A stage that touches the device, either way.
LEMMA StageKeeps ==
  ASSUME IInv, at \in Later, NEW s0 \in Ladders, NEW s1 \in Ladders, NEW next \in Later,
         Stage(s0, s1, next),
         phy' = s1 /\ at' = next => Climbing'
  PROVE  IInv'
<1>1. PICK o \in IF lost THEN {"error"} ELSE Outcomes :
        /\ IF o = "done" THEN Go(s1, next) ELSE FailStart(s0)
        /\ lost' = (lost \/ o = "lost")
        /\ odd' = (odd \/ o # "done")
        /\ UNCHANGED <<board, alive>>
  BY DEF Stage
<1>2. lost' \in BOOLEAN /\ odd' \in BOOLEAN
  BY <1>1, Zenon
<1>3. lost' => odd'
  BY <1>1, Zenon DEF IInv, LossIsOdd
<1>4. ~up /\ base = None
  BY DEF IInv, Starting, Later
<1>5. CASE o = "done"
  <2>1. Go(s1, next)
    BY <1>1, <1>5
  <2>2. Climbing'
    BY <2>1 DEF Go
  <2> QED
    BY <2>1, <2>2, <1>1, <1>2, <1>3, GoKeeps
<1>6. CASE o # "done"
  <2>1. FailStart(s0) /\ odd'
    BY <1>1, <1>6
  <2> QED
    BY <2>1, <1>1, <1>2, <1>3, <1>4, FailStartKeeps
<1> QED
  BY <1>5, <1>6

-----------------------------------------------------------------------------
(***************************************************************************)
(* One lemma per stage of the start.                                        *)
(***************************************************************************)
LEMMA InitIInv == Init => IInv
<1> SUFFICES ASSUME Init PROVE IInv
  OBVIOUS
<1>1. TypeOK
  BY RungsAreLadders DEF Init, TypeOK
<1> QED
  BY <1>1 DEF Init, IInv, Climbing, Starting, Untouched, OnRecord, LossIsOdd, ReadyIsTuned,
     FailsForAReason

\* Opening the interface starts from a clean record.
LEMMA OpenKeeps ==
  ASSUME IInv, NEW c \in Chans, Open(c)
  PROVE  IInv'
<1>1. phy = NotStarted /\ chanspec = None /\ base = None /\ ~up /\ start = "not_started"
  BY DEF IInv, Untouched, Open
<1>2. UNCHANGED <<board, lost, alive, odd>>
  BY DEF Open
<1>3. lost \in BOOLEAN /\ odd \in BOOLEAN /\ (lost => odd)
  BY DEF IInv, TypeOK, LossIsOdd
<1>4. CASE lost
  <2>1. FailStart(phy)
    BY <1>4 DEF Open
  <2>2. phy \in Ladders
    BY DEF IInv, TypeOK
  <2> QED
    BY <2>1, <2>2, <1>1, <1>2, <1>3, <1>4, FailStartKeeps
<1>5. CASE ~lost
  <2>1. MayBegin(phy)
    BY <1>1, ReadyRung
  <2>2. /\ start' = "in_progress" /\ chanspec' = c
        /\ phy' = Begun(phy) /\ at' = "pre_radio"
        /\ UNCHANGED <<base, chip, up>>
    BY <2>1, <1>1, <1>5 DEF Open
  <2>3. phy' = Fresh
    BY <2>2, <1>1, ReadyRung
  <2>4. TypeOK'
    BY <2>2, <2>3, <1>2, RungsAreLadders DEF IInv, TypeOK
  <2>5. Climbing' /\ Starting' /\ Untouched' /\ OnRecord'
    BY <2>2, <2>3, <1>1 DEF Climbing, Starting, Untouched, OnRecord
  <2>6. LossIsOdd' /\ ReadyIsTuned' /\ FailsForAReason'
    BY <2>2, <1>1, <1>2, <1>3 DEF LossIsOdd, ReadyIsTuned, FailsForAReason
  <2> QED
    BY <2>4, <2>5, <2>6 DEF IInv
<1> QED
  BY <1>4, <1>5

\* The part of a start before the radio.
LEMMA PreRadioKeeps ==
  ASSUME IInv, PreRadio
  PROVE  IInv'
<1>1. at = "pre_radio" /\ UNCHANGED <<board, alive>>
  BY DEF PreRadio
<1>2. phy = Fresh /\ ~up /\ base = None /\ chanspec \in Chans
  BY <1>1 DEF IInv, Climbing, Starting
<1>3. PICK o \in IF chanspec \in Wide THEN {"error"} ELSE Outcomes :
        /\ IF o = "done" /\ ~lost /\ MayAdvance(phy, "pre_radio_ready")
           THEN /\ phy' = Advanced(phy, "pre_radio_ready")
                /\ start' = "ready" /\ at' = "radio"
                /\ UNCHANGED <<chanspec, base, chip, up>>
           ELSE FailStart(phy)
        /\ lost' = (lost \/ o = "lost")
        /\ odd' = (odd \/ (o # "done" /\ chanspec \notin Wide))
  BY DEF PreRadio
<1>4. lost' \in BOOLEAN /\ odd' \in BOOLEAN
  BY <1>3, Zenon
<1>5. lost' => odd'
  <2>1. o = "lost" => chanspec \notin Wide
    BY <1>3
  <2> QED
    BY <2>1, <1>3, Zenon DEF IInv, LossIsOdd
<1>6. CASE o = "done" /\ ~lost
  <2>1. /\ phy' = Ready /\ start' = "ready" /\ at' = "radio"
        /\ UNCHANGED <<chanspec, base, chip, up>>
    BY <1>2, <1>3, <1>6, ReadyRung
  <2>2. TypeOK'
    BY <2>1, <1>1, <1>4, RungsAreLadders DEF IInv, TypeOK
  <2>3. Climbing' /\ Starting' /\ Untouched' /\ OnRecord'
    BY <2>1, <1>2 DEF Climbing, Starting, Untouched, OnRecord
  <2>4. LossIsOdd' /\ ReadyIsTuned' /\ FailsForAReason'
    BY <2>1, <1>2, <1>5 DEF LossIsOdd, ReadyIsTuned, FailsForAReason
  <2> QED
    BY <2>2, <2>3, <2>4 DEF IInv
<1>7. CASE ~(o = "done" /\ ~lost)
  <2>1. FailStart(phy)
    BY <1>3, <1>7, Zenon
  <2>2. odd' \/ chanspec \in Wide
    BY <1>3, <1>7, Zenon DEF IInv, LossIsOdd
  <2>3. phy \in Ladders
    BY DEF IInv, TypeOK
  <2> QED
    BY <2>1, <2>2, <2>3, <1>1, <1>2, <1>4, <1>5, FailStartKeeps
<1> QED
  BY <1>6, <1>7

\* What a stage without an access may rely on.
LEMMA InProgress ==
  ASSUME IInv, at \in Later, UNCHANGED <<lost, odd>>
  PROVE  /\ ~up /\ base = None /\ chanspec \in Chans /\ start = "ready"
         /\ lost' \in BOOLEAN /\ odd' \in BOOLEAN /\ (lost' => odd')
         /\ phy \in Ladders
<1>1. at # "idle" /\ at # "pre_radio"
  BY DEF Later
<1> QED
  BY <1>1 DEF IInv, Starting, TypeOK, LossIsOdd

\* The radio part of a start.
LEMMA RadioKeeps ==
  ASSUME IInv, RadioUnknown \/ RadioBlocked \/ RadioPrefix
  PROVE  IInv'
<1>1. at = "radio" /\ at \in Later /\ "tune" \in Later /\ "lpf" \in Later
  BY DEF RadioUnknown, RadioBlocked, RadioPrefix, Later
<1>2. phy = Ready /\ phy \in Ladders
  BY <1>1, RungsAreLadders DEF IInv, Climbing
<1>3. CASE RadioUnknown
  <2>1. Go(phy, "tune") /\ UNCHANGED <<board, lost, alive, odd>>
    BY <1>3 DEF RadioUnknown
  <2>2. Climbing'
    BY <2>1, <1>2 DEF Go, Climbing, Stopped, Ready, Rung
  <2> QED
    BY <2>1, <2>2, <1>1, <1>2, InProgress, GoKeeps
<1>4. CASE RadioBlocked
  <2> DEFINE b == LpfBlocker[board]
  <2>1. b \in LpfBlockers
    BY <1>4 DEF RadioBlocked, LpfBlocker, LpfBlockers
  <2>2. MayBlock(phy, b) /\ Blocked(phy, b) = Rung("blocked", b, {}, "none")
    BY <2>1, <1>2, BlockedRung
  <2>3. Go(Blocked(phy, b), "tune") /\ UNCHANGED <<board, lost, alive, odd>>
    BY <1>4, <2>2 DEF RadioBlocked
  <2> HIDE DEF b
  <2>4. Climbing'
    BY <2>1, <2>2, <2>3 DEF Go, Climbing, Stopped, Rung
  <2>5. Blocked(phy, b) \in Ladders
    BY <2>1, <2>2, RungsAreLadders
  <2> QED
    BY <2>3, <2>4, <2>5, <1>1, InProgress, GoKeeps
<1>5. CASE RadioPrefix
  <2>1. start = "ready"
    BY <1>1 DEF IInv, Starting
  <2>2. Stage(Advanced(phy, "radio"), Prefixed, "lpf")
    BY <1>2, <1>5, <2>1, PrefixRung, Zenon DEF RadioPrefix
  <2>3. Advanced(phy, "radio") = Rung("radio", "none", {}, "none")
    BY <1>2 DEF Advanced, Moved, Ready, Rung
  <2>4. Advanced(phy, "radio") \in Ladders
    BY <2>3, OrderOf, RungTypes DEF Phases, Blockers
  <2>5. phy' = Prefixed /\ at' = "lpf" => Climbing'
    BY DEF Climbing
  <2> QED
    BY <2>2, <2>4, <2>5, <1>1, RungsAreLadders, StageKeeps
<1> QED
  BY <1>3, <1>4, <1>5

\* The search for the analog low pass filter setting.
LEMMA AnalogLpfKeeps ==
  ASSUME IInv, AnalogLpf
  PROVE  IInv'
<1>1. at = "lpf" /\ at \in Later /\ "sub92500" \in Later
  BY DEF AnalogLpf, Later
<1>2. phy = Prefixed
  BY <1>1 DEF IInv, Climbing
<1>3. Stage(phy, Filtered, "sub92500")
  BY <1>2, FoundRung, Zenon DEF AnalogLpf
<1>4. phy' = Filtered /\ at' = "sub92500" => Climbing'
  BY DEF Climbing
<1> QED
  BY <1>1, <1>2, <1>3, <1>4, RungsAreLadders, StageKeeps

\* The stage between the filter and what follows it.
LEMMA Sub92500Keeps ==
  ASSUME IInv, Sub92500
  PROVE  IInv'
<1>1. at = "sub92500" /\ at \in Later /\ "post_lpf" \in Later
  BY DEF Sub92500, Later
<1>2. phy = Filtered
  BY <1>1 DEF IInv, Climbing
<1>3. Stage(Found, Waits, "post_lpf")
  BY <1>2, FoundRung, Zenon DEF Sub92500
<1>4. phy' = Waits /\ at' = "post_lpf" => Climbing'
  BY DEF Climbing
<1>5. Found \in Ladders
  BY OrderOf, RungTypes DEF Found, Phases, Blockers, Marks
<1> QED
  BY <1>1, <1>3, <1>4, <1>5, RungsAreLadders, StageKeeps

\* The stage behind the filter.
LEMMA PostLpfKeeps ==
  ASSUME IInv, PostLpf
  PROVE  IInv'
<1>1. at = "post_lpf" /\ at \in Later /\ "calibration" \in Later
  BY DEF PostLpf, Later
<1>2. phy = Waits
  BY <1>1 DEF IInv, Climbing
<1>3. Stage(phy, Complete, "calibration")
  BY <1>2, CompleteRung, Zenon DEF PostLpf
<1>4. phy' = Complete /\ at' = "calibration" => Climbing'
  BY DEF Climbing
<1> QED
  BY <1>1, <1>2, <1>3, <1>4, RungsAreLadders, StageKeeps

\* The calibration, the last part of a start.
LEMMA CalibrationKeeps ==
  ASSUME IInv, Calibration
  PROVE  IInv'
<1>1. at = "calibration" /\ at \in Later /\ "tune" \in Later
  BY DEF Calibration, Later
<1>2. phy = Complete /\ UNCHANGED <<board, lost, alive, odd>>
  BY <1>1 DEF IInv, Climbing, Calibration
<1>3. CASE lost
  <2>1. FailStart(phy)
    BY <1>3 DEF Calibration
  <2> QED
    BY <2>1, <1>1, <1>2, <1>3, InProgress, FailStartKeeps
<1>4. CASE ~lost
  <2>1. Go(Unfit, "tune")
    BY <1>2, <1>4, CalibrationRung, Zenon DEF Calibration
  <2>2. Climbing'
    BY <2>1 DEF Go, Climbing, Stopped, Unfit, Rung
  <2> QED
    BY <2>1, <2>2, <1>1, <1>2, RungsAreLadders, InProgress, GoKeeps
<1> QED
  BY <1>3, <1>4

\* Tuning to a channel, in a start or on its own.
LEMMA TuneKeeps ==
  ASSUME IInv, Tune
  PROVE  IInv'
<1>1. at = "tune" /\ at \in Later /\ UNCHANGED <<board, lost, alive, odd>>
  BY DEF Tune, Later
<1>2. /\ ~up /\ base = None /\ chanspec \in Chans /\ start = "ready" /\ phy \in Ladders
      /\ lost' \in BOOLEAN /\ odd' \in BOOLEAN /\ (lost' => odd')
  BY <1>1, InProgress
<1>3. CASE Tunable(chanspec)
  <2>1. /\ Tuned(chanspec) /\ base' = chanspec /\ up' = TRUE /\ at' = "idle"
        /\ UNCHANGED <<phy, start, chanspec>>
    BY <1>3 DEF Tune
  <2>2. chip' = IF alive THEN chanspec ELSE chip
    BY <2>1 DEF Tuned
  <2>3. TypeOK'
    BY <2>1, <2>2, <1>1, <1>2 DEF IInv, TypeOK
  <2>4. Stopped'
    BY <2>1, <1>1 DEF IInv, Climbing, Stopped
  <2>5. chanspec # None
    BY <1>2, ChansAssumption
  <2>6. Climbing' /\ Starting' /\ Untouched' /\ OnRecord'
    BY <2>1, <2>4, <2>5, <1>2 DEF Climbing, Starting, Untouched, OnRecord
  <2>7. LossIsOdd' /\ ReadyIsTuned' /\ FailsForAReason'
    BY <2>1, <2>2, <1>1, <1>2 DEF LossIsOdd, ReadyIsTuned, FailsForAReason
  <2> QED
    BY <2>3, <2>6, <2>7 DEF IInv
<1>4. CASE ~Tunable(chanspec)
  <2>1. FailStart(phy)
    BY <1>4 DEF Tune
  <2>2. odd' \/ chanspec \notin Rows
    BY <1>1, <1>2, <1>4 DEF Tunable
  <2> QED
    BY <2>1, <2>2, <1>1, <1>2, FailStartKeeps
<1> QED
  BY <1>3, <1>4

-----------------------------------------------------------------------------
(***************************************************************************)
(* The other calls, and the device.                                         *)
(***************************************************************************)
\* A channel change keeps what the interface stands on.
LEMMA ConfigKeeps ==
  ASSUME IInv, NEW c \in Chans, Config(c)
  PROVE  IInv'
<1>1. /\ at = "idle" /\ up /\ base # None
      /\ UNCHANGED <<board, phy, start, lost, alive, at, up, odd>>
  BY DEF Config, IInv, OnRecord
<1>2. start = "ready" /\ Stopped
  BY <1>1 DEF IInv, OnRecord
<1>3. \/ /\ chip' = IF alive THEN c ELSE chip
         /\ chanspec' = c /\ base' = c
      \/ UNCHANGED <<chanspec, base, chip>>
  BY <1>1 DEF Config, Tuned
<1>4. c # None
  BY ChansAssumption
<1>5. TypeOK'
  BY <1>1, <1>3 DEF IInv, TypeOK
<1>6. Climbing' /\ Starting' /\ Untouched' /\ LossIsOdd' /\ FailsForAReason'
  BY <1>1, <1>2 DEF IInv, Climbing, Starting, Untouched, LossIsOdd, FailsForAReason
<1>7. Stopped'
  BY <1>1, <1>2 DEF Stopped
<1>8. OnRecord' /\ ReadyIsTuned'
  BY <1>1, <1>2, <1>3, <1>4, <1>7 DEF IInv, OnRecord, ReadyIsTuned
<1> QED
  BY <1>5, <1>6, <1>8 DEF IInv

\* Opening again, closing, losing the device and loading the driver anew.
LEMMA OthersKeep ==
  ASSUME IInv, OpenAgain \/ Stop \/ Die \/ Reload
  PROVE  IInv'
<1>1. CASE OpenAgain
  <2>1. /\ base # None /\ up' = TRUE /\ at = "idle"
        /\ UNCHANGED <<board, phy, start, chanspec, base, lost, alive, chip, at, odd>>
    BY <1>1 DEF OpenAgain
  <2> QED
    BY <2>1 DEF IInv, TypeOK, Climbing, Starting, Untouched, OnRecord, Stopped, LossIsOdd,
       ReadyIsTuned, FailsForAReason
<1>2. CASE Stop
  <2>1. /\ up' = FALSE /\ at = "idle"
        /\ UNCHANGED <<board, phy, start, chanspec, base, lost, alive, chip, at, odd>>
    BY <1>2 DEF Stop
  <2> QED
    BY <2>1 DEF IInv, TypeOK, Climbing, Starting, Untouched, OnRecord, Stopped, LossIsOdd,
       ReadyIsTuned, FailsForAReason
<1>3. CASE Die
  <2>1. /\ alive' = FALSE
        /\ UNCHANGED <<board, phy, start, chanspec, base, lost, chip, at, up, odd>>
    BY <1>3 DEF Die
  <2>2. TypeOK'
    BY <2>1 DEF IInv, TypeOK
  <2>3. Climbing' /\ Starting' /\ Untouched' /\ OnRecord' /\ LossIsOdd' /\ FailsForAReason'
    BY <2>1 DEF IInv, Climbing, Starting, Untouched, OnRecord, Stopped, LossIsOdd,
       FailsForAReason
  <2>4. ReadyIsTuned'
    BY <2>1 DEF ReadyIsTuned
  <2> QED
    BY <2>2, <2>3, <2>4 DEF IInv
<1>4. CASE Reload
  <2>1. /\ phy' = NotStarted /\ start' = "not_started" /\ chanspec' = None /\ base' = None
        /\ lost' = FALSE /\ chip' = None /\ odd' = FALSE /\ at = "idle" /\ ~up
        /\ UNCHANGED <<board, alive, at, up>>
    BY <1>4 DEF Reload
  <2>2. TypeOK'
    BY <2>1, RungsAreLadders DEF IInv, TypeOK
  <2> QED
    BY <2>1, <2>2 DEF IInv, Climbing, Starting, Untouched, OnRecord, LossIsOdd,
       ReadyIsTuned, FailsForAReason
<1> QED
  BY <1>1, <1>2, <1>3, <1>4

\* Every step keeps the invariant.
LEMMA NextIInv == IInv /\ [Next]_vars => IInv'
<1> SUFFICES ASSUME IInv, [Next]_vars PROVE IInv'
  OBVIOUS
<1>1. CASE Next
  BY <1>1, OpenKeeps, PreRadioKeeps, RadioKeeps, AnalogLpfKeeps, Sub92500Keeps, PostLpfKeeps,
     CalibrationKeeps, TuneKeeps, ConfigKeeps, OthersKeep, Zenon DEF Next
<1>2. CASE UNCHANGED vars
  BY <1>2 DEF vars, IInv, TypeOK, Climbing, Starting, Untouched, OnRecord, Stopped, LossIsOdd,
     ReadyIsTuned, FailsForAReason
<1> QED
  BY <1>1, <1>2

\* The invariant holds of every behaviour.
THEOREM Invariance == Spec => []IInv
BY InitIInv, NextIInv, PTL DEF Spec

\* The record of a start keeps its types, for any channels.
THEOREM TypeCorrect == Spec => []TypeOK
<1>1. IInv => TypeOK
  BY DEF IInv
<1> QED
  BY <1>1, Invariance, PTL

\* ob_mac80211.c:388: what a second open does not replay is what the device is tuned to.
THEOREM RecordIsTruth == Spec => []ReadyIsTuned
<1>1. IInv => ReadyIsTuned
  BY DEF IInv
<1> QED
  BY <1>1, Invariance, PTL

\* ob_mac80211.c:463: an open interface stands before the radio part or behind all of it.
THEOREM OpensAtAStop == Spec => []OpenAtDocumentedStop
<1>1. IInv => OpenAtDocumentedStop
  BY DEF IInv, OnRecord, Stopped, OpenAtDocumentedStop
<1> QED
  BY <1>1, Invariance, PTL

\* The guards of ob_phy.h refuse nothing the stages of a start ask of them.
THEOREM NoGuardIsClosed == Spec => []FailsForAReason
<1>1. IInv => FailsForAReason
  BY DEF IInv
<1> QED
  BY <1>1, Invariance, PTL
=============================================================================
