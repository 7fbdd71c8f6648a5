------------------------------- MODULE MacOps -------------------------------
(***************************************************************************)
(* The mac80211 operations of ob_mac80211.c that reach the device: open,     *)
(* channel change, close, on a device a bring-up load has registered.  The  *)
(* first open runs the one-shot PHY sequence of ob_phy.c as far as it goes  *)
(* and then writes the tuning row of the channel; the transmit path is      *)
(* module TxPath.  mac80211 serialises these calls; the device may die at   *)
(* any point, and a loss is noticed only where a stage reads.               *)
(***************************************************************************)
EXTENDS PhyLadder
CONSTANTS
    Chans,    \* the channel definitions userspace may ask for
    First,    \* channel 1 at 20 MHz, the one the radio sequence is known for
    Wide,     \* those outside the 2.4 GHz band, or wider than 20 MHz
    Rows,     \* those the tuning tables have a row for
    None      \* no channel

ASSUME ChansAssumption ==
    /\ First \in Chans \ Wide /\ Wide \subseteq Chans /\ Rows \subseteq Chans /\ None \notin Chans

VARIABLES
    board,     \* what the stages find: see Boards
    phy,       \* hw->phy_init
    start,     \* hw->acphy_start_state
    chanspec,  \* hw->chanspec, None while it is not valid
    base,      \* hw->base_chanspec, None while base_ready is not set
    lost,      \* hw->dev_lost
    alive,     \* the device still takes writes
    chip,      \* the row the device was last tuned to
    at,        \* the stage of ob_ops_start that is next, or "idle"
    up,        \* mac80211 has the interface open
    odd        \* a stage met a wrong answer

vars == <<board, phy, start, chanspec, base, lost, alive, chip, at, up, odd>>

\* Another PHY revision, another radio class, board flags that are missing or ask for a
\* branch that is not known, or the one board the sequence supports.
Boards == {"other_phy", "other_class", "no_boardflags3", "boardflags3_branch", "supported"}

LpfBlocker ==
    [other_class |-> "lpf_target", no_boardflags3 |-> "lpf_boardflags3",
     boardflags3_branch |-> "lpf_boardflags3_branch"]

Init ==
    /\ board \in Boards
    /\ phy = NotStarted /\ start = "not_started" /\ chanspec = None /\ base = None
    /\ lost = FALSE /\ alive = TRUE /\ chip = None /\ at = "idle" /\ up = FALSE /\ odd = FALSE

Outcomes == {"done", "error", "lost"}

(***************************************************************************)
(* ob_ops_start.                                                            *)
(***************************************************************************)
\* Its fail label: the sequence and the first start are over for good.
FailStart(s) ==
    /\ phy' = Failed(s) /\ start' = "failed" /\ at' = "idle"
    /\ UNCHANGED <<chanspec, base, chip, up>>

\* The stage before next ended well and left the life cycle s.
Go(s, next) ==
    /\ phy' = s /\ at' = next
    /\ UNCHANGED <<start, chanspec, base, chip, up>>

\* A stage that touches the device: it ends in s1 if all its answers are right, else in s0.
Stage(s0, s1, next) ==
    \E o \in IF lost THEN {"error"} ELSE Outcomes :
        /\ IF o = "done" THEN Go(s1, next) ELSE FailStart(s0)
        /\ lost' = (lost \/ o = "lost")
        /\ odd' = (odd \/ o # "done")
        /\ UNCHANGED <<board, alive>>

\* An interface that was brought up before is brought up again, and nothing else happens.
OpenAgain ==
    /\ at = "idle" /\ ~up /\ base # None
    /\ up' = TRUE
    /\ UNCHANGED <<board, phy, start, chanspec, base, lost, alive, chip, at, odd>>

\* After a failed start an open returns -EBUSY, and nothing else happens.
Open(c) ==
    /\ at = "idle" /\ ~up /\ base = None /\ start = "not_started"
    /\ IF MayBegin(phy) /\ chanspec = None /\ ~lost
       THEN /\ start' = "in_progress" /\ chanspec' = c
            /\ phy' = Begun(phy) /\ at' = "pre_radio"
            /\ UNCHANGED <<base, chip, up>>
       ELSE FailStart(phy)
    /\ UNCHANGED <<board, lost, alive, odd>>

\* ob_acphy_pre_radio_setup knows the narrow channels of the lower band only.
PreRadio ==
    /\ at = "pre_radio"
    /\ \E o \in IF chanspec \in Wide THEN {"error"} ELSE Outcomes :
          /\ IF o = "done" /\ ~lost /\ MayAdvance(phy, "pre_radio_ready")
             THEN /\ phy' = Advanced(phy, "pre_radio_ready")
                  /\ start' = "ready" /\ at' = "radio"
                  /\ UNCHANGED <<chanspec, base, chip, up>>
             ELSE FailStart(phy)
          /\ lost' = (lost \/ o = "lost")
          /\ odd' = (odd \/ (o # "done" /\ chanspec \notin Wide))
    /\ UNCHANGED <<board, alive>>

\* ob_acphy_radio_initialize: on another radio, or channel, the sequence stops here.
RadioUnknown ==
    /\ at = "radio"
    /\ board = "other_phy" \/ chanspec # First
    /\ Go(phy, "tune")
    /\ UNCHANGED <<board, lost, alive, odd>>

RadioBlocked ==
    /\ at = "radio" /\ chanspec = First /\ board \in DOMAIN LpfBlocker
    /\ IF MayBlock(phy, LpfBlocker[board]) THEN Go(Blocked(phy, LpfBlocker[board]), "tune")
       ELSE FailStart(phy)
    /\ UNCHANGED <<board, lost, alive, odd>>

\* ob_acphy_radio_prefix_initialize up to the class 0 radio writes.
RadioPrefix ==
    /\ at = "radio" /\ chanspec = First /\ board = "supported"
    /\ LET s == Advanced(phy, "radio")
       IN  IF MayAdvance(phy, "radio") /\ start = "ready" /\ MayMark(s, "prefix")
           THEN Stage(s, Marked(s, "prefix"), "lpf")
           ELSE FailStart(phy) /\ UNCHANGED <<board, lost, alive, odd>>

AnalogLpf ==
    /\ at = "lpf"
    /\ IF MayMark(phy, "lpf") /\ "prefix" \in phy.done
       THEN Stage(phy, Marked(phy, "lpf"), "sub92500")
       ELSE FailStart(phy) /\ UNCHANGED <<board, lost, alive, odd>>

\* The row of channel 1 is found; the sequence blocks behind sub_92500.
Sub92500 ==
    /\ at = "sub92500"
    /\ LET s == LookedUp(phy, TRUE)
       IN  IF MayLookUp(phy) /\ MayBlock(s, "rev1_after_sub92500")
           THEN Stage(s, Blocked(s, "rev1_after_sub92500"), "post_lpf")
           ELSE FailStart(phy) /\ UNCHANGED <<board, lost, alive, odd>>

SequenceMarkedLast(s) ==
    LET r == Resumed(s)
    IN  IF MayAdvance(r, "radio_complete") THEN Marked(Advanced(r, "radio_complete"), "sequence")
        ELSE r

\* The end of ob_acphy_post_lpf_radio_complete, each call with its own guard.
SequenceMarked(s) ==
    LET r == Marked(Resumed(s), "sequence")
    IN  IF MayMark(Resumed(s), "sequence") /\ MayAdvance(r, "radio_complete")
        THEN Advanced(r, "radio_complete") ELSE r

PostLpf ==
    /\ at = "post_lpf"
    /\ IF MayResume(phy) /\ {"prefix", "lpf"} \subseteq phy.done /\ phy.lookup = "found"
       THEN Stage(phy, SequenceMarked(phy), "calibration")
       ELSE FailStart(phy) /\ UNCHANGED <<board, lost, alive, odd>>

CalibrationUnblocked ==
    /\ at = "calibration"
    /\ IF ~lost /\ MayAdvance(phy, "calibration") THEN Go(Advanced(phy, "calibration"), "tune")
       ELSE FailStart(phy)
    /\ UNCHANGED <<board, lost, alive, odd>>

\* ob_acphy_calibration_initialize has no inputs yet.
Calibration ==
    /\ at = "calibration"
    /\ LET s == Advanced(phy, "calibration")
       IN  IF ~lost /\ MayAdvance(phy, "calibration") /\ MayBlock(s, "calibration_inputs")
           THEN Go(Blocked(s, "calibration_inputs"), "tune")
           ELSE FailStart(phy)
    /\ UNCHANGED <<board, lost, alive, odd>>

\* ob_ops_apply_chan_tuning: the row is looked up, then written without a read.
Tunable(c) == c \in Rows /\ ~lost

Tuned(c) == chip' = IF alive THEN c ELSE chip

Tune ==
    /\ at = "tune"
    /\ IF Tunable(chanspec)
       THEN /\ Tuned(chanspec) /\ base' = chanspec /\ up' = TRUE /\ at' = "idle"
            /\ UNCHANGED <<phy, start, chanspec>>
       ELSE FailStart(phy)
    /\ UNCHANGED <<board, lost, alive, odd>>

(***************************************************************************)
(* ob_ops_config, ob_ops_stop, and the device.                              *)
(***************************************************************************)
ConfigPublishedFirst(c) ==
    /\ at = "idle" /\ up /\ chanspec # c
    /\ Operational(phy) \/ base # None
    /\ chanspec' = c
    /\ IF Tunable(c)
       THEN /\ Tuned(c) /\ base' = IF base = None THEN None ELSE c
       ELSE UNCHANGED <<base, chip>>
    /\ UNCHANGED <<board, phy, start, lost, alive, at, up, odd>>

\* The channel in use is not tuned again; one without a row leaves everything as it was.
Config(c) ==
    /\ at = "idle" /\ up /\ chanspec # c
    /\ Operational(phy) \/ base # None
    /\ IF Tunable(c)
       THEN /\ Tuned(c) /\ chanspec' = c /\ base' = IF base = None THEN None ELSE c
       ELSE UNCHANGED <<chanspec, base, chip>>
    /\ UNCHANGED <<board, phy, start, lost, alive, at, up, odd>>

Stop ==
    /\ at = "idle" /\ up
    /\ up' = FALSE
    /\ UNCHANGED <<board, phy, start, chanspec, base, lost, alive, chip, at, odd>>

Die ==
    /\ alive
    /\ alive' = FALSE
    /\ UNCHANGED <<board, phy, start, chanspec, base, lost, chip, at, up, odd>>

\* The module is loaded again: the device is probed and registered afresh.
Reload ==
    /\ at = "idle" /\ ~up
    /\ phy' = NotStarted /\ start' = "not_started" /\ chanspec' = None /\ base' = None
    /\ lost' = FALSE /\ chip' = None /\ odd' = FALSE
    /\ UNCHANGED <<board, alive, at, up>>

Next ==
    \/ OpenAgain \/ \E c \in Chans : Open(c) \/ Config(c)
    \/ PreRadio \/ RadioUnknown \/ RadioBlocked \/ RadioPrefix \/ AnalogLpf \/ Sub92500
    \/ PostLpf \/ Calibration \/ Tune
    \/ Stop \/ Die \/ Reload

Spec == Init /\ [][Next]_vars

(***************************************************************************)
(* Properties.                                                              *)
(***************************************************************************)
TypeOK ==
    /\ board \in Boards /\ phy \in Ladders
    /\ start \in {"not_started", "in_progress", "ready", "failed"}
    /\ {chanspec, base, chip} \subseteq Chans \cup {None}
    /\ {lost, alive, up, odd} \subseteq BOOLEAN
    /\ at \in {"idle", "pre_radio", "radio", "lpf", "sub92500", "post_lpf", "calibration", "tune"}

\* "The hardware remains at the same base state" (ob_mac80211.c:388): a re-up that replays
\* nothing, or a channel change that is skipped, relies on the device being tuned to what
\* the driver has on record.
ReadyIsTuned ==
    base # None /\ alive => chip = chanspec /\ base = chanspec

\* An open interface is "not an operational PHY claim" (ob_mac80211.c:463): the sequence
\* stands at a known stop, before the radio is touched or with the whole radio part done.
OpenAtDocumentedStop ==
    up =>
        \/ phy.phase = "pre_radio_ready" /\ phy.done = {}
        \/ phy.phase = "blocked" /\ phy.blocker \in LpfBlockers /\ phy.done = {}
        \/ /\ phy.phase = "blocked" /\ phy.blocker = "calibration_inputs"
           /\ phy.done = {"prefix", "lpf", "sequence"} /\ phy.lookup = "found"

\* A start fails for good only for a reason: a wrong answer, a channel the bring-up does not
\* know, or one without a row.  The stages call the life cycle in the order it demands.
FailsForAReason ==
    start = "failed" => odd \/ chanspec \in Wide \/ chanspec \notin Rows
=============================================================================
