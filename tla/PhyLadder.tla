----------------------------- MODULE PhyLadder -----------------------------
(***************************************************************************)
(* The PHY life cycle record of ob_phy.h (struct ob_phy_init_lifecycle): the *)
(* operations that move it, each a guard and a new record.                  *)
(***************************************************************************)

Order ==
    [pre_radio |-> "pre_radio_ready", pre_radio_ready |-> "radio", radio |-> "radio_complete",
     radio_complete |-> "calibration", calibration |-> "calibrated",
     calibrated |-> "channel", channel |-> "channel_programmed",
     channel_programmed |-> "operational"]

Phases ==
    {"not_started", "blocked", "failed"} \cup DOMAIN Order \cup {Order[p] : p \in DOMAIN Order}

LpfBlockers == {"lpf_target", "lpf_pi164", "lpf_boardflags3", "lpf_boardflags3_branch"}

Blockers ==
    LpfBlockers \cup {"none", "post_lpf_channel_lookup", "row_payload", "lookup_miss",
                      "rev1_after_sub92500", "channel_lookup", "calibration_inputs"}

\* The parts of the sequence that are marked as they are done.
Marks == {"prefix", "lpf", "sequence", "calibration", "channel"}

Ladders ==
    [phase : Phases, blocker : Blockers, done : SUBSET Marks, lookup : {"none", "found", "missed"}]

NotStarted == [phase |-> "not_started", blocker |-> "none", done |-> {}, lookup |-> "none"]

\* Another phase; what was marked and looked up stays.
Moved(s, phase, blocker) ==
    [phase |-> phase, blocker |-> blocker, done |-> s.done, lookup |-> s.lookup]

MayBegin(s) == s.phase = "not_started"

Begun(s) == Moved(NotStarted, "pre_radio", "none")

\* What must have been marked before a phase is entered.
Needed(next) ==
    CASE next = "radio_complete" -> {"prefix", "lpf", "sequence"}
      [] next = "calibrated" -> {"calibration"}
      [] next = "channel_programmed" -> {"channel"}
      [] next = "operational" -> Marks
      [] OTHER -> {}

MayAdvance(s, next) ==
    /\ s.phase \in DOMAIN Order
    /\ next = Order[s.phase]
    /\ Needed(next) \subseteq s.done

Advanced(s, next) == Moved(s, next, "none")

\* Where each blocker may stop the sequence.
MayBlock(s, b) ==
    \/ s.phase \in {"pre_radio", "pre_radio_ready"} /\
          b \in LpfBlockers \cup {"post_lpf_channel_lookup", "row_payload"}
    \/ s.phase \in {"pre_radio_ready", "radio", "channel"} /\ b = "channel_lookup"
    \/ s.phase = "radio" /\ b = "post_lpf_channel_lookup"
    \/ s.phase = "radio" /\ s.lookup = "found" /\ b \in {"row_payload", "rev1_after_sub92500"}
    \/ s.phase = "radio" /\ s.lookup = "missed" /\ b = "lookup_miss"
    \/ s.phase = "calibration" /\ b = "calibration_inputs"

Blocked(s, b) == Moved(s, "blocked", b)

MayResume(s) == s.phase = "blocked" /\ s.blocker = "rev1_after_sub92500"

Resumed(s) == Moved(s, "radio", "none")

\* A mark of the radio part is set once, in the radio phase.
MayMark(s, mark) == s.phase = "radio" /\ mark \notin s.done

Marked(s, mark) == [s EXCEPT !.done = @ \cup {mark}]

MayLookUp(s) == s.phase = "radio" /\ {"prefix", "lpf"} \subseteq s.done /\ s.lookup = "none"

LookedUp(s, found) == [s EXCEPT !.lookup = IF found THEN "found" ELSE "missed"]

\* ob_phy_init_fail: a sequence that stopped at a blocker keeps it.
Failed(s) ==
    IF s.phase \in {"operational", "blocked", "failed"} THEN s
    ELSE Moved(s, "failed", "none")

Operational(s) == s.phase = "operational" /\ s.blocker = "none"
=============================================================================
