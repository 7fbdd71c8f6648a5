---------------------------- MODULE PhyRoutines ----------------------------
(***************************************************************************)
(* One routine of the PHY at a time, on any inputs, over a backend in which  *)
(* every call may fail.  A failing call ends the routine where it stands:    *)
(* none of them unwinds, so what a routine leaves behind and what its result *)
(* tells of it is all that its caller has.                                  *)
(***************************************************************************)
EXTENDS PhyInit
LOCAL INSTANCE Naturals
LOCAL INSTANCE Sequences

VARIABLES
    entry,   \* the routine, its inputs and its steps
    at,      \* the step it is at
    regs,    \* each register that is saved somewhere: as found, or changed
    saved,   \* what was read of it and is yet to be written back, innermost first
    held,    \* clocks, gates and bits that are held
    mac,     \* what this routine did to it: up, down, or unknown behind a call that failed
    said,    \* the fields of the result that tell of the MAC and are set, and its mac_state
    touched, \* whether the backend was called at all
    status   \* running, or how it ended

vars == <<entry, at, regs, saved, held, mac, said, touched, status>>

Regs == {"019e", "019e_0", "016c", "core_gain", "0400", "0401"}

Holdable == {"gate", "fgc", "cca", "019e_0", "phyreg"}

----------------------------------------------------------------------------
\* What the routines' inputs can differ in.

Entry(name, facts, Steps(_)) ==
    { [of |-> name, facts |-> F, steps |-> Steps(F)] : F \in SUBSET facts }

PowerEntries ==
    Entry("9a539", {"refused", "argument", "low", "mid", "cores", "limits",
                    "66a", "66b", "66c", "66d", "66e"}, Sub9a539) \cup
    Entry("9a121", {"refused", "cores", "limits"}, Sub9a121) \cup
    Entry("table_stage", {"refused", "low", "mid", "66e_nonzero", "99658_historical",
                          "998cc_historical", "misnamed_1", "misnamed_2", "misnamed_row"},
          TableStage9af05) \cup
    Entry("txpwr_by_index", {"refused", "cores"}, TxpwrByIndex) \cup
    Entry("96203", {"refused", "second_loop"}, Test96203) \cup
    Entry("96203_live", {"refused", "second_loop"}, Live96203) \cup
    Entry("96203_caller", {"refused", "selected", "special", "second_loop"}, Caller96203) \cup
    Entry("resetcca", {"refused", "special"}, TestResetCca) \cup
    Entry("rxcore", {"refused", "context_31", "no_platform"}, RxcoreSetstateExport) \cup
    Entry("txpwr", {"refused", "tail", "special", "pi_3", "context_31", "no_platform",
                    "bytes_change", "fa0", "post_aa63e", "32c", "mask_differs", "told_enabled",
                    "told_suspended"}, A7089Txpwr)

InitEntries ==
    Entry("lpf", {"target", "boardflags3", "stage"}, LpfStageRun) \cup
    Entry("post_lpf", {"refused", "no_row", "912_differs"}, PostLpfCompose) \cup
    Entry("a0be4", {"refused", "no_row", "912_differs", "core_type", "revision_1",
                    "prior_missing"}, A0be4Selected) \cup
    Entry("through_a0be4", {"refused", "no_row", "912_differs", "core_type", "revision_1",
                            "prior_missing"}, ThroughA0be4) \cup
    Entry("a6b0f", {"boardflags2", "branch", "prior_missing"}, A6b0fSelected) \cup
    Entry("through_a6b0f", {"refused", "912_differs", "boardflags2", "branch", "revision_1",
                            "prior_missing"}, ThroughA6b0f) \cup
    Entry("9eaf9", {"refused", "skip", "strict", "word2_missing", "sample_key"}, Sub9eaf9) \cup
    Entry("9e378", {"refused", "skip", "selector"}, Sub9e378) \cup
    Entry("farrow", FarrowRows \cup {"refused", "sample_key", "other_frequency"}, FarrowCrs) \cup
    Entry("post_farrow", {"refused"}, PostFarrowContinue) \cup
    Entry("desense", {"refused", "not_complete"}, DesensePrefix) \cup
    Entry("chain1", {"refused", "sample_key", "low", "argument_sil", "argument_dl",
                     "nested_912", "other_length"}, Chain1Loop) \cup
    Entry("calibration", {"target", "prior_missing", "refused", "fatal", "skip", "no_owner",
                          "no_platform"}, CalRun)

Init ==
    /\ entry \in PowerEntries \cup InitEntries
    /\ at = 1
    /\ regs = [r \in Regs |-> "found"]
    /\ saved = [r \in Regs |-> << >>]
    /\ held = {}
    /\ mac = "up"
    /\ said = {}
    /\ touched = FALSE
    /\ status = "running"

----------------------------------------------------------------------------
At(verb) ==
    /\ status = "running"
    /\ at <= Len(entry.steps)
    /\ entry.steps[at][1] = verb

What == entry.steps[at][2]

\* A step that calls the backend and gets the answer it wants.
Answered(verb) == At(verb) /\ at' = at + 1 /\ touched' = TRUE /\ UNCHANGED <<entry, status>>

Ends(how) == status' = how /\ UNCHANGED <<entry, at, regs, saved, held>>

Call == Answered("call") /\ UNCHANGED <<regs, saved, held, mac, said>>

Save ==
    /\ Answered("save")
    /\ saved' = [saved EXCEPT ![What] = <<regs[What]>> \o @]
    /\ UNCHANGED <<regs, held, mac, said>>

Set ==
    /\ Answered("set")
    /\ regs' = [regs EXCEPT ![What] = "changed"]
    /\ UNCHANGED <<saved, held, mac, said>>

Restore ==
    /\ Answered("restore")
    /\ regs' = [regs EXCEPT ![What] = Head(saved[What])]
    /\ saved' = [saved EXCEPT ![What] = Tail(@)]
    /\ UNCHANGED <<held, mac, said>>

\* The caller hands over a register that is set, and what was found in it.
Given ==
    /\ At("given")
    /\ at' = at + 1
    /\ regs' = [regs EXCEPT ![What] = "changed"]
    /\ saved' = [saved EXCEPT ![What] = <<"found">>]
    /\ UNCHANGED <<entry, held, mac, said, touched, status>>

Take == Answered("take") /\ held' = held \cup {What} /\ UNCHANGED <<regs, saved, mac, said>>

Give == Answered("give") /\ held' = held \ {What} /\ UNCHANGED <<regs, saved, mac, said>>

\* mac_state as the caller gave it; UNKNOWN, which is also its first value, is neither state.
Tell ==
    /\ At("tell")
    /\ at' = at + 1
    /\ said' = {What}
    /\ UNCHANGED <<entry, regs, saved, held, mac, touched, status>>

\* What a result says behind a suspension that returned 0, or that failed, and behind the
\* enable: mac_suspended of 9a539 is a flag, clear unless the MAC is held; the power results
\* have mac_state and say what was tried, the export only the latter, the CRS and the
\* calibration result nothing.  No routine suspends twice.
Sets ==
    [flag |-> {"mac_suspended"}, rxcore |-> {"mac_sequence", "SUSPENDED"},
     export |-> {"mac_sequence"}, sub_99528 |-> {"mac_suspend_attempted", "SUSPENDED"}, none |-> {}]

Tries ==
    [flag |-> {}, rxcore |-> {"mac_sequence"}, export |-> {"mac_sequence"},
     sub_99528 |-> {"mac_suspend_attempted"}, none |-> {}]

Clears ==
    [flag |-> {}, rxcore |-> {"mac_sequence", "mac_restored", "ENABLED"},
     export |-> {"mac_sequence", "mac_restored"}, none |-> {}]

Suspend ==
    /\ Answered("suspend")
    /\ mac' = "down"
    /\ said' = Sets[What]
    /\ UNCHANGED <<regs, saved, held>>

Enable ==
    /\ Answered("enable")
    /\ mac' = "up"
    /\ said' = Clears[What]
    /\ UNCHANGED <<regs, saved, held>>

InSequence == "mac_sequence" \in said /\ "mac_restored" \notin said

\* Inside of the sequence of the receive cores a failure forbids another run.
Forbidding == IF InSequence THEN said \cup {"reentry_forbidden"} ELSE said

BackendFails ==
    /\ \E verb \in {"call", "save", "set", "restore", "take", "give"} : At(verb)
    /\ touched' = TRUE
    /\ said' = Forbidding
    /\ Ends("failed")
    /\ UNCHANGED mac

\* A failed suspension establishes neither state.
SuspendFails ==
    /\ At("suspend")
    /\ touched' = TRUE
    /\ mac' = "unknown"
    /\ said' = Tries[What]
    /\ Ends("failed")

\* Mutant: the result is written in front of the call.
EnableFailsReported ==
    /\ At("enable")
    /\ touched' = TRUE
    /\ mac' = "unknown"
    /\ said' = Clears[What]
    /\ Ends("failed")

\* Nor does a failed enable; the result, written behind the call, does not say it is up.
EnableFails ==
    /\ At("enable")
    /\ touched' = TRUE
    /\ mac' = "unknown"
    /\ said' = Forbidding
    /\ Ends("failed")

Refuse == At("refuse") /\ Ends("refused") /\ UNCHANGED <<mac, said, touched>>

Stop == At("stop") /\ Ends("stopped") /\ UNCHANGED <<mac, said, touched>>

Complete ==
    /\ status = "running"
    /\ at > Len(entry.steps)
    /\ Ends("complete")
    /\ UNCHANGED <<mac, said, touched>>

Next ==
    \/ Call \/ Save \/ Set \/ Restore \/ Given \/ Take \/ Give \/ Tell \/ Suspend \/ Enable
    \/ BackendFails \/ SuspendFails \/ EnableFails \/ Refuse \/ Stop \/ Complete

Spec == Init /\ [][Next]_vars

----------------------------------------------------------------------------
\* A routine that reports completion has put back every register it saved, to
\* what was found however deep the saves were nested; the desense prefix alone leaves
\* two set, and hands over what it found.  No clock, gate or reset is held, and the
\* MAC runs.
CompleteIsClean ==
    status = "complete" =>
        /\ \A r \in Regs :
              regs[r] = "changed" => entry.of = "desense" /\ saved[r] = <<"found">>
        /\ held = {}
        /\ mac = "up"

\* The inputs for which a routine refuses behind calls it has made: the band and
\* the limits in 9a539 (children look at them after the suspension), the nested
\* byte in the composition behind the filter, and a missing MAC operation.
RefusesLate ==
    \/ /\ entry.of = "9a539"
       /\ "argument" \in entry.facts
       /\ \/ Calls99658_1(entry.facts) /\ ~RightSource1(entry.facts)
          \/ Calls99658_2(entry.facts) /\ ~RightSource2(entry.facts)
          \/ {"cores", "limits"} \subseteq entry.facts
    \/ entry.of = "post_lpf" /\ "912_differs" \in entry.facts
    \/ entry.of = "txpwr" /\ {"context_31", "no_platform"} \subseteq entry.facts

\* A routine that refuses its inputs has called nothing yet, but for the inputs
\* of RefusesLate.
RefusedUntouched == status = "refused" => ~touched \/ RefusesLate

\* What the caller reads of a MAC that may not run.  The flag of 9a539 is as clear behind a
\* failed suspension as in front of it: it takes the status to tell the two apart.
CallsDown ==
    \/ InSequence
    \/ {"mac_suspended", "mac_suspend_attempted"} \cap said # {}
    \/ entry.of = "9a539" /\ status = "failed"

\* From what a routine returns its caller can tell whether the MAC runs as far as the
\* routine is concerned, and mac_state never says so of one that may not.  Two results
\* have no place for it.
LeftDownIsSaid ==
    entry.of \notin {"farrow", "calibration"} /\ status # "running" =>
        /\ mac # "up" <=> CallsDown
        /\ "ENABLED" \in said => mac = "up"

\* "A failure between suspend and enable leaves the MAC suspended and forbids re-entry"
\* (ob_phy_a7089_txpwr.h:227).
ReentryIsForbidden ==
    status # "running" /\ mac = "down" /\ "mac_sequence" \in said => "reentry_forbidden" \in said

\* A routine that does not complete tells its caller what it left behind.
FailureIsTold == RefusedUntouched /\ LeftDownIsSaid /\ ReentryIsForbidden
=============================================================================
