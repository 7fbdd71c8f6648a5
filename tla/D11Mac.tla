------------------------------- MODULE D11Mac -------------------------------
(***************************************************************************)
(* The MAC suspend, resume and wake-override scripts of ob_lifecycle.h and  *)
(* their kernel bindings in ob_lifecycle.c, as operators: each maps the     *)
(* state of the MAC to the set of its possible outcomes.                    *)
(*                                                                         *)
(* A MAC is a record:                                                       *)
(*   en, wake    EN_MAC and bit 26 of MACCONTROL, in the hardware           *)
(*   alive       the register window answers                                *)
(*   lost        hw->dev_lost                                               *)
(*   bitmap      hw->wake_override                                          *)
(*   refs        hw->phyreg_refcount                                        *)
(*   suspended   hw->runtime_mac_suspended                                  *)
(* An outcome [m, ok] is the MAC after a call and whether it returned 0.    *)
(*                                                                         *)
(* External: the window may stop answering at any access, and then reads   *)
(* all-ones and drops writes; one read may be all-ones while it is alive.  *)
(***************************************************************************)
EXTENDS Naturals

CONSTANT MaxRefs    \* bound of the refcount; 0xff in the code

ASSUME MaxRefsAssumption == MaxRefs \in Nat \ {0}

Overrides == {"SUSPEND", "PHYREG"}

Mac == [en : BOOLEAN, wake : BOOLEAN, alive : BOOLEAN, lost : BOOLEAN,
        bitmap : SUBSET Overrides, refs : 0..MaxRefs, suspended : BOOLEAN]

Done(m) == [m |-> m, ok |-> TRUE]

Failed(m) == [m |-> m, ok |-> FALSE]

\* The caller goes on with F where the call before it returned 0.
Then(outs, F(_)) == UNION {IF o.ok THEN F(o.m) ELSE {o} : o \in outs}

Dead(m) == [m EXCEPT !.alive = FALSE]

(***************************************************************************)
(* Accesses.  ob_runtime_read32 fails on the latch and on all-ones;         *)
(* ob_runtime_write32 fails on the latch only: a write to a dead window is  *)
(* dropped and succeeds.                                                    *)
(***************************************************************************)
Read(m) == IF m.lost THEN {Failed(m)}
           ELSE {Failed(m), Failed(Dead(m))} \cup {o \in {Done(m)} : m.alive}

WriteBit(m, bit, value) ==
    IF m.lost THEN {Failed(m)}
    ELSE {Done(Dead(m))} \cup {o \in {Done([m EXCEPT ![bit] = value])} : m.alive}

\* The SHM poll reads OBJADDR through the trusted wrapper, which latches a
\* device loss on all-ones; whatever it meets, the wait returns nothing.
WaitForWake(m) ==
    {[m EXCEPT !.lost = TRUE], [m EXCEPT !.lost = TRUE, !.alive = FALSE]}
        \cup {s \in {m} : m.alive}

(***************************************************************************)
(* Suspend: MACCONTROL, then MACINTSTATUS, then the request, then a bounded *)
(* poll with two more reads.  A MAC found with EN_MAC clear must read as    *)
(* the startup word, which has bit 26 set; its other bits may differ.       *)
(***************************************************************************)
QuiesceScript(m) ==
    Then(Read(m), LAMBDA s :
    Then(Read(s), LAMBDA t :
        IF t.en
        THEN Then(WriteBit(t, "en", FALSE), Read)
        ELSE {Failed(t)} \cup {o \in {Done(t)} : t.wake}))

SuspendAndWait(m) ==
    IF m.lost \/ m.suspended THEN {Failed(m)}
    ELSE Then(QuiesceScript(m), LAMBDA s :
             IF m.en THEN {Done([s EXCEPT !.suspended = TRUE])} ELSE {Failed(s)})

\* Two reads of its own, then the script; the record says whether this call
\* took the MAC down.
QuiesceForRadio(m) ==
    IF m.lost THEN {Failed(m)}
    ELSE Then(Then(Read(m), Read), LAMBDA s :
         Then(QuiesceScript(s), LAMBDA t : {Done([t EXCEPT !.suspended = m.en])}))

(***************************************************************************)
(* Wake overrides: bit 26 follows the bitmap's change from and to empty.    *)
(***************************************************************************)
OverrideSet(m, mask) ==
    IF m.lost THEN {Failed(m)}
    ELSE IF m.bitmap # {} THEN {Done([m EXCEPT !.bitmap = @ \cup {mask}])}
    ELSE Then(Then(Read(m), LAMBDA s : WriteBit(s, "wake", TRUE)), LAMBDA t :
             {Done(w) : w \in WaitForWake([t EXCEPT !.bitmap = {mask}])})

\* Mutant: bit 26 goes with any override.
ClearsAlways(m, mask) ==
    IF m.lost THEN {Failed(m)}
    ELSE Then(Read([m EXCEPT !.bitmap = @ \ {mask}]), LAMBDA t : WriteBit(t, "wake", FALSE))

OverrideClear(m, mask) ==
    IF m.lost THEN {Failed(m)}
    ELSE LET s == [m EXCEPT !.bitmap = @ \ {mask}]
         IN  IF s.bitmap # {} THEN {Done(s)}
             ELSE Then(Read(s), LAMBDA t : WriteBit(t, "wake", FALSE))

OverrideLeave(m) ==
    IF m.lost THEN {Failed(m)}
    ELSE IF "SUSPEND" \in m.bitmap THEN OverrideClear(m, "SUSPEND") ELSE {Done(m)}

PhyregEnter(m) ==
    IF m.lost \/ m.refs = MaxRefs THEN {Failed(m)}
    ELSE IF m.refs > 0 THEN {Done([m EXCEPT !.refs = @ + 1])}
    ELSE {IF o.ok THEN Done([o.m EXCEPT !.refs = 1]) ELSE o : o \in OverrideSet(m, "PHYREG")}

PhyregExit(m) ==
    IF m.lost \/ m.refs = 0 THEN {Failed(m)}
    ELSE LET s == [m EXCEPT !.refs = @ - 1]
         IN  IF s.refs > 0 THEN {Done(s)} ELSE OverrideClear(s, "PHYREG")

(***************************************************************************)
(* Resume: EN_MAC set, the indication acknowledged, two reads; only then    *)
(* the record and the suspend override go.                                  *)
(***************************************************************************)
ResumeScript(m) ==
    Then(Read(m), LAMBDA s :
    Then(WriteBit(s, "en", TRUE), LAMBDA t :
    Then(WriteBit(t, "en", t.en), LAMBDA u :
    Then(Read(u), Read))))

EnableMac(m) ==
    IF m.lost \/ ~m.suspended THEN {Failed(m)}
    ELSE Then(ResumeScript(m), LAMBDA s : OverrideLeave([s EXCEPT !.suspended = FALSE]))

(***************************************************************************)
(* The calibration binding of the suspend: the override first, then a MAC   *)
(* already down, by record or by register, is accepted.                     *)
(***************************************************************************)
\* Mutant: a MAC found down is recorded as suspended.
AdoptsPause(m) ==
    Then(OverrideSet(m, "SUSPEND"), LAMBDA s :
        IF s.suspended THEN {Done(s)}
        ELSE Then(Read(s), LAMBDA t :
                 IF t.en THEN SuspendAndWait(t) ELSE {Done([t EXCEPT !.suspended = TRUE])}))

CalSuspend(m) ==
    Then(OverrideSet(m, "SUSPEND"), LAMBDA s :
        IF s.suspended THEN {Done(s)}
        ELSE Then(Read(s), LAMBDA t : IF t.en THEN SuspendAndWait(t) ELSE {Done(t)}))

=============================================================================
