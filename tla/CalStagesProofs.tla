-------------------------- MODULE CalStagesProofs --------------------------
(***************************************************************************)
(* Proofs about the stages of CalStages and the MAC scripts of D11Mac they   *)
(* are made of, for any choice of stages and any bound of the refcount: bit   *)
(* 26 stands while an override is recorded, a pause that was found stays, a   *)
(* stage that ends clean or refused leaves what it found, and what it leaves   *)
(* down it reports.                                                          *)
(*                                                                         *)
(* First each script is reduced to what it may leave (the Outcome lemmas):    *)
(* what it keeps whatever happens, and what more it gives when it returns 0.  *)
(* The inductive invariant then says, step by step of each stage, whether the *)
(* MAC is as found (Up) or held (Held), and who has to give it back.          *)
(***************************************************************************)
EXTENDS CalStages, TLAPS

HoldsWake(m) == m.alive /\ m.bitmap # {} => m.wake

Paused(m) == ~m.en /\ ~m.suspended

\* What a script does not break, whatever happens on its way.
Keeps(m, n) ==
    /\ n \in Mac
    /\ HoldsWake(m) => HoldsWake(n)
    /\ Paused(m) => Paused(n)

\* What the overrides do not touch.
SameRun(m, n) == n.en = m.en /\ n.suspended = m.suspended

-----------------------------------------------------------------------------
(***************************************************************************)
(* The outcomes of accesses.                                                *)
(***************************************************************************)
\* An outcome is a MAC and a result.
LEMMA Outcomes == \A m : Done(m).m = m /\ Done(m).ok /\ Failed(m).m = m /\ ~Failed(m).ok
BY DEF Done, Failed

\* To keep is to keep again.
LEMMA KeepsOnward ==
    ASSUME NEW l, NEW m, NEW n, Keeps(l, m), Keeps(m, n)
    PROVE  Keeps(l, n)
BY DEF Keeps

\* A MAC that stops answering, or is recorded lost, keeps the rest.
LEMMA DeadKeeps ==
    ASSUME NEW m \in Mac
    PROVE  /\ Keeps(m, m) /\ Keeps(m, Dead(m))
           /\ SameRun(m, Dead(m)) /\ Dead(m).refs = m.refs /\ Dead(m).bitmap = m.bitmap
           /\ Dead(m).lost = m.lost /\ Dead(m).alive = FALSE
           /\ Keeps(m, [m EXCEPT !.lost = TRUE])
           /\ Keeps(m, [m EXCEPT !.lost = TRUE, !.alive = FALSE])
BY DEF Mac, Dead, Keeps, HoldsWake, Paused, SameRun

\* ob_runtime_read32: the MAC as it was, or no longer answering; 0 only from one that answers.
LEMMA ReadOutcome ==
    ASSUME NEW m \in Mac, NEW o \in Read(m)
    PROVE  /\ Keeps(m, o.m) /\ SameRun(m, o.m) /\ o.m.refs = m.refs /\ o.m.bitmap = m.bitmap
           /\ o.ok => o.m = m /\ m.alive /\ ~m.lost
<1>1. \/ o = Failed(m) \/ o = Failed(Dead(m))
      \/ o = Done(m) /\ m.alive /\ ~m.lost
    BY DEF Read
<1>2. SameRun(m, m) /\ Keeps(m, m) /\ Keeps(m, Dead(m)) /\ SameRun(m, Dead(m))
      /\ Dead(m).refs = m.refs /\ Dead(m).bitmap = m.bitmap
    BY DeadKeeps DEF SameRun
<1>3. \/ o.m = m /\ ~o.ok
      \/ o.m = Dead(m) /\ ~o.ok
      \/ o.m = m /\ o.ok /\ m.alive /\ ~m.lost
    BY <1>1, Outcomes
<1> QED
    BY <1>2, <1>3

\* ob_runtime_write32: written, dropped by a dead window, or refused.
LEMMA WriteOutcome ==
    ASSUME NEW m \in Mac, NEW bit \in {"en", "wake"}, NEW value \in BOOLEAN,
           NEW o \in WriteBit(m, bit, value)
    PROVE  \/ o = Failed(m)
           \/ o = Done(Dead(m))
           \/ m.alive /\ o = Done([m EXCEPT ![bit] = value])
BY DEF WriteBit

\* Clearing or setting EN_MAC in what the window lets through.
LEMMA EnWritten ==
    ASSUME NEW m \in Mac, NEW value \in BOOLEAN, NEW o \in WriteBit(m, "en", value)
    PROVE  /\ o.m \in Mac /\ (HoldsWake(m) => HoldsWake(o.m))
           /\ o.m.suspended = m.suspended /\ o.m.refs = m.refs /\ o.m.bitmap = m.bitmap
           /\ o.m.en \in {m.en, value}
           /\ o.ok => o.m.en = value \/ ~o.m.alive
<1>1. [m EXCEPT !.en = value] \in Mac
    BY DEF Mac
<1>2. CASE o = Failed(m)
    BY <1>2, Outcomes
<1>3. CASE o = Done(Dead(m))
    <2>1. o.m = Dead(m)
        BY <1>3, Outcomes
    <2> QED
        BY <2>1, DeadKeeps DEF Keeps, SameRun
<1>4. CASE o = Done([m EXCEPT !.en = value])
    <2>1. o.m = [m EXCEPT !.en = value]
        BY <1>4, Outcomes
    <2> QED
        BY <1>1, <2>1 DEF Mac, HoldsWake
<1> QED
    BY <1>2, <1>3, <1>4, WriteOutcome

\* Setting bit 26, or clearing it with no override recorded.
LEMMA WakeWritten ==
    ASSUME NEW m \in Mac, NEW value \in BOOLEAN, NEW o \in WriteBit(m, "wake", value)
    PROVE  /\ o.m \in Mac /\ SameRun(m, o.m) /\ o.m.refs = m.refs /\ o.m.bitmap = m.bitmap
           /\ value \/ m.bitmap = {} => (HoldsWake(m) => HoldsWake(o.m))
           /\ o.ok => o.m.wake = value \/ ~o.m.alive
<1>1. [m EXCEPT !.wake = value] \in Mac
    BY DEF Mac
<1>2. CASE o = Failed(m)
    BY <1>2, Outcomes DEF SameRun
<1>3. CASE o = Done(Dead(m))
    <2>1. o.m = Dead(m)
        BY <1>3, Outcomes
    <2> QED
        BY <2>1, DeadKeeps DEF Keeps
<1>4. CASE o = Done([m EXCEPT !.wake = value])
    <2>1. o.m = [m EXCEPT !.wake = value]
        BY <1>4, Outcomes
    <2> QED
        BY <1>1, <2>1 DEF Mac, HoldsWake, SameRun
<1> QED
    BY <1>2, <1>3, <1>4, WriteOutcome

-----------------------------------------------------------------------------
(***************************************************************************)
(* The outcomes of the suspend.                                             *)
(***************************************************************************)
\* ob_lc_quiesce: whatever it meets it only ever clears EN_MAC, and has when it returns 0.
LEMMA QuiesceOutcome ==
    ASSUME NEW m \in Mac, NEW o \in QuiesceScript(m)
    PROVE  /\ Keeps(m, o.m)
           /\ o.m.suspended = m.suspended /\ o.m.refs = m.refs /\ o.m.bitmap = m.bitmap
           /\ o.ok => ~o.m.en
<1>1. PICK s \in Read(m) :
        o \in IF s.ok
              THEN UNION {IF t.ok
                          THEN IF t.m.en THEN Then(WriteBit(t.m, "en", FALSE), Read)
                               ELSE {Failed(t.m)} \cup {u \in {Done(t.m)} : t.m.wake}
                          ELSE {t} : t \in Read(s.m)}
              ELSE {s}
    BY DEF QuiesceScript, Then
<1>2. CASE ~s.ok
    BY <1>1, <1>2, ReadOutcome DEF SameRun
<1>3. CASE s.ok
    <2>1. PICK t \in Read(s.m) :
            o \in IF t.ok
                  THEN IF t.m.en THEN Then(WriteBit(t.m, "en", FALSE), Read)
                       ELSE {Failed(t.m)} \cup {u \in {Done(t.m)} : t.m.wake}
                  ELSE {t}
        BY <1>1, <1>3
    <2>2. s.m = m
        BY <1>3, ReadOutcome
    <2>3. CASE ~t.ok
        BY <2>1, <2>2, <2>3, ReadOutcome DEF SameRun
    <2>4. CASE t.ok /\ ~t.m.en
        <3>1. t.m = m
            BY <2>2, <2>4, ReadOutcome
        <3>2. o = Failed(m) \/ o = Done(m)
            BY <2>1, <2>4, <3>1
        <3>3. o.m = m
            BY <3>2, Outcomes
        <3> QED
            BY <2>4, <3>1, <3>3, DeadKeeps
    <2>5. CASE t.ok /\ t.m.en
        <3>1. t.m = m /\ m.en
            BY <2>2, <2>5, ReadOutcome
        <3>2. PICK w \in WriteBit(m, "en", FALSE) : o \in IF w.ok THEN Read(w.m) ELSE {w}
            BY <2>1, <2>5, <3>1 DEF Then
        <3>3. /\ Keeps(m, w.m)
              /\ w.m.suspended = m.suspended /\ w.m.refs = m.refs /\ w.m.bitmap = m.bitmap
            BY <3>1, EnWritten DEF Keeps, Paused
        <3>4. CASE ~w.ok
            BY <3>2, <3>3, <3>4
        <3>5. CASE w.ok
            <4>1. o \in Read(w.m) /\ w.m \in Mac
                BY <3>2, <3>3, <3>5 DEF Keeps
            <4>2. Keeps(w.m, o.m) /\ SameRun(w.m, o.m) /\ o.m.refs = w.m.refs
                  /\ o.m.bitmap = w.m.bitmap /\ (o.ok => o.m = w.m /\ w.m.alive)
                BY <4>1, ReadOutcome
            <4>3. w.m.alive => ~w.m.en
                BY <3>5, EnWritten
            <4> QED
                BY <3>3, <4>2, <4>3, KeepsOnward DEF SameRun
        <3> QED
            BY <3>4, <3>5
    <2> QED
        BY <2>3, <2>4, <2>5
<1> QED
    BY <1>2, <1>3

\* ob_mac_suspend_and_wait: 0 only for a MAC that ran and is down now.
LEMMA SuspendOutcome ==
    ASSUME NEW m \in Mac, NEW o \in SuspendAndWait(m)
    PROVE  /\ Keeps(m, o.m) /\ o.m.refs = m.refs
           /\ o.ok => m.en /\ ~o.m.en /\ o.m.suspended
<1>1. CASE m.lost \/ m.suspended
    <2>1. o = Failed(m)
        BY <1>1 DEF SuspendAndWait
    <2>2. o.m = m /\ ~o.ok
        BY <2>1, Outcomes
    <2> QED
        BY <2>2, DeadKeeps
<1>2. CASE ~(m.lost \/ m.suspended)
    <2>1. PICK s \in QuiesceScript(m) :
            o \in IF s.ok
                  THEN IF m.en THEN {Done([s.m EXCEPT !.suspended = TRUE])} ELSE {Failed(s.m)}
                  ELSE {s}
        BY <1>2 DEF SuspendAndWait, Then
    <2>2. Keeps(m, s.m) /\ s.m \in Mac /\ s.m.refs = m.refs /\ (s.ok => ~s.m.en)
        BY QuiesceOutcome DEF Keeps
    <2>3. CASE ~s.ok
        BY <2>1, <2>2, <2>3
    <2>4. CASE s.ok /\ ~m.en
        <3>1. o = Failed(s.m)
            BY <2>1, <2>4
        <3> QED
            BY <3>1, <2>2, Outcomes
    <2>5. CASE s.ok /\ m.en
        <3>1. o = Done([s.m EXCEPT !.suspended = TRUE])
            BY <2>1, <2>5
        <3>2. o.m = [s.m EXCEPT !.suspended = TRUE]
            BY <3>1, Outcomes
        <3>3. [s.m EXCEPT !.suspended = TRUE] \in Mac
            BY <2>2 DEF Mac
        <3> QED
            BY <3>2, <3>3, <2>2, <2>5 DEF Keeps, Paused, HoldsWake, Mac
    <2> QED
        BY <2>3, <2>4, <2>5
<1> QED
    BY <1>1, <1>2

\* ob_mac_quiesce_for_radio: 0 for a MAC that is down, recorded as this call's doing if it ran.
LEMMA RadioQuiesceOutcome ==
    ASSUME NEW m \in Mac, NEW o \in QuiesceForRadio(m)
    PROVE  /\ Keeps(m, o.m) /\ o.m.refs = m.refs
           /\ o.ok => ~o.m.en /\ o.m.suspended = m.en
<1>1. CASE m.lost
    <2>1. o = Failed(m)
        BY <1>1 DEF QuiesceForRadio
    <2>2. o.m = m /\ ~o.ok
        BY <2>1, Outcomes
    <2> QED
        BY <2>2, DeadKeeps
<1>2. CASE ~m.lost
    <2>1. PICK s \in Then(Read(m), Read) :
            o \in IF s.ok
                  THEN UNION {IF t.ok THEN {Done([t.m EXCEPT !.suspended = m.en])} ELSE {t}
                                : t \in QuiesceScript(s.m)}
                  ELSE {s}
        BY <1>2 DEF QuiesceForRadio, Then
    <2>2. PICK r \in Read(m) : s \in IF r.ok THEN Read(r.m) ELSE {r}
        BY <2>1 DEF Then
    <2>3. Keeps(m, s.m) /\ s.m.refs = m.refs /\ (s.ok => s.m = m)
        <3>1. CASE ~r.ok
            BY <2>2, <3>1, ReadOutcome
        <3>2. CASE r.ok
            BY <2>2, <3>2, ReadOutcome
        <3> QED
            BY <3>1, <3>2
    <2>4. CASE ~s.ok
        BY <2>1, <2>3, <2>4
    <2>5. CASE s.ok
        <3>1. PICK t \in QuiesceScript(m) :
                o \in IF t.ok THEN {Done([t.m EXCEPT !.suspended = m.en])} ELSE {t}
            BY <2>1, <2>3, <2>5
        <3>2. Keeps(m, t.m) /\ t.m \in Mac /\ t.m.refs = m.refs /\ (t.ok => ~t.m.en)
            BY QuiesceOutcome DEF Keeps
        <3>3. CASE ~t.ok
            BY <3>1, <3>2, <3>3
        <3>4. CASE t.ok
            <4>1. o = Done([t.m EXCEPT !.suspended = m.en])
                BY <3>1, <3>4
            <4>2. o.m = [t.m EXCEPT !.suspended = m.en]
                BY <4>1, Outcomes
            <4>3. [t.m EXCEPT !.suspended = m.en] \in Mac
                BY <3>2 DEF Mac
            <4> QED
                BY <4>2, <4>3, <3>2, <3>4 DEF Keeps, Paused, HoldsWake, Mac
        <3> QED
            BY <3>3, <3>4
    <2> QED
        BY <2>4, <2>5
<1> QED
    BY <1>1, <1>2

-----------------------------------------------------------------------------
(***************************************************************************)
(* The outcomes of the wake overrides.                                      *)
(***************************************************************************)
\* wlc_ucode_wake_override_set: bit 26 is set before the override is recorded.
LEMMA OverrideSetOutcome ==
    ASSUME NEW m \in Mac, NEW mask \in Overrides, NEW o \in OverrideSet(m, mask)
    PROVE  Keeps(m, o.m) /\ SameRun(m, o.m) /\ o.m.refs = m.refs
<1>1. CASE m.lost
    <2>1. o.m = m
        BY <1>1, Outcomes DEF OverrideSet
    <2> QED
        BY <2>1, DeadKeeps DEF SameRun
<1>2. CASE ~m.lost /\ m.bitmap # {}
    <2>1. o = Done([m EXCEPT !.bitmap = @ \cup {mask}])
        BY <1>2 DEF OverrideSet
    <2>2. o.m = [m EXCEPT !.bitmap = @ \cup {mask}]
        BY <2>1, Outcomes
    <2>3. [m EXCEPT !.bitmap = @ \cup {mask}] \in Mac
        BY DEF Mac
    <2> QED
        BY <1>2, <2>2, <2>3 DEF Keeps, SameRun, HoldsWake, Paused, Mac
<1>3. CASE ~m.lost /\ m.bitmap = {}
    <2>1. PICK t \in Then(Read(m), LAMBDA s : WriteBit(s, "wake", TRUE)) :
            o \in IF t.ok THEN {Done(w) : w \in WaitForWake([t.m EXCEPT !.bitmap = {mask}])}
                  ELSE {t}
        BY <1>3 DEF OverrideSet, Then
    <2>2. PICK r \in Read(m) : t \in IF r.ok THEN WriteBit(r.m, "wake", TRUE) ELSE {r}
        BY <2>1 DEF Then
    <2>3. CASE ~r.ok
        <3>1. t = r
            BY <2>2, <2>3
        <3>2. o = r
            BY <2>1, <2>3, <3>1
        <3> QED
            BY <3>2, ReadOutcome
    <2>4. CASE r.ok
        <3>1. t \in WriteBit(m, "wake", TRUE)
            BY <2>2, <2>4, ReadOutcome
        <3>2. /\ t.m \in Mac /\ SameRun(m, t.m) /\ t.m.refs = m.refs /\ t.m.bitmap = m.bitmap
              /\ HoldsWake(m) => HoldsWake(t.m)
              /\ t.ok => t.m.wake = TRUE \/ ~t.m.alive
            BY <3>1, WakeWritten
        <3>3. CASE ~t.ok
            <4>1. o = t
                BY <2>1, <3>3
            <4> QED
                BY <4>1, <3>2 DEF Keeps, SameRun, Paused
        <3>4. CASE t.ok
            <4> DEFINE n == [t.m EXCEPT !.bitmap = {mask}]
            <4>1. PICK w \in WaitForWake(n) : o = Done(w)
                BY <2>1, <3>4
            <4>2. n \in Mac /\ HoldsWake(n) /\ SameRun(m, n) /\ n.refs = m.refs
                BY <3>2, <3>4 DEF Mac, HoldsWake, SameRun
            <4>3. Keeps(n, w) /\ SameRun(n, w) /\ w.refs = n.refs
                <5> HIDE DEF n
                <5>1. w = [n EXCEPT !.lost = TRUE] \/ w = [n EXCEPT !.lost = TRUE, !.alive = FALSE]
                      \/ w = n
                    BY <4>1 DEF WaitForWake
                <5> QED
                    BY <4>2, <5>1, DeadKeeps DEF Mac, SameRun
            <4>4. o.m = w
                BY <4>1, Outcomes
            <4> HIDE DEF n
            <4> QED
                BY <4>2, <4>3, <4>4 DEF Keeps, SameRun, Paused
        <3> QED
            BY <3>3, <3>4
    <2> QED
        BY <2>3, <2>4
<1> QED
    BY <1>1, <1>2, <1>3

\* wlc_ucode_wake_override_clear: bit 26 is cleared only when no override is left.
LEMMA OverrideClearOutcome ==
    ASSUME NEW m \in Mac, NEW mask \in Overrides, NEW o \in OverrideClear(m, mask)
    PROVE  Keeps(m, o.m) /\ SameRun(m, o.m) /\ o.m.refs = m.refs
<1>1. CASE m.lost
    <2>1. o.m = m
        BY <1>1, Outcomes DEF OverrideClear
    <2> QED
        BY <2>1, DeadKeeps DEF SameRun
<1>2. CASE ~m.lost
    <2> DEFINE s == [m EXCEPT !.bitmap = @ \ {mask}]
    <2>1. Keeps(m, s) /\ SameRun(m, s) /\ s.refs = m.refs /\ s \in Mac
        BY DEF Keeps, SameRun, HoldsWake, Paused, Mac
    <2>2. o \in IF s.bitmap # {} THEN {Done(s)}
                ELSE Then(Read(s), LAMBDA t : WriteBit(t, "wake", FALSE))
        BY <1>2 DEF OverrideClear
    <2> HIDE DEF s
    <2>3. CASE s.bitmap # {}
        <3>1. o.m = s
            BY <2>2, <2>3, Outcomes
        <3> QED
            BY <2>1, <3>1
    <2>4. CASE s.bitmap = {}
        <3>1. PICK r \in Read(s) : o \in IF r.ok THEN WriteBit(r.m, "wake", FALSE) ELSE {r}
            BY <2>2, <2>4 DEF Then
        <3>2. Keeps(s, r.m) /\ SameRun(s, r.m) /\ r.m.refs = s.refs /\ (r.ok => r.m = s)
            BY <2>1, <3>1, ReadOutcome
        <3>3. CASE ~r.ok
            <4>1. o = r
                BY <3>1, <3>3
            <4> QED
                BY <2>1, <3>2, <4>1, KeepsOnward DEF SameRun
        <3>4. CASE r.ok
            <4>1. o \in WriteBit(s, "wake", FALSE)
                BY <3>1, <3>2, <3>4
            <4>2. o.m \in Mac /\ SameRun(s, o.m) /\ o.m.refs = s.refs
                  /\ (HoldsWake(s) => HoldsWake(o.m))
                BY <2>1, <2>4, <4>1, WakeWritten
            <4> QED
                BY <2>1, <4>2 DEF Keeps, SameRun, Paused
        <3> QED
            BY <3>3, <3>4
    <2> QED
        BY <2>3, <2>4
<1> QED
    BY <1>1, <1>2

\* ob_phyreg_enter: the refcount goes up only when it returns 0.
LEMMA EnterOutcome ==
    ASSUME NEW m \in Mac, NEW o \in PhyregEnter(m)
    PROVE  /\ Keeps(m, o.m) /\ SameRun(m, o.m)
           /\ o.ok => o.m.refs = m.refs + 1
<1>1. CASE m.lost \/ m.refs = MaxRefs
    <2>1. o.m = m /\ ~o.ok
        BY <1>1, Outcomes DEF PhyregEnter
    <2> QED
        BY <2>1, DeadKeeps DEF SameRun
<1>2. CASE ~(m.lost \/ m.refs = MaxRefs) /\ m.refs > 0
    <2>1. o = Done([m EXCEPT !.refs = @ + 1])
        BY <1>2 DEF PhyregEnter
    <2>2. o.m = [m EXCEPT !.refs = @ + 1]
        BY <2>1, Outcomes
    <2>3. m.refs \in Nat /\ m.refs + 1 \in 0..MaxRefs
        BY <1>2, MaxRefsAssumption DEF Mac
    <2>4. [m EXCEPT !.refs = @ + 1] \in Mac
        BY <2>3 DEF Mac
    <2> QED
        BY <2>2, <2>4 DEF Keeps, SameRun, HoldsWake, Paused, Mac
<1>3. CASE ~(m.lost \/ m.refs = MaxRefs) /\ ~(m.refs > 0)
    <2>1. PICK s \in OverrideSet(m, "PHYREG") :
            o = IF s.ok THEN Done([s.m EXCEPT !.refs = 1]) ELSE s
        BY <1>3 DEF PhyregEnter
    <2>2. Keeps(m, s.m) /\ SameRun(m, s.m)
        BY OverrideSetOutcome DEF Overrides
    <2>3. CASE ~s.ok
        BY <2>1, <2>2, <2>3
    <2>4. CASE s.ok
        <3>1. o = Done([s.m EXCEPT !.refs = 1])
            BY <2>1, <2>4
        <3>2. o.m = [s.m EXCEPT !.refs = 1]
            BY <3>1, Outcomes
        <3>3. m.refs = 0 /\ 1 \in 0..MaxRefs
            BY <1>3, MaxRefsAssumption DEF Mac
        <3>4. [s.m EXCEPT !.refs = 1] \in Mac
            BY <2>2, <3>3 DEF Keeps, Mac
        <3> QED
            BY <2>2, <3>2, <3>3, <3>4 DEF Keeps, SameRun, HoldsWake, Paused, Mac
    <2> QED
        BY <2>3, <2>4
<1> QED
    BY <1>1, <1>2, <1>3

\* ob_phyreg_exit: the refcount goes down when it returns 0.
LEMMA ExitOutcome ==
    ASSUME NEW m \in Mac, NEW o \in PhyregExit(m)
    PROVE  /\ Keeps(m, o.m) /\ SameRun(m, o.m)
           /\ o.ok => m.refs > 0 /\ o.m.refs = m.refs - 1
<1>1. CASE m.lost \/ m.refs = 0
    <2>1. o.m = m /\ ~o.ok
        BY <1>1, Outcomes DEF PhyregExit
    <2> QED
        BY <2>1, DeadKeeps DEF SameRun
<1>2. CASE ~(m.lost \/ m.refs = 0)
    <2> DEFINE s == [m EXCEPT !.refs = @ - 1]
    <2>1. m.refs > 0 /\ m.refs - 1 \in 0..MaxRefs
        BY <1>2, MaxRefsAssumption DEF Mac
    <2>2. Keeps(m, s) /\ SameRun(m, s) /\ s.refs = m.refs - 1 /\ s \in Mac
        BY <2>1 DEF Keeps, SameRun, HoldsWake, Paused, Mac
    <2>3. o \in IF s.refs > 0 THEN {Done(s)} ELSE OverrideClear(s, "PHYREG")
        BY <1>2 DEF PhyregExit
    <2> HIDE DEF s
    <2>4. CASE s.refs > 0
        <3>1. o.m = s
            BY <2>3, <2>4, Outcomes
        <3> QED
            BY <2>1, <2>2, <3>1
    <2>5. CASE ~(s.refs > 0)
        <3>1. Keeps(s, o.m) /\ SameRun(s, o.m) /\ o.m.refs = s.refs
            BY <2>2, <2>3, <2>5, OverrideClearOutcome DEF Overrides
        <3> QED
            BY <2>1, <2>2, <3>1, KeepsOnward DEF SameRun
    <2> QED
        BY <2>4, <2>5
<1> QED
    BY <1>1, <1>2

-----------------------------------------------------------------------------
(***************************************************************************)
(* The outcomes of the resume and of the calibration's suspend.             *)
(***************************************************************************)
\* The scripted resume sets EN_MAC, and touches nothing but it.
LEMMA ResumeOutcome ==
    ASSUME NEW m \in Mac, NEW o \in ResumeScript(m)
    PROVE  /\ o.m \in Mac /\ (HoldsWake(m) => HoldsWake(o.m))
           /\ o.m.suspended = m.suspended /\ o.m.refs = m.refs
           /\ o.ok => o.m.en
<1>1. PICK s \in Read(m) :
        o \in IF s.ok
              THEN Then(WriteBit(s.m, "en", TRUE), LAMBDA t :
                   Then(WriteBit(t, "en", t.en), LAMBDA u : Then(Read(u), Read)))
              ELSE {s}
    BY DEF ResumeScript, Then
<1>2. CASE ~s.ok
    BY <1>1, <1>2, ReadOutcome DEF Keeps, SameRun
<1>3. CASE s.ok
    <2>1. s.m = m
        BY <1>3, ReadOutcome
    <2>2. PICK t \in WriteBit(m, "en", TRUE) :
            o \in IF t.ok
                  THEN Then(WriteBit(t.m, "en", t.m.en), LAMBDA u : Then(Read(u), Read))
                  ELSE {t}
        BY <1>1, <1>3, <2>1 DEF Then
    <2>3. /\ t.m \in Mac /\ (HoldsWake(m) => HoldsWake(t.m))
          /\ t.m.suspended = m.suspended /\ t.m.refs = m.refs
          /\ t.ok => t.m.en \/ ~t.m.alive
        BY <2>2, EnWritten
    <2>4. CASE ~t.ok
        BY <2>2, <2>3, <2>4
    <2>5. CASE t.ok
        <3>1. PICK u \in WriteBit(t.m, "en", t.m.en) :
                o \in IF u.ok THEN Then(Read(u.m), Read) ELSE {u}
            BY <2>2, <2>5 DEF Then
        <3>2. t.m.en \in BOOLEAN
            BY <2>3 DEF Mac
        <3>3. /\ u.m \in Mac /\ (HoldsWake(t.m) => HoldsWake(u.m))
              /\ u.m.suspended = t.m.suspended /\ u.m.refs = t.m.refs
              /\ u.m.en = t.m.en
            BY <2>3, <3>1, <3>2, EnWritten
        <3>4. u.ok /\ ~t.m.alive => ~u.m.alive
            <4>1. u = Failed(t.m) \/ u = Done(Dead(t.m)) \/ t.m.alive
                BY <2>3, <3>1, <3>2, WriteOutcome
            <4>2. u.ok /\ ~t.m.alive => u.m = Dead(t.m)
                BY <4>1, Outcomes
            <4> QED
                BY <4>2, <2>3, DeadKeeps
        <3>5. CASE ~u.ok
            BY <2>3, <3>1, <3>3, <3>5
        <3>6. CASE u.ok
            <4>1. PICK v \in Read(u.m) : o \in IF v.ok THEN Read(v.m) ELSE {v}
                BY <3>1, <3>6 DEF Then
            <4>2. Keeps(u.m, v.m) /\ SameRun(u.m, v.m) /\ v.m.refs = u.m.refs
                  /\ (v.ok => v.m = u.m /\ u.m.alive)
                BY <3>3, <4>1, ReadOutcome
            <4>3. CASE ~v.ok
                <5>1. o = v
                    BY <4>1, <4>3
                <5> QED
                    BY <2>3, <3>3, <4>2, <4>3, <5>1 DEF Keeps, SameRun
            <4>4. CASE v.ok
                <5>1. o \in Read(u.m)
                    BY <4>1, <4>2, <4>4
                <5>2. Keeps(u.m, o.m) /\ SameRun(u.m, o.m) /\ o.m.refs = u.m.refs
                    BY <3>3, <5>1, ReadOutcome
                <5>3. u.m.en
                    BY <2>3, <2>5, <3>3, <3>4, <3>6, <4>2, <4>4
                <5> QED
                    BY <2>3, <3>3, <5>2, <5>3 DEF Keeps, SameRun
            <4> QED
                BY <4>3, <4>4
        <3> QED
            BY <3>5, <3>6
    <2> QED
        BY <2>4, <2>5
<1> QED
    BY <1>2, <1>3

\* ob_mac_resume: refused unless the record says suspended; 0 means it runs and is so recorded.
LEMMA EnableOutcome ==
    ASSUME NEW m \in Mac, NEW o \in EnableMac(m)
    PROVE  /\ Keeps(m, o.m) /\ o.m.refs = m.refs
           /\ o.ok => m.suspended /\ o.m.en /\ ~o.m.suspended
<1>1. CASE m.lost \/ ~m.suspended
    <2>1. o.m = m /\ ~o.ok
        BY <1>1, Outcomes DEF EnableMac
    <2> QED
        BY <2>1, DeadKeeps
<1>2. CASE ~(m.lost \/ ~m.suspended)
    <2>1. PICK s \in ResumeScript(m) :
            o \in IF s.ok THEN OverrideLeave([s.m EXCEPT !.suspended = FALSE]) ELSE {s}
        BY <1>2 DEF EnableMac, Then
    <2>2. /\ s.m \in Mac /\ (HoldsWake(m) => HoldsWake(s.m))
          /\ s.m.suspended = m.suspended /\ s.m.refs = m.refs
          /\ s.ok => s.m.en
        BY <2>1, ResumeOutcome
    <2>3. CASE ~s.ok
        <3>1. o = s
            BY <2>1, <2>3
        <3> QED
            BY <1>2, <2>2, <2>3, <3>1 DEF Keeps, Paused
    <2>4. CASE s.ok
        <3> DEFINE n == [s.m EXCEPT !.suspended = FALSE]
        <3>1. n \in Mac /\ n.en /\ ~n.suspended /\ n.refs = m.refs /\ (HoldsWake(m) => HoldsWake(n))
            BY <2>2, <2>4 DEF Mac, HoldsWake
        <3>2. o \in OverrideLeave(n)
            BY <2>1, <2>4
        <3> HIDE DEF n
        <3>3. o.m = n \/ o \in OverrideClear(n, "SUSPEND")
            BY <3>2, Outcomes DEF OverrideLeave
        <3>4. Keeps(n, o.m) /\ SameRun(n, o.m) /\ o.m.refs = n.refs
            <4>1. CASE o.m = n
                BY <3>1, <4>1, DeadKeeps DEF SameRun
            <4>2. CASE o \in OverrideClear(n, "SUSPEND")
                BY <3>1, <4>2, OverrideClearOutcome DEF Overrides
            <4> QED
                BY <3>3, <4>1, <4>2
        <3> QED
            BY <1>2, <3>1, <3>4 DEF Keeps, SameRun, Paused
    <2> QED
        BY <2>3, <2>4
<1> QED
    BY <1>1, <1>2

\* ob_cal_mac_suspend: 0 for a MAC that is down; of one not recorded as down
\* before, the record says afterwards whether this call took it down.
LEMMA CalSuspendOutcome ==
    ASSUME NEW m \in Mac, NEW o \in CalSuspend(m)
    PROVE  /\ Keeps(m, o.m) /\ o.m.refs = m.refs
           /\ o.ok /\ ~m.suspended => ~o.m.en /\ o.m.suspended = m.en
<1>1. PICK s \in OverrideSet(m, "SUSPEND") :
        o \in IF s.ok
              THEN IF s.m.suspended THEN {Done(s.m)}
                   ELSE Then(Read(s.m), LAMBDA t : IF t.en THEN SuspendAndWait(t) ELSE {Done(t)})
              ELSE {s}
    BY DEF CalSuspend, Then
<1>2. Keeps(m, s.m) /\ SameRun(m, s.m) /\ s.m.refs = m.refs /\ s.m \in Mac
    BY <1>1, OverrideSetOutcome DEF Overrides, Keeps
<1>3. CASE ~s.ok
    BY <1>1, <1>2, <1>3
<1>4. CASE s.ok /\ s.m.suspended
    <2>1. o = Done(s.m)
        BY <1>1, <1>4
    <2>2. o.m = s.m
        BY <2>1, Outcomes
    <2> QED
        BY <1>2, <1>4, <2>2 DEF SameRun
<1>5. CASE s.ok /\ ~s.m.suspended
    <2>1. PICK r \in Read(s.m) :
            o \in IF r.ok THEN IF r.m.en THEN SuspendAndWait(r.m) ELSE {Done(r.m)} ELSE {r}
        BY <1>1, <1>5 DEF Then
    <2>2. Keeps(s.m, r.m) /\ SameRun(s.m, r.m) /\ r.m.refs = s.m.refs /\ (r.ok => r.m = s.m)
        BY <1>2, <2>1, ReadOutcome
    <2>3. CASE ~r.ok
        <3>1. o = r
            BY <2>1, <2>3
        <3> QED
            BY <1>2, <2>2, <2>3, <3>1, KeepsOnward
    <2>4. CASE r.ok /\ s.m.en
        <3>1. o \in SuspendAndWait(s.m)
            BY <2>1, <2>2, <2>4
        <3>2. Keeps(s.m, o.m) /\ o.m.refs = s.m.refs /\ (o.ok => ~o.m.en /\ o.m.suspended)
            BY <1>2, <3>1, SuspendOutcome
        <3>3. o.ok => o.m.suspended = TRUE /\ m.en = TRUE
            BY <1>2, <2>4, <3>2 DEF Keeps, SameRun, Mac
        <3> QED
            BY <1>2, <3>2, <3>3, KeepsOnward
    <2>5. CASE r.ok /\ ~s.m.en
        <3>1. o = Done(s.m)
            BY <2>1, <2>2, <2>5
        <3>2. o.m = s.m
            BY <3>1, Outcomes
        <3>3. m.en = FALSE /\ o.m.suspended = FALSE
            BY <1>2, <1>5, <2>5, <3>2 DEF SameRun, Mac
        <3> QED
            BY <1>2, <2>5, <3>2, <3>3
    <2> QED
        BY <2>3, <2>4, <2>5
<1> QED
    BY <1>3, <1>4, <1>5

-----------------------------------------------------------------------------
(***************************************************************************)
(* The inductive invariant.                                                 *)
(***************************************************************************)
PhyStates == [Words -> {"found", "forced", "wrong"}]

Statuses == {"running", "refused", "ok", "bracket_failed", "lost", "oops"}

\* The steps each stage can be at.
Path ==
    [look |-> {"contract", "sample", "end"},
     rev4 |-> {"quiesce", "synth", "sentinel", "own", "end"},
     write |-> {"contract", "admit", "suspend", "enter", "disable", "restore", "exit", "resume",
                "compare", "closeExit", "closeMac", "end"},
     w2 |-> {"contract", "admit", "hold", "save", "force", "rfseq0", "rfseq1", "unforce", "release",
             "post", "suspend", "enter", "disable", "kick", "restore", "exit", "resume", "compare",
             "closeExit", "closeMac", "drop", "end"}]

\* The steps behind a suspend that has not been undone.
Under == {"save", "force", "rfseq0", "rfseq1", "unforce", "release", "synth", "sentinel", "own",
          "enter", "disable", "kick", "restore", "exit", "resume", "closeExit", "closeMac"}

\* Those with a bracket to give back, and those with the PHY registers entered.
Bracket == {"synth", "sentinel", "own", "enter", "disable", "kick", "restore", "exit", "resume",
            "closeExit", "closeMac"}

Inside == {"disable", "kick", "restore", "exit", "closeExit"}

\* The step is typed by OnPath.
TypeOK ==
    /\ mac \in Mac /\ found \in Mac
    /\ stage \in Stages
    /\ owns \in BOOLEAN /\ entered \in BOOLEAN
    /\ depth \in Nat /\ took \in BOOLEAN
    /\ phy \in PhyStates /\ saved \in PhyStates
    /\ status \in Statuses

\* What every run starts from.
Started == found.refs = 0 /\ ~found.suspended

\* The stage is at a step of its own.
OnPath == step \in Path[stage]

\* The status is open until something decides it.
Decided ==
    /\ step \notin {"closeExit", "closeMac", "drop", "end"} => status = "running"
    /\ step \in {"closeExit", "closeMac"} => status \in {"refused", "bracket_failed", "lost"}
    /\ step = "drop" => status \in {"bracket_failed", "lost"}
    /\ step = "end" => status # "running"

WakeHeld == HoldsWake(mac)

PauseKept == Paused(found) => Paused(mac)

\* As found, or taken down by this stage if it ran.
Up == mac.en = found.en /\ ~mac.suspended

Held == ~mac.en /\ mac.suspended = found.en

\* Unless a callback has failed the MAC is where the step says, and what is
\* recorded tells who has to give it back.  The replay's entries count elsewhere.
Balanced ==
    ~Unsettled =>
        /\ IF step \in Under THEN Held ELSE Up
        /\ mac.refs = IF step \in Inside /\ stage # "w2" THEN 1 ELSE 0
        /\ step \in Inside => entered
        /\ step \in Bracket => owns = (stage = "w2" \/ found.en)
        /\ IF stage = "w2" /\ step \in Under THEN depth = 1 /\ took = found.en
           ELSE depth = 0 /\ ~took

\* Only the setstate writes the words compared; nothing follows the last compare.
WordsRestored ==
    /\ stage # "w2" => phy = Restored
    /\ step = "end" /\ status = "ok" => phy["0400"] = "found" /\ phy["0401"] = "found"

IInv ==
    /\ TypeOK
    /\ Started
    /\ OnPath
    /\ Decided
    /\ WakeHeld
    /\ PauseKept
    /\ Balanced
    /\ WordsRestored

-----------------------------------------------------------------------------
(***************************************************************************)
(* What the actions share.                                                  *)
(***************************************************************************)
\* The steps in their order, as the scripts of the four stages name them.
LEMMA Onward ==
    /\ stage = "look" => After("contract") = "sample"
    /\ stage = "rev4" => /\ After("quiesce") = "synth"
                         /\ After("synth") = "sentinel"
                         /\ After("sentinel") = "own"
    /\ stage = "write" => /\ After("contract") = "admit"
                          /\ After("admit") = "suspend"
                          /\ After("suspend") = "enter"
                          /\ After("enter") = "disable"
                          /\ After("disable") = "restore"
                          /\ After("restore") = "exit"
                          /\ After("exit") = "resume"
                          /\ After("resume") = "compare"
                          /\ After("compare") = "end"
    /\ stage = "w2" => /\ After("contract") = "admit"
                       /\ After("admit") = "hold"
                       /\ After("hold") = "save"
                       /\ After("save") = "force"
                       /\ After("force") = "rfseq0"
                       /\ After("rfseq0") = "rfseq1"
                       /\ After("rfseq1") = "unforce"
                       /\ After("unforce") = "release"
                       /\ After("release") = "post"
                       /\ After("post") = "suspend"
                       /\ After("suspend") = "enter"
                       /\ After("enter") = "disable"
                       /\ After("disable") = "kick"
                       /\ After("kick") = "restore"
                       /\ After("restore") = "exit"
                       /\ After("exit") = "resume"
                       /\ After("resume") = "compare"
                       /\ After("compare") = "end"
<1>1. stage = "look" => After("contract") = "sample"
    BY DEF After, Script
<1>2. stage = "rev4" => /\ After("quiesce") = "synth"
                        /\ After("synth") = "sentinel"
                        /\ After("sentinel") = "own"
    BY DEF After, Script
<1>3. stage = "write" => /\ After("contract") = "admit"
                         /\ After("admit") = "suspend"
                         /\ After("suspend") = "enter"
                         /\ After("enter") = "disable"
                         /\ After("disable") = "restore"
                         /\ After("restore") = "exit"
                         /\ After("exit") = "resume"
                         /\ After("resume") = "compare"
                         /\ After("compare") = "end"
    BY DEF After, Script
<1>4. stage = "w2" => /\ After("contract") = "admit"
                      /\ After("admit") = "hold"
                      /\ After("hold") = "save"
                      /\ After("save") = "force"
                      /\ After("force") = "rfseq0"
                      /\ After("rfseq0") = "rfseq1"
                      /\ After("rfseq1") = "unforce"
                      /\ After("unforce") = "release"
                      /\ After("release") = "post"
    BY DEF After, Script
<1>5. stage = "w2" => /\ After("post") = "suspend"
                      /\ After("suspend") = "enter"
                      /\ After("enter") = "disable"
                      /\ After("disable") = "kick"
                      /\ After("kick") = "restore"
                      /\ After("restore") = "exit"
                      /\ After("exit") = "resume"
                      /\ After("resume") = "compare"
                      /\ After("compare") = "end"
    BY DEF After, Script
<1> QED
    BY <1>1, <1>2, <1>3, <1>4, <1>5

\* A PHY access changes no more than whether the window answers.
LEMMA PhyAccessOutcome ==
    ASSUME TypeOK, NEW m \in PhyAccess
    PROVE  Keeps(mac, m) /\ SameRun(mac, m) /\ m.refs = mac.refs
<1>1. m = mac \/ m = Dead(mac)
    BY DEF PhyAccess
<1> QED
    BY <1>1, DeadKeeps DEF TypeOK, SameRun

\* A step that keeps the MAC keeps what is said of it and of the MAC found.
LEMMA MacKept ==
    ASSUME IInv, Keeps(mac, mac'), found' = found
    PROVE  mac' \in Mac /\ found' \in Mac /\ Started' /\ WakeHeld' /\ PauseKept'
BY DEF IInv, TypeOK, Keeps, Started, WakeHeld, PauseKept

\* A callback that is not good settles the run as failed; a good one leads on.
LEMMA GoesOn ==
    ASSUME NEW o, NEW stop, Goes(o, stop)
    PROVE  /\ mac' = o.m
           /\ ~Good(o) => step' = stop /\ status' \in {"bracket_failed", "lost"} /\ Unsettled'
           /\ Good(o) => o.ok /\ step' = After(step) /\ status' = status
BY DEF Goes, Good, Classified, Unsettled

\* The callback that takes the MAC down, of no hold or of a stage without holds.
LEMMA HoldOutcome ==
    ASSUME TypeOK, NEW o \in SuspendOutcomes
    PROVE  /\ Keeps(mac, o.m) /\ o.m.refs = mac.refs
           /\ o.ok /\ ~mac.suspended /\ (stage = "w2" => depth = 0)
                => ~o.m.en /\ o.m.suspended = mac.en
<1>1. CASE stage = "w2" /\ mac.lost
    <2>1. o.m = mac /\ ~o.ok
        BY <1>1, Outcomes DEF SuspendOutcomes
    <2> QED
        BY <2>1, DeadKeeps DEF TypeOK
<1>2. CASE stage = "w2" /\ ~mac.lost /\ depth > 0
    <2>1. o.m = mac /\ depth # 0
        BY <1>2, Outcomes DEF SuspendOutcomes, TypeOK
    <2> QED
        BY <1>2, <2>1, DeadKeeps DEF TypeOK
<1>3. CASE ~(stage = "w2" /\ mac.lost) /\ ~(stage = "w2" /\ depth > 0)
    <2>1. o \in CalSuspend(mac)
        BY <1>3 DEF SuspendOutcomes
    <2> QED
        BY <2>1, CalSuspendOutcome DEF TypeOK
<1> QED
    BY <1>1, <1>2, <1>3

\* The callback that lifts it: the last release of a MAC the first hold took
\* down resumes it, any other leaves it.
LEMMA ReleaseOutcome ==
    ASSUME TypeOK, NEW o \in ResumeOutcomes
    PROVE  /\ Keeps(mac, o.m) /\ o.m.refs = mac.refs
           /\ o.ok /\ (stage = "w2" => depth = 1 /\ took)
                => mac.suspended /\ o.m.en /\ ~o.m.suspended
           /\ o.ok /\ stage = "w2" /\ depth = 1 /\ ~took => o.m = mac
<1>1. \/ o = Failed(mac)
      \/ o \in EnableMac(mac) /\ (stage = "w2" => depth = 1 /\ took)
      \/ o = Done(mac) /\ stage = "w2" /\ ~(depth = 1 /\ took)
    BY DEF ResumeOutcomes
<1>2. CASE o = Failed(mac)
    <2>1. o.m = mac /\ ~o.ok
        BY <1>2, Outcomes
    <2> QED
        BY <2>1, DeadKeeps DEF TypeOK
<1>3. CASE o \in EnableMac(mac) /\ (stage = "w2" => depth = 1 /\ took)
    BY <1>3, EnableOutcome DEF TypeOK
<1>4. CASE o = Done(mac) /\ stage = "w2" /\ ~(depth = 1 /\ took)
    <2>1. o.m = mac
        BY <1>4, Outcomes
    <2> QED
        BY <1>4, <2>1, DeadKeeps DEF TypeOK
<1> QED
    BY <1>1, <1>2, <1>3, <1>4

\* A release of the replay that returns 0 had a device.
LEMMA ReleaseOfAlive ==
    ASSUME stage = "w2", NEW o \in ResumeOutcomes, o.ok
    PROVE  ~mac.lost
<1>1. CASE mac.lost
    <2>1. o = Failed(mac)
        BY <1>1 DEF ResumeOutcomes
    <2> QED
        BY <2>1, Outcomes
<1> QED
    BY <1>1

\* The count goes down with a release, and the last one forgets the hold.
LEMMA ReleasedCounts ==
    ASSUME TypeOK, Released
    PROVE  /\ depth' \in Nat /\ took' \in BOOLEAN
           /\ stage = "w2" /\ ~mac.lost /\ depth = 1 => depth' = 0 /\ ~took'
           /\ stage # "w2" => UNCHANGED nesting
<1>1. CASE stage # "w2" \/ mac.lost \/ depth = 0
    BY <1>1 DEF Released, nesting, TypeOK
<1>2. CASE ~(stage # "w2" \/ mac.lost \/ depth = 0)
    <2>1. depth' = depth - 1 /\ took' = (took /\ depth > 1)
        BY <1>2 DEF Released
    <2>2. depth' \in Nat /\ (depth = 1 => depth' = 0)
        BY <1>2, <2>1 DEF TypeOK
    <2>3. took' \in BOOLEAN
        BY <2>1
    <2>4. depth = 1 => ~(depth > 1)
        OBVIOUS
    <2>5. depth = 1 => ~took'
        BY <2>1, <2>4
    <2> QED
        BY <1>2, <2>2, <2>3, <2>5
<1> QED
    BY <1>1, <1>2

\* A callback that lifts the hold of a run that has not failed, by who has it
\* to lift, leaves the MAC as it was found.
LEMMA Lifted ==
    ASSUME IInv, ~Unsettled, step \in {"release", "resume", "closeMac"}, stage = "w2" \/ owns,
           NEW o \in ResumeOutcomes, o.ok, Released, mac' = o.m, found' = found
    PROVE  Up' /\ mac'.refs = 0 /\ depth' = 0 /\ ~took'
<1>1. Held /\ mac.refs = 0
    BY DEF IInv, Balanced, Under, Inside
<1>2. mac' \in Mac /\ mac \in Mac /\ found \in Mac /\ mac'.refs = 0
    BY <1>1, ReleaseOutcome DEF IInv, TypeOK, Keeps
<1>3. stage = "w2" => depth = 1 /\ took = found.en
    BY DEF IInv, Balanced, Under
<1>4. stage # "w2" => depth = 0 /\ ~took
    BY DEF IInv, Balanced
<1>5. CASE stage = "w2" /\ ~took
    <2>1. mac' = mac
        BY <1>3, <1>5, ReleaseOutcome DEF IInv
    <2>2. found.en = FALSE /\ mac.en = FALSE /\ mac.suspended = FALSE
        BY <1>1, <1>2, <1>3, <1>5 DEF Held, Mac
    <2>3. depth' = 0 /\ ~took'
        BY <1>3, <1>5, ReleaseOfAlive, ReleasedCounts DEF IInv
    <2> QED
        BY <1>1, <2>1, <2>2, <2>3 DEF Up
<1>6. CASE stage # "w2" \/ took
    <2>1. mac.suspended /\ mac'.en /\ ~mac'.suspended
        BY <1>3, <1>6, ReleaseOutcome DEF IInv
    <2>2. found.en = TRUE /\ mac'.en = TRUE
        BY <1>1, <1>2, <2>1 DEF Held, Mac
    <2>3. depth' = 0 /\ ~took'
        <3>1. CASE stage = "w2"
            BY <1>3, <3>1, ReleaseOfAlive, ReleasedCounts DEF IInv
        <3>2. CASE stage # "w2"
            BY <1>4, <3>2, ReleasedCounts DEF IInv, nesting
        <3> QED
            BY <3>1, <3>2
    <2> QED
        BY <1>2, <2>1, <2>2, <2>3 DEF Up
<1> QED
    BY <1>5, <1>6

\* Comparing the PHY words leads on or ends, refused or ok.
LEMMA ComparesOnward ==
    ASSUME NEW m, Compares(m)
    PROVE  \/ /\ step' = After(step) /\ phy["0400"] = "found" /\ phy["0401"] = "found"
              /\ status' = IF After(step) = "end" THEN "ok" ELSE status
           \/ step' = "end" /\ status' = "refused"
BY DEF Compares, Matches

\* Initially the MAC is as found and nothing is decided.
LEMMA InitIInv == Init => IInv
<1> SUFFICES ASSUME Init
             PROVE  IInv
    OBVIOUS
<1>1. mac \in Mac /\ mac.refs = 0 /\ mac.bitmap = {} /\ ~mac.suspended /\ mac.wake /\ found = mac
    <2>1. PICK e \in BOOLEAN :
            mac = [en |-> e, wake |-> TRUE, alive |-> TRUE, lost |-> FALSE,
                   bitmap |-> {}, refs |-> 0, suspended |-> FALSE]
        BY DEF Init
    <2>2. 0 \in 0..MaxRefs
        BY MaxRefsAssumption
    <2>3. mac \in Mac
        BY <2>1, <2>2 DEF Mac
    <2> QED
        BY <2>1, <2>3 DEF Init
<1>2. stage \in {"rev4", "write", "w2", "look"} /\ stage \in Stages
    BY StageAssumption DEF Init
<1>3. step \in {"contract", "quiesce"} /\ step \in Path[stage]
    BY <1>2 DEF Init, Script, Path
<1>5. phy \in PhyStates /\ saved \in PhyStates /\ phy = Restored
    BY DEF Init, Restored, PhyStates
<1>6. TypeOK
    BY <1>1, <1>2, <1>5 DEF Init, TypeOK, Statuses
<1>7. Started /\ OnPath /\ Decided
    BY <1>1, <1>3 DEF Init, Started, OnPath, Decided
<1>8. WakeHeld /\ PauseKept
    BY <1>1 DEF WakeHeld, PauseKept, HoldsWake, Paused
<1>9. Balanced
    BY <1>1, <1>3 DEF Init, Balanced, Up, Under, Inside, Bracket
<1>10. WordsRestored
    BY <1>5 DEF Init, WordsRestored
<1> QED
    BY <1>6, <1>7, <1>8, <1>9, <1>10 DEF IInv

-----------------------------------------------------------------------------
(***************************************************************************)
(* The actions before the bracket, and the two that only look.              *)
(***************************************************************************)
\* An action that leaves the MAC alone or only accesses the PHY, and everything
\* else but the step and the status, from a step with the MAC up to another or
\* to the end.
LEMMA UpStays ==
    ASSUME IInv, step \notin Under, step \notin {"drop", "end"},
           Keeps(mac, mac'), SameRun(mac, mac'), mac'.refs = mac.refs,
           UNCHANGED <<stage, bracket, nesting, words, found>>,
           step' \in Path[stage] \ {"drop"}, step' \notin Under,
           status' \in Statuses,
           step' # "end" => status' = "running",
           step' = "end" => status' \in {"refused", "ok"},
           status' = "ok" => phy["0400"] = "found" /\ phy["0401"] = "found"
    PROVE  IInv'
<1>1. mac' \in Mac /\ found' \in Mac /\ Started' /\ WakeHeld' /\ PauseKept'
    BY MacKept
<1>3. TypeOK'
    BY <1>1 DEF IInv, TypeOK, bracket, nesting, words
<1>4. OnPath' /\ Decided'
    BY DEF OnPath, Decided, Under
<1>5. ~Unsettled
    BY DEF IInv, Decided, Unsettled, Under
<1>6. Balanced'
    BY <1>5 DEF IInv, Balanced, Under, Inside, Bracket, Up, SameRun, bracket, nesting
<1>7. WordsRestored'
    BY DEF IInv, WordsRestored, words
<1> QED
    BY <1>1, <1>3, <1>4, <1>6, <1>7 DEF IInv

\* Admitted or blocked by the identity, the MAC untouched.
LEMMA ContractStep == IInv /\ Contract => IInv'
<1> SUFFICES ASSUME IInv, Contract
             PROVE  IInv'
    OBVIOUS
<1>1. Keeps(mac, mac') /\ SameRun(mac, mac')
    BY DeadKeeps DEF IInv, TypeOK, Contract, SameRun
<1>2. status = "running"
    BY DEF IInv, Decided, Contract
<1>3. stage \in {"look", "write", "w2"}
    BY StageAssumption DEF IInv, TypeOK, OnPath, Path, Contract
<1>4. After("contract") \in Path[stage] /\ After("contract") \in {"sample", "admit"}
    BY <1>3, Onward DEF Path
<1>5. "end" \in Path[stage]
    BY <1>3 DEF Path
<1>6. \/ step' = After("contract") /\ status' = "running"
      \/ step' = "end" /\ status' = "refused"
    BY <1>2 DEF Contract
<1> QED
    BY <1>1, <1>4, <1>5, <1>6, UpStays DEF Contract, Under, Statuses

\* The witness reads and ends, the MAC as found.
LEMMA SampleStep == IInv /\ Sample => IInv'
<1> SUFFICES ASSUME IInv, Sample
             PROVE  IInv'
    OBVIOUS
<1>1. Keeps(mac, mac') /\ SameRun(mac, mac') /\ mac'.refs = mac.refs
    BY PhyAccessOutcome DEF IInv, Sample
<1>2. stage = "look"
    BY StageAssumption DEF IInv, TypeOK, OnPath, Path, Sample
<1>3. phy["0400"] = "found" /\ phy["0401"] = "found"
    BY <1>2 DEF IInv, WordsRestored, Restored, Words
<1> QED
    BY <1>1, <1>2, <1>3, UpStays DEF Sample, Under, Statuses, Path

\* The comparisons with the MAC up: Prestate, EntrySample, PostSample, PostState, PostIdentity.
LEMMA ComparesStep ==
    ASSUME IInv, Prestate \/ EntrySample \/ PostSample \/ PostState \/ PostIdentity
    PROVE  IInv'
<1>1. /\ step \in {"admit", "post", "compare"} /\ stage \in {"write", "w2"}
      /\ UNCHANGED <<stage, bracket, nesting, words, writes, found>>
    BY StageAssumption
       DEF IInv, TypeOK, OnPath, Path, Prestate, EntrySample, PostSample, PostState, PostIdentity
<1>2. PICK m \in PhyAccess :
        mac' = m /\ (Compares(m) \/ (step' = "end" /\ status' = "refused"))
    <2>1. CASE Prestate
        <3>1. PICK m \in PhyAccess : \E end \in PollEnds(m) :
                /\ mac' = m
                /\ IF end = "clear" THEN Compares(m) ELSE step' = "end" /\ status' = "refused"
            BY <2>1 DEF Prestate
        <3> QED
            BY <3>1
    <2>2. CASE EntrySample \/ PostSample \/ PostState \/ PostIdentity
        <3>1. \E m \in PhyAccess : mac' = m /\ Compares(m)
            BY <2>2 DEF EntrySample, PostSample, PostState, PostIdentity
        <3> QED
            BY <3>1
    <2> QED
        BY <2>1, <2>2
<1>3. Keeps(mac, mac') /\ SameRun(mac, mac') /\ mac'.refs = mac.refs
    BY <1>2, PhyAccessOutcome DEF IInv
<1>4. status = "running"
    BY <1>1 DEF IInv, Decided
<1>5. After(step) \in Path[stage] /\ After(step) \in {"hold", "suspend", "end"}
    BY <1>1, Onward DEF Path, IInv, OnPath
<1>6. \/ /\ step' = After(step) /\ phy["0400"] = "found" /\ phy["0401"] = "found"
         /\ status' = IF After(step) = "end" THEN "ok" ELSE "running"
      \/ step' = "end" /\ status' = "refused"
    BY <1>2, <1>4, ComparesOnward
<1>7. "end" \in Path[stage]
    BY <1>1 DEF Path
<1>8. step' \in Path[stage] \ {"drop"} /\ step' \notin Under
    BY <1>5, <1>6, <1>7 DEF Under
<1>9. /\ status' \in Statuses
      /\ step' # "end" => status' = "running"
      /\ step' = "end" => status' \in {"refused", "ok"}
      /\ status' = "ok" => phy["0400"] = "found" /\ phy["0401"] = "found"
    BY <1>5, <1>6 DEF Statuses
<1>10. step \notin Under /\ step \notin {"drop", "end"}
    BY <1>1 DEF Under
<1> QED
    BY <1>1, <1>3, <1>8, <1>9, <1>10, UpStays

-----------------------------------------------------------------------------
(***************************************************************************)
(* The setstate of the replay, under its own hold.                          *)
(***************************************************************************)
\* The hold of the setstate takes down a MAC that ran, and says so.
LEMMA HoldStep == IInv /\ Hold => IInv'
<1> SUFFICES ASSUME IInv, Hold
             PROVE  IInv'
    OBVIOUS
<1>1. stage = "w2" /\ status = "running" /\ ~Unsettled /\ step = "hold"
    BY StageAssumption DEF IInv, TypeOK, OnPath, Path, Hold, Decided, Unsettled
<1>2. PICK o \in SuspendOutcomes : Goes(o, IF o.ok THEN "drop" ELSE "end") /\ Nested(o)
    BY DEF Hold
<1>3. Up /\ mac.refs = 0 /\ depth = 0 /\ ~took
    BY <1>1 DEF IInv, Balanced, Under, Inside
<1>4. /\ Keeps(mac, o.m) /\ o.m.refs = 0
      /\ o.ok => ~o.m.en /\ o.m.suspended = mac.en
    BY <1>1, <1>3, HoldOutcome DEF IInv, Up
<1>5. /\ mac' = o.m
      /\ ~Good(o) => step' \in {"drop", "end"} /\ status' \in {"bracket_failed", "lost"}
                     /\ Unsettled'
      /\ Good(o) => o.ok /\ step' = "save" /\ status' = "running"
    BY <1>1, <1>2, GoesOn, Onward
<1>6. mac' \in Mac /\ found' \in Mac /\ Started' /\ WakeHeld' /\ PauseKept'
    BY <1>4, <1>5, MacKept DEF Hold
<1>7. /\ depth' = IF o.ok THEN 1 ELSE 0
      /\ took' = IF o.ok THEN o.m.suspended # mac.suspended ELSE took
    BY <1>1, <1>2, <1>3 DEF Nested
<1>8. depth' \in Nat /\ took' \in BOOLEAN
    BY <1>7 DEF IInv, TypeOK
<1>9. TypeOK'
    BY <1>1, <1>5, <1>6, <1>8 DEF Hold, IInv, TypeOK, Statuses, bracket, words
<1>10. OnPath' /\ Decided'
    BY <1>1, <1>5 DEF OnPath, Path, Decided, Hold
<1>11. Balanced'
    <2> SUFFICES ASSUME Good(o)
                 PROVE  Balanced'
        BY <1>5 DEF Balanced
    <2>1. mac' = o.m /\ o.ok /\ step' = "save" /\ stage' = "w2" /\ found' = found
        BY <1>1, <1>5 DEF Hold
    <2>2. ~mac'.en /\ mac'.suspended = found.en /\ mac'.refs = 0
        BY <1>3, <1>4, <2>1 DEF Up
    <2>3. depth' = 1 /\ took' = found.en
        <3>1. took' = (o.m.suspended # mac.suspended) /\ depth' = 1
            BY <1>7, <2>1
        <3>2. ~mac.suspended /\ o.m.suspended = found.en /\ mac.suspended \in BOOLEAN
              /\ found.en \in BOOLEAN
            BY <1>3, <2>1, <2>2 DEF Up, IInv, TypeOK, Mac
        <3> QED
            BY <3>1, <3>2
    <2> QED
        BY <2>1, <2>2, <2>3 DEF Balanced, Held, Under, Inside, Bracket
<1>12. WordsRestored'
    BY <1>1, <1>5 DEF WordsRestored, Hold
<1> QED
    BY <1>6, <1>9, <1>10, <1>11, <1>12 DEF IInv

\* A step of the setstate under the hold that only accesses the PHY.
LEMMA UnderHold ==
    ASSUME IInv, step \in {"save", "force", "rfseq0", "rfseq1", "unforce"},
           mac' \in PhyAccess, step' = After(step),
           phy' \in PhyStates, saved' \in PhyStates,
           UNCHANGED <<stage, bracket, nesting, status, found>>
    PROVE  IInv'
<1>1. stage = "w2"
    BY StageAssumption DEF IInv, TypeOK, OnPath, Path
<1>2. status = "running" /\ ~Unsettled
    BY DEF IInv, Decided, Unsettled
<1>3. step' \in {"force", "rfseq0", "rfseq1", "unforce", "release"}
    BY <1>1, Onward
<1>4. Keeps(mac, mac') /\ SameRun(mac, mac') /\ mac'.refs = mac.refs
    BY PhyAccessOutcome DEF IInv
<1>5. mac' \in Mac /\ found' \in Mac /\ Started' /\ WakeHeld' /\ PauseKept'
    BY <1>4, MacKept
<1>6. TypeOK'
    BY <1>5 DEF IInv, TypeOK, bracket, nesting
<1>7. OnPath' /\ Decided'
    BY <1>1, <1>2, <1>3 DEF OnPath, Path, Decided
<1>8. Balanced'
    <2>1. Held /\ mac.refs = 0 /\ depth = 1 /\ took = found.en
        BY <1>1, <1>2 DEF IInv, Balanced, Under, Inside
    <2>2. Held' /\ mac'.refs = 0 /\ depth' = 1 /\ took' = found'.en
        BY <1>4, <2>1 DEF Held, SameRun, nesting
    <2> QED
        BY <1>1, <1>3, <2>2 DEF Balanced, Under, Inside, Bracket
<1>9. WordsRestored'
    BY <1>1, <1>3 DEF WordsRestored
<1> QED
    BY <1>5, <1>6, <1>7, <1>8, <1>9 DEF IInv

\* The words are read under the hold.
LEMMA SaveStep == IInv /\ Save => IInv'
<1> SUFFICES ASSUME IInv, Save
             PROVE  IInv'
    OBVIOUS
<1>1. saved' \in PhyStates
    BY DEF Save, PhyStates
<1> QED
    BY <1>1, UnderHold DEF Save, IInv, TypeOK

\* The words are forced under the hold.
LEMMA ForceStep == IInv /\ ForceWords => IInv'
<1> SUFFICES ASSUME IInv, ForceWords
             PROVE  IInv'
    OBVIOUS
<1>1. PICK through \in SUBSET {"0400", "0401"} :
        phy' = [w \in Words |-> IF w \in through THEN "forced" ELSE phy[w]]
    BY DEF ForceWords
<1>2. phy' \in PhyStates
    BY <1>1 DEF IInv, TypeOK, PhyStates
<1> QED
    BY <1>2, UnderHold DEF ForceWords, IInv, TypeOK

\* The RF sequence is run under the hold.
LEMMA RfseqStep == IInv /\ Rfseq => IInv'
<1> SUFFICES ASSUME IInv, Rfseq
             PROVE  IInv'
    OBVIOUS
<1>1. PICK left \in {phy["019E"], "forced", "wrong"} : phy' = [phy EXCEPT !["019E"] = left]
    BY DEF Rfseq
<1>2. phy' \in PhyStates
    BY <1>1 DEF IInv, TypeOK, PhyStates, Words
<1> QED
    BY <1>2, UnderHold DEF Rfseq, IInv, TypeOK

\* The words are put back under the hold.
LEMMA UnforceStep == IInv /\ Unforce => IInv'
<1> SUFFICES ASSUME IInv, Unforce
             PROVE  IInv'
    OBVIOUS
<1>1. PICK through \in SUBSET {"0400", "0401"} :
        phy' = [w \in Words |-> IF w \in through THEN saved[w] ELSE phy[w]]
    BY DEF Unforce
<1>2. phy' \in PhyStates
    BY <1>1 DEF IInv, TypeOK, PhyStates
<1> QED
    BY <1>2, UnderHold DEF Unforce, IInv, TypeOK

\* The release of a run that has not failed leaves the MAC as found.
LEMMA ReleaseStep == IInv /\ Release => IInv'
<1> SUFFICES ASSUME IInv, Release
             PROVE  IInv'
    OBVIOUS
<1>1. stage = "w2" /\ step \in {"release", "drop"}
    BY StageAssumption DEF IInv, TypeOK, OnPath, Path, Release
<1>2. PICK o \in ResumeOutcomes :
        /\ mac' = o.m
        /\ step' = IF step = "release" /\ Good(o) THEN After(step) ELSE "end"
        /\ status' = IF step = "release" /\ ~Good(o) THEN Classified(o) ELSE status
    BY DEF Release
<1>3. Keeps(mac, o.m) /\ o.m.refs = mac.refs
    BY ReleaseOutcome DEF IInv
<1>4. mac' \in Mac /\ found' \in Mac /\ Started' /\ WakeHeld' /\ PauseKept'
    BY <1>2, <1>3, MacKept DEF Release
<1>5. \/ step = "release" /\ Good(o) /\ step' = "post" /\ status' = "running"
      \/ step' = "end" /\ status' \in {"bracket_failed", "lost"} /\ Unsettled'
    BY <1>1, <1>2, Onward DEF IInv, Decided, Classified, Unsettled
<1>6. depth' \in Nat /\ took' \in BOOLEAN
    BY ReleasedCounts DEF Release, IInv
<1>7. TypeOK'
    BY <1>4, <1>5, <1>6 DEF Release, IInv, TypeOK, Statuses, bracket, words
<1>8. OnPath' /\ Decided'
    BY <1>1, <1>5 DEF OnPath, Path, Decided, Release
<1>9. Balanced'
    <2> SUFFICES ASSUME step = "release", Good(o), step' = "post", status' = "running"
                 PROVE  Balanced'
        BY <1>5 DEF Balanced
    <2>1. o.ok /\ ~Unsettled
        BY <1>2 DEF Good, IInv, Decided, Unsettled
    <2>2. Up' /\ mac'.refs = 0 /\ depth' = 0 /\ ~took'
        BY <1>1, <1>2, <2>1, Lifted DEF Release
    <2> QED
        BY <2>2 DEF Balanced, Under, Inside, Bracket
<1>10. WordsRestored'
    BY <1>1, <1>5 DEF WordsRestored, Release
<1> QED
    BY <1>4, <1>7, <1>8, <1>9, <1>10 DEF IInv

-----------------------------------------------------------------------------
(***************************************************************************)
(* The bracket around the writes of the calibration.                        *)
(***************************************************************************)
\* The write stage owns a MAC that its suspend took down, and no other.
LEMMA SuspendStep == IInv /\ Suspend => IInv'
<1> SUFFICES ASSUME IInv, Suspend
             PROVE  IInv'
    OBVIOUS
<1>1. stage = "write" /\ status = "running" /\ ~Unsettled /\ step = "suspend"
    BY DEF IInv, Suspend, Decided, Unsettled
<1>2. PICK o \in SuspendOutcomes :
        Goes(o, "end") /\ owns' = (Good(o) /\ o.m.suspended # mac.suspended)
    BY DEF Suspend
<1>3. Up /\ mac.refs = 0 /\ depth = 0 /\ ~took
    BY <1>1 DEF IInv, Balanced, Under, Inside
<1>4. /\ Keeps(mac, o.m) /\ o.m.refs = 0
      /\ o.ok => ~o.m.en /\ o.m.suspended = mac.en
    BY <1>1, <1>3, HoldOutcome DEF IInv, Up
<1>5. /\ mac' = o.m
      /\ ~Good(o) => step' = "end" /\ status' \in {"bracket_failed", "lost"} /\ Unsettled'
      /\ Good(o) => o.ok /\ step' = "enter" /\ status' = "running"
    BY <1>1, <1>2, GoesOn, Onward
<1>6. mac' \in Mac /\ found' \in Mac /\ Started' /\ WakeHeld' /\ PauseKept'
    BY <1>4, <1>5, MacKept DEF Suspend
<1>7. owns' \in BOOLEAN
    BY <1>2
<1>8. TypeOK'
    BY <1>1, <1>5, <1>6, <1>7 DEF Suspend, IInv, TypeOK, Statuses, nesting, words
<1>9. OnPath' /\ Decided'
    BY <1>1, <1>5 DEF OnPath, Path, Decided, Suspend
<1>10. Balanced'
    <2> SUFFICES ASSUME Good(o)
                 PROVE  Balanced'
        BY <1>5 DEF Balanced
    <2>1. mac' = o.m /\ o.ok /\ step' = "enter" /\ stage' = "write" /\ found' = found
        BY <1>1, <1>5 DEF Suspend
    <2>2. ~mac'.en /\ mac'.suspended = found.en /\ mac'.refs = 0
        BY <1>3, <1>4, <2>1 DEF Up
    <2>3. owns' = found.en
        <3>1. owns' = (o.m.suspended # mac.suspended)
            BY <1>2
        <3>2. ~mac.suspended /\ o.m.suspended = found.en /\ mac.suspended \in BOOLEAN
              /\ found.en \in BOOLEAN
            BY <1>3, <2>1, <2>2 DEF Up, IInv, TypeOK, Mac
        <3> QED
            BY <3>1, <3>2
    <2>4. depth' = 0 /\ ~took'
        BY <1>3 DEF Suspend, nesting
    <2>5. owns' = (stage' = "w2" \/ found'.en)
        BY <1>6, <2>1, <2>3 DEF Mac
    <2>6. Held'
        BY <2>1, <2>2 DEF Held
    <2> QED
        BY <2>1, <2>2, <2>4, <2>5, <2>6 DEF Balanced, Under, Inside
<1>11. WordsRestored'
    BY <1>1, <1>5 DEF WordsRestored, Suspend, IInv, words
<1> QED
    BY <1>6, <1>8, <1>9, <1>10, <1>11 DEF IInv

\* The replay owns a hold in any case; the nesting says what it took down.
LEMMA OpenBracketStep == IInv /\ OpenBracket => IInv'
<1> SUFFICES ASSUME IInv, OpenBracket
             PROVE  IInv'
    OBVIOUS
<1>1. stage = "w2" /\ status = "running" /\ ~Unsettled /\ step = "suspend"
    BY DEF IInv, OpenBracket, Decided, Unsettled
<1>2. PICK o \in SuspendOutcomes : Goes(o, "end") /\ Nested(o) /\ owns' = Good(o)
    BY DEF OpenBracket
<1>3. Up /\ mac.refs = 0 /\ depth = 0 /\ ~took
    BY <1>1 DEF IInv, Balanced, Under, Inside
<1>4. /\ Keeps(mac, o.m) /\ o.m.refs = 0
      /\ o.ok => ~o.m.en /\ o.m.suspended = mac.en
    BY <1>1, <1>3, HoldOutcome DEF IInv, Up
<1>5. /\ mac' = o.m
      /\ ~Good(o) => step' = "end" /\ status' \in {"bracket_failed", "lost"} /\ Unsettled'
      /\ Good(o) => o.ok /\ step' = "enter" /\ status' = "running"
    BY <1>1, <1>2, GoesOn, Onward
<1>6. mac' \in Mac /\ found' \in Mac /\ Started' /\ WakeHeld' /\ PauseKept'
    BY <1>4, <1>5, MacKept DEF OpenBracket
<1>7. /\ depth' = IF o.ok THEN 1 ELSE 0
      /\ took' = IF o.ok THEN o.m.suspended # mac.suspended ELSE took
    BY <1>1, <1>2, <1>3 DEF Nested
<1>8. depth' \in Nat /\ took' \in BOOLEAN
    BY <1>7 DEF IInv, TypeOK
<1>9. owns' \in BOOLEAN /\ (Good(o) => owns')
    BY <1>2 DEF Good
<1>10. TypeOK'
    BY <1>1, <1>5, <1>6, <1>8, <1>9 DEF OpenBracket, IInv, TypeOK, Statuses, words
<1>11. OnPath' /\ Decided'
    BY <1>1, <1>5 DEF OnPath, Path, Decided, OpenBracket
<1>12. Balanced'
    <2> SUFFICES ASSUME Good(o)
                 PROVE  Balanced'
        BY <1>5 DEF Balanced
    <2>1. mac' = o.m /\ o.ok /\ step' = "enter" /\ stage' = "w2" /\ found' = found
        BY <1>1, <1>5 DEF OpenBracket
    <2>2. ~mac'.en /\ mac'.suspended = found.en /\ mac'.refs = 0
        BY <1>3, <1>4, <2>1 DEF Up
    <2>3. depth' = 1 /\ took' = found.en
        <3>1. took' = (o.m.suspended # mac.suspended) /\ depth' = 1
            BY <1>7, <2>1
        <3>2. ~mac.suspended /\ o.m.suspended = found.en /\ mac.suspended \in BOOLEAN
              /\ found.en \in BOOLEAN
            BY <1>3, <2>1, <2>2 DEF Up, IInv, TypeOK, Mac
        <3> QED
            BY <3>1, <3>2
    <2>4. owns' = TRUE
        BY <1>9
    <2> QED
        BY <2>1, <2>2, <2>3, <2>4 DEF Balanced, Held, Under, Inside, Bracket
<1>13. WordsRestored'
    BY <1>1, <1>5 DEF WordsRestored, OpenBracket
<1> QED
    BY <1>6, <1>10, <1>11, <1>12, <1>13 DEF IInv

\* A step with the MAC held that leaves it held: what is left to show is the
\* step it leads to, the refcount and the record of the entry.
LEMMA HeldStays ==
    ASSUME IInv, step \in Bracket,
           Keeps(mac, mac'),
           UNCHANGED <<stage, owns, nesting, words, found>>,
           entered' \in BOOLEAN,
           step' \in Path[stage], status' \in Statuses, Decided',
           step' = "end" => status' # "ok",
           ~Unsettled' => /\ ~Unsettled /\ SameRun(mac, mac') /\ step' \in Bracket
                          /\ mac'.refs = IF step' \in Inside /\ stage # "w2" THEN 1 ELSE 0
                          /\ step' \in Inside => entered'
    PROVE  IInv'
<1>1. mac' \in Mac /\ found' \in Mac /\ Started' /\ WakeHeld' /\ PauseKept'
    BY MacKept
<1>2. TypeOK'
    BY <1>1 DEF IInv, TypeOK, nesting, words
<1>3. OnPath'
    BY DEF OnPath
<1>4. Balanced'
    <2> SUFFICES ASSUME ~Unsettled'
                 PROVE  Balanced'
        BY DEF Balanced
    <2>1. step \in Under /\ step' \in Under
        BY DEF Bracket, Under
    <2>2. Held /\ owns = (stage = "w2" \/ found.en)
        BY <2>1 DEF IInv, Balanced
    <2>3. Held'
        BY <2>2 DEF Held, SameRun
    <2>4. owns' = (stage' = "w2" \/ found'.en)
        BY <2>2
    <2>5. IF stage = "w2" THEN depth = 1 /\ took = found.en ELSE depth = 0 /\ ~took
        BY <2>1 DEF IInv, Balanced
    <2>6. IF stage' = "w2" THEN depth' = 1 /\ took' = found'.en ELSE depth' = 0 /\ ~took'
        BY <2>5 DEF nesting
    <2> QED
        BY <2>1, <2>3, <2>4, <2>6 DEF Balanced
<1>5. WordsRestored'
    <2>1. stage # "w2" => phy = Restored
        BY DEF IInv, WordsRestored
    <2>2. stage' # "w2" => phy' = Restored
        BY <2>1 DEF words
    <2> QED
        BY <2>2 DEF WordsRestored
<1> QED
    BY <1>1, <1>2, <1>3, <1>4, <1>5 DEF IInv

\* The callbacks of the replay leave the device as it was.
LEMMA AstrayOutcome ==
    ASSUME IInv, NEW o \in Astray
    PROVE  Keeps(mac, o.m) /\ SameRun(mac, o.m) /\ o.m.refs = mac.refs
<1>1. o.m = mac
    BY Outcomes DEF Astray
<1> QED
    BY <1>1, DeadKeeps DEF IInv, TypeOK, SameRun

\* A thread that was killed has decided nothing but that.
LEMMA OopsStep == IInv /\ Oops => IInv'
<1> SUFFICES ASSUME IInv, Oops
             PROVE  IInv'
    OBVIOUS
<1>1. step \in Bracket /\ step' = "end" /\ status' = "oops" /\ Unsettled'
    BY DEF Oops, Bracket, Unsettled
<1>2. step' \in Path[stage] /\ status' \in Statuses /\ Decided'
    BY <1>1 DEF Oops, Path, Statuses, Decided
<1>3. Keeps(mac, mac') /\ entered' \in BOOLEAN
    BY DeadKeeps DEF Oops, bracket, IInv, TypeOK
<1> QED
    BY <1>1, <1>2, <1>3, HeldStays DEF Oops, bracket

\* The refcount is up when the entry is recorded.
LEMMA EnterStep == IInv /\ Enter => IInv'
<1> SUFFICES ASSUME IInv, Enter
             PROVE  IInv'
    OBVIOUS
<1>1. stage \in {"write", "w2"} /\ status = "running" /\ ~Unsettled /\ step = "enter"
    BY StageAssumption DEF IInv, TypeOK, OnPath, Path, Enter, Decided, Unsettled
<1>2. PICK o \in EnterOutcomes : Goes(o, "closeMac") /\ entered' = Good(o)
    BY DEF Enter
<1>3. mac.refs = 0
    BY <1>1 DEF IInv, Balanced, Inside
<1>4. Keeps(mac, o.m) /\ SameRun(mac, o.m) /\ (o.ok => o.m.refs = IF stage = "w2" THEN 0 ELSE 1)
    <2>1. CASE stage = "w2"
        BY <1>3, <2>1, AstrayOutcome DEF EnterOutcomes
    <2>2. CASE stage # "w2"
        BY <1>3, <2>2, EnterOutcome DEF EnterOutcomes, IInv, TypeOK
    <2> QED
        BY <2>1, <2>2
<1>5. /\ mac' = o.m
      /\ ~Good(o) => step' = "closeMac" /\ status' \in {"bracket_failed", "lost"} /\ Unsettled'
      /\ Good(o) => o.ok /\ step' = "disable" /\ status' = "running"
    BY <1>1, <1>2, GoesOn, Onward
<1>6. step' \in Path[stage] /\ status' \in Statuses /\ Decided' /\ step' # "end"
    BY <1>1, <1>5 DEF Path, Statuses, Decided
<1>7. entered' \in BOOLEAN /\ (Good(o) => entered')
    BY <1>2 DEF Good
<1>8. ~Unsettled' => /\ SameRun(mac, mac') /\ step' \in Bracket
                     /\ mac'.refs = IF step' \in Inside /\ stage # "w2" THEN 1 ELSE 0
                     /\ step' \in Inside => entered'
    BY <1>4, <1>5, <1>7 DEF Bracket, Inside
<1>9. step \in Bracket
    BY <1>1 DEF Bracket
<1> QED
    BY <1>1, <1>4, <1>5, <1>6, <1>7, <1>8, <1>9, HeldStays DEF Enter

\* The arms on PHY 0x0070 and the kick, between the entry and the exit.
LEMMA ArmStep ==
    ASSUME IInv, Arm \/ ReplayArm \/ Kick
    PROVE  IInv'
<1>1. /\ stage \in {"write", "w2"} /\ step \in {"disable", "restore", "kick"}
      /\ UNCHANGED <<stage, owns, entered, nesting, words, found>>
    BY StageAssumption DEF IInv, TypeOK, OnPath, Path, Arm, ReplayArm, Kick, bracket
<1>2. status = "running" /\ ~Unsettled
    BY <1>1 DEF IInv, Decided, Unsettled
<1>3. mac.refs = (IF stage = "w2" THEN 0 ELSE 1) /\ entered
    BY <1>1, <1>2 DEF IInv, Balanced, Inside
<1>4. mac' \in PhyAccess
    BY DEF Arm, ReplayArm, Kick, OneArm
<1>5. Keeps(mac, mac') /\ SameRun(mac, mac') /\ mac'.refs = mac.refs
    BY <1>4, PhyAccessOutcome DEF IInv
<1>6. \/ step' = After(step) /\ status' = status
      \/ step' = "closeExit" /\ status' = "refused"
    BY DEF Arm, ReplayArm, Kick, OneArm
<1>7. After(step) \in {"restore", "kick", "exit"} /\ After(step) \in Path[stage]
    BY <1>1, Onward DEF IInv, OnPath, Path
<1>8. step' \in {"restore", "kick", "exit", "closeExit"} /\ step' \in Path[stage]
    BY <1>1, <1>6, <1>7 DEF Path
<1>9. status' \in Statuses /\ Decided' /\ step' # "end"
    BY <1>2, <1>6, <1>7 DEF Statuses, Decided
<1>10. /\ SameRun(mac, mac') /\ step' \in Bracket
       /\ mac'.refs = IF step' \in Inside /\ stage # "w2" THEN 1 ELSE 0
       /\ step' \in Inside => entered'
    BY <1>1, <1>3, <1>5, <1>8 DEF Bracket, Inside
<1>11. step \in Bracket /\ entered' \in BOOLEAN
    BY <1>1 DEF Bracket, IInv, TypeOK
<1> QED
    BY <1>1, <1>2, <1>5, <1>8, <1>9, <1>10, <1>11, HeldStays

\* The refcount is down again when the exit returned 0.
LEMMA ExitStep == IInv /\ Exit => IInv'
<1> SUFFICES ASSUME IInv, Exit
             PROVE  IInv'
    OBVIOUS
<1>1. stage \in {"write", "w2"} /\ status = "running" /\ ~Unsettled /\ step = "exit"
    BY StageAssumption DEF IInv, TypeOK, OnPath, Path, Exit, Decided, Unsettled
<1>2. PICK o \in ExitOutcomes :
        Goes(o, IF o.ok THEN "closeExit" ELSE "closeMac") /\ entered' = ~Good(o)
    BY DEF Exit
<1>3. mac.refs = IF stage = "w2" THEN 0 ELSE 1
    BY <1>1 DEF IInv, Balanced, Inside
<1>4. Keeps(mac, o.m) /\ SameRun(mac, o.m) /\ (o.ok => o.m.refs = 0)
    <2>1. CASE stage = "w2"
        BY <1>3, <2>1, AstrayOutcome DEF ExitOutcomes
    <2>2. CASE stage # "w2"
        BY <1>3, <2>2, ExitOutcome DEF ExitOutcomes, IInv, TypeOK
    <2> QED
        BY <2>1, <2>2
<1>5. /\ mac' = o.m
      /\ ~Good(o) => step' \in {"closeExit", "closeMac"}
                     /\ status' \in {"bracket_failed", "lost"} /\ Unsettled'
      /\ Good(o) => o.ok /\ step' = "resume" /\ status' = "running"
    BY <1>1, <1>2, GoesOn, Onward
<1>6. step' \in Path[stage] /\ status' \in Statuses /\ Decided' /\ step' # "end"
    BY <1>1, <1>5 DEF Path, Statuses, Decided
<1>7. entered' \in BOOLEAN
    BY <1>2 DEF Good
<1>8. ~Unsettled' => /\ SameRun(mac, mac') /\ step' \in Bracket
                     /\ mac'.refs = IF step' \in Inside /\ stage # "w2" THEN 1 ELSE 0
                     /\ step' \in Inside => entered'
    BY <1>4, <1>5 DEF Bracket, Inside
<1>9. step \in Bracket
    BY <1>1 DEF Bracket
<1> QED
    BY <1>1, <1>4, <1>5, <1>6, <1>7, <1>8, <1>9, HeldStays DEF Exit

\* The close exits once more, or the run has failed.
LEMMA CloseExitStep == IInv /\ CloseExit => IInv'
<1> SUFFICES ASSUME IInv, CloseExit
             PROVE  IInv'
    OBVIOUS
<1>1. stage \in {"write", "w2"} /\ step = "closeExit"
    BY StageAssumption DEF IInv, TypeOK, OnPath, Path, CloseExit
<1>2. status \in {"refused", "bracket_failed", "lost"}
    BY <1>1 DEF IInv, Decided
<1>3. step \in Bracket /\ step' = "closeMac" /\ step' \in Path[stage] /\ step' \in Bracket
      /\ step' \notin Inside /\ step' # "end"
    BY <1>1 DEF CloseExit, Path, Bracket, Inside
<1>4. ~Unsettled => mac.refs = (IF stage = "w2" THEN 0 ELSE 1) /\ entered
    BY <1>1 DEF IInv, Balanced, Inside
<1>5. CASE ~entered /\ UNCHANGED <<mac, entered, status>>
    <2>1. Unsettled /\ Unsettled'
        BY <1>4, <1>5 DEF Unsettled
    <2>2. Keeps(mac, mac') /\ status' \in Statuses /\ Decided' /\ entered' \in BOOLEAN
        BY <1>2, <1>3, <1>5, DeadKeeps DEF IInv, TypeOK, Statuses, Decided
    <2> QED
        BY <1>3, <2>1, <2>2, HeldStays DEF CloseExit
<1>6. CASE entered /\ \E o \in ExitOutcomes :
              mac' = o.m /\ entered' = ~Good(o) /\ status' = Worse(o)
    <2>1. PICK o \in ExitOutcomes : mac' = o.m /\ entered' = ~Good(o) /\ status' = Worse(o)
        BY <1>6
    <2>2. /\ Keeps(mac, o.m) /\ SameRun(mac, o.m)
          /\ o.ok => o.m.refs = IF stage = "w2" THEN mac.refs ELSE mac.refs - 1
        <3>1. CASE stage = "w2"
            BY <3>1, AstrayOutcome DEF ExitOutcomes
        <3>2. CASE stage # "w2"
            BY <3>2, ExitOutcome DEF ExitOutcomes, IInv, TypeOK
        <3> QED
            BY <3>1, <3>2
    <2>3. status' \in {"refused", "bracket_failed", "lost"}
          /\ (~Unsettled' => ~Unsettled /\ o.ok)
        BY <1>2, <2>1 DEF Worse, Classified, Unsettled, Good
    <2>4. status' \in Statuses /\ Decided' /\ entered' \in BOOLEAN
        BY <1>3, <2>1, <2>3 DEF Statuses, Decided
    <2>5. ~Unsettled' => mac'.refs = 0 /\ SameRun(mac, mac')
        BY <1>4, <2>1, <2>2, <2>3
    <2> QED
        BY <1>3, <2>1, <2>2, <2>3, <2>4, <2>5, HeldStays DEF CloseExit
<1> QED
    BY <1>5, <1>6 DEF CloseExit

\* A step that lifts the hold, or finds none of its own to lift.
LEMMA LiftStays ==
    ASSUME IInv, step \in {"resume", "closeMac", "own"},
           Keeps(mac, mac'),
           UNCHANGED <<stage, entered, words, found>>,
           owns' \in BOOLEAN, depth' \in Nat, took' \in BOOLEAN,
           step' \in {"compare", "end"}, step' \in Path[stage], status' \in Statuses, Decided',
           status' = "ok" => stage = "rev4",
           ~Unsettled' => Up' /\ mac'.refs = 0 /\ depth' = 0 /\ ~took'
    PROVE  IInv'
<1>1. mac' \in Mac /\ found' \in Mac /\ Started' /\ WakeHeld' /\ PauseKept'
    BY MacKept
<1>2. TypeOK'
    BY <1>1 DEF IInv, TypeOK, words
<1>3. OnPath'
    BY DEF OnPath
<1>4. Balanced'
    BY DEF Balanced, Under, Inside, Bracket
<1>5. WordsRestored'
    <2>1. stage # "w2" => phy = Restored
        BY DEF IInv, WordsRestored
    <2>2. stage' # "w2" => phy' = Restored
        BY <2>1 DEF words
    <2>3. status' = "ok" => phy'["0400"] = "found" /\ phy'["0401"] = "found"
        BY <2>2 DEF Restored, Words
    <2> QED
        BY <2>2, <2>3 DEF WordsRestored
<1> QED
    BY <1>1, <1>2, <1>3, <1>4, <1>5 DEF IInv

\* The write stage resumes what it owns; a pause it found it leaves.
LEMMA ResumeStep == IInv /\ Resume => IInv'
<1> SUFFICES ASSUME IInv, Resume
             PROVE  IInv'
    OBVIOUS
<1>1. stage = "write" /\ step = "resume" /\ status = "running" /\ ~Unsettled
    BY DEF IInv, Resume, Decided, Unsettled
<1>2. /\ Held /\ mac.refs = 0 /\ owns = found.en /\ depth = 0 /\ ~took
      BY <1>1 DEF IInv, Balanced, Under, Inside, Bracket, TypeOK, Mac
<1>3. Released /\ depth' = 0 /\ ~took' /\ took' \in BOOLEAN
    BY <1>1, <1>2 DEF Resume, Released, nesting, IInv, TypeOK
<1>4. CASE ~owns /\ step' = After(step) /\ UNCHANGED <<mac, owns, status>>
    <2>1. step' = "compare" /\ status' = "running" /\ Keeps(mac, mac') /\ owns' \in BOOLEAN
        BY <1>1, <1>4, Onward, DeadKeeps DEF IInv, TypeOK
    <2>2. found.en = FALSE /\ mac.en = FALSE /\ mac.suspended = FALSE
        BY <1>2, <1>4 DEF Held, IInv, TypeOK, Mac
    <2>3. Up' /\ mac'.refs = 0
        BY <1>2, <1>4, <2>2 DEF Up, Resume
    <2>4. step' \in Path[stage] /\ status' \in Statuses /\ Decided'
        BY <1>1, <2>1 DEF Path, Statuses, Decided
    <2> QED
        BY <1>1, <1>3, <2>1, <2>3, <2>4, LiftStays DEF Resume
<1>5. CASE owns /\ \E o \in ResumeOutcomes : Goes(o, "end") /\ owns' = ~Good(o)
    <2>1. PICK o \in ResumeOutcomes : Goes(o, "end") /\ owns' = ~Good(o)
        BY <1>5
    <2>2. /\ mac' = o.m
          /\ ~Good(o) => step' = "end" /\ status' \in {"bracket_failed", "lost"} /\ Unsettled'
          /\ Good(o) => o.ok /\ step' = "compare" /\ status' = "running"
        BY <1>1, <2>1, GoesOn, Onward
    <2>3. Keeps(mac, mac') /\ owns' \in BOOLEAN
        BY <2>1, <2>2, ReleaseOutcome DEF IInv
    <2>4. Good(o) => Up' /\ mac'.refs = 0
        BY <1>1, <1>3, <1>5, <2>2, Lifted DEF Resume
    <2>5. step' \in Path[stage] /\ status' \in Statuses /\ Decided' /\ step' \in {"compare", "end"}
          /\ status' # "ok"
        BY <1>1, <2>2 DEF Path, Statuses, Decided
    <2> QED
        BY <1>1, <1>3, <2>2, <2>3, <2>4, <2>5, LiftStays DEF Resume
<1> QED
    BY <1>4, <1>5 DEF Resume

\* The replay's release leaves the MAC as found.
LEMMA CloseBracketStep == IInv /\ CloseBracket => IInv'
<1> SUFFICES ASSUME IInv, CloseBracket
             PROVE  IInv'
    OBVIOUS
<1>1. stage = "w2" /\ step = "resume" /\ status = "running" /\ ~Unsettled
    BY DEF IInv, CloseBracket, Decided, Unsettled
<1>2. PICK o \in ResumeOutcomes : Goes(o, "end") /\ owns' = ~Good(o)
    BY DEF CloseBracket
<1>3. /\ mac' = o.m
      /\ ~Good(o) => step' = "end" /\ status' \in {"bracket_failed", "lost"} /\ Unsettled'
      /\ Good(o) => o.ok /\ step' = "compare" /\ status' = "running"
    BY <1>1, <1>2, GoesOn, Onward
<1>4. Keeps(mac, mac') /\ owns' \in BOOLEAN
    BY <1>2, <1>3, ReleaseOutcome DEF IInv
<1>5. depth' \in Nat /\ took' \in BOOLEAN
    BY ReleasedCounts DEF CloseBracket, IInv
<1>6. Good(o) => Up' /\ mac'.refs = 0 /\ depth' = 0 /\ ~took'
    BY <1>1, <1>3, Lifted DEF CloseBracket
<1>7. step' \in Path[stage] /\ status' \in Statuses /\ Decided' /\ step' \in {"compare", "end"}
      /\ status' # "ok"
    BY <1>1, <1>3 DEF Path, Statuses, Decided
<1> QED
    BY <1>1, <1>3, <1>4, <1>5, <1>6, <1>7, LiftStays DEF CloseBracket

\* The close of a refused run leaves the MAC as found.
LEMMA CloseMacStep == IInv /\ CloseMac => IInv'
<1> SUFFICES ASSUME IInv, CloseMac
             PROVE  IInv'
    OBVIOUS
<1>1. stage \in {"write", "w2"} /\ step = "closeMac"
    BY StageAssumption DEF IInv, TypeOK, OnPath, Path, CloseMac
<1>2. status \in {"refused", "bracket_failed", "lost"}
    BY <1>1 DEF IInv, Decided
<1>3. ~Unsettled => /\ Held /\ mac.refs = 0 /\ owns = (stage = "w2" \/ found.en)
                    /\ stage # "w2" => depth = 0 /\ ~took
    BY <1>1 DEF IInv, Balanced, Under, Inside, Bracket
<1>4. step' = "end" /\ step' \in Path[stage]
    BY <1>1 DEF CloseMac, Path
<1>5. CASE ~owns /\ UNCHANGED <<mac, owns, nesting, status>>
    <2>1. Keeps(mac, mac') /\ owns' \in BOOLEAN /\ depth' \in Nat /\ took' \in BOOLEAN
        BY <1>5, DeadKeeps DEF IInv, TypeOK, nesting
    <2>2. status' \in Statuses /\ Decided' /\ status' # "ok"
        BY <1>2, <1>4, <1>5 DEF Statuses, Decided
    <2>3. ~Unsettled' => Up' /\ mac'.refs = 0 /\ depth' = 0 /\ ~took'
        <3> SUFFICES ASSUME ~Unsettled'
                     PROVE  Up' /\ mac'.refs = 0 /\ depth' = 0 /\ ~took'
            OBVIOUS
        <3>1. ~Unsettled
            BY <1>5 DEF Unsettled
        <3>2. stage # "w2" /\ ~found.en
            BY <1>3, <1>5, <3>1
        <3>3. found.en = FALSE /\ mac.en = FALSE /\ mac.suspended = FALSE
            BY <1>3, <3>1, <3>2 DEF Held, IInv, TypeOK, Mac
        <3> QED
            BY <1>3, <1>5, <3>1, <3>2, <3>3 DEF Up, CloseMac, nesting
    <2> QED
        BY <1>1, <1>4, <2>1, <2>2, <2>3, LiftStays DEF CloseMac
<1>6. CASE /\ owns /\ Released
           /\ \E o \in ResumeOutcomes : mac' = o.m /\ owns' = ~Good(o) /\ status' = Worse(o)
    <2>1. PICK o \in ResumeOutcomes : mac' = o.m /\ owns' = ~Good(o) /\ status' = Worse(o)
        BY <1>6
    <2>2. Keeps(mac, mac') /\ owns' \in BOOLEAN
        BY <2>1, ReleaseOutcome DEF IInv
    <2>3. depth' \in Nat /\ took' \in BOOLEAN
        BY <1>6, ReleasedCounts DEF IInv
    <2>4. status' \in {"refused", "bracket_failed", "lost"}
          /\ (~Unsettled' => ~Unsettled /\ o.ok)
        BY <1>2, <2>1 DEF Worse, Classified, Unsettled, Good
    <2>5. status' \in Statuses /\ Decided' /\ status' # "ok"
        BY <1>4, <2>4 DEF Statuses, Decided
    <2>6. ~Unsettled' => Up' /\ mac'.refs = 0 /\ depth' = 0 /\ ~took'
        BY <1>1, <1>6, <2>1, <2>4, Lifted DEF CloseMac
    <2> QED
        BY <1>1, <1>4, <2>2, <2>3, <2>5, <2>6, LiftStays DEF CloseMac
<1> QED
    BY <1>5, <1>6 DEF CloseMac

-----------------------------------------------------------------------------
(***************************************************************************)
(* The radio stage.                                                         *)
(***************************************************************************)
\* The radio stage owns a MAC that its quiesce took down.
LEMMA QuiesceStep == IInv /\ Quiesce => IInv'
<1> SUFFICES ASSUME IInv, Quiesce
             PROVE  IInv'
    OBVIOUS
<1>1. stage = "rev4" /\ step = "quiesce" /\ status = "running" /\ ~Unsettled
    BY StageAssumption DEF IInv, TypeOK, OnPath, Path, Quiesce, Decided, Unsettled
<1>2. PICK o \in QuiesceForRadio(mac) :
        Goes(o, "end") /\ owns' = IF o.ok THEN o.m.suspended ELSE owns
    BY DEF Quiesce
<1>3. Up /\ mac.refs = 0 /\ depth = 0 /\ ~took
    BY <1>1 DEF IInv, Balanced, Under, Inside
<1>4. Keeps(mac, o.m) /\ o.m.refs = 0 /\ (o.ok => ~o.m.en /\ o.m.suspended = mac.en)
    BY <1>3, RadioQuiesceOutcome DEF IInv, TypeOK
<1>5. /\ mac' = o.m
      /\ ~Good(o) => step' = "end" /\ status' \in {"bracket_failed", "lost"} /\ Unsettled'
      /\ Good(o) => o.ok /\ step' = "synth" /\ status' = "running"
    BY <1>1, <1>2, GoesOn, Onward
<1>6. mac' \in Mac /\ found' \in Mac /\ Started' /\ WakeHeld' /\ PauseKept'
    BY <1>4, <1>5, MacKept DEF Quiesce
<1>7. owns' \in BOOLEAN
    BY <1>2, <1>5, <1>6 DEF IInv, TypeOK, Mac
<1>8. TypeOK'
    BY <1>1, <1>5, <1>6, <1>7 DEF Quiesce, IInv, TypeOK, Statuses, nesting, words
<1>9. OnPath' /\ Decided'
    BY <1>1, <1>5 DEF OnPath, Path, Decided, Quiesce
<1>10. Balanced'
    <2> SUFFICES ASSUME Good(o)
                 PROVE  Balanced'
        BY <1>5 DEF Balanced
    <2>1. mac' = o.m /\ o.ok /\ step' = "synth" /\ stage' = "rev4" /\ found' = found
        BY <1>1, <1>5 DEF Quiesce
    <2>2. Held' /\ mac'.refs = 0 /\ mac'.suspended = found.en
        BY <1>3, <1>4, <2>1 DEF Up, Held
    <2>3. owns' = found'.en
        BY <1>2, <2>1, <2>2
    <2>4. owns' = (stage' = "w2" \/ found'.en)
        BY <1>6, <2>1, <2>3 DEF Mac
    <2>5. depth' = 0 /\ ~took'
        BY <1>3 DEF Quiesce, nesting
    <2> QED
        BY <2>1, <2>2, <2>4, <2>5 DEF Balanced, Under, Inside
<1>11. WordsRestored'
    BY <1>1, <1>5 DEF WordsRestored, Quiesce, IInv, words
<1> QED
    BY <1>6, <1>8, <1>9, <1>10, <1>11 DEF IInv

\* The two accesses of the radio stage under its hold.
LEMMA RadioStep ==
    ASSUME IInv, Synth \/ Sentinel
    PROVE  IInv'
<1>1. /\ stage = "rev4" /\ step \in {"synth", "sentinel"} /\ status = "running" /\ ~Unsettled
      /\ UNCHANGED <<stage, owns, entered, nesting, words, found>>
    BY StageAssumption
       DEF IInv, TypeOK, OnPath, Path, Synth, Sentinel, Decided, Unsettled, bracket
<1>2. mac \in Mac /\ mac.refs = 0
    BY <1>1 DEF IInv, TypeOK, Balanced, Inside
<1>3. PICK o : /\ Goes(o, "end") /\ Keeps(mac, o.m)
               /\ o.ok => o.m = mac
    <2>1. CASE Synth
        <3>1. PICK o \in Read(mac) : Goes(IF mac.suspended THEN o ELSE Failed(mac), "end")
            BY <2>1 DEF Synth
        <3>2. CASE mac.suspended
            BY <1>2, <3>1, <3>2, ReadOutcome
        <3>3. CASE ~mac.suspended
            <4>1. Goes(Failed(mac), "end") /\ Failed(mac).m = mac /\ ~Failed(mac).ok
                BY <3>1, <3>3, Outcomes
            <4> QED
                BY <1>2, <4>1, DeadKeeps
        <3> QED
            BY <3>2, <3>3
    <2>2. CASE Sentinel
        <3>1. PICK o \in Read(mac) : Goes([o EXCEPT !.m.lost = ~o.ok], "end")
            BY <2>2 DEF Sentinel
        <3> DEFINE p == [o EXCEPT !.m.lost = ~o.ok]
        <3>2. Goes(p, "end")
            BY <3>1
        <3>3. CASE mac.lost
            <4>1. o = [m |-> mac, ok |-> FALSE]
                BY <3>1, <3>3 DEF Read, Failed
            <4>2. p.m = [mac EXCEPT !.lost = TRUE] /\ p.ok = FALSE
                BY <4>1
            <4> HIDE DEF p
            <4> QED
                BY <1>2, <3>2, <4>2, DeadKeeps
        <3>4. CASE o = Failed(mac)
            <4>1. o = [m |-> mac, ok |-> FALSE]
                BY <3>4 DEF Failed
            <4>2. p.m = [mac EXCEPT !.lost = TRUE] /\ p.ok = FALSE
                BY <4>1
            <4> HIDE DEF p
            <4> QED
                BY <1>2, <3>2, <4>2, DeadKeeps
        <3>5. CASE ~mac.lost /\ o = Failed(Dead(mac))
            <4>1. o = [m |-> Dead(mac), ok |-> FALSE]
                BY <3>5 DEF Failed
            <4>2. p.m = [Dead(mac) EXCEPT !.lost = TRUE] /\ p.ok = FALSE
                BY <4>1
            <4>3. Dead(mac) \in Mac /\ Keeps(mac, Dead(mac))
                BY <1>2, DeadKeeps DEF Keeps
            <4>4. Keeps(Dead(mac), [Dead(mac) EXCEPT !.lost = TRUE])
                BY <4>3, DeadKeeps
            <4> HIDE DEF p
            <4> QED
                BY <3>2, <4>2, <4>3, <4>4, KeepsOnward
        <3>6. CASE ~mac.lost /\ o = Done(mac)
            <4>1. o = [m |-> mac, ok |-> TRUE]
                BY <3>6 DEF Done
            <4>2. p.m = [mac EXCEPT !.lost = FALSE] /\ p.ok = TRUE
                BY <4>1
            <4>3. [mac EXCEPT !.lost = FALSE] = mac
                BY <1>2, <3>6 DEF Mac
            <4> HIDE DEF p
            <4> QED
                BY <1>2, <3>2, <4>2, <4>3, DeadKeeps
        <3>7. mac.lost \/ o = Failed(mac) \/ o = Failed(Dead(mac)) \/ o = Done(mac)
            BY <3>1 DEF Read
        <3> QED
            BY <3>3, <3>4, <3>5, <3>6, <3>7
    <2> QED
        BY <1>1, <2>1, <2>2
<1>4. /\ mac' = o.m
      /\ ~Good(o) => step' = "end" /\ status' \in {"bracket_failed", "lost"} /\ Unsettled'
      /\ Good(o) => o.ok /\ step' \in {"sentinel", "own"} /\ status' = "running"
    BY <1>1, <1>3, GoesOn, Onward
<1>5. step' \in Path[stage] /\ status' \in Statuses /\ Decided' /\ (step' = "end" => status' # "ok")
    BY <1>1, <1>4 DEF Path, Statuses, Decided
<1>6. ~Unsettled' => /\ SameRun(mac, mac') /\ step' \in Bracket
                     /\ mac'.refs = IF step' \in Inside THEN 1 ELSE 0
                     /\ step' \in Inside => entered'
    BY <1>2, <1>3, <1>4 DEF Bracket, Inside, SameRun
<1>7. step \in Bracket /\ entered' \in BOOLEAN
    BY <1>1 DEF Bracket, IInv, TypeOK
<1> QED
    BY <1>1, <1>3, <1>4, <1>5, <1>6, <1>7, HeldStays

\* The radio stage resumes what it owns.
LEMMA OwnStep == IInv /\ Own => IInv'
<1> SUFFICES ASSUME IInv, Own
             PROVE  IInv'
    OBVIOUS
<1>1. stage = "rev4" /\ step = "own" /\ status = "running" /\ ~Unsettled
    BY StageAssumption DEF IInv, TypeOK, OnPath, Path, Own, Decided, Unsettled
<1>2. Held /\ mac.refs = 0 /\ owns = found.en /\ depth = 0 /\ ~took
    BY <1>1 DEF IInv, Balanced, Under, Inside, Bracket, TypeOK, Mac
<1>3. PICK o \in IF owns THEN EnableMac(mac) ELSE {Done(mac)} :
        /\ mac' = o.m
        /\ status' = IF o.ok THEN "ok" ELSE Classified(o)
        /\ owns' = (owns /\ ~o.ok)
    BY DEF Own
<1>4. /\ Keeps(mac, o.m) /\ o.m.refs = 0
      /\ owns /\ o.ok => mac.suspended /\ o.m.en /\ ~o.m.suspended
      /\ ~owns => o.m = mac
    <2>1. CASE owns
        BY <1>2, <1>3, <2>1, EnableOutcome DEF IInv, TypeOK
    <2>2. CASE ~owns
        <3>1. o = Done(mac)
            BY <1>3, <2>2
        <3>2. o.m = mac
            BY <3>1, Outcomes
        <3> QED
            BY <1>2, <2>2, <3>2, DeadKeeps DEF IInv, TypeOK
    <2> QED
        BY <2>1, <2>2
<1>5. o.ok \/ Unsettled'
    BY <1>3 DEF Classified, Unsettled
<1>6. ~Unsettled' => Up' /\ mac'.refs = 0 /\ depth' = 0 /\ ~took'
    <2> SUFFICES ASSUME o.ok
                 PROVE  Up' /\ mac'.refs = 0 /\ depth' = 0 /\ ~took'
        BY <1>5
    <2>1. depth' = 0 /\ ~took'
        BY <1>2 DEF Own, nesting
    <2>2. mac' \in Mac /\ mac \in Mac /\ found \in Mac
        BY <1>3, <1>4 DEF IInv, TypeOK, Keeps
    <2>3. CASE owns
        <3>1. found.en = TRUE /\ mac'.en = TRUE /\ ~mac'.suspended
            BY <1>2, <1>3, <1>4, <2>2, <2>3 DEF Mac
        <3> QED
            BY <1>3, <1>4, <2>1, <3>1 DEF Up, Own
    <2>4. CASE ~owns
        <3>1. found.en = FALSE /\ mac'.en = FALSE /\ ~mac'.suspended
            BY <1>2, <1>3, <1>4, <2>2, <2>4 DEF Mac, Held
        <3> QED
            BY <1>3, <1>4, <2>1, <3>1 DEF Up, Own
    <2> QED
        BY <2>3, <2>4
<1>7. step' = "end" /\ step' \in Path[stage]
    BY <1>1 DEF Own, Path
<1>8. status' \in Statuses /\ Decided'
    BY <1>3, <1>7 DEF Classified, Statuses, Decided, Unsettled
<1>9. owns' \in BOOLEAN /\ depth' \in Nat /\ took' \in BOOLEAN
    BY <1>2, <1>3 DEF Own, nesting, IInv, TypeOK
<1> QED
    BY <1>1, <1>3, <1>4, <1>6, <1>7, <1>8, <1>9, LiftStays DEF Own

-----------------------------------------------------------------------------
(***************************************************************************)
(* The theorems.                                                            *)
(***************************************************************************)
\* Every reachable state satisfies the inductive invariant.
THEOREM Invariance == Spec => []IInv
<1>1. IInv /\ [Next]_vars => IInv'
    <2> SUFFICES ASSUME IInv, [Next]_vars
                 PROVE  IInv'
        OBVIOUS
    <2>1. CASE Contract \/ Sample
        BY <2>1, ContractStep, SampleStep
    <2>2. CASE Prestate \/ EntrySample \/ PostSample \/ PostState \/ PostIdentity
        BY <2>2, ComparesStep
    <2>3. CASE Hold \/ Save \/ ForceWords \/ Rfseq \/ Unforce \/ Release
        BY <2>3, HoldStep, SaveStep, ForceStep, RfseqStep, UnforceStep, ReleaseStep
    <2>4. CASE Suspend \/ OpenBracket \/ Oops \/ Enter \/ Exit
        BY <2>4, SuspendStep, OpenBracketStep, OopsStep, EnterStep, ExitStep
    <2>5. CASE Arm \/ ReplayArm \/ Kick
        BY <2>5, ArmStep
    <2>6. CASE Resume \/ CloseBracket \/ CloseExit \/ CloseMac
        BY <2>6, ResumeStep, CloseBracketStep, CloseExitStep, CloseMacStep
    <2>7. CASE Quiesce \/ Synth \/ Sentinel \/ Own
        BY <2>7, QuiesceStep, RadioStep, OwnStep
    <2>8. CASE UNCHANGED vars
        BY <2>8 DEF vars, IInv, TypeOK, Started, OnPath, Decided, Unsettled, WakeHeld, PauseKept,
                    Balanced, Up, Held, WordsRestored
    <2> QED
        BY <2>1, <2>2, <2>3, <2>4, <2>5, <2>6, <2>7, <2>8 DEF Next
<1> QED
    BY <1>1, InitIInv, PTL DEF Spec

\* Type correctness.
THEOREM TypeCorrect == Spec => []TypeOK
<1>1. IInv => TypeOK
    BY DEF IInv
<1> QED
    BY <1>1, Invariance, PTL

\* While an override is recorded bit 26 is set in a MAC that answers
\* (wlc_ucode_wake_override_set and _clear), in every stage and after every failure.
THEOREM WakeIsHeld == Spec => []OverrideHoldsWake
<1>1. IInv => OverrideHoldsWake
    BY DEF IInv, WakeHeld, HoldsWake, OverrideHoldsWake
<1> QED
    BY <1>1, Invariance, PTL

\* No stage lifts a pause it found, whatever fails on its way (ob_mac_resume
\* refuses a MAC that is not recorded as suspended).
THEOREM PauseStays == Spec => []ForeignPauseKept
<1>1. IInv => ForeignPauseKept
    BY DEF IInv, Started, PauseKept, Paused, ForeignPauseKept
<1> QED
    BY <1>1, Invariance, PTL

\* A stage that ends clean or refuses has given back what it took: EN_MAC, the
\* refcount, the nesting and the PHY words.
THEOREM EndsBalanced == Spec => []CleanOrRefusedIsBalanced
<1>1. IInv => CleanOrRefusedIsBalanced
    <2> SUFFICES ASSUME IInv, step = "end", status \in {"ok", "refused"}
                 PROVE  /\ mac.en = found.en /\ mac.refs = found.refs
                        /\ mac.suspended = found.suspended
                        /\ depth = 0 /\ ~took
                        /\ status = "ok" => phy["0400"] = "found" /\ phy["0401"] = "found"
        BY DEF CleanOrRefusedIsBalanced
    <2>1. Up /\ mac.refs = 0 /\ depth = 0 /\ ~took
        BY DEF IInv, Balanced, Unsettled, Under, Inside
    <2>2. mac.suspended = found.suspended /\ mac.refs = found.refs
        BY <2>1 DEF IInv, Started, Up, TypeOK, Mac
    <2> QED
        BY <2>1, <2>2 DEF IInv, WordsRestored, Up
<1> QED
    BY <1>1, Invariance, PTL

\* The radio and the write stage (and the witness) never report success over a
\* MAC left down or a refcount left up.
THEOREM LossIsReported == Spec => []LeftDownIsReported
<1>1. IInv => LeftDownIsReported
    <2> SUFFICES ASSUME IInv, step = "end", stage # "w2", mac.en # found.en \/ mac.refs # 0
                 PROVE  Report # "ok"
        BY DEF LeftDownIsReported
    <2>1. Unsettled
        BY DEF IInv, Balanced, Under, Inside, Up
    <2>2. stage \in {"look", "rev4", "write"}
        BY StageAssumption DEF IInv, TypeOK
    <2>3. Returns[stage] = "error"
        BY <2>1, <2>2 DEF Returns, LookReturns, WriteReturns, RadioReturns
    <2> QED
        BY <2>3 DEF Report
<1> QED
    BY <1>1, Invariance, PTL

=============================================================================
