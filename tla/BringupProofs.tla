---------------------------- MODULE BringupProofs ----------------------------
(***************************************************************************)
(* Proofs about Bringup for every set of parameters a load may come with:  *)
(* what TLC finds of the loads with one or two parameters holds of all.    *)
(*                                                                         *)
(* A program is long and made of pieces, so it is reasoned about the way   *)
(* programs are.  A Point says what is known in front of a step;           *)
(* Link(P, m, c, s, d) says that a probe which is at c in front of the     *)
(* step s is at d behind it, and may be abandoned there.  Link speaks of   *)
(* steps only, and whole programs are linked up piece by piece (Runs).     *)
(* What an action does to a state that fits a point is proved once per     *)
(* kind of step.                                                           *)
(***************************************************************************)
EXTENDS Bringup, TLAPS, Integers, Sequences, SequenceTheorems
WF == INSTANCE WellFoundedInduction

-----------------------------------------------------------------------------
(***************************************************************************)
(* Points, and what is known at one.                                       *)
(***************************************************************************)
RadioBits == {"08ea", "0410", "0411", "0171", "0371"}

Lendable == {"power", "controls", "019e"} \cup RadioBits

Dids == {"none", "begun", "loaded", "common"}

\* The state "never" is for steps that no probe comes to; otp says that the OTP word was
\* read right if no answer was wrong, lossy that the probe may go on with a lost device,
\* and try whether a failure is kept for later, or may be after a sample of the radio.
Points ==
    [state : {"never", "none", "core", "attach", "suspended", "post_ucode"},
     did : Dids, retain : BOOLEAN, phy : {"none", "ready", "rev1", "complete"}, otp : BOOLEAN,
     lent : SUBSET Lendable, try : {"no", "open", "sampled"}, lossy : BOOLEAN,
     res : SUBSET Resources]

Start ==
    [state |-> "none", did |-> "none", retain |-> FALSE, phy |-> "none", otp |-> FALSE,
     lent |-> {}, try |-> "no", lossy |-> FALSE, res |-> {}]

Dead(c) == c.state = "never"

Tries == [no |-> {"no"}, open |-> {"open", "failed"}, sampled |-> {"no", "failed"}]

\* The state of a probe fits c: the hardware record h, what was done, whether an answer was
\* wrong, the registries, what is lent, the failure kept, and what was acquired.
Matches(c, h, done, wrong, rec, l, t, x) ==
    /\ h.state = c.state /\ h.retain = c.retain
    /\ done = c.did /\ (done \in {"begun", "loaded"} => h.mutated)
    /\ h.phy = c.phy \/ (c.phy = "rev1" /\ h.phy = "blocked" /\ wrong)
    /\ ~wrong => ~h.lost /\ ~h.suspended /\ t # "failed" /\ (c.otp => h.otp = "right")
    /\ h.lost => c.lossy \/ (c.try = "sampled" /\ t = "failed")
    /\ ~h.lost => l \subseteq c.lent
    /\ x = c.res
    /\ t \in Tries[c.try]
    /\ rec # {} => h.lost

Fits(c) == Matches(c, hw, did, odd, record, lent, trying, res)

\* What is known at c is known at d ...
Skips(c, d) ==
    /\ d.state = c.state /\ d.did = c.did /\ d.retain = c.retain /\ d.phy = c.phy
    /\ d.try = c.try /\ d.res = c.res
    /\ c.lent \subseteq d.lent
    /\ c.lossy => d.lossy

\* ... also if nothing went wrong.
Below(c, d) == Skips(c, d) /\ (d.otp => c.otp)

-----------------------------------------------------------------------------
(***************************************************************************)
(* Links.                                                                  *)
(***************************************************************************)
\* Where a failure that is kept is caught.
Catches == {"give_power", "give_controls", "verdict", "forget"}

Wakes == {"bus", "enable", "write"}

Latching == {"trust", "check", "snapshot", "confirm", "transition", "stage"}

LadderKinds == {"rung", "rung_set", "baseline", "island", "bypass", "rebypass", "stop"}

GateKinds ==
    {"entry", "core_ready", "core_fresh", "attach_ready", "unretained", "post_ucode", "ready_gate",
     "radio_gate", "otp_gate", "suspended", "resume", "radio_ready", "sprom_asked"}

Returning == {"class0_postphase2_return", "class0_postbmac"}

\* The loads that can never succeed (HealthyProbeBinds).
Exempt(P, m) ==
    \/ "rev42_diag_full" \in P
    \/ m = "radio2069_rev4_probe"
    \/ m = "sprom_evidence" /\ "sprom_diag" \notin P

\* The modes that may write to the core, and those that keep it if they did.
Firmware == {"ucode_test", "initvals_test"} \cup DmaModes

Owning(m) == m \notin Isolated \/ m \in Firmware

\* The step that writes to the core first.
Begins(c, s) == s.kind \in Wakes /\ s.at = "ucode" /\ c.did = "none"

\* The probe may be abandoned at c in the stage pl.
Leaves(m, c, pl) ==
    /\ c.did \in {"begun", "loaded"} => pl \in {"ucode", "common"} /\ Owning(m)
    /\ c.state = "post_ucode" => pl \notin {"ucode", "common", "ai"}
    /\ pl \in {"gate", "ucode", "common"} => c.lent = {}
    /\ c.try # "open" => c.lent \cap {"power", "controls"} = {}
    /\ m = "normal" => pl \notin {"pre_radio", "phase"}

Exits(m, c, s) ==
    /\ Leaves(m, c, s.at)
    /\ Begins(c, s) => Owning(m)
    /\ s.kind = "verdict" => c.lent \cap {"power", "controls"} = {}
    /\ c.res # {} => s.kind \in Resources

\* The modes that may switch the radio on.
RadioModes == {"acphy_radio_on", "acphy_radio_postlpf", "acphy_cal_inputs"}

CoreIsReady(m, c) == c.state \in {"core", "attach"} \/ m \in Firmware

\* Unless an answer was wrong the gate k is open.
Opens(P, m, c, k) ==
    \/ Exempt(P, m)
    \/ /\ k = "core_ready" => CoreIsReady(m, c)
       /\ k = "core_fresh" => c.state = "core"
       /\ k = "attach_ready" => c.state = "attach"
       /\ k = "unretained" => ~c.retain
       /\ k = "post_ucode" => c.state = "post_ucode"
       /\ k = "ready_gate" => c.phy # "none"
       /\ k = "radio_gate" => c.phy = "ready"
       /\ k = "otp_gate" => c.otp
       /\ k # "suspended"
       /\ k = "resume" => c.phy = "rev1"
       /\ k = "radio_ready" => c.phy = "complete"
       /\ k = "sprom_asked" => "sprom_diag" \in P

Settles(c) == c.try = "no" /\ ~c.lossy

\* Behind the firmware chain, with nothing lent.
Through(c) ==
    /\ c.state = "post_ucode" /\ c.did = "common" /\ ~c.retain
    /\ c.lent = {} /\ c.res = {} /\ Settles(c)

\* Kinds that change nothing and ask nothing of the point they are at.
Calm ==
    {"supply", "read", "rmw", "alive", "selector", "post", "blind", "powered", "loose",
     "resume_mac", "entry"}

\* What lends, and what takes back.
Adds ==
    [take_power |-> "power", take_controls |-> "controls", set_08ea |-> "08ea",
     set_0410 |-> "0410", set_0411 |-> "0411", set_0171 |-> "0171", set_0371 |-> "0371",
     set_019e |-> "019e"]

Drops ==
    [give_power |-> "power", give_controls |-> "controls", clear_08ea |-> "08ea",
     clear_0410 |-> "0410", clear_0411 |-> "0411", clear_0171 |-> "0171", clear_0371 |-> "0371",
     clear_019e |-> "019e"]

\* The step s is right at c.
Allows(P, m, c, s) ==
    LET k == s.kind
    IN  /\ k \in GateKinds => Opens(P, m, c, k)
        /\ k \in GateKinds /\ c.try # "no" => k = "entry"
        /\ k \in {"bus", "enable"} \/ Begins(c, s) => Settles(c)
        /\ k \in Latching => c.try # "open"
        /\ k = "loaded" => c.did = "begun" /\ c.try = "no"
        /\ k \in {"common", "publish_core", "ready", "try"} => c.try = "no"
        /\ k = "publish_ucode" => c.state = "attach" /\ c.did = "loaded" /\ Settles(c)
        /\ k = "publish_common" => c.state = "suspended" /\ c.did = "common" /\ Settles(c)
        /\ k \in {"core_up", "identified"} =>
             c.state \notin {"suspended", "post_ucode"} /\ c.try = "no"
        /\ k = "board" => m \in RadioModes /\ Through(c) /\ c.phy = "ready"
        /\ k \in {"blocked", "radio_complete"} => Through(c)
        /\ k = "isolated" => c.try = "no" /\ c.did = "common" /\ m \in DmaModes
        /\ k = "sample" => c.try # "open"
        /\ k = "verdict" => c.try # "no"
        /\ k = "forget" => c.try = "open"
        /\ k \in LadderKinds =>
             m = "acphy_identity_timing" /\ c.try = "no" /\ c.lent = {} /\ c.res = {}
        /\ k \in Resources =>
             m = "normal" /\ s.at = "normal" /\ c.state = "post_ucode" /\ Settles(c)
        /\ c.phy \in {"rev1", "complete"} => k \notin DOMAIN Adds

\* Where s leads from c.
Moves(c, s) ==
    LET k == s.kind
    IN  CASE k \in Wakes -> IF Begins(c, s) THEN [c EXCEPT !.did = "begun"] ELSE c
          [] k = "loaded" -> [c EXCEPT !.did = "loaded", !.retain = TRUE]
          [] k = "common" -> [c EXCEPT !.did = "common"]
          [] k = "publish_core" -> IF c.state = "none" THEN [c EXCEPT !.state = "core"] ELSE c
          [] k = "publish_ucode" -> [c EXCEPT !.state = "suspended"]
          [] k = "publish_common" -> [c EXCEPT !.state = "post_ucode", !.retain = FALSE]
          [] k = "core_up" -> [c EXCEPT !.state = "core"]
          [] k = "identified" -> [c EXCEPT !.state = "attach"]
          [] k = "ready" -> [c EXCEPT !.phy = "ready"]
          [] k = "blocked" -> [c EXCEPT !.phy = "rev1"]
          [] k = "radio_complete" -> [c EXCEPT !.phy = "complete"]
          [] k = "try" -> [c EXCEPT !.try = "open"]
          [] k \in {"forget", "verdict"} -> [c EXCEPT !.try = "no"]
          [] k = "sample" -> [c EXCEPT !.try = "sampled"]
          [] k \in DOMAIN Adds -> [c EXCEPT !.lent = @ \cup {Adds[k]}]
          [] k \in DOMAIN Drops -> [c EXCEPT !.lent = @ \ {Drops[k]}]
          [] k = "otp_word" -> [c EXCEPT !.otp = TRUE]
          [] k = "island" -> [c EXCEPT !.lossy = TRUE]
          [] k \in Resources -> [c EXCEPT !.res = @ \cup {k}]
          [] OTHER -> c

\* The staged diagnosis has no core for its firmware: this gate is never open.
Blocks(m, c, s) ==
    m = "rev42_diag_probe" /\ s.kind = "core_ready" /\ ~CoreIsReady(m, c)

Link(P, m, c, s, d) ==
    IF Dead(c) THEN Dead(d) /\ m = "rev42_diag_probe"
    ELSE /\ Exits(m, c, s)
         /\ Allows(P, m, c, s)
         /\ IF Blocks(m, c, s) THEN Dead(d) ELSE Below(Moves(c, s), d)
         /\ c.try # "no" /\ s.kind \notin Catches => Skips(c, d)

\* A probe may be over at c, and bound.
Ends(m, c) ==
    \/ Dead(c)
    \/ /\ c.try = "no"
       /\ c.lent \cap {"power", "controls"} = {}
       /\ m \in Returning => c.lent = {}
       /\ IF m = "normal"
          THEN c.res = Resources /\ c.state = "post_ucode" /\ ~c.retain /\ ~c.lossy
          ELSE c.res = {}

Kinds ==
    Calm \cup Latching \cup Wakes \cup LadderKinds \cup GateKinds \cup Resources \cup
    DOMAIN Adds \cup DOMAIN Drops \cup
    {"try", "forget", "verdict", "sample", "otp_word", "isolated", "board", "blocked",
     "radio_complete", "ready", "core_up", "identified", "loaded", "common", "publish_core",
     "publish_ucode", "publish_common"}

Places ==
    {"isolated", "ai", "diag", "dma", "si", "attach", "identity_gate", "fwprobe", "gate", "ucode",
     "common", "pre_radio", "phase", "inputs", "normal"}

Step == [kind : Kinds, at : Places]

\* The program p leads from c to d.
Runs(P, m, p, c, d) ==
    /\ p \in Seq(Step)
    /\ \E L \in [1 .. Len(p) + 1 -> Points] :
          /\ L[1] = c /\ L[Len(p) + 1] = d
          /\ \A i \in 1 .. Len(p) : Link(P, m, L[i], p[i], L[i + 1])

\* The steps of one stage of ob_probe.
Does(P, m, pl, kinds, c, d) == kinds \in Seq(Kinds) /\ Runs(P, m, Stage(pl, kinds), c, d)

-----------------------------------------------------------------------------
(***************************************************************************)
(* Programs are put together.                                              *)
(***************************************************************************)
LEMMA NothingRuns == ASSUME NEW P, NEW m, NEW c \in Points PROVE Runs(P, m, << >>, c, c)
<1> DEFINE L == [i \in 1 .. 1 |-> c]
<1>1. L \in [1 .. Len(<< >>) + 1 -> Points] /\ L[1] = c /\ L[Len(<< >>) + 1] = c
  OBVIOUS
<1>2. \A i \in 1 .. Len(<< >>) : Link(P, m, L[i], << >>[i], L[i + 1])
  OBVIOUS
<1>3. << >> \in Seq(Step)
  BY EmptySeq
<1> HIDE DEF L
<1> QED
  BY <1>1, <1>2, <1>3 DEF Runs

\* One program behind another.
LEMMA RunsOn ==
  ASSUME NEW P, NEW m, NEW p, NEW q, NEW c, NEW d, NEW e,
         Runs(P, m, p, c, d), Runs(P, m, q, d, e)
  PROVE  Runs(P, m, p \o q, c, e)
<1>1. PICK A \in [1 .. Len(p) + 1 -> Points] :
         /\ A[1] = c /\ A[Len(p) + 1] = d
         /\ \A i \in 1 .. Len(p) : Link(P, m, A[i], p[i], A[i + 1])
  BY DEF Runs
<1>2. PICK B \in [1 .. Len(q) + 1 -> Points] :
         /\ B[1] = d /\ B[Len(q) + 1] = e
         /\ \A i \in 1 .. Len(q) : Link(P, m, B[i], q[i], B[i + 1])
  BY DEF Runs
<1>3. p \in Seq(Step) /\ q \in Seq(Step) /\ Len(p) \in Nat /\ Len(q) \in Nat
  BY DEF Runs
<1>4. /\ p \o q \in Seq(Step) /\ Len(p \o q) = Len(p) + Len(q)
      /\ \A i \in 1 .. Len(p) : (p \o q)[i] = p[i]
      /\ \A i \in Len(p) + 1 .. Len(p) + Len(q) : (p \o q)[i] = q[i - Len(p)]
  BY <1>3
<1> DEFINE L == [i \in 1 .. Len(p) + Len(q) + 1 |->
                    IF i <= Len(p) THEN A[i] ELSE B[i - Len(p)]]
<1>5. L \in [1 .. Len(p \o q) + 1 -> Points]
  BY <1>3, <1>4
<1>6. L[1] = c /\ L[Len(p \o q) + 1] = e
  BY <1>1, <1>2, <1>3, <1>4
<1>7. ASSUME NEW i \in 1 .. Len(p) + Len(q)
      PROVE  Link(P, m, L[i], (p \o q)[i], L[i + 1])
  <2>1. CASE i < Len(p)
    <3>1. L[i] = A[i] /\ L[i + 1] = A[i + 1] /\ (p \o q)[i] = p[i] /\ i \in 1 .. Len(p)
      BY <2>1, <1>3, <1>4
    <3> QED
      BY <3>1, <1>1
  <2>2. CASE i = Len(p)
    <3>1. L[i] = A[i] /\ L[i + 1] = A[i + 1] /\ (p \o q)[i] = p[i] /\ i \in 1 .. Len(p)
      BY <2>2, <1>1, <1>2, <1>3, <1>4
    <3> QED
      BY <3>1, <1>1
  <2>3. CASE i > Len(p)
    <3>1. /\ L[i] = B[i - Len(p)] /\ L[i + 1] = B[i - Len(p) + 1]
          /\ (p \o q)[i] = q[i - Len(p)] /\ i - Len(p) \in 1 .. Len(q)
      BY <2>3, <1>3, <1>4
    <3> QED
      BY <3>1, <1>2
  <2> QED
    BY <2>1, <2>2, <2>3, <1>3
<1>8. \A i \in 1 .. Len(p \o q) : Link(P, m, L[i], (p \o q)[i], L[i + 1])
  BY <1>4, <1>7
<1> HIDE DEF L
<1> QED
  BY <1>4, <1>5, <1>6, <1>8 DEF Runs

\* A program whose every step may be taken at c, and leads back to it.
LEMMA RunsStill ==
  ASSUME NEW P, NEW m, NEW p \in Seq(Step), NEW c \in Points,
         \A i \in 1 .. Len(p) : Link(P, m, c, p[i], c)
  PROVE  Runs(P, m, p, c, c)
<1> DEFINE L == [i \in 1 .. Len(p) + 1 |-> c]
<1>1. L \in [1 .. Len(p) + 1 -> Points] /\ L[1] = c /\ L[Len(p) + 1] = c
  OBVIOUS
<1>2. \A i \in 1 .. Len(p) : L[i] = c /\ L[i + 1] = c
  OBVIOUS
<1> HIDE DEF L
<1> QED
  BY <1>1, <1>2 DEF Runs

-----------------------------------------------------------------------------
(***************************************************************************)
(* Stages.                                                                 *)
(***************************************************************************)
LEMMA StageIs ==
  ASSUME NEW pl \in Places, NEW kinds \in Seq(Kinds)
  PROVE  /\ Stage(pl, kinds) \in Seq(Step) /\ Len(Stage(pl, kinds)) = Len(kinds)
         /\ \A i \in 1 .. Len(kinds) : Stage(pl, kinds)[i] = [kind |-> kinds[i], at |-> pl]
<1>1. DOMAIN kinds = 1 .. Len(kinds) /\ Len(kinds) \in Nat
  OBVIOUS
<1>2. \A i \in 1 .. Len(kinds) : [kind |-> kinds[i], at |-> pl] \in Step
  BY DEF Step
<1> QED
  BY <1>1, <1>2 DEF Stage

\* A stage is cut where its steps are.
LEMMA StageParts ==
  ASSUME NEW pl \in Places, NEW p \in Seq(Kinds), NEW q \in Seq(Kinds)
  PROVE  Stage(pl, p \o q) = Stage(pl, p) \o Stage(pl, q)
<1> DEFINE a == Stage(pl, p)
           b == Stage(pl, q)
           w == Stage(pl, p \o q)
<1>1. p \o q \in Seq(Kinds) /\ Len(p \o q) = Len(p) + Len(q) /\ Len(p) \in Nat /\ Len(q) \in Nat
  OBVIOUS
<1>2. /\ a \in Seq(Step) /\ b \in Seq(Step) /\ w \in Seq(Step)
      /\ Len(a) = Len(p) /\ Len(b) = Len(q) /\ Len(w) = Len(p) + Len(q)
      /\ \A i \in 1 .. Len(p) : a[i] = [kind |-> p[i], at |-> pl]
      /\ \A i \in 1 .. Len(q) : b[i] = [kind |-> q[i], at |-> pl]
      /\ \A i \in 1 .. Len(p) + Len(q) : w[i] = [kind |-> (p \o q)[i], at |-> pl]
  BY <1>1, StageIs
<1> HIDE DEF a, b, w
<1>3. a \o b \in Seq(Step) /\ Len(a \o b) = Len(w)
  <2>1. a \in Seq(Step) /\ b \in Seq(Step)
    BY <1>2
  <2>2. a \o b \in Seq(Step) /\ Len(a \o b) = Len(a) + Len(b)
    BY <2>1, ConcatProperties
  <2> QED
    BY <2>2, <1>2
<1>4. ASSUME NEW i \in 1 .. Len(w) PROVE (a \o b)[i] = w[i]
  <2>1. CASE i <= Len(p)
    BY <2>1, <1>1, <1>2
  <2>2. CASE i > Len(p)
    <3>1. i - Len(p) \in 1 .. Len(q) /\ (p \o q)[i] = q[i - Len(p)] /\ (a \o b)[i] = b[i - Len(p)]
      BY <2>2, <1>1, <1>2
    <3> QED
      BY <3>1, <1>2
  <2> QED
    BY <2>1, <2>2, <1>1, <1>2
<1>5. a \o b = w
  BY <1>2, <1>3, <1>4
<1> QED
  BY <1>5 DEF a, b, w

\* One piece of a stage behind another.
LEMMA DoesOn ==
  ASSUME NEW P, NEW m, NEW pl \in Places, NEW p, NEW q, NEW c, NEW d, NEW e,
         Does(P, m, pl, p, c, d), Does(P, m, pl, q, d, e)
  PROVE  Does(P, m, pl, p \o q, c, e)
<1>1. p \in Seq(Kinds) /\ q \in Seq(Kinds) /\ p \o q \in Seq(Kinds)
  BY DEF Does
<1>2. Runs(P, m, Stage(pl, p) \o Stage(pl, q), c, e)
  BY RunsOn DEF Does
<1> QED
  BY <1>1, <1>2, StageParts DEF Does

\* One step.
LEMMA DoesOne ==
  ASSUME NEW P, NEW m, NEW pl \in Places, NEW k \in Kinds, NEW c \in Points, NEW d \in Points,
         Link(P, m, c, [kind |-> k, at |-> pl], d)
  PROVE  Does(P, m, pl, <<k>>, c, d)
<1>1. <<k>> \in Seq(Kinds) /\ Len(<<k>>) = 1 /\ <<k>>[1] = k
  OBVIOUS
<1> DEFINE p == Stage(pl, <<k>>)
<1>2. p \in Seq(Step) /\ Len(p) = 1 /\ p[1] = [kind |-> k, at |-> pl]
  <2> DEFINE ks == <<k>>
  <2>1. ks \in Seq(Kinds) /\ Len(ks) = 1 /\ ks[1] = k
    BY <1>1
  <2> HIDE DEF ks
  <2>2. /\ Stage(pl, ks) \in Seq(Step) /\ Len(Stage(pl, ks)) = Len(ks)
        /\ \A i \in 1 .. Len(ks) : Stage(pl, ks)[i] = [kind |-> ks[i], at |-> pl]
    BY <2>1, StageIs
  <2>3. 1 \in 1 .. Len(ks)
    BY <2>1
  <2> QED
    BY <2>1, <2>2, <2>3 DEF ks
<1> DEFINE L == [i \in 1 .. 2 |-> IF i = 1 THEN c ELSE d]
<1>3. L \in [1 .. 2 -> Points] /\ L[1] = c /\ L[2] = d
  OBVIOUS
<1> HIDE DEF p, L
<1>4. L \in [1 .. Len(p) + 1 -> Points] /\ L[Len(p) + 1] = d
  BY <1>2, <1>3
<1>5. \A i \in 1 .. Len(p) : Link(P, m, L[i], p[i], L[i + 1])
  BY <1>2, <1>3
<1>6. Runs(P, m, p, c, d)
  BY <1>2, <1>3, <1>4, <1>5 DEF Runs
<1> QED
  BY <1>1, <1>6 DEF Does, p

\* Steps that may all be taken at c.
LEMMA DoesStill ==
  ASSUME NEW P, NEW m, NEW pl \in Places, NEW K \in SUBSET Kinds, NEW kinds \in Seq(K),
         NEW c \in Points,
         \A k \in K : Link(P, m, c, [kind |-> k, at |-> pl], c)
  PROVE  Does(P, m, pl, kinds, c, c)
<1>1. kinds \in Seq(Kinds) /\ \A i \in 1 .. Len(kinds) : kinds[i] \in K
  BY SeqMonotonic, ElementOfSeq
<1>2. /\ Stage(pl, kinds) \in Seq(Step) /\ Len(Stage(pl, kinds)) = Len(kinds)
      /\ \A i \in 1 .. Len(kinds) : Stage(pl, kinds)[i] = [kind |-> kinds[i], at |-> pl]
  BY <1>1, StageIs
<1>3. \A i \in 1 .. Len(Stage(pl, kinds)) : Link(P, m, c, Stage(pl, kinds)[i], c)
  BY <1>1, <1>2
<1>4. Runs(P, m, Stage(pl, kinds), c, c)
  BY <1>2, <1>3, RunsStill
<1> QED
  BY <1>1, <1>4 DEF Does

\* A step repeated.
LEMMA TimesIs ==
  ASSUME NEW n \in Nat, NEW K, NEW kinds \in Seq(K), kinds # << >>
  PROVE  Times(n, kinds) \in Seq(K) /\ Len(Times(n, kinds)) = n * Len(kinds)
<1>1. Len(kinds) \in Nat \ {0}
  OBVIOUS
<1>2. \A l \in Nat \ {0} : n * l \in Nat
  OBVIOUS
<1>3. n * Len(kinds) \in Nat
  BY <1>1, <1>2
<1>4. \A l \in Nat \ {0}, i \in Nat : i % l \in 0 .. l - 1
  OBVIOUS
<1>5. \A i \in 1 .. n * Len(kinds) : ((i - 1) % Len(kinds)) + 1 \in 1 .. Len(kinds)
  <2> SUFFICES ASSUME NEW i \in 1 .. n * Len(kinds)
               PROVE  ((i - 1) % Len(kinds)) + 1 \in 1 .. Len(kinds)
    OBVIOUS
  <2>1. i - 1 \in Nat
    BY <1>3
  <2>2. (i - 1) % Len(kinds) \in 0 .. Len(kinds) - 1
    BY <2>1, <1>1, <1>4
  <2> QED
    BY <2>2, <1>1
<1>6. \A i \in 1 .. n * Len(kinds) : kinds[((i - 1) % Len(kinds)) + 1] \in K
  BY <1>5
<1> DEFINE N == n * Len(kinds)
           f == [i \in 1 .. N |-> kinds[((i - 1) % Len(kinds)) + 1]]
<1>7. N \in Nat /\ \A i \in 1 .. N : f[i] \in K
  BY <1>3, <1>6
<1> HIDE DEF N
<1>8. f \in Seq(K) /\ Len(f) = N
  <2>1. f \in [1 .. N -> K] /\ DOMAIN f = 1 .. N
    BY <1>7
  <2> HIDE DEF f
  <2> QED
    BY <2>1, <1>7
<1> QED
  BY <1>8 DEF Times, N

-----------------------------------------------------------------------------
(***************************************************************************)
(* Steps that leave what is known as it is.                                *)
(***************************************************************************)
Usual == Calm \cup Latching \cup Wakes

\* The probe may be abandoned at the point c in the stage pl, and holds nothing there.
Safe(m, c, pl) == c \in Points /\ ~Dead(c) /\ Leaves(m, c, pl) /\ c.res = {}

\* Calm kinds are quiet wherever the probe may be abandoned.
LEMMA CalmStays ==
  ASSUME NEW P, NEW m, NEW pl \in Places, NEW c, Safe(m, c, pl), NEW k \in Calm
  PROVE  Link(P, m, c, [kind |-> k, at |-> pl], c)
<1> DEFINE s == [kind |-> k, at |-> pl]
<1>1. s.kind = k /\ s.at = pl
  OBVIOUS
<1> HIDE DEF s
<1>2. Moves(c, s) = c
  BY <1>1 DEF Moves, Calm, Wakes, Adds, Drops, Resources
<1>3. Exits(m, c, s)
  BY <1>1 DEF Exits, Begins, Wakes, Calm, Safe
<1>4. Allows(P, m, c, s)
  BY <1>1 DEF Allows, Begins, Wakes, Calm, Safe, Latching, LadderKinds, Resources, Adds,
     GateKinds, Opens
<1>5. ~Blocks(m, c, s)
  BY <1>1 DEF Blocks, Calm
<1> QED
  BY <1>2, <1>3, <1>4, <1>5 DEF Link, Below, Skips, Safe, s

\* Where no failure is kept, nor a loss outlived, so are reads that may latch a loss, and
\* writes that are not the first to the core.
LEMMA UsualStays ==
  ASSUME NEW P, NEW m, NEW pl \in Places, NEW c, Safe(m, c, pl), Settles(c),
         NEW k \in Usual, k \in Wakes => pl # "ucode" \/ c.did # "none"
  PROVE  Link(P, m, c, [kind |-> k, at |-> pl], c)
<1> DEFINE s == [kind |-> k, at |-> pl]
<1>1. s.kind = k /\ s.at = pl
  OBVIOUS
<1> HIDE DEF s
<1>0. ~Begins(c, s)
  BY <1>1 DEF Begins
<1>2. Moves(c, s) = c
  BY <1>1, <1>0 DEF Moves, Calm, Wakes, Adds, Drops, Resources, Usual, Latching
<1>3. Exits(m, c, s)
  BY <1>1, <1>0 DEF Exits, Wakes, Calm, Safe, Usual, Latching
<1>4. Allows(P, m, c, s)
  BY <1>1, <1>0 DEF Allows, Wakes, Calm, Safe, Latching, LadderKinds, Resources, Adds, GateKinds,
     Opens, Usual, Settles
<1>5. ~Blocks(m, c, s)
  BY <1>1 DEF Blocks, Calm, Usual, Latching, Wakes
<1> QED
  BY <1>2, <1>3, <1>4, <1>5 DEF Link, Below, Skips, Safe, s

\* Kinds that ask nothing may be taken at any safe point.
LEMMA CalmDoes ==
  ASSUME NEW P, NEW m, NEW pl \in Places, NEW c, Safe(m, c, pl), NEW kinds \in Seq(Calm)
  PROVE  Does(P, m, pl, kinds, c, c)
<1>1. Calm \in SUBSET Kinds
  BY DEF Kinds
<1> QED
  BY <1>1, CalmStays, DoesStill DEF Safe

\* So may accesses that latch or wake, where nothing is kept or lossy.
LEMMA UsualDoes ==
  ASSUME NEW P, NEW m, NEW pl \in Places, NEW c, Safe(m, c, pl), Settles(c),
         pl # "ucode" \/ c.did # "none", NEW kinds \in Seq(Usual)
  PROVE  Does(P, m, pl, kinds, c, c)
<1>1. Usual \in SUBSET Kinds
  BY DEF Kinds, Usual
<1> QED
  BY <1>1, UsualStays, DoesStill DEF Safe

\* A piece that only some loads have, and that leads back to where it starts.
LEMMA DoesWhen ==
  ASSUME NEW P, NEW m, NEW pl \in Places, NEW c \in Points, NEW b, NEW kinds,
         b => Does(P, m, pl, kinds, c, c)
  PROVE  Does(P, m, pl, When(b, kinds), c, c)
<1>1. Does(P, m, pl, << >>, c, c)
  <2>1. << >> \in Seq(Kinds) /\ << >> \in Seq({}) /\ {} \in SUBSET Kinds
    BY EmptySeq
  <2> QED
    BY <2>1, DoesStill
<1> QED
  BY <1>1 DEF When

\* A sample is taken once.
LEMMA SampleMoves ==
  ASSUME NEW c, NEW s, s.kind = "sample" PROVE Moves(c, s) = [c EXCEPT !.try = "sampled"]
BY DEF Moves, Wakes, Adds, Drops, Resources, Calm, Latching, GateKinds, LadderKinds

\* A judged or a forgotten attempt is over.
LEMMA ShutMoves ==
  ASSUME NEW c, NEW s, s.kind \in {"forget", "verdict"} PROVE Moves(c, s) = [c EXCEPT !.try = "no"]
BY DEF Moves, Wakes, Adds, Drops, Resources, Calm, Latching, GateKinds, LadderKinds

\* Bringing the core up and identifying it set the state.
LEMMA CoreMoves ==
  ASSUME NEW c, NEW s, s.kind \in {"core_up", "identified"}
  PROVE  Moves(c, s) = [c EXCEPT !.state = IF s.kind = "core_up" THEN "core" ELSE "attach"]
BY DEF Moves, Wakes, Adds, Drops, Resources, Calm, Latching, GateKinds, LadderKinds

\* A rung of the PHY's ladder sets its phase.
LEMMA PhyMoves ==
  ASSUME NEW c, NEW s, s.kind \in {"ready", "blocked", "radio_complete"}
  PROVE  Moves(c, s) = [c EXCEPT !.phy = CASE s.kind = "ready" -> "ready" [] s.kind = "blocked" -> "rev1"
                                           [] OTHER -> "complete"]
BY DEF Moves, Wakes, Adds, Drops, Resources, Calm, Latching, GateKinds, LadderKinds

\* Publishing the common firmware ends the retention.
LEMMA CommonMoves ==
  ASSUME NEW c, NEW s, s.kind = "publish_common"
  PROVE  Moves(c, s) = [c EXCEPT !.state = "post_ucode", !.retain = FALSE]
BY DEF Moves, Wakes, Adds, Drops, Resources, Calm, Latching, GateKinds, LadderKinds

\* A resource taken is one more to return.
LEMMA TakeMoves ==
  ASSUME NEW c, NEW s, s.kind \in Resources PROVE Moves(c, s) = [c EXCEPT !.res = @ \cup {s.kind}]
BY DEF Moves, Wakes, Adds, Drops, Resources, Calm, Latching, GateKinds, LadderKinds

\* A setting borrowed is one more lent.
LEMMA LendMoves ==
  ASSUME NEW c, NEW s, s.kind \in DOMAIN Adds
  PROVE  Moves(c, s) = [c EXCEPT !.lent = @ \cup {Adds[s.kind]}]
BY DEF Moves, Wakes, Adds, Drops, Resources, Calm, Latching, GateKinds, LadderKinds

\* A setting given back is one less.
LEMMA GiveMoves ==
  ASSUME NEW c, NEW s, s.kind \in DOMAIN Drops
  PROVE  Moves(c, s) = [c EXCEPT !.lent = @ \ {Drops[s.kind]}]
BY DEF Moves, Wakes, Adds, Drops, Resources, Calm, Latching, GateKinds, LadderKinds

\* Where each kind of step leads.
LEMMA MovesIs ==
  ASSUME NEW c, NEW s
  PROVE  /\ s.kind \in Wakes =>
              Moves(c, s) = IF Begins(c, s) THEN [c EXCEPT !.did = "begun"] ELSE c
         /\ s.kind = "loaded" => Moves(c, s) = [c EXCEPT !.did = "loaded", !.retain = TRUE]
         /\ s.kind = "common" => Moves(c, s) = [c EXCEPT !.did = "common"]
         /\ s.kind = "publish_core" =>
              Moves(c, s) = IF c.state = "none" THEN [c EXCEPT !.state = "core"] ELSE c
         /\ s.kind = "publish_ucode" => Moves(c, s) = [c EXCEPT !.state = "suspended"]
         /\ s.kind = "publish_common" =>
              Moves(c, s) = [c EXCEPT !.state = "post_ucode", !.retain = FALSE]
         /\ s.kind = "core_up" => Moves(c, s) = [c EXCEPT !.state = "core"]
         /\ s.kind = "identified" => Moves(c, s) = [c EXCEPT !.state = "attach"]
         /\ s.kind = "ready" => Moves(c, s) = [c EXCEPT !.phy = "ready"]
         /\ s.kind = "blocked" => Moves(c, s) = [c EXCEPT !.phy = "rev1"]
         /\ s.kind = "radio_complete" => Moves(c, s) = [c EXCEPT !.phy = "complete"]
         /\ s.kind = "try" => Moves(c, s) = [c EXCEPT !.try = "open"]
         /\ s.kind \in {"forget", "verdict"} => Moves(c, s) = [c EXCEPT !.try = "no"]
         /\ s.kind = "sample" => Moves(c, s) = [c EXCEPT !.try = "sampled"]
         /\ s.kind = "otp_word" => Moves(c, s) = [c EXCEPT !.otp = TRUE]
         /\ s.kind = "island" => Moves(c, s) = [c EXCEPT !.lossy = TRUE]
         /\ s.kind \in Resources => Moves(c, s) = [c EXCEPT !.res = @ \cup {s.kind}]
         /\ s.kind \in DOMAIN Adds => Moves(c, s) = [c EXCEPT !.lent = @ \cup {Adds[s.kind]}]
         /\ s.kind \in DOMAIN Drops => Moves(c, s) = [c EXCEPT !.lent = @ \ {Drops[s.kind]}]
         /\ s.kind \in Calm \cup Latching \cup GateKinds \cup {"board", "isolated"} \cup (LadderKinds \ {"island"}) =>
              Moves(c, s) = c
<1>1. s.kind \in Wakes =>
         Moves(c, s) = IF Begins(c, s) THEN [c EXCEPT !.did = "begun"] ELSE c
  BY DEF Moves, Wakes, Adds, Drops, Resources, Calm, Latching, GateKinds, LadderKinds
<1>2. s.kind = "loaded" => Moves(c, s) = [c EXCEPT !.did = "loaded", !.retain = TRUE]
  BY DEF Moves, Wakes, Adds, Drops, Resources, Calm, Latching, GateKinds, LadderKinds
<1>3. s.kind = "common" => Moves(c, s) = [c EXCEPT !.did = "common"]
  BY DEF Moves, Wakes, Adds, Drops, Resources, Calm, Latching, GateKinds, LadderKinds
<1>4. s.kind = "publish_core" =>
         Moves(c, s) = IF c.state = "none" THEN [c EXCEPT !.state = "core"] ELSE c
  BY DEF Moves, Wakes, Adds, Drops, Resources, Calm, Latching, GateKinds, LadderKinds
<1>5. s.kind = "publish_ucode" => Moves(c, s) = [c EXCEPT !.state = "suspended"]
  BY DEF Moves, Wakes, Adds, Drops, Resources, Calm, Latching, GateKinds, LadderKinds
<1>6. s.kind = "publish_common" =>
         Moves(c, s) = [c EXCEPT !.state = "post_ucode", !.retain = FALSE]
  BY CommonMoves
<1>7. s.kind = "core_up" => Moves(c, s) = [c EXCEPT !.state = "core"]
  BY CoreMoves
<1>8. s.kind = "identified" => Moves(c, s) = [c EXCEPT !.state = "attach"]
  BY CoreMoves
<1>9. s.kind = "ready" => Moves(c, s) = [c EXCEPT !.phy = "ready"]
  BY PhyMoves
<1>10. s.kind = "blocked" => Moves(c, s) = [c EXCEPT !.phy = "rev1"]
  BY PhyMoves
<1>11. s.kind = "radio_complete" => Moves(c, s) = [c EXCEPT !.phy = "complete"]
  BY PhyMoves
<1>12. s.kind = "try" => Moves(c, s) = [c EXCEPT !.try = "open"]
  BY DEF Moves, Wakes, Adds, Drops, Resources, Calm, Latching, GateKinds, LadderKinds
<1>13. s.kind \in {"forget", "verdict"} => Moves(c, s) = [c EXCEPT !.try = "no"]
  BY ShutMoves
<1>14. s.kind = "sample" => Moves(c, s) = [c EXCEPT !.try = "sampled"]
  BY SampleMoves
<1>15. s.kind = "otp_word" => Moves(c, s) = [c EXCEPT !.otp = TRUE]
  BY DEF Moves, Wakes, Adds, Drops, Resources, Calm, Latching, GateKinds, LadderKinds
<1>16. s.kind = "island" => Moves(c, s) = [c EXCEPT !.lossy = TRUE]
  BY DEF Moves, Wakes, Adds, Drops, Resources, Calm, Latching, GateKinds, LadderKinds
<1>17. s.kind \in Resources => Moves(c, s) = [c EXCEPT !.res = @ \cup {s.kind}]
  BY TakeMoves
<1>18. s.kind \in DOMAIN Adds => Moves(c, s) = [c EXCEPT !.lent = @ \cup {Adds[s.kind]}]
  BY LendMoves
<1>19. s.kind \in DOMAIN Drops => Moves(c, s) = [c EXCEPT !.lent = @ \ {Drops[s.kind]}]
  BY GiveMoves
<1>20. s.kind \in Calm \cup Latching \cup GateKinds \cup {"board", "isolated"} \cup (LadderKinds \ {"island"}) =>
         Moves(c, s) = c
  BY DEF Moves, Wakes, Adds, Drops, Resources, Calm, Latching, GateKinds, LadderKinds
<1> QED
  BY <1>1, <1>2, <1>3, <1>4, <1>5, <1>6, <1>7, <1>8, <1>9, <1>10, <1>11, <1>12, <1>13, <1>14,
     <1>15, <1>16, <1>17, <1>18, <1>19, <1>20

\* What is lent is all that a step changes which lends or gives back.
LEMMA LentMoves ==
  ASSUME NEW c \in Points, NEW s, s.kind \in DOMAIN Adds \cup DOMAIN Drops
  PROVE  LET d == Moves(c, s)
         IN  /\ d.state = c.state /\ d.did = c.did /\ d.retain = c.retain /\ d.phy = c.phy
             /\ d.try = c.try /\ d.res = c.res /\ d.lossy = c.lossy /\ d.otp = c.otp
             /\ \A b : b \in d.lent <=>
                   IF s.kind \in DOMAIN Adds THEN b \in c.lent \/ b = Adds[s.kind]
                   ELSE b \in c.lent /\ b # Drops[s.kind]
<1>1. CASE s.kind \in DOMAIN Adds
  <2>1. Moves(c, s) = [c EXCEPT !.lent = @ \cup {Adds[s.kind]}]
    BY <1>1, LendMoves
  <2> QED
    BY <1>1, <2>1 DEF Points
<1>2. CASE s.kind \notin DOMAIN Adds
  <2>1. Moves(c, s) = [c EXCEPT !.lent = @ \ {Drops[s.kind]}]
    BY <1>2, GiveMoves
  <2> QED
    BY <1>2, <2>1 DEF Points
<1> QED
  BY <1>1, <1>2

-----------------------------------------------------------------------------
(***************************************************************************)
(* The parts of the programs that are quiet altogether.                    *)
(***************************************************************************)
LEMMA CalmIsUsual == \A p \in Seq(Calm) : p \in Seq(Usual)
BY SeqMonotonic DEF Usual

\* Joins of such pieces are such pieces ...
LEMMA QuietJoin ==
  /\ \A p \in Seq(Calm), q \in Seq(Calm) : p \o q \in Seq(Calm)
  /\ \A p \in Seq(Usual), q \in Seq(Usual) : p \o q \in Seq(Usual)
BY ConcatProperties

\* ... and so are repetitions.
LEMMA QuietTimes ==
  /\ \A n \in Nat, k \in Calm : Times(n, <<k>>) \in Seq(Calm)
  /\ \A n \in Nat, k \in Usual : Times(n, <<k>>) \in Seq(Usual)
<1>1. \A K : \A n \in Nat, k \in K : Times(n, <<k>>) \in Seq(K)
  <2> SUFFICES ASSUME NEW K, NEW n \in Nat, NEW k \in K
               PROVE  Times(n, <<k>>) \in Seq(K)
    OBVIOUS
  <2> DEFINE p == <<k>>
  <2>1. p \in Seq(K) /\ p # << >>
    OBVIOUS
  <2> HIDE DEF p
  <2>2. Times(n, p) \in Seq(K)
    BY <2>1, TimesIs
  <2> QED
    BY <2>2 DEF p
<1> QED
  BY <1>1

\* The parts of ob_si_probe and of the isolated modes.
LEMMA SiParts ==
  /\ Context \in Seq(Calm) /\ D11Diag \in Seq(Calm) /\ EnableBracket \in Seq(Calm)
  /\ SflagsEvidence \in Seq(Calm) /\ ReadMac \in Seq(Calm) /\ SpromDiag \in Seq(Calm)
  /\ IdentityGate \in Seq(Calm) /\ FwProbe \in Seq(Calm)
  /\ Powerup \in Seq(Usual)
<1>1. Context \in Seq(Calm)
  BY DEF Context, Calm
<1>2. D11Diag \in Seq(Calm)
  BY DEF D11Diag, Calm
<1>3. <<"alive">> \in Seq(Calm) /\ <<"supply">> \in Seq(Calm)
  BY DEF Calm
<1>4. EnableBracket \in Seq(Calm) /\ SflagsEvidence \in Seq(Calm)
  BY <1>1, <1>3, QuietJoin DEF EnableBracket, SflagsEvidence
<1>5. <<"supply", "read", "read">> \in Seq(Calm)
  BY DEF Calm
<1>6. ReadMac \in Seq(Calm)
  BY <1>1, <1>5, QuietJoin DEF ReadMac
<1>7. SpromDiag \in Seq(Calm) /\ IdentityGate \in Seq(Calm)
  BY DEF SpromDiag, IdentityGate, Calm
<1>8. FwProbe \in Seq(Calm)
  BY QuietTimes DEF FwProbe, FwRequest, Calm
<1>9. Powerup \in Seq(Usual)
  <2>1. <<"bus", "enable", "bus", "post">> \in Seq(Usual)
    BY DEF Usual, Calm, Wakes
  <2>2. Context \o FixedWindow \in Seq(Usual)
    BY <1>1, <1>3, QuietJoin, CalmIsUsual DEF FixedWindow
  <2> QED
    BY <2>1, <2>2, QuietJoin DEF Powerup
<1> QED
  BY <1>1, <1>2, <1>4, <1>6, <1>7, <1>8, <1>9

\* The programs of the isolated modes consist of such kinds.
LEMMA IsolatedParts ==
  /\ AttachTest \in Seq(Usual) /\ SbReset \in Seq(Usual)
  /\ AiWrapper \in Seq(Usual) /\ AiEnable \in Seq(Usual) /\ MaccontrolOnce \in Seq(Usual)
  /\ DiagPrepare \in Seq(Usual) /\ DiagRadio \in Seq(Usual) /\ ShmDiag \in Seq(Usual)
<1>1. AttachTest \in Seq(Usual)
  <2>1. AttachCore \in Seq(Usual)
    BY DEF AttachCore, Usual, Calm, Wakes
  <2>2. Times(3, <<"blind">>) \in Seq(Usual) /\ Times(2, <<"blind">>) \in Seq(Usual)
    BY QuietTimes DEF Usual, Calm
  <2>3. <<"trust", "post", "trust">> \in Seq(Usual) /\ <<"trust">> \in Seq(Usual)
    BY DEF Usual, Calm, Latching
  <2>4. AttachClocks \in Seq(Usual)
    BY <2>2, <2>3, QuietJoin DEF AttachClocks
  <2>5. AttachSites \in Seq(Usual)
    <3> DEFINE p == <<"post", "trust">>
    <3>1. p \in Seq(Usual) /\ p # << >>
      BY DEF Usual, Calm, Latching
    <3> HIDE DEF p
    <3>2. Times(3, p) \in Seq(Usual)
      BY <3>1, TimesIs
    <3> QED
      BY <3>2 DEF AttachSites, p
  <2> QED
    BY <2>1, <2>4, <2>5, QuietJoin DEF AttachTest
<1>2. SbReset \in Seq(Usual)
  <2>1. SbEntry \in Seq(Usual)
    BY DEF SbEntry, Usual, Calm, Wakes
  <2>2. SbDisable \in Seq(Usual)
    BY DEF SbDisable, Usual, Calm
  <2>3. SbRelease \in Seq(Usual)
    BY DEF SbRelease, Usual, Calm
  <2> QED
    BY <2>1, <2>2, <2>3, QuietJoin DEF SbReset
<1>3. <<"entry">> \in Seq(Usual)
  BY DEF Usual, Calm
<1>4. AiWrapper \in Seq(Usual)
  BY <1>3, QuietJoin, QuietTimes DEF AiWrapper, WrapperRead, Usual, Latching
<1>5. AiEnable \in Seq(Usual)
  <2>1. Times(3, <<"check">>) \in Seq(Usual) /\ Times(3, <<"transition">>) \in Seq(Usual)
    BY QuietTimes DEF Usual, Latching
  <2> QED
    BY <2>1, <1>3, QuietJoin DEF AiEnable, WrapperIdle
<1>6. MaccontrolOnce \in Seq(Usual) /\ DiagRadio \in Seq(Usual)
  BY DEF MaccontrolOnce, DiagRadio, Usual, Latching, Wakes
<1>7. DiagPrepare \in Seq(Usual)
  BY DEF DiagPrepare, Usual, Calm, Wakes
<1>8. ShmDiag \in Seq(Usual)
  BY DEF ShmDiag, Usual, Calm, Wakes, Latching
<1> QED
  BY <1>1, <1>2, <1>4, <1>5, <1>6, <1>7, <1>8

-----------------------------------------------------------------------------
(***************************************************************************)
(* Steps that change what is known.                                        *)
(***************************************************************************)
\* One step, from its link.
LEMMA DoesStep ==
  ASSUME NEW P, NEW m, NEW pl \in Places, NEW k \in Kinds, NEW c, NEW d \in Points, Safe(m, c, pl),
         \A s \in Step : s.kind = k /\ s.at = pl => Link(P, m, c, s, d)
  PROVE  Does(P, m, pl, <<k>>, c, d)
<1>1. [kind |-> k, at |-> pl] \in Step
  BY DEF Step
<1> QED
  BY <1>1, DoesOne DEF Safe

\* A gate that is open unless something went wrong.
LEMMA GateDoes ==
  ASSUME NEW P, NEW m, NEW pl \in Places, NEW c, Safe(m, c, pl), c.try = "no",
         NEW k \in GateKinds, Opens(P, m, c, k), k # "core_ready"
  PROVE  Does(P, m, pl, <<k>>, c, c)
<1>1. k \in Kinds
  BY DEF Kinds
<1>2. ASSUME NEW s \in Step, s.kind = k, s.at = pl PROVE Link(P, m, c, s, c)
  <2>0. ~Begins(c, s)
    BY <1>2 DEF Begins, GateKinds, Wakes
  <2>1. Moves(c, s) = c
    BY <1>2 DEF Moves, GateKinds, Wakes, Adds, Drops, Resources
  <2>2. Exits(m, c, s)
    BY <1>2, <2>0 DEF Exits, GateKinds, Safe
  <2>3. Allows(P, m, c, s)
    BY <1>2, <2>0 DEF Allows, GateKinds, Safe, Latching, LadderKinds, Resources, Adds
  <2> QED
    BY <1>2, <2>1, <2>2, <2>3 DEF Link, Below, Skips, Safe, Blocks
<1> QED
  BY <1>1, <1>2, DoesStep DEF Safe

\* Three pieces of a stage.
LEMMA DoesThrice ==
  ASSUME NEW P, NEW m, NEW pl \in Places, NEW p, NEW q, NEW r, NEW b, NEW c, NEW d, NEW e,
         Does(P, m, pl, p, b, c), Does(P, m, pl, q, c, d), Does(P, m, pl, r, d, e)
  PROVE  Does(P, m, pl, p \o q \o r, b, e)
BY DoesOn

-----------------------------------------------------------------------------
(***************************************************************************)
(* ob_si_probe.                                                            *)
(***************************************************************************)
\* From here a failure is kept ...
LEMMA TryDoes ==
  ASSUME NEW P, NEW m, NEW c, Safe(m, c, "si"), c.try = "no", NEW d \in Points,
         d = [c EXCEPT !.try = "open"]
  PROVE  Does(P, m, "si", <<"try">>, c, d)
<1>1. ASSUME NEW s \in Step, s.kind = "try", s.at = "si" PROVE Link(P, m, c, s, d)
  <2>1. Moves(c, s) = d
    BY Zenon, <1>1, MovesIs
  <2>2. Exits(m, c, s)
    BY <1>1 DEF Exits, Begins, Wakes, Safe
  <2>3. Allows(P, m, c, s)
    BY <1>1 DEF Allows, GateKinds, Begins, Wakes, Latching, LadderKinds, Resources, Adds
  <2> QED
    BY <1>1, <2>1, <2>2, <2>3 DEF Link, Blocks, Below, Skips, Safe
<1> QED
  BY <1>1, DoesStep DEF Safe, Kinds, Places

\* ... and here it is judged or forgotten.
LEMMA CloseDoes ==
  ASSUME NEW P, NEW m, NEW d, Safe(m, d, "si"), d.try = "open", d.lent = {}, NEW c \in Points,
         Below([d EXCEPT !.try = "no"], c), NEW k \in {"forget", "verdict"}
  PROVE  Does(P, m, "si", <<k>>, d, c)
<1>1. ASSUME NEW s \in Step, s.kind = k, s.at = "si" PROVE Link(P, m, d, s, c)
  <2>1. Moves(d, s) = [d EXCEPT !.try = "no"]
    BY <1>1, ShutMoves
  <2>2. Exits(m, d, s)
    BY <1>1 DEF Exits, Begins, Wakes, Safe
  <2>3. Allows(P, m, d, s)
    BY <1>1 DEF Allows, GateKinds, Begins, Wakes, Latching, LadderKinds, Resources, Adds
  <2> QED
    BY <1>1, <2>1, <2>2, <2>3 DEF Link, Blocks, Safe, Catches
<1> QED
  BY <1>1, DoesStep DEF Safe, Kinds, Places

\* The SPROM is read with its failure kept, and forgotten.
LEMMA SpromDoes ==
  ASSUME NEW P, NEW m, NEW c, Safe(m, c, "si"), c.try = "no", c.lent = {}
  PROVE  Does(P, m, "si", ConsumeSprom, c, c)
<1> DEFINE d == [c EXCEPT !.try = "open"]
<1>0. "si" \in Places
  BY DEF Places
<1>1. Safe(m, d, "si") /\ d.try = "open" /\ d.lent = {} /\ Below([d EXCEPT !.try = "no"], c)
  BY DEF Safe, Dead, Leaves, Points, Below, Skips
<1>2. Does(P, m, "si", <<"try">>, c, d)
  BY <1>1, TryDoes DEF Safe
<1> HIDE DEF d
<1>3. <<"supply">> \in Seq(Calm)
  BY DEF Calm
<1>4. Does(P, m, "si", <<"supply">>, c, c) /\ Does(P, m, "si", <<"supply">>, d, d)
  BY <1>0, <1>1, <1>3, CalmDoes
<1>5. Does(P, m, "si", ReadMac, d, d)
  BY <1>0, <1>1, SiParts, CalmDoes
<1>6. Does(P, m, "si", <<"forget">>, d, c)
  BY <1>1, CloseDoes DEF Safe
<1>7. Does(P, m, "si", <<"supply">> \o <<"try">> \o <<"supply">>, c, d)
  BY <1>0, <1>2, <1>4, DoesOn
<1>8. <<"supply", "try", "supply">> = <<"supply">> \o <<"try">> \o <<"supply">>
  OBVIOUS
<1>9. Does(P, m, "si", <<"supply", "try", "supply">>, c, d)
  BY <1>7, <1>8
<1> QED
  BY <1>0, <1>5, <1>6, <1>9, DoesOn DEF ConsumeSprom

-----------------------------------------------------------------------------
\* The OTP is powered and read with its failure kept, and given back: from d to d, but for
\* what is known of the word.
LEMMA OtpDoes ==
  ASSUME NEW P, NEW m, NEW d, Safe(m, d, "si"), d.try = "open", d.lent = {}, d.phy = "none"
  PROVE  LET e == [d EXCEPT !.lent = {"power"}]
             f == [d EXCEPT !.lent = {"power", "controls"}, !.otp = TRUE]
             g == [d EXCEPT !.otp = TRUE]
         IN  /\ Safe(m, e, "si") /\ Safe(m, g, "si")
             /\ Does(P, m, "si", OtpPower, d, e)
             /\ Does(P, m, "si", OtpWord, e, f)
             /\ Does(P, m, "si", <<"give_power", "give_controls">>, f, g)
<1> DEFINE e == [d EXCEPT !.lent = {"power"}]
           a == [d EXCEPT !.lent = {"power", "controls"}]
           f == [d EXCEPT !.lent = {"power", "controls"}, !.otp = TRUE]
           b == [d EXCEPT !.lent = {"controls"}, !.otp = TRUE]
           g == [d EXCEPT !.otp = TRUE]
           Like(c) == /\ c.state = d.state /\ c.did = d.did /\ c.retain = d.retain /\ c.phy = "none"
                      /\ c.try = "open" /\ c.lossy = d.lossy /\ c.res = {}
                      /\ Safe(m, c, "si")
<1>0. "si" \in Places
  BY DEF Places
<1>1. /\ Like(d) /\ Like(e) /\ Like(a) /\ Like(f) /\ Like(b) /\ Like(g)
      /\ e.lent = {"power"} /\ a.lent = {"power", "controls"} /\ f.lent = {"power", "controls"}
      /\ b.lent = {"controls"} /\ g.lent = {} /\ d.otp = e.otp /\ d.otp = a.otp
      /\ f.otp /\ b.otp /\ g.otp
  BY DEF Safe, Dead, Leaves, Points, Lendable
<1>2. d \in Points /\ e \in Points /\ a \in Points /\ f \in Points /\ b \in Points /\ g \in Points
  BY <1>1 DEF Safe
<1> HIDE DEF e, a, f, b, g
<1>3. ASSUME NEW c \in {d, e, a, f, b}, NEW x \in {e, a, f, b, g}, NEW k \in Kinds,
             k \in {"take_power", "take_controls", "otp_word", "give_power", "give_controls"},
             \A s \in Step : s.kind = k => Below(Moves(c, s), x),
             k \in Catches \/ Skips(c, x)
      PROVE  Does(P, m, "si", <<k>>, c, x)
  <2>1. ASSUME NEW s \in Step, s.kind = k, s.at = "si" PROVE Link(P, m, c, s, x)
    <3>0. Like(c) /\ Like(x)
      BY <1>1
    <3>1. Below(Moves(c, s), x)
      BY <1>3, <2>1
    <3>2. Exits(m, c, s)
      BY <2>1, <1>3, <3>0 DEF Exits, Begins, Wakes, Safe
    <3>3. Allows(P, m, c, s)
      BY <2>1, <1>3, <3>0 DEF Allows, GateKinds, Begins, Wakes, Latching, LadderKinds, Resources,
         Adds
    <3> QED
      BY <2>1, <1>3, <3>0, <3>1, <3>2, <3>3 DEF Link, Blocks, Safe
  <2> QED
    BY <1>0, <1>1, <2>1, DoesStep DEF Safe
<1>4. /\ {"take_power", "take_controls", "otp_word", "give_power", "give_controls"} \subseteq Kinds
      /\ {"take_power", "take_controls"} \subseteq DOMAIN Adds
      /\ {"give_power", "give_controls"} \subseteq DOMAIN Drops
      /\ Adds["take_power"] = "power" /\ Adds["take_controls"] = "controls"
      /\ Drops["give_power"] = "power" /\ Drops["give_controls"] = "controls"
  BY DEF Kinds, Adds, Drops
<1>5. Does(P, m, "si", <<"take_power">>, d, e)
  <2>1. \A s \in Step : s.kind = "take_power" => Below(Moves(d, s), e)
    <3> SUFFICES ASSUME NEW s \in Step, s.kind = "take_power" PROVE Below(Moves(d, s), e)
      OBVIOUS
    <3> DEFINE z == Moves(d, s)
    <3>1. /\ z.state = d.state /\ z.did = d.did /\ z.retain = d.retain /\ z.phy = d.phy
          /\ z.try = d.try /\ z.res = d.res /\ z.lossy = d.lossy /\ z.otp = d.otp
          /\ \A y : y \in z.lent <=> y \in d.lent \/ y = "power"
      BY <1>2, LentMoves DEF Adds, Drops
    <3> HIDE DEF z
    <3> QED
      BY <1>1, <3>1 DEF Below, Skips, z
  <2>2. Skips(d, e)
    BY <1>1 DEF Skips
  <2> QED
    BY <2>1, <2>2, <1>3, <1>4
<1>6. Does(P, m, "si", <<"powered">>, e, e)
  BY <1>0, <1>1, CalmDoes, <<"powered">> \in Seq(Calm) DEF Calm
<1>7. Does(P, m, "si", <<"take_controls">>, e, a)
  <2>1. \A s \in Step : s.kind = "take_controls" => Below(Moves(e, s), a)
    <3> SUFFICES ASSUME NEW s \in Step, s.kind = "take_controls" PROVE Below(Moves(e, s), a)
      OBVIOUS
    <3> DEFINE z == Moves(e, s)
    <3>1. /\ z.state = e.state /\ z.did = e.did /\ z.retain = e.retain /\ z.phy = e.phy
          /\ z.try = e.try /\ z.res = e.res /\ z.lossy = e.lossy /\ z.otp = e.otp
          /\ \A y : y \in z.lent <=> y \in e.lent \/ y = "controls"
      BY <1>2, LentMoves DEF Adds, Drops
    <3> HIDE DEF z
    <3> QED
      BY <1>1, <3>1 DEF Below, Skips, z
  <2>2. Skips(e, a)
    BY <1>1 DEF Skips
  <2> QED
    BY <2>1, <2>2, <1>3, <1>4
<1>8. Does(P, m, "si", <<"otp_word">>, a, f)
  <2>1. \A s \in Step : s.kind = "otp_word" => Below(Moves(a, s), f)
    <3> SUFFICES ASSUME NEW s \in Step, s.kind = "otp_word" PROVE Below(Moves(a, s), f)
      OBVIOUS
    <3>1. Moves(a, s) = [a EXCEPT !.otp = TRUE]
      BY Zenon, MovesIs
    <3> QED
      BY <1>1, <1>2, <3>1 DEF Below, Skips, Points
  <2>2. Skips(a, f)
    BY <1>1 DEF Skips
  <2> QED
    BY <2>1, <2>2, <1>3, <1>4
<1>9. Does(P, m, "si", <<"give_power">>, f, b)
  <2>1. \A s \in Step : s.kind = "give_power" => Below(Moves(f, s), b)
    <3> SUFFICES ASSUME NEW s \in Step, s.kind = "give_power" PROVE Below(Moves(f, s), b)
      OBVIOUS
    <3> DEFINE z == Moves(f, s)
    <3>1. /\ z.state = f.state /\ z.did = f.did /\ z.retain = f.retain /\ z.phy = f.phy
          /\ z.try = f.try /\ z.res = f.res /\ z.lossy = f.lossy /\ z.otp = f.otp
          /\ \A y : y \in z.lent <=> y \in f.lent /\ y # "power"
      BY <1>2, LentMoves DEF Adds, Drops
    <3> HIDE DEF z
    <3> QED
      BY <1>1, <3>1 DEF Below, Skips, z
  <2> QED
    BY <2>1, <1>1, <1>3, <1>4 DEF Catches
<1>10. Does(P, m, "si", <<"give_controls">>, b, g)
  <2>1. \A s \in Step : s.kind = "give_controls" => Below(Moves(b, s), g)
    <3> SUFFICES ASSUME NEW s \in Step, s.kind = "give_controls" PROVE Below(Moves(b, s), g)
      OBVIOUS
    <3> DEFINE z == Moves(b, s)
    <3>1. /\ z.state = b.state /\ z.did = b.did /\ z.retain = b.retain /\ z.phy = b.phy
          /\ z.try = b.try /\ z.res = b.res /\ z.lossy = b.lossy /\ z.otp = b.otp
          /\ \A y : y \in z.lent <=> y \in b.lent /\ y # "controls"
      BY <1>2, LentMoves DEF Adds, Drops
    <3> HIDE DEF z
    <3> QED
      BY <1>1, <3>1 DEF Below, Skips, z
  <2> QED
    BY <2>1, <1>1, <1>3, <1>4 DEF Catches
<1>11. /\ OtpPower = <<"take_power">> \o <<"powered">>
       /\ OtpWord = <<"take_controls">> \o <<"otp_word">>
       /\ <<"give_power", "give_controls">> = <<"give_power">> \o <<"give_controls">>
  BY DEF OtpPower, OtpWord
<1>12. /\ Does(P, m, "si", OtpPower, d, e)
       /\ Does(P, m, "si", OtpWord, e, f)
       /\ Does(P, m, "si", <<"give_power", "give_controls">>, f, g)
  BY <1>0, <1>5, <1>6, <1>7, <1>8, <1>9, <1>10, <1>11, DoesOn
<1> QED
  BY <1>1, <1>12 DEF e, f, g

-----------------------------------------------------------------------------
\* A core that ob_si_probe has woken, and one that it has done with.
Woken(m) == [Start EXCEPT !.state = "core", !.lossy = (m = "acphy_identity_timing")]

Probed(m) ==
    IF m = "class0_postbmac" THEN [Woken(m) EXCEPT !.otp = TRUE] ELSE Woken(m)

\* What an identity witness does: a stall ends it, and it never fails.
Witness == LadderKinds \cup {"post"}

\* Whatever the load asks of the identity ladder, it consists of ladder kinds and posts.
LEMMA LadderIsWitness == ASSUME NEW P PROVE IdentityLadder(P) \in Seq(Witness)
<1>1. \A p \in Seq(Witness), q \in Seq(Witness) : p \o q \in Seq(Witness)
  BY ConcatProperties
<1>3. \A n \in Nat : Times(n, <<"rung">>) \in Seq(Witness) /\ Times(n, <<"rung_set">>) \in Seq(Witness)
  <2> DEFINE p == <<"rung">>
             q == <<"rung_set">>
  <2>1. p \in Seq(Witness) /\ q \in Seq(Witness) /\ p # << >> /\ q # << >>
    BY DEF Witness, LadderKinds
  <2> HIDE DEF p, q
  <2>2. \A n \in Nat : Times(n, p) \in Seq(Witness) /\ Times(n, q) \in Seq(Witness)
    BY <2>1, TimesIs
  <2> QED
    BY <2>2 DEF p, q
<1>4. /\ FirstAccess \in Seq(Witness) /\ PllWitness \in Seq(Witness)
      /\ WrapperWitness \in Seq(Witness) /\ IdentityTiming \in Seq(Witness)
  BY DEF FirstAccess, PllWitness, WrapperWitness, IdentityTiming, Witness, LadderKinds
<1>5. /\ Identity3e2 \in Seq(Witness) /\ IdentityControl \in Seq(Witness)
      /\ IdentityControl16 \in Seq(Witness)
  BY DEF Identity3e2, IdentityControl, IdentityControl16, Witness, LadderKinds
<1>6. /\ IdentitySpan \in Seq(Witness) /\ IdentityLower \in Seq(Witness)
      /\ IdentityEdge2 \in Seq(Witness) /\ IdentityWide \in Seq(Witness)
      /\ IdentityEdge \in Seq(Witness) /\ IdentityUpper \in Seq(Witness)
  BY <1>3 DEF IdentitySpan, IdentityLower, IdentityEdge2, IdentityWide, IdentityEdge, IdentityUpper
<1>7. Rungs(P) \in Seq(Witness)
  <2> DEFINE a == When("identity_pll_witness" \in P, PllWitness) \o
                  When("identity_wrapper_witness" \in P, WrapperWitness)
             c == When("identity_wide" \in P, IdentityWide)
             d == When("identity_edge" \in P, IdentityEdge)
             e == When("identity_upper" \in P, IdentityUpper)
             f == When("identity_control16" \in P, IdentityControl16)
             g == When("identity_control" \in P, IdentityControl)
             h == When("identity_span" \in P, IdentitySpan)
             i == When("identity_3e2_first" \in P, Identity3e2)
             lower == When("identity_lower" \in P, IdentityLower)
             edge2 == When("identity_edge2" \in P, IdentityEdge2)
  <2>1. a \in Seq(Witness) /\ lower \in Seq(Witness) /\ edge2 \in Seq(Witness)
    BY <1>1, <1>4, <1>6, EmptySeq DEF When
  <2>2. c \in Seq(Witness) /\ d \in Seq(Witness) /\ e \in Seq(Witness)
    BY <1>6, EmptySeq DEF When
  <2>3. /\ f \in Seq(Witness) /\ g \in Seq(Witness) /\ h \in Seq(Witness)
        /\ i \in Seq(Witness)
    BY <1>5, <1>6, EmptySeq DEF When
  <2> HIDE DEF a, lower, edge2, c, d, e, f, g, h, i
  <2>4. a \o lower \o edge2 \o c \o d \in Seq(Witness)
    BY <1>1, <2>1, <2>2
  <2>5. (a \o lower \o edge2 \o c \o d) \o e \o f \o g \o h \o i \in Seq(Witness)
    BY <1>1, <2>2, <2>3, <2>4
  <2> QED
    BY <2>5 DEF Rungs, a, lower, edge2, c, d, e, f, g, h, i
<1> QED
  BY <1>1, <1>4, <1>7, EmptySeq DEF IdentityLadder, When

\* The identity ladder leads back to where it started.
LEMMA LadderDoes ==
  ASSUME NEW P, NEW m, m = "acphy_identity_timing"
  PROVE  Does(P, m, "si", IdentityLadder(P), Woken(m), Woken(m))
<1> DEFINE c == Woken(m)
<1>1. /\ Safe(m, c, "si") /\ c.try = "no" /\ c.lossy /\ c.lent = {} /\ c.res = {} /\ c.phy = "none"
      /\ c.state = "core"
  BY DEF Woken, Start, Safe, Dead, Leaves, Points, Dids
<1> HIDE DEF c
<1>2. Witness \in SUBSET Kinds /\ "si" \in Places
  BY DEF Witness, Kinds, Calm, Places
<1>3. ASSUME NEW k \in Witness PROVE Link(P, m, c, [kind |-> k, at |-> "si"], c)
  <2> DEFINE s == [kind |-> k, at |-> "si"]
  <2>1. s.kind = k /\ s.at = "si"
    OBVIOUS
  <2> HIDE DEF s
  <2>2. Below(Moves(c, s), c)
    <3>1. CASE k = "island"
      <4>0. s.kind = "island"
        BY <2>1, <3>1
      <4>1. Moves(c, s) = [c EXCEPT !.lossy = TRUE]
        BY <4>0, MovesIs, Zenon
      <4> QED
        BY <4>1, <1>1 DEF Below, Skips, Points, Safe
    <3>2. CASE k # "island"
      <4>1. Moves(c, s) = c
        BY Zenon, <2>1, <3>2, MovesIs DEF Witness, Calm
      <4> QED
        BY <4>1 DEF Below, Skips
    <3> QED
      BY <3>1, <3>2
  <2>3. Exits(m, c, s)
    BY <1>1, <2>1 DEF Exits, Begins, Wakes, Safe, Witness, LadderKinds
  <2>4. Allows(P, m, c, s)
    BY <1>1, <2>1 DEF Allows, Begins, Wakes, Witness, LadderKinds, GateKinds, Latching,
       Resources, Adds
  <2> QED
    BY <1>1, <2>1, <2>2, <2>3, <2>4 DEF Link, Blocks, Safe, Witness, LadderKinds, s
<1>4. IdentityLadder(P) \in Seq(Witness)
  BY LadderIsWitness
<1>5. Does(P, m, "si", IdentityLadder(P), c, c)
  BY <1>1, <1>2, <1>3, <1>4, DoesStill DEF Safe
<1> QED
  BY <1>5 DEF c

\* Probing the interconnect wakes the core, and gives back what it took of the OTP.
LEMMA SiDoes == ASSUME NEW P, NEW m PROVE Runs(P, m, SiProbe(P, m), Start, Probed(m))
<1> DEFINE c == Woken(m)
           o == [c EXCEPT !.try = "open"]
           x == Probed(m)
<1>0. "si" \in Places
  BY DEF Places
<1>1. /\ Safe(m, Start, "si") /\ Settles(Start)
      /\ Safe(m, c, "si") /\ c.try = "no" /\ c.lent = {} /\ c.phy = "none" /\ c.state = "core"
      /\ c.did = "none" /\ ~c.retain /\ c.res = {} /\ ~c.otp
      /\ Safe(m, x, "si") /\ x.try = "no" /\ x.lent = {} /\ x.phy = "none" /\ x.state = "core"
      /\ x.did = "none" /\ ~x.retain /\ x.res = {} /\ x.lossy = c.lossy
      /\ x.otp = (m = "class0_postbmac")
      /\ Safe(m, o, "si") /\ o.try = "open" /\ o.lent = {} /\ o.phy = "none" /\ o.state = "core"
      /\ o.did = "none" /\ ~o.retain /\ o.res = {} /\ o.lossy = c.lossy /\ ~o.otp
  BY DEF Probed, Woken, Start, Safe, Dead, Leaves, Points, Dids, Settles
<1>2. IF m = "class0_postbmac" THEN x = [c EXCEPT !.otp = TRUE] ELSE x = c
  BY DEF Probed
<1>3. Does(P, m, "si", Context \o <<"supply">> \o Powerup, Start, Start)
  <2>1. Context \o <<"supply">> \o Powerup \in Seq(Usual)
    BY SiParts, QuietJoin, CalmIsUsual, <<"supply">> \in Seq(Usual) DEF Usual, Calm
  <2> QED
    BY <2>1, <1>0, <1>1, UsualDoes DEF Places
<1>4. Does(P, m, "si", <<"core_up">>, Start, c)
  <2>1. ASSUME NEW s \in Step, s.kind = "core_up", s.at = "si" PROVE Link(P, m, Start, s, c)
    <3>1. Moves(Start, s) = [Start EXCEPT !.state = "core"]
      BY Zenon, <2>1, MovesIs
    <3>2. Below(Moves(Start, s), c)
      BY <3>1 DEF Below, Skips, Woken, Start
    <3>3. Exits(m, Start, s)
      BY <2>1, <1>1 DEF Exits, Begins, Wakes, Safe, Start
    <3>4. Allows(P, m, Start, s)
      BY <2>1, <1>1 DEF Allows, GateKinds, Begins, Wakes, Latching, LadderKinds, Resources, Adds,
         Start
    <3> QED
      BY <2>1, <1>1, <3>2, <3>3, <3>4 DEF Link, Blocks, Safe, Start
  <2> QED
    BY <1>0, <1>1, <2>1, DoesStep DEF Safe, Kinds
<1> HIDE DEF c, o, x
<1>5. Does(P, m, "si", When("identity_3e0_first" \notin P, D11Diag), c, c)
  BY <1>0, <1>1, SiParts, CalmDoes, EmptySeq DEF When
<1>6. Does(P, m, "si", When(m = "acphy_identity_timing", IdentityLadder(P)), c, c)
  BY <1>0, <1>1, LadderDoes, DoesWhen DEF Safe, c
<1>7. Does(P, m, "si", ConsumeSprom, c, c)
  BY <1>1, SpromDoes
\* The two readings of the OTP; only the one of the postbmac mode counts.
<1>8. Does(P, m, "si", <<"try">>, c, o)
  BY <1>1, TryDoes DEF Safe, o
<1>9. ASSUME m = "class0_postbmac" PROVE Does(P, m, "si", Otp8e2, c, x)
  <2> DEFINE e == [o EXCEPT !.lent = {"power"}]
             f == [o EXCEPT !.lent = {"power", "controls"}, !.otp = TRUE]
             g == [o EXCEPT !.otp = TRUE]
  <2>1. /\ Safe(m, g, "si")
        /\ Does(P, m, "si", OtpPower, o, e) /\ Does(P, m, "si", OtpWord, e, f)
        /\ Does(P, m, "si", <<"give_power", "give_controls">>, f, g)
    BY <1>1, OtpDoes
  <2>2. g.try = "open" /\ g.lent = {} /\ Below([g EXCEPT !.try = "no"], x)
    BY <1>1, <1>2, <1>9 DEF Below, Skips, Safe, Points
  <2> HIDE DEF e, f, g
  <2>3. Does(P, m, "si", <<"verdict">>, g, x)
    BY <1>1, <2>1, <2>2, CloseDoes DEF Safe
  <2>4. Does(P, m, "si", <<"supply", "entry", "read", "read">>, c, c)
    BY <1>0, <1>1, CalmDoes, <<"supply", "entry", "read", "read">> \in Seq(Calm) DEF Calm
  <2>5. Does(P, m, "si", <<"supply", "entry", "read", "read">> \o <<"try">>, c, o)
    BY <1>0, <1>8, <2>4, DoesOn
  <2>6. Does(P, m, "si", <<"give_power", "give_controls">> \o <<"verdict">>, f, x)
    BY <1>0, <2>1, <2>3, DoesOn
  <2>7. /\ <<"supply", "entry", "read", "read", "try">> = <<"supply", "entry", "read", "read">> \o <<"try">>
        /\ <<"give_power", "give_controls", "verdict">> = <<"give_power", "give_controls">> \o <<"verdict">>
    OBVIOUS
  <2>8. Does(P, m, "si", <<"supply", "entry", "read", "read", "try">>, c, o)
    BY <2>5, <2>7
  <2>9. Does(P, m, "si", <<"give_power", "give_controls", "verdict">>, f, x)
    BY <2>6, <2>7
  <2> QED
    BY <1>0, <2>1, <2>8, <2>9, DoesOn DEF Otp8e2
<1>10. Does(P, m, "si", OtpDiag, c, c)
  <2> DEFINE e == [o EXCEPT !.lent = {"power"}]
             f == [o EXCEPT !.lent = {"power", "controls"}, !.otp = TRUE]
             g == [o EXCEPT !.otp = TRUE]
  <2>1. /\ Safe(m, g, "si") /\ Safe(m, e, "si")
        /\ Does(P, m, "si", OtpPower, o, e) /\ Does(P, m, "si", OtpWord, e, f)
        /\ Does(P, m, "si", <<"give_power", "give_controls">>, f, g)
    BY <1>1, OtpDoes
  <2>2. g.try = "open" /\ g.lent = {} /\ Below([g EXCEPT !.try = "no"], c)
    BY <1>1 DEF Below, Skips, Safe, Points
  <2> HIDE DEF e, f, g
  <2>3. Does(P, m, "si", <<"forget">>, g, c)
    BY <1>1, <2>1, <2>2, CloseDoes DEF Safe
  <2>4. Does(P, m, "si", <<"post">>, c, c)
    BY <1>0, <1>1, CalmDoes, <<"post">> \in Seq(Calm) DEF Calm
  <2>5. Does(P, m, "si", <<"selector", "post">>, e, e)
    BY <1>0, <2>1, CalmDoes, <<"selector", "post">> \in Seq(Calm) DEF Calm
  <2>6. /\ Does(P, m, "si", <<"post">> \o <<"try">>, c, o)
        /\ Does(P, m, "si", <<"give_power", "give_controls">> \o <<"forget">>, f, c)
    BY <1>0, <1>8, <2>1, <2>3, <2>4, DoesOn
  <2>7. /\ <<"post", "try">> = <<"post">> \o <<"try">>
        /\ <<"give_power", "give_controls", "forget">> = <<"give_power", "give_controls">> \o <<"forget">>
    OBVIOUS
  <2>8. Does(P, m, "si", <<"post", "try">>, c, o)
    BY <2>6, <2>7
  <2>9. Does(P, m, "si", <<"give_power", "give_controls", "forget">>, f, c)
    BY <2>6, <2>7
  <2> QED
    BY <1>0, <2>1, <2>5, <2>8, <2>9, DoesOn DEF OtpDiag
<1>11. Does(P, m, "si",
            IF m = "class0_postbmac" THEN Otp8e2 ELSE When("otp_diag" \in P, OtpDiag), c, x)
  <2>1. Does(P, m, "si", When("otp_diag" \in P, OtpDiag), c, c)
    BY <1>0, <1>1, <1>10, DoesWhen DEF Safe
  <2> QED
    BY <2>1, <1>2, <1>9
<1>12. Does(P, m, "si", When(m \in {"radio2069_rev4_probe", "d11_transaction_timing"}, EnableBracket), x, x)
  BY <1>0, <1>1, SiParts, CalmDoes, EmptySeq DEF When
<1> DEFINE first == Context \o <<"supply">> \o Powerup
           diag == When("identity_3e0_first" \notin P, D11Diag)
           ladder == When(m = "acphy_identity_timing", IdentityLadder(P))
           otp == IF m = "class0_postbmac" THEN Otp8e2 ELSE When("otp_diag" \in P, OtpDiag)
           bracket == When(m \in {"radio2069_rev4_probe", "d11_transaction_timing"}, EnableBracket)
<1> HIDE DEF first, diag, ladder, otp, bracket
<1>13. Does(P, m, "si", first \o <<"core_up">> \o diag \o ladder \o ConsumeSprom, Start, c)
  BY <1>0, <1>3, <1>4, <1>5, <1>6, <1>7, DoesOn DEF first, diag, ladder
<1>14. Does(P, m, "si", (first \o <<"core_up">> \o diag \o ladder \o ConsumeSprom) \o otp \o bracket, Start, x)
  BY <1>0, <1>11, <1>12, <1>13, DoesOn DEF otp, bracket
<1> QED
  BY <1>14 DEF Does, SiProbe, first, diag, ladder, otp, bracket, x

-----------------------------------------------------------------------------
(***************************************************************************)
(* The attach.                                                             *)
(***************************************************************************)
\* The samples of the radio are judged together, after the last trusted read.
LEMMA RadioSequenceDoes ==
  ASSUME NEW P, NEW m, NEW pl \in {"isolated", "attach"}, NEW c, Safe(m, c, pl), Settles(c),
         c.lent = {}
  PROVE  Does(P, m, pl, RadioSequence, c, c)
<1> DEFINE d == [c EXCEPT !.try = "sampled"]
<1>0. pl \in Places
  BY DEF Places
<1>1. /\ Safe(m, d, pl) /\ d.try = "sampled" /\ d.lent = {} /\ ~d.lossy
      /\ Skips(d, d) /\ Below(d, d) /\ Below([c EXCEPT !.try = "sampled"], d)
      /\ Below([d EXCEPT !.try = "sampled"], d)
      /\ Below([d EXCEPT !.try = "no"], c)
  BY DEF Safe, Dead, Leaves, Points, Below, Skips, Settles
<1>2. c.try = "no"
  BY DEF Settles
<1> HIDE DEF d
<1>3. Does(P, m, pl, <<"trust", "write">>, c, c)
  <2>1. <<"trust", "write">> \in Seq(Usual)
    BY DEF Usual, Latching, Wakes
  <2> QED
    BY <1>0, <2>1, UsualDoes
<1>4. ASSUME NEW b \in {c, d} PROVE Does(P, m, pl, <<"sample">>, b, d)
  <2>1. ASSUME NEW s \in Step, s.kind = "sample", s.at = pl PROVE Link(P, m, b, s, d)
    <3>1. Safe(m, b, pl) /\ b.try # "open" /\ (b.try # "no" => Skips(b, d))
      BY <1>1, <1>2
    <3>2. Below(Moves(b, s), d)
      <4>1. Moves(b, s) = [b EXCEPT !.try = "sampled"]
        BY <2>1, SampleMoves
      <4> QED
        BY <4>1, <1>1
    <3>3. Exits(m, b, s)
      BY <2>1, <3>1 DEF Exits, Begins, Wakes, Safe
    <3>4. Allows(P, m, b, s)
      BY <2>1, <3>1 DEF Allows, GateKinds, Begins, Wakes, Latching, LadderKinds, Resources, Adds
    <3> QED
      BY <2>1, <3>1, <3>2, <3>3, <3>4 DEF Link, Blocks, Safe
  <2> QED
    BY <1>0, <1>1, <2>1, DoesStep DEF Safe, Kinds
<1>5. ASSUME NEW k \in {"write", "trust"} PROVE Does(P, m, pl, <<k>>, d, d)
  <2>1. ASSUME NEW s \in Step, s.kind = k, s.at = pl PROVE Link(P, m, d, s, d)
    <3>1. Moves(d, s) = d
      <4>1. ~Begins(d, s)
        BY <2>1 DEF Begins
      <4> QED
        BY Zenon, <2>1, <4>1, MovesIs DEF Wakes, Latching
    <3>2. Exits(m, d, s)
      BY <2>1, <1>1 DEF Exits, Begins, Safe
    <3>3. Allows(P, m, d, s)
      BY <2>1, <1>1 DEF Allows, GateKinds, Begins, Latching, LadderKinds, Resources, Adds
    <3> QED
      BY <2>1, <1>1, <3>1, <3>2, <3>3 DEF Link, Blocks, Safe
  <2> QED
    BY <1>0, <1>1, <2>1, DoesStep DEF Safe, Kinds, Latching, Wakes
<1>6. Does(P, m, pl, <<"verdict">>, d, c)
  <2>1. ASSUME NEW s \in Step, s.kind = "verdict", s.at = pl PROVE Link(P, m, d, s, c)
    <3>1. Below(Moves(d, s), c)
      <4>1. Moves(d, s) = [d EXCEPT !.try = "no"]
        BY Zenon, <2>1, MovesIs
      <4> QED
        BY <4>1, <1>1
    <3>2. Exits(m, d, s)
      BY <2>1, <1>1 DEF Exits, Begins, Wakes, Safe
    <3>3. Allows(P, m, d, s)
      BY <2>1, <1>1 DEF Allows, GateKinds, Begins, Wakes, Latching, LadderKinds, Resources, Adds
    <3> QED
      BY <2>1, <1>1, <3>1, <3>2, <3>3 DEF Link, Blocks, Safe, Catches
  <2> QED
    BY <1>0, <1>1, <2>1, DoesStep DEF Safe, Kinds
<1>7. Does(P, m, pl, <<"trust", "write">> \o <<"sample">> \o <<"write">> \o <<"sample">>, c, d)
  BY <1>0, <1>3, <1>4, <1>5, DoesOn
<1>8. Does(P, m, pl, (<<"trust", "write">> \o <<"sample">> \o <<"write">> \o <<"sample">>) \o
                     <<"trust">> \o <<"verdict">>, c, c)
  BY <1>0, <1>5, <1>6, <1>7, DoesOn
<1>9. RadioSequence = <<"trust", "write">> \o <<"sample">> \o <<"write">> \o <<"sample">> \o
                      <<"trust">> \o <<"verdict">>
  BY DEF RadioSequence
<1> QED
  BY <1>8, <1>9

\* The pieces of the attach sequence.
LEMMA AttachParts ==
  ASSUME NEW P
  PROVE  /\ Tripoint(P) \in Seq(Usual) /\ CoreMirror \in Seq(Usual) /\ Anacore \in Seq(Usual)
         /\ PreIdentity(P) \in Seq(Usual) /\ AcphyReset \in Seq(Usual)
         /\ ShmRoundtrip \in Seq(Usual)
<1>1. <<"write">> \in Seq(Usual) /\ <<"entry">> \in Seq(Usual) /\ <<"write", "blind">> \in Seq(Usual)
  BY DEF Usual, Wakes, Calm
<1>2. Tripoint(P) \in Seq(Usual) /\ Anacore \in Seq(Usual)
  BY <1>1, EmptySeq DEF Tripoint, When, Anacore
<1>3. CoreMirror \in Seq(Usual)
  BY QuietTimes DEF CoreMirror, Usual, Wakes
<1>4. PreIdentity(P) \in Seq(Usual)
  <2>1. <<"entry", "supply", "bus", "enable", "confirm">> \in Seq(Usual)
    BY DEF Usual, Calm, Wakes, Latching
  <2> QED
    BY <1>2, <1>3, <2>1, QuietJoin DEF PreIdentity
<1>5. AcphyReset \in Seq(Usual)
  <2>1. Times(3, <<"rmw">>) \in Seq(Usual) /\ Times(4, <<"rmw">>) \in Seq(Usual)
    BY QuietTimes DEF Usual, Calm
  <2> QED
    BY <1>1, <2>1, QuietJoin DEF AcphyReset
<1>6. ShmRoundtrip \in Seq(Usual)
  <2> DEFINE p == <<"post", "read">>
  <2>1. p \in Seq(Usual) /\ p # << >>
    BY DEF Usual, Calm
  <2> HIDE DEF p
  <2>2. Times(3, p) \in Seq(Usual)
    BY <2>1, TimesIs
  <2> QED
    BY <1>1, <2>2, QuietJoin DEF ShmRoundtrip, p
<1> QED
  BY <1>2, <1>3, <1>4, <1>5, <1>6

\* A core whose identity is known.
Named(m) == [Probed(m) EXCEPT !.state = "attach"]

\* The attach sequence publishes the identity, and nothing else.
LEMMA AttachDoes ==
  ASSUME NEW P, NEW m, m # "acphy_identity_timing"
  PROVE  Does(P, m, "attach", AttachIdentity(P, ShmRoundtrip), Probed(m), Named(m))
<1> DEFINE c == Probed(m)
           d == Named(m)
<1>0. "attach" \in Places
  BY DEF Places
<1>1. /\ Safe(m, c, "attach") /\ Settles(c) /\ c.lent = {} /\ c.state = "core" /\ c.did = "none"
      /\ c.res = {} /\ c.phy = "none"
      /\ Safe(m, d, "attach") /\ Settles(d) /\ d = [c EXCEPT !.state = "attach"]
  BY DEF Named, Probed, Woken, Start, Safe, Dead, Leaves, Points, Dids, Settles
<1> HIDE DEF c, d
<1>2. Does(P, m, "attach", <<"entry">>, c, c)
  BY <1>0, <1>1, CalmDoes, <<"entry">> \in Seq(Calm) DEF Calm
<1>3. Does(P, m, "attach", <<"core_fresh">>, c, c)
  BY <1>0, <1>1, GateDoes DEF Settles, GateKinds, Opens
<1>4. Does(P, m, "attach", PreIdentity(P), c, c)
  BY <1>0, <1>1, AttachParts, UsualDoes
<1> DEFINE trip == When("p1_shm_roundtrip" \in P, <<"post">> \o ShmRoundtrip)
           first == <<"entry", "core_fresh">> \o PreIdentity(P)
<1>5. trip \in Seq(Usual)
  <2>1. <<"post">> \in Seq(Usual)
    BY DEF Usual, Calm
  <2> QED
    BY <2>1, AttachParts, QuietJoin, EmptySeq DEF When
<1>6. Does(P, m, "attach", first, c, c)
  <2>1. <<"entry", "core_fresh">> = <<"entry">> \o <<"core_fresh">>
    OBVIOUS
  <2>2. Does(P, m, "attach", <<"entry", "core_fresh">>, c, c)
    BY <1>0, <1>2, <1>3, <2>1, DoesOn
  <2> QED
    BY <1>0, <1>4, <2>2, DoesOn
<1> HIDE DEF trip, first
<1>7. Does(P, m, "attach", trip, c, c) /\ Does(P, m, "attach", Tripoint(P), c, c)
  BY <1>0, <1>1, <1>5, AttachParts, UsualDoes
<1>8. Does(P, m, "attach", <<"read">>, c, c)
  BY <1>0, <1>1, CalmDoes, <<"read">> \in Seq(Calm) DEF Calm
<1>9. Does(P, m, "attach", RadioSequence, c, c)
  BY <1>1, RadioSequenceDoes
<1>10. Does(P, m, "attach", Anacore, c, c) /\ Does(P, m, "attach", AcphyReset, d, d)
  BY <1>0, <1>1, AttachParts, UsualDoes
<1>11. Does(P, m, "attach", <<"identified">>, c, d)
  <2>1. ASSUME NEW s \in Step, s.kind = "identified", s.at = "attach" PROVE Link(P, m, c, s, d)
    <3>1. Moves(c, s) = d
      BY Zenon, <2>1, <1>1, MovesIs
    <3>2. Exits(m, c, s)
      BY <2>1, <1>1 DEF Exits, Begins, Wakes, Safe
    <3>3. Allows(P, m, c, s)
      BY <2>1, <1>1 DEF Allows, GateKinds, Begins, Wakes, Latching, LadderKinds, Resources, Adds,
         Settles
    <3> QED
      BY <2>1, <1>1, <3>1, <3>2, <3>3 DEF Link, Blocks, Below, Skips, Safe, Settles
  <2> QED
    BY <1>0, <1>1, <2>1, DoesStep DEF Safe, Kinds
<1>12. Does(P, m, "attach", first \o trip \o Tripoint(P) \o <<"read">>, c, c)
  BY <1>0, <1>6, <1>7, <1>8, DoesOn
<1>13. Does(P, m, "attach", (first \o trip \o Tripoint(P) \o <<"read">>) \o RadioSequence \o
                            Anacore \o <<"identified">> \o AcphyReset, c, d)
  BY <1>0, <1>9, <1>10, <1>11, <1>12, DoesOn
<1> QED
  BY <1>13 DEF AttachIdentity, first, trip, c, d

-----------------------------------------------------------------------------
(***************************************************************************)
(* The firmware.                                                           *)
(***************************************************************************)
\* A step of the stages at hand that changes the point.
LEMMA LeapDoes ==
  ASSUME NEW P, NEW m, NEW pl \in Places, NEW c, Safe(m, c, pl), c.try = "no",
         NEW k \in {"bus", "loaded", "common", "publish_core", "publish_ucode", "publish_common"},
         NEW d \in Points,
         \A s \in Step : s.kind = k /\ s.at = pl =>
            (Begins(c, s) => Owning(m)) /\ Allows(P, m, c, s) /\ Below(Moves(c, s), d)
  PROVE  Does(P, m, pl, <<k>>, c, d)
<1>1. k \in Kinds
  BY DEF Kinds, Wakes
<1>2. ASSUME NEW s \in Step, s.kind = k, s.at = pl PROVE Link(P, m, c, s, d)
  <2>1. Exits(m, c, s)
    BY <1>2 DEF Exits, Safe
  <2> QED
    BY <1>2, <2>1 DEF Link, Blocks, Safe
<1> QED
  BY <1>1, <1>2, DoesStep

\* The points along D2A of a core that is at c.
Begun2A(c) == [c EXCEPT !.did = "begun"]

Ready2A(c) == IF c.state = "none" THEN [Begun2A(c) EXCEPT !.state = "core"] ELSE Begun2A(c)

Done2A(c) == [Ready2A(c) EXCEPT !.did = "loaded", !.retain = TRUE]

\* Who may run D2A, and where from.
Loadable(m, c) ==
    /\ Safe(m, c, "ucode") /\ Settles(c) /\ c.did = "none" /\ c.lent = {}
    /\ c.state \in {"none", "core", "attach"} /\ CoreIsReady(m, c) /\ Owning(m)

\* The points of D2A are safe ones.
LEMMA Points2A ==
  ASSUME NEW m, NEW c, Loadable(m, c)
  PROVE  /\ Safe(m, Begun2A(c), "ucode") /\ Settles(Begun2A(c)) /\ Begun2A(c).did = "begun"
         /\ Begun2A(c).state = c.state
         /\ Safe(m, Ready2A(c), "ucode") /\ Settles(Ready2A(c)) /\ Ready2A(c).did = "begun"
         /\ Safe(m, Done2A(c), "ucode") /\ Settles(Done2A(c)) /\ Done2A(c).did = "loaded"
         /\ Safe(m, Done2A(c), "common")
<1>1. c \in Points /\ c.res = {} /\ c.state # "never" /\ c.state # "post_ucode"
  BY DEF Loadable, Safe
<1>2. /\ Begun2A(c) \in Points /\ Begun2A(c).did = "begun" /\ Begun2A(c).state = c.state
      /\ Begun2A(c).lent = {} /\ Begun2A(c).res = {} /\ Settles(Begun2A(c))
  BY <1>1 DEF Begun2A, Loadable, Points, Dids, Settles
<1>3. /\ Ready2A(c) \in Points /\ Ready2A(c).did = "begun" /\ Ready2A(c).state \in {"core", "attach"}
      /\ Ready2A(c).lent = {} /\ Ready2A(c).res = {} /\ Settles(Ready2A(c))
  BY <1>2 DEF Ready2A, Loadable, Points, Settles
<1>4. /\ Done2A(c) \in Points /\ Done2A(c).did = "loaded" /\ Done2A(c).state \in {"core", "attach"}
      /\ Done2A(c).lent = {} /\ Done2A(c).res = {} /\ Settles(Done2A(c))
  BY <1>3 DEF Done2A, Points, Settles, Dids
<1> QED
  BY <1>1, <1>2, <1>3, <1>4 DEF Safe, Leaves, Dead, Loadable

\* ob_ucore_prepare and what comes before it: the core is begun with, and published.
LEMMA PrepareDoes ==
  ASSUME NEW P, NEW m, NEW c, Loadable(m, c)
  PROVE  Does(P, m, "ucode", D2APrepare, c, Ready2A(c))
<1> DEFINE b == Begun2A(c)
           r == Ready2A(c)
<1>0. "ucode" \in Places
  BY DEF Places
<1>1. Safe(m, c, "ucode") /\ c.try = "no" /\ Settles(c) /\ c.did = "none"
  BY DEF Loadable, Settles
<1>2. /\ Safe(m, b, "ucode") /\ Settles(b) /\ b.did = "begun" /\ b.state = c.state
      /\ Safe(m, r, "ucode") /\ b.try = "no"
  BY Points2A DEF Settles
<1>3. b \in Points /\ r \in Points
  BY <1>2 DEF Safe
<1>4. r = IF b.state = "none" THEN [b EXCEPT !.state = "core"] ELSE b
  BY <1>2 DEF Ready2A
<1>5. b = [c EXCEPT !.did = "begun"]
  BY DEF Begun2A
<1> HIDE DEF b, r
<1>6. <<"entry", "supply", "supply">> \o <<"entry">> \in Seq(Calm)
  BY DEF Calm
<1>7. Does(P, m, "ucode", <<"entry", "supply", "supply">> \o <<"entry">>, c, c)
  BY <1>0, <1>1, <1>6, CalmDoes
<1>8. Does(P, m, "ucode", <<"core_ready">>, c, c)
  <2>1. ASSUME NEW s \in Step, s.kind = "core_ready", s.at = "ucode" PROVE Link(P, m, c, s, c)
    <3>1. Moves(c, s) = c
      BY Zenon, <2>1, MovesIs DEF GateKinds
    <3>2. Exits(m, c, s)
      BY <2>1, <1>1 DEF Exits, Begins, Wakes, Safe
    <3>3. Allows(P, m, c, s)
      BY <2>1, <1>1 DEF Allows, GateKinds, Opens, Loadable, Begins, Wakes, Latching, LadderKinds,
         Resources, Adds
    <3> QED
      BY <2>1, <1>1, <3>1, <3>2, <3>3 DEF Link, Blocks, Below, Skips, Safe, Loadable
  <2> QED
    BY <1>0, <1>1, <2>1, DoesStep DEF Safe, Kinds, GateKinds
<1>9. Does(P, m, "ucode", Snapshot, c, c)
  <2>1. "snapshot" \in Kinds /\ "snapshot" \in Usual /\ "snapshot" \notin Wakes /\ c \in Points
    BY <1>1 DEF Kinds, Usual, Latching, Wakes, Safe
  <2>2. Link(P, m, c, [kind |-> "snapshot", at |-> "ucode"], c)
    BY <1>0, <1>1, <2>1, UsualStays
  <2> QED
    BY <1>0, <2>1, <2>2, DoesOne DEF Snapshot
<1>10. Does(P, m, "ucode", <<"bus">>, c, b)
  <2>1. ASSUME NEW s \in Step, s.kind = "bus", s.at = "ucode"
        PROVE  (Begins(c, s) => Owning(m)) /\ Allows(P, m, c, s) /\ Below(Moves(c, s), b)
    <3>1. Begins(c, s)
      BY <2>1, <1>1 DEF Begins, Wakes
    <3>2. Moves(c, s) = b
      BY Zenon, <2>1, <3>1, <1>5, MovesIs DEF Wakes
    <3>3. Allows(P, m, c, s)
      BY <2>1, <1>1 DEF Allows, GateKinds, Latching, LadderKinds, Resources, Adds
    <3> QED
      BY <3>2, <3>3 DEF Below, Skips, Loadable
  <2> QED
    BY <1>0, <1>1, <1>3, <2>1, LeapDoes
<1>11. Does(P, m, "ucode", Snapshot \o <<"enable">> \o Snapshot, b, b)
  <2>1. Snapshot \o <<"enable">> \o Snapshot \in Seq(Usual)
    BY DEF Snapshot, Usual, Latching, Wakes
  <2> QED
    BY <1>0, <1>2, <2>1, UsualDoes
<1>12. Does(P, m, "ucode", <<"bus", "confirm", "check">>, b, b)
  BY <1>0, <1>2, UsualDoes, <<"bus", "confirm", "check">> \in Seq(Usual) DEF Usual, Latching, Wakes
<1>13. Does(P, m, "ucode", <<"publish_core">>, b, r)
  <2>1. ASSUME NEW s \in Step, s.kind = "publish_core", s.at = "ucode"
        PROVE  (Begins(b, s) => Owning(m)) /\ Allows(P, m, b, s) /\ Below(Moves(b, s), r)
    <3>1. ~Begins(b, s)
      BY <2>1, <1>2 DEF Begins
    <3>2. Moves(b, s) = r
      BY Zenon, <2>1, <1>4, MovesIs
    <3>3. Allows(P, m, b, s)
      BY <2>1, <1>2, <3>1 DEF Allows, GateKinds, Latching, LadderKinds, Resources, Adds
    <3> QED
      BY <3>1, <3>2, <3>3 DEF Below, Skips
  <2> QED
    BY <1>0, <1>2, <1>3, <2>1, LeapDoes
<1>14. Does(P, m, "ucode",
            (<<"entry", "supply", "supply">> \o <<"entry">>) \o <<"core_ready">> \o Snapshot, c, c)
  BY <1>0, <1>7, <1>8, <1>9, DoesOn
<1>15. Does(P, m, "ucode", (Snapshot \o <<"enable">> \o Snapshot) \o
                           <<"bus", "confirm", "check">> \o <<"publish_core">>, b, r)
  BY <1>0, <1>11, <1>12, <1>13, DoesOn
<1>16. Does(P, m, "ucode", ((<<"entry", "supply", "supply">> \o <<"entry">>) \o <<"core_ready">> \o Snapshot) \o
         (<<"bus">> \o ((Snapshot \o <<"enable">> \o Snapshot) \o <<"bus", "confirm", "check">> \o <<"publish_core">>)), c, r)
  BY <1>0, <1>10, <1>14, <1>15, DoesOn
<1>17. D2APrepare = ((<<"entry", "supply", "supply">> \o <<"entry">>) \o <<"core_ready">> \o Snapshot) \o
         (<<"bus">> \o ((Snapshot \o <<"enable">> \o Snapshot) \o <<"bus", "confirm", "check">> \o <<"publish_core">>))
  BY DEF D2APrepare, UcodePrepare, Snapshot
<1> QED
  BY <1>16, <1>17 DEF r

\* D2A leaves a core that is loaded, and retained.
LEMMA D2ADoes ==
  ASSUME NEW P, NEW m, NEW c, Loadable(m, c)
  PROVE  Does(P, m, "ucode", D2A, c, Done2A(c))
<1> DEFINE r == Ready2A(c)
           f == Done2A(c)
<1>0. "ucode" \in Places
  BY DEF Places
<1>1. /\ Safe(m, r, "ucode") /\ Settles(r) /\ r.did = "begun" /\ r.try = "no"
      /\ Safe(m, f, "ucode") /\ f = [r EXCEPT !.did = "loaded", !.retain = TRUE]
  BY Points2A DEF Done2A, Settles
<1> HIDE DEF r, f
<1>2. Does(P, m, "ucode", D2APrepare, c, r)
  BY PrepareDoes DEF r
<1>3. D2AUpload \in Seq(Usual) /\ <<"write", "trust", "write", "check", "check">> \in Seq(Usual)
  BY DEF D2AUpload, Usual, Wakes, Latching
<1>4. /\ Does(P, m, "ucode", D2AUpload, r, r)
      /\ Does(P, m, "ucode", <<"write", "trust", "write", "check", "check">>, r, r)
  BY <1>0, <1>1, <1>3, UsualDoes
<1>5. Does(P, m, "ucode", <<"loaded">>, r, f)
  <2>1. ASSUME NEW s \in Step, s.kind = "loaded", s.at = "ucode"
        PROVE  (Begins(r, s) => Owning(m)) /\ Allows(P, m, r, s) /\ Below(Moves(r, s), f)
    <3>1. ~Begins(r, s)
      BY <2>1, <1>1 DEF Begins
    <3>2. Moves(r, s) = f
      BY Zenon, <2>1, <1>1, MovesIs
    <3>3. Allows(P, m, r, s)
      BY <2>1, <1>1, <3>1 DEF Allows, GateKinds, Latching, LadderKinds, Resources, Adds
    <3> QED
      BY <3>1, <3>2, <3>3 DEF Below, Skips
  <2>2. f \in Points
    BY <1>1 DEF Safe
  <2> QED
    BY <1>0, <1>1, <2>1, <2>2, LeapDoes
<1>6. D2AStart = <<"write", "trust", "write", "check", "check">> \o <<"loaded">>
  BY DEF D2AStart
<1>7. Does(P, m, "ucode", D2AStart, r, f)
  BY <1>0, <1>4, <1>5, <1>6, DoesOn
<1> QED
  BY <1>0, <1>2, <1>4, <1>7, DoesOn DEF D2A, f

-----------------------------------------------------------------------------
\* The common initvals leave a core with its common values.
LEMMA InitvalsDoes ==
  ASSUME NEW P, NEW m, NEW c, Safe(m, c, "common"), Settles(c), c.did = "loaded"
  PROVE  /\ Does(P, m, "common", Initvals, c, [c EXCEPT !.did = "common"])
         /\ Safe(m, [c EXCEPT !.did = "common"], "common")
<1> DEFINE d == [c EXCEPT !.did = "common"]
<1>0. "common" \in Places /\ c.try = "no"
  BY DEF Places, Settles
<1>1. Safe(m, d, "common")
  BY DEF Safe, Leaves, Dead, Points, Dids
<1>2. Does(P, m, "common", <<"supply", "supply", "post", "read">>, c, c)
  BY <1>0, CalmDoes, <<"supply", "supply", "post", "read">> \in Seq(Calm) DEF Calm
<1>3. Does(P, m, "common", <<"common">>, c, d)
  <2>1. ASSUME NEW s \in Step, s.kind = "common", s.at = "common"
        PROVE  (Begins(c, s) => Owning(m)) /\ Allows(P, m, c, s) /\ Below(Moves(c, s), d)
    <3>1. ~Begins(c, s)
      BY <2>1 DEF Begins
    <3>2. Moves(c, s) = d
      BY Zenon, <2>1, MovesIs
    <3>3. Allows(P, m, c, s)
      BY <2>1, <1>0, <3>1 DEF Allows, GateKinds, Latching, LadderKinds, Resources, Adds
    <3> QED
      BY <3>1, <3>2, <3>3 DEF Below, Skips
  <2>2. d \in Points
    BY <1>1 DEF Safe
  <2> HIDE DEF d
  <2> QED
    BY <1>0, <2>1, <2>2, LeapDoes
<1>4. Initvals = <<"supply", "supply", "post", "read">> \o <<"common">>
  BY DEF Initvals
<1>5. Does(P, m, "common", Initvals, c, d)
  BY <1>0, <1>2, <1>3, <1>4, DoesOn
<1> QED
  BY <1>1, <1>5

\* Three, four or five programs in a row.
LEMMA RunsThrice ==
  ASSUME NEW P, NEW m, NEW p, NEW q, NEW r, NEW b, NEW c, NEW d, NEW e,
         Runs(P, m, p, b, c), Runs(P, m, q, c, d), Runs(P, m, r, d, e)
  PROVE  Runs(P, m, p \o q \o r, b, e)
BY RunsOn

\* D2A and D2B on a probe's own account: nothing is published.
LEMMA OwnChainDoes ==
  ASSUME NEW P, NEW m, m \in Firmware
  PROVE  LET d == [Done2A(Start) EXCEPT !.did = "common"]
         IN  /\ Runs(P, m, Chain(FALSE), Start, d)
             /\ Safe(m, d, "common") /\ Safe(m, d, "dma") /\ Settles(d) /\ d.lent = {}
<1> DEFINE c == Start
           f == Done2A(Start)
           d == [Done2A(Start) EXCEPT !.did = "common"]
<1>0. "common" \in Places /\ "gate" \in Places /\ "ucode" \in Places
  BY DEF Places
<1>1. m # "normal" /\ Owning(m)
  BY DEF Firmware, DmaModes, Owning
<1>2. Loadable(m, Start) /\ Safe(m, Start, "gate")
  BY <1>1 DEF Loadable, CoreIsReady, Start, Safe, Leaves, Dead, Points, Dids, Settles
<1>3. /\ Safe(m, f, "ucode") /\ Settles(f) /\ f.did = "loaded" /\ Safe(m, f, "common")
  BY <1>2, Points2A
<1>4. f.lent = {} /\ f.state = "core"
  BY DEF Done2A, Ready2A, Begun2A, Start
<1>5. Does(P, m, "gate", IdentityGate, Start, Start)
  BY <1>0, <1>2, SiParts, CalmDoes
<1>6. Does(P, m, "ucode", D2A, Start, f)
  BY <1>2, D2ADoes
<1> HIDE DEF f
<1>7. Does(P, m, "common", Initvals, f, d) /\ Safe(m, d, "common")
  BY <1>3, InitvalsDoes DEF f
<1>8. d = [f EXCEPT !.did = "common"]
  BY DEF f
<1>9. Safe(m, d, "dma") /\ Settles(d) /\ d.lent = {}
  <2>1. f \in Points
    BY <1>3 DEF Safe
  <2> HIDE DEF d
  <2> QED
    BY <1>1, <1>3, <1>4, <1>7, <1>8, <2>1 DEF Safe, Leaves, Dead, Settles, Points
<1> HIDE DEF d
<1>10. /\ Does(P, m, "common", When(FALSE, <<"publish_ucode">>), f, f)
       /\ Does(P, m, "common", When(FALSE, <<"publish_common">>), d, d)
  BY <1>0, <1>3, <1>7, DoesWhen DEF Safe
<1>11. Runs(P, m, Stage("gate", IdentityGate) \o Stage("ucode", D2A) \o
                  Stage("common", When(FALSE, <<"publish_ucode">>)), Start, f)
  BY <1>5, <1>6, <1>10, RunsThrice DEF Does
<1>12. Runs(P, m, (Stage("gate", IdentityGate) \o Stage("ucode", D2A) \o
                   Stage("common", When(FALSE, <<"publish_ucode">>))) \o
                  Stage("common", Initvals) \o
                  Stage("common", When(FALSE, <<"publish_common">>)), Start, d)
  BY <1>7, <1>10, <1>11, RunsThrice DEF Does
<1> QED
  BY <1>7, <1>9, <1>12 DEF Chain, d

\* A core behind the firmware chain.
Chained(m) ==
    [Start EXCEPT !.state = "post_ucode", !.did = "common", !.otp = (m = "class0_postbmac")]

\* The chain that ob_fw_chain_run runs leads through the lifecycle.
LEMMA PublishedChainDoes ==
  ASSUME NEW P, NEW m, m \notin Isolated, m # "acphy_identity_timing"
  PROVE  Runs(P, m, PublishedChain, Named(m), Chained(m))
<1> DEFINE c == Named(m)
           f == Done2A(c)
           g == [f EXCEPT !.state = "suspended"]
           h == [g EXCEPT !.did = "common"]
           t == Chained(m)
<1>0. "common" \in Places /\ "gate" \in Places /\ "ucode" \in Places /\ Owning(m)
  BY DEF Places, Owning
<1>1. /\ c \in Points /\ c.state = "attach" /\ c.did = "none" /\ ~c.retain /\ c.phy = "none"
      /\ c.lent = {} /\ c.try = "no" /\ ~c.lossy /\ c.res = {} /\ c.otp = (m = "class0_postbmac")
  BY DEF Named, Probed, Woken, Start, Points, Dids
<1> HIDE DEF c
<1>2. Loadable(m, c) /\ Safe(m, c, "gate") /\ Settles(c)
  BY <1>0, <1>1 DEF Loadable, CoreIsReady, Safe, Leaves, Dead, Settles
<1>3. /\ Safe(m, f, "common") /\ Settles(f) /\ f.did = "loaded" /\ f \in Points
      /\ f.state = "attach" /\ f.retain /\ f.phy = "none" /\ f.lent = {} /\ f.res = {}
      /\ f.otp = c.otp
  <2>1. Safe(m, f, "common") /\ Settles(f) /\ f.did = "loaded"
    BY <1>2, Points2A
  <2> QED
    BY <1>1, <2>1 DEF Done2A, Ready2A, Begun2A, Points, Safe
<1> HIDE DEF f
<1>4. /\ Safe(m, g, "common") /\ Settles(g) /\ g.did = "loaded" /\ g \in Points
      /\ g.state = "suspended" /\ g.retain /\ g.phy = "none" /\ g.lent = {} /\ g.res = {}
      /\ g.otp = c.otp
  BY <1>0, <1>3 DEF Safe, Leaves, Dead, Points, Settles
<1> HIDE DEF g
<1>5. /\ Safe(m, h, "common") /\ Settles(h) /\ h.did = "common" /\ h \in Points
      /\ h.state = "suspended" /\ h.retain /\ h.phy = "none" /\ h.lent = {} /\ h.res = {}
      /\ h.otp = c.otp
  BY <1>0, <1>4 DEF Safe, Leaves, Dead, Points, Settles, Dids
<1>6. /\ t \in Points /\ t.state = "post_ucode" /\ t.did = "common" /\ ~t.retain /\ t.phy = "none"
      /\ t.lent = {} /\ t.try = "no" /\ ~t.lossy /\ t.res = {} /\ t.otp = c.otp
  BY <1>1 DEF Chained, Start, Points, Dids
<1> HIDE DEF t
<1>7. Does(P, m, "gate", <<"entry", "attach_ready", "unretained">>, c, c)
  <2>1. Does(P, m, "gate", <<"entry">>, c, c)
    BY <1>0, <1>2, CalmDoes, <<"entry">> \in Seq(Calm) DEF Calm
  <2>2. Does(P, m, "gate", <<"attach_ready">>, c, c) /\ Does(P, m, "gate", <<"unretained">>, c, c)
    BY <1>0, <1>1, <1>2, GateDoes DEF GateKinds, Opens
  <2>3. <<"entry", "attach_ready", "unretained">> = <<"entry">> \o <<"attach_ready">> \o <<"unretained">>
    OBVIOUS
  <2> QED
    BY <1>0, <2>1, <2>2, <2>3, DoesThrice
<1>8. Does(P, m, "gate", IdentityGate, c, c)
  BY <1>0, <1>2, SiParts, CalmDoes
<1>9. Does(P, m, "ucode", D2A, c, f)
  BY <1>2, D2ADoes DEF f
<1>10. Does(P, m, "common", When(TRUE, <<"publish_ucode">>), f, g)
  <2>1. ASSUME NEW s \in Step, s.kind = "publish_ucode", s.at = "common"
        PROVE  (Begins(f, s) => Owning(m)) /\ Allows(P, m, f, s) /\ Below(Moves(f, s), g)
    <3>1. ~Begins(f, s)
      BY <2>1 DEF Begins
    <3>2. Moves(f, s) = g
      BY Zenon, <2>1, MovesIs DEF g
    <3>3. Allows(P, m, f, s)
      BY <2>1, <1>3, <3>1 DEF Allows, GateKinds, Latching, LadderKinds, Resources, Adds, Settles
    <3> QED
      BY <3>1, <3>2, <3>3 DEF Below, Skips
  <2>2. Does(P, m, "common", <<"publish_ucode">>, f, g)
    BY <1>0, <1>3, <1>4, <2>1, LeapDoes DEF Settles
  <2> QED
    BY <2>2 DEF When
<1>11. Does(P, m, "common", Initvals, g, h)
  BY <1>4, InitvalsDoes
<1> HIDE DEF h
<1>12. Does(P, m, "common", When(TRUE, <<"publish_common">>), h, t)
  <2>1. ASSUME NEW s \in Step, s.kind = "publish_common", s.at = "common"
        PROVE  (Begins(h, s) => Owning(m)) /\ Allows(P, m, h, s) /\ Below(Moves(h, s), t)
    <3>1. ~Begins(h, s)
      BY <2>1 DEF Begins
    <3>2. Moves(h, s) = [h EXCEPT !.state = "post_ucode", !.retain = FALSE]
      BY Zenon, <2>1, MovesIs
    <3>3. Allows(P, m, h, s)
      BY <2>1, <1>5, <3>1 DEF Allows, GateKinds, Latching, LadderKinds, Resources, Adds, Settles
    <3> QED
      BY <1>5, <1>6, <3>1, <3>2, <3>3 DEF Below, Skips, Points, Settles
  <2>2. Does(P, m, "common", <<"publish_common">>, h, t)
    BY <1>0, <1>5, <1>6, <2>1, LeapDoes DEF Settles
  <2> QED
    BY <2>2 DEF When
<1>13. Runs(P, m, Stage("gate", IdentityGate) \o Stage("ucode", D2A) \o
                  Stage("common", When(TRUE, <<"publish_ucode">>)), c, g)
  BY <1>8, <1>9, <1>10, RunsThrice DEF Does
<1>14. Runs(P, m, Chain(TRUE), c, t)
  <2>1. Runs(P, m, (Stage("gate", IdentityGate) \o Stage("ucode", D2A) \o
                   Stage("common", When(TRUE, <<"publish_ucode">>))) \o
                  Stage("common", Initvals) \o
                  Stage("common", When(TRUE, <<"publish_common">>)), c, t)
    BY <1>11, <1>12, <1>13, RunsThrice DEF Does
  <2> QED
    BY <2>1 DEF Chain
<1>15. Runs(P, m, Stage("gate", <<"entry", "attach_ready", "unretained">>) \o Chain(TRUE), c, t)
  BY <1>7, <1>14, RunsOn DEF Does
<1> QED
  BY <1>15 DEF PublishedChain, c, t

-----------------------------------------------------------------------------
(***************************************************************************)
(* The PHY and the radio.                                                  *)
(***************************************************************************)
\* A PHY that is ready, with some radio bits lent, and one further on.
Lent(m, l) == [Chained(m) EXCEPT !.phy = "ready", !.lent = l]

Later(m, p) == [Chained(m) EXCEPT !.phy = p]

Bits == RadioBits \cup {"019e"}

\* What is known at the points of the PHY stages.
LEMMA PhasePoints ==
  ASSUME NEW m
  PROVE  /\ \A l \in SUBSET Bits :
              /\ Lent(m, l) \in Points /\ Lent(m, l).state = "post_ucode"
              /\ Lent(m, l).did = "common" /\ ~Lent(m, l).retain /\ Lent(m, l).phy = "ready"
              /\ Lent(m, l).lent = l /\ Lent(m, l).try = "no" /\ ~Lent(m, l).lossy
              /\ Lent(m, l).res = {} /\ Lent(m, l).otp = (m = "class0_postbmac")
         /\ \A p \in {"none", "ready", "rev1", "complete"} :
              /\ Later(m, p) \in Points /\ Later(m, p).state = "post_ucode"
              /\ Later(m, p).did = "common" /\ ~Later(m, p).retain /\ Later(m, p).phy = p
              /\ Later(m, p).lent = {} /\ Later(m, p).try = "no" /\ ~Later(m, p).lossy
              /\ Later(m, p).res = {} /\ Later(m, p).otp = (m = "class0_postbmac")
         /\ Lent(m, {}) = Later(m, "ready") /\ Chained(m) = Later(m, "none")
<1>1. /\ Chained(m) \in Points /\ Chained(m).state = "post_ucode"
      /\ Chained(m).did = "common" /\ ~Chained(m).retain /\ Chained(m).phy = "none"
      /\ Chained(m).lent = {} /\ Chained(m).try = "no" /\ ~Chained(m).lossy
      /\ Chained(m).res = {} /\ Chained(m).otp = (m = "class0_postbmac")
  BY DEF Chained, Start, Points, Dids
<1>2. SUBSET Bits \subseteq SUBSET Lendable
  BY DEF Bits, Lendable
<1>3. Chained(m) = Later(m, "none")
  BY <1>1 DEF Later, Points
<1>4. Lent(m, {}) = Later(m, "ready")
  BY <1>1 DEF Later, Lent, Points
<1>5. \A l \in SUBSET Bits :
        /\ Lent(m, l) \in Points /\ Lent(m, l).state = "post_ucode"
        /\ Lent(m, l).did = "common" /\ ~Lent(m, l).retain /\ Lent(m, l).phy = "ready"
        /\ Lent(m, l).lent = l /\ Lent(m, l).try = "no" /\ ~Lent(m, l).lossy
        /\ Lent(m, l).res = {} /\ Lent(m, l).otp = (m = "class0_postbmac")
  <2> SUFFICES ASSUME NEW l \in SUBSET Bits
        PROVE /\ Lent(m, l) \in Points /\ Lent(m, l).state = "post_ucode"
        /\ Lent(m, l).did = "common" /\ ~Lent(m, l).retain /\ Lent(m, l).phy = "ready"
        /\ Lent(m, l).lent = l /\ Lent(m, l).try = "no" /\ ~Lent(m, l).lossy
        /\ Lent(m, l).res = {} /\ Lent(m, l).otp = (m = "class0_postbmac")
    OBVIOUS
  <2>1. l \in SUBSET Lendable
    BY <1>2
  <2> QED
    BY <1>1, <2>1 DEF Lent, Points
<1>6. \A p \in {"none", "ready", "rev1", "complete"} :
        /\ Later(m, p) \in Points /\ Later(m, p).state = "post_ucode"
        /\ Later(m, p).did = "common" /\ ~Later(m, p).retain /\ Later(m, p).phy = p
        /\ Later(m, p).lent = {} /\ Later(m, p).try = "no" /\ ~Later(m, p).lossy
        /\ Later(m, p).res = {} /\ Later(m, p).otp = (m = "class0_postbmac")
  BY <1>1 DEF Later, Points
<1> QED
  BY <1>3, <1>4, <1>5, <1>6

\* The stages of a PHY that is brought up; the normal path has none.
PhaseMode(m) == m \notin Isolated /\ m \notin {"normal", "acphy_identity_timing"}

\* They may be abandoned at any of these points.
LEMMA PhaseSafe ==
  ASSUME NEW m, PhaseMode(m), NEW pl \in {"pre_radio", "phase", "inputs"}
  PROVE  /\ \A l \in SUBSET Bits : Safe(m, Lent(m, l), pl) /\ Settles(Lent(m, l))
         /\ \A p \in {"none", "ready", "rev1", "complete"} :
              Safe(m, Later(m, p), pl) /\ Settles(Later(m, p))
<1>1. "power" \notin Bits /\ "controls" \notin Bits
  BY DEF Bits, RadioBits
<1>2. ASSUME NEW c \in Points, c.state = "post_ucode", c.did = "common", c.try = "no", ~c.lossy, c.res = {},
             c.lent \in SUBSET Bits
      PROVE  Safe(m, c, pl) /\ Settles(c)
  <2>1. c.lent \cap {"power", "controls"} = {}
    BY <1>1, <1>2
  <2> QED
    BY <1>2, <2>1 DEF Safe, Leaves, Dead, Settles, PhaseMode
<1> QED
  BY <1>2, PhasePoints

\* ob_acphy_pre_radio_test makes the PHY ready; what is known may be given up there.
LEMMA PreRadioDoes ==
  ASSUME NEW P, NEW m, PhaseMode(m), NEW l \in SUBSET Bits
  PROVE  Does(P, m, "pre_radio", PreRadio, Chained(m), Lent(m, l))
<1> DEFINE c == Chained(m)
           d == Lent(m, l)
<1>0. "pre_radio" \in Places
  BY DEF Places
<1>1. /\ Safe(m, c, "pre_radio") /\ Settles(c) /\ c.state = "post_ucode" /\ c.try = "no"
      /\ c.res = {} /\ c.did = "common"
      /\ d \in Points /\ Below([c EXCEPT !.phy = "ready"], d)
  <2>1. /\ c \in Points /\ c.state = "post_ucode" /\ c.did = "common" /\ ~c.retain
        /\ c.lent = {} /\ c.try = "no" /\ ~c.lossy /\ c.res = {} /\ c.otp = (m = "class0_postbmac")
        /\ Safe(m, c, "pre_radio") /\ Settles(c)
    BY PhasePoints, PhaseSafe
  <2>2. /\ d \in Points /\ d.state = "post_ucode" /\ d.did = "common" /\ ~d.retain
        /\ d.phy = "ready" /\ d.try = "no" /\ d.res = {} /\ d.otp = (m = "class0_postbmac")
    BY PhasePoints
  <2> HIDE DEF c, d
  <2> QED
    BY <2>1, <2>2 DEF Below, Skips, Points
<1> HIDE DEF c, d
<1>2. Does(P, m, "pre_radio", <<"entry">>, c, c) /\ Does(P, m, "pre_radio", <<"supply">>, c, c)
  BY <1>0, <1>1, CalmDoes, <<"entry">> \in Seq(Calm), <<"supply">> \in Seq(Calm) DEF Calm
<1>3. Does(P, m, "pre_radio", <<"post_ucode">>, c, c)
  BY <1>0, <1>1, GateDoes DEF GateKinds, Opens
<1>4. Does(P, m, "pre_radio", PreRadioRun \o <<"read", "read">>, c, c)
  <2>1. PreRadioRun \o <<"read", "read">> \in Seq(Usual)
    BY DEF PreRadioRun, Usual, Calm, Latching, Wakes
  <2> QED
    BY <1>0, <1>1, <2>1, UsualDoes
<1>5. Does(P, m, "pre_radio", <<"ready">>, c, d)
  <2>1. ASSUME NEW s \in Step, s.kind = "ready", s.at = "pre_radio" PROVE Link(P, m, c, s, d)
    <3>1. Below(Moves(c, s), d)
      <4>1. Moves(c, s) = [c EXCEPT !.phy = "ready"]
        BY Zenon, <2>1, MovesIs
      <4> QED
        BY <4>1, <1>1
    <3>2. Exits(m, c, s)
      BY <2>1, <1>1 DEF Exits, Begins, Wakes, Safe
    <3>3. Allows(P, m, c, s)
      BY <2>1, <1>1 DEF Allows, GateKinds, Begins, Wakes, Latching, LadderKinds, Resources, Adds
    <3> QED
      BY <2>1, <1>1, <3>1, <3>2, <3>3 DEF Link, Blocks, Safe
  <2> QED
    BY <1>0, <1>1, <2>1, DoesStep DEF Safe, Kinds
<1>6. Does(P, m, "pre_radio", <<"entry">> \o <<"post_ucode">> \o <<"supply">>, c, c)
  BY <1>0, <1>2, <1>3, DoesOn
<1>7. Does(P, m, "pre_radio", (<<"entry">> \o <<"post_ucode">> \o <<"supply">>) \o
                              (PreRadioRun \o <<"read", "read">>) \o <<"ready">>, c, d)
  BY <1>0, <1>4, <1>5, <1>6, DoesThrice
<1>8. PreRadio = (<<"entry">> \o <<"post_ucode">> \o <<"supply">>) \o
                 (PreRadioRun \o <<"read", "read">>) \o <<"ready">>
  BY DEF PreRadio, PreRadioRun
<1> QED
  BY <1>7, <1>8 DEF c, d

\* The phases of class 0 set and clear radio bits as they like until the suffix.
Busy == Usual \cup {"post_ucode", "ready_gate"} \cup DOMAIN Sets \cup DOMAIN Clears

\* The three phases of class 0 may lend any radio bit, and say so from the start.
LEMMA BusyDoes ==
  ASSUME NEW P, NEW m, PhaseMode(m), NEW kinds \in Seq(Busy)
  PROVE  Does(P, m, "phase", kinds, Lent(m, RadioBits), Lent(m, RadioBits))
<1> DEFINE c == Lent(m, RadioBits)
<1>0. "phase" \in Places
  BY DEF Places
<1>1. /\ Safe(m, c, "phase") /\ Settles(c) /\ c.state = "post_ucode" /\ c.try = "no"
      /\ c.res = {} /\ c.did = "common" /\ c.phy = "ready" /\ c.lent = RadioBits /\ c \in Points
  <2>1. RadioBits \in SUBSET Bits
    BY DEF Bits
  <2> QED
    BY <2>1, PhasePoints, PhaseSafe
<1> HIDE DEF c
<1>2. Busy \in SUBSET Kinds
  BY DEF Busy, Kinds, Usual, GateKinds, Sets, Clears, Adds, Drops
<1>3. ASSUME NEW k \in Busy PROVE Link(P, m, c, [kind |-> k, at |-> "phase"], c)
  <2> DEFINE s == [kind |-> k, at |-> "phase"]
  <2>1. s.kind = k /\ s.at = "phase"
    OBVIOUS
  <2> HIDE DEF s
  <2>2. ~Begins(c, s)
    BY <2>1 DEF Begins
  <2>3. CASE k \in Usual
    BY <2>3, <1>0, <1>1, UsualStays
  <2>4. CASE k \in Busy \ Usual
    <3>1. k \in {"post_ucode", "ready_gate"} \cup DOMAIN Sets \cup DOMAIN Clears
      BY <2>4 DEF Busy
    <3>2. Below(Moves(c, s), c)
      <4>1. CASE k \in {"post_ucode", "ready_gate"}
        <5>1. Moves(c, s) = c
          BY Zenon, <2>1, <4>1, MovesIs DEF GateKinds
        <5> QED
          BY <5>1 DEF Below, Skips
      <4>2. CASE k \in DOMAIN Sets \cup DOMAIN Clears
        <5> DEFINE z == Moves(c, s)
        <5>1. /\ s.kind \in DOMAIN Adds \cup DOMAIN Drops
              /\ s.kind \in DOMAIN Adds => Adds[s.kind] \in RadioBits
          BY <2>1, <4>2 DEF Sets, Clears, Adds, Drops, RadioBits
        <5>2. /\ z.state = c.state /\ z.did = c.did /\ z.retain = c.retain /\ z.phy = c.phy
              /\ z.try = c.try /\ z.res = c.res /\ z.lossy = c.lossy /\ z.otp = c.otp
              /\ \A b \in z.lent : b \in RadioBits
          BY <1>1, <5>1, LentMoves
        <5> HIDE DEF z
        <5> QED
          BY <1>1, <5>2 DEF Below, Skips, z
      <4> QED
        BY <3>1, <4>1, <4>2
    <3>3. Exits(m, c, s)
      BY <2>1, <2>2, <3>1, <1>1 DEF Exits, Safe, Sets, Clears
    <3>4. Allows(P, m, c, s)
      BY <2>1, <2>2, <3>1, <1>1 DEF Allows, GateKinds, Opens, Latching, LadderKinds, Resources,
         Sets, Clears
    <3> QED
      BY <2>1, <1>1, <3>1, <3>2, <3>3, <3>4 DEF Link, Blocks, Safe, s, Sets, Clears
  <2> QED
    BY <2>3, <2>4
<1> QED
  BY <1>0, <1>1, <1>2, <1>3, DoesStill DEF c

-----------------------------------------------------------------------------
\* A bit that is put back, or for the tables of the radio prefix changed.
LEMMA LentDoes ==
  ASSUME NEW P, NEW m, PhaseMode(m), NEW l \in SUBSET Bits, NEW n \in SUBSET Bits,
         NEW k \in DOMAIN Clears \cup {"clear_019e", "set_019e"},
         \A b \in Bits : b \in n <=>
            IF k \in DOMAIN Drops THEN b \in l /\ b # Drops[k] ELSE b \in l \/ b = Adds[k]
  PROVE  Does(P, m, "phase", <<k>>, Lent(m, l), Lent(m, n))
<1> DEFINE c == Lent(m, l)
           d == Lent(m, n)
<1>0. "phase" \in Places /\ k \in Kinds
  BY DEF Places, Kinds, Clears, Adds, Drops
<1>1. /\ Safe(m, c, "phase") /\ Settles(c) /\ c.state = "post_ucode" /\ c.try = "no"
      /\ c.res = {} /\ c.did = "common" /\ c.phy = "ready" /\ c.lent = l /\ c \in Points
      /\ ~c.retain /\ ~c.lossy /\ c.otp = (m = "class0_postbmac")
  BY PhasePoints, PhaseSafe
<1>2. /\ d.state = "post_ucode" /\ d.try = "no" /\ ~d.retain /\ ~d.lossy
      /\ d.res = {} /\ d.did = "common" /\ d.phy = "ready" /\ d.lent = n /\ d \in Points
      /\ d.otp = (m = "class0_postbmac")
  <2>1. /\ d \in Points /\ d.state = "post_ucode"
        /\ d.did = "common" /\ ~d.retain /\ d.phy = "ready"
        /\ d.lent = n /\ d.try = "no" /\ ~d.lossy
        /\ d.res = {} /\ d.otp = (m = "class0_postbmac")
    BY PhasePoints
  <2> HIDE DEF d
  <2> QED
    BY <2>1
<1> HIDE DEF c, d
<1>3. ASSUME NEW s \in Step, s.kind = k, s.at = "phase" PROVE Link(P, m, c, s, d)
  <2>0. k \in DOMAIN Adds \cup DOMAIN Drops /\ (k \in DOMAIN Drops <=> k \notin DOMAIN Adds)
    BY DEF Clears, Adds, Drops
  <2>1. Below(Moves(c, s), d)
    <3> DEFINE z == Moves(c, s)
    <3>1. /\ z.state = c.state /\ z.did = c.did /\ z.retain = c.retain /\ z.phy = c.phy
          /\ z.try = c.try /\ z.res = c.res /\ z.lossy = c.lossy /\ z.otp = c.otp
          /\ \A b : b \in z.lent <=>
                IF s.kind \in DOMAIN Adds THEN b \in c.lent \/ b = Adds[s.kind]
                ELSE b \in c.lent /\ b # Drops[s.kind]
      BY <1>1, <1>3, <2>0, LentMoves
    <3>2. k \in DOMAIN Adds => Adds[k] \in Bits
      BY DEF Adds, Clears, Bits
    <3>3. \A b : b \in z.lent => b \in n
      BY <1>1, <1>3, <2>0, <3>1, <3>2
    <3> HIDE DEF z
    <3> QED
      BY <1>1, <1>2, <3>1, <3>3 DEF Below, Skips, z
  <2>2. ~Begins(c, s) /\ s.kind \notin Resources \cup {"verdict"}
    BY <1>1, <1>3 DEF Begins, Clears, Resources
  <2>3. Exits(m, c, s)
    BY <1>1, <1>3, <2>2 DEF Exits, Safe
  <2>4. Allows(P, m, c, s)
    BY <1>1, <1>3, <2>2 DEF Allows, GateKinds, Latching, LadderKinds, Clears
  <2> QED
    BY <1>1, <1>3, <2>1, <2>3, <2>4 DEF Link, Blocks, Safe, Clears
<1> QED
  BY <1>0, <1>1, <1>2, <1>3, DoesStep DEF c, d

\* Bit after bit, what the phases set is taken back.
LEMMA ReturnDoes ==
  ASSUME NEW P, NEW m, PhaseMode(m)
  PROVE  Does(P, m, "phase", ReturnSuffix, Lent(m, RadioBits), Lent(m, {}))
<1> DEFINE a == RadioBits
           b == {"08ea", "0410", "0171", "0371"}
           c == {"08ea", "0410", "0371"}
           d == {"08ea", "0410"}
           e == {"08ea"}
<1>0. "phase" \in Places
  BY DEF Places
<1>1. /\ a \in SUBSET Bits /\ b \in SUBSET Bits /\ c \in SUBSET Bits /\ d \in SUBSET Bits
      /\ e \in SUBSET Bits /\ {} \in SUBSET Bits
  BY DEF Bits, RadioBits
<1>2. /\ Does(P, m, "phase", <<"clear_0411">>, Lent(m, a), Lent(m, b))
      /\ Does(P, m, "phase", <<"clear_0171">>, Lent(m, b), Lent(m, c))
      /\ Does(P, m, "phase", <<"clear_0371">>, Lent(m, c), Lent(m, d))
      /\ Does(P, m, "phase", <<"clear_0410">>, Lent(m, d), Lent(m, e))
      /\ Does(P, m, "phase", <<"clear_08ea">>, Lent(m, e), Lent(m, {}))
  <2>1. /\ {"clear_0411", "clear_0171", "clear_0371", "clear_0410", "clear_08ea"} \subseteq DOMAIN Clears
        /\ {"clear_0411", "clear_0171", "clear_0371", "clear_0410", "clear_08ea"} \subseteq DOMAIN Drops
        /\ Drops["clear_0411"] = "0411" /\ Drops["clear_0171"] = "0171"
        /\ Drops["clear_0371"] = "0371" /\ Drops["clear_0410"] = "0410"
        /\ Drops["clear_08ea"] = "08ea"
    BY DEF Clears, Drops
  <2>2. ASSUME NEW k \in DOMAIN Clears, k \in DOMAIN Drops, NEW l \in SUBSET Bits, NEW n \in SUBSET Bits,
               \A x \in Bits : x \in n <=> x \in l /\ x # Drops[k]
        PROVE  Does(P, m, "phase", <<k>>, Lent(m, l), Lent(m, n))
    BY <2>2, LentDoes
  <2>3. /\ \A x \in Bits : x \in b <=> x \in a /\ x # "0411"
        /\ \A x \in Bits : x \in c <=> x \in b /\ x # "0171"
        /\ \A x \in Bits : x \in d <=> x \in c /\ x # "0371"
        /\ \A x \in Bits : x \in e <=> x \in d /\ x # "0410"
        /\ \A x \in Bits : x \in {} <=> x \in e /\ x # "08ea"
    BY DEF Bits, RadioBits
  <2> HIDE DEF a, b, c, d, e
  <2>4. Does(P, m, "phase", <<"clear_0411">>, Lent(m, a), Lent(m, b))
    BY <1>1, <2>1, <2>2, <2>3
  <2>5. Does(P, m, "phase", <<"clear_0171">>, Lent(m, b), Lent(m, c))
    BY <1>1, <2>1, <2>2, <2>3
  <2>6. Does(P, m, "phase", <<"clear_0371">>, Lent(m, c), Lent(m, d))
    BY <1>1, <2>1, <2>2, <2>3
  <2>7. Does(P, m, "phase", <<"clear_0410">>, Lent(m, d), Lent(m, e))
    BY <1>1, <2>1, <2>2, <2>3
  <2>8. Does(P, m, "phase", <<"clear_08ea">>, Lent(m, e), Lent(m, {}))
    BY <1>1, <2>1, <2>2, <2>3
  <2> QED
    BY <2>4, <2>5, <2>6, <2>7, <2>8
<1> HIDE DEF a, b, c, d, e
<1>3. Does(P, m, "phase", <<"alive">>, Lent(m, b), Lent(m, b))
  <2>1. <<"alive">> \in Seq(Calm)
    BY DEF Calm
  <2> QED
    BY <1>0, <1>1, <2>1, PhaseSafe, CalmDoes
<1>4. Does(P, m, "phase", <<"clear_0411">> \o <<"alive">> \o <<"clear_0171">>, Lent(m, a), Lent(m, c))
  BY <1>0, <1>2, <1>3, DoesThrice
<1>5. Does(P, m, "phase", (<<"clear_0411">> \o <<"alive">> \o <<"clear_0171">>) \o
             <<"clear_0371">> \o <<"clear_0410">> \o <<"clear_08ea">>, Lent(m, a), Lent(m, {}))
  BY <1>0, <1>2, <1>4, DoesOn
<1>6. ReturnSuffix = (<<"clear_0411">> \o <<"alive">> \o <<"clear_0171">>) \o
             <<"clear_0371">> \o <<"clear_0410">> \o <<"clear_08ea">>
  BY DEF ReturnSuffix
<1> QED
  BY <1>5, <1>6 DEF a

\* The three phases, up to the suffix.
LEMMA BusyParts ==
  /\ Class0Gate \in Seq(Busy) /\ Phase0 \in Seq(Busy) /\ Phase1 \in Seq(Busy)
  /\ Phase2 \in Seq(Busy)
<1>1. \A p \in Seq(Busy), q \in Seq(Busy) : p \o q \in Seq(Busy)
  BY ConcatProperties
<1>2. \A n \in Nat : Times(n, <<"alive">>) \in Seq(Busy)
  <2> DEFINE p == <<"alive">>
  <2>1. p \in Seq(Busy) /\ p # << >>
    BY DEF Busy, Usual, Calm
  <2> HIDE DEF p
  <2>2. \A n \in Nat : Times(n, p) \in Seq(Busy)
    BY <2>1, TimesIs
  <2> QED
    BY <2>2 DEF p
<1>3. {"entry", "alive", "read", "loose", "write", "post_ucode", "ready_gate"} \subseteq Busy
  BY DEF Busy, Usual, Calm, Wakes
<1>4. {"set_08ea", "set_0410", "set_0411", "set_0171", "set_0371", "clear_0410", "clear_0411"} \subseteq Busy
  BY DEF Busy, Sets, Clears
<1>5. Class0Gate \in Seq(Busy) /\ Quiesce \in Seq(Busy)
  BY <1>3 DEF Class0Gate, Quiesce
<1>6. Trigger \in Seq(Busy)
  BY <1>3, <1>4 DEF Trigger
<1>7. <<"set_08ea">> \in Seq(Busy) /\ <<"write">> \in Seq(Busy) /\ <<"clear_0411">> \in Seq(Busy)
      /\ <<"clear_0410">> \in Seq(Busy)
  BY <1>3, <1>4
<1>8. Phase0 \in Seq(Busy)
  BY <1>1, <1>2, <1>5, <1>6, <1>7 DEF Phase0
<1>9. Phase1 \in Seq(Busy)
  <2>1. <<"clear_0411", "alive", "alive", "clear_0410">> \in Seq(Busy)
    BY <1>3, <1>4
  <2> QED
    BY <2>1, <1>1, <1>2, <1>6, <1>7 DEF Phase1
<1>10. Phase2 \in Seq(Busy)
  <2>1. <<"write", "alive", "set_0171", "alive", "set_0371">> \in Seq(Busy)
    BY <1>3, <1>4
  <2>2. <<"clear_0411">> \o Times(5, <<"alive">>) \o <<"clear_0410">> \o Times(3, <<"alive">>) \in Seq(Busy)
    BY <1>1, <1>2, <1>7
  <2> QED
    BY <2>1, <2>2, <1>1, <1>6 DEF Phase2
<1> QED
  BY <1>5, <1>8, <1>9, <1>10

\* The suffix is the fourth part, and what follows it asks for the OTP word.
LEMMA Class0Does ==
  ASSUME NEW P, NEW m, PhaseMode(m), NEW last \in 0 .. 4, last = 4 => m = "class0_postbmac"
  PROVE  Does(P, m, "phase", Class0(last), Lent(m, RadioBits),
              Lent(m, IF last >= 3 THEN {} ELSE RadioBits))
<1> DEFINE c == Lent(m, RadioBits)
           d == Lent(m, {})
           e == Lent(m, IF last >= 3 THEN {} ELSE RadioBits)
           p == Class0Gate \o Phase0
           q == When(last >= 1, Phase1)
           r == When(last >= 2, Phase2)
           s == When(last >= 3, ReturnSuffix)
           t == When(last >= 4, PostBmac)
<1>0. "phase" \in Places
  BY DEF Places
<1>1. /\ c \in Points /\ d \in Points
      /\ Safe(m, d, "phase") /\ Settles(d) /\ d.otp = (m = "class0_postbmac") /\ d.try = "no"
  <2>1. RadioBits \in SUBSET Bits /\ {} \in SUBSET Bits
    BY DEF Bits
  <2> QED
    BY <2>1, PhasePoints, PhaseSafe
<1>2. Does(P, m, "phase", p \o q \o r, c, c)
  <2>1. Does(P, m, "phase", Class0Gate, c, c) /\ Does(P, m, "phase", Phase0, c, c)
    BY BusyDoes, BusyParts
  <2>2. Does(P, m, "phase", p, c, c)
    BY <1>0, <2>1, DoesOn
  <2>3. Does(P, m, "phase", q, c, c)
    BY <1>0, <1>1, BusyDoes, BusyParts, DoesWhen
  <2>4. Does(P, m, "phase", r, c, c)
    BY <1>0, <1>1, BusyDoes, BusyParts, DoesWhen
  <2> HIDE DEF c, p, q, r
  <2> QED
    BY <1>0, <2>2, <2>3, <2>4, DoesThrice
<1>3. Does(P, m, "phase", s, c, e)
  <2>1. CASE last >= 3
    BY <2>1, ReturnDoes DEF When
  <2>2. CASE ~(last >= 3)
    <3>1. Does(P, m, "phase", When(FALSE, << >>), c, c)
      BY <1>0, <1>1, DoesWhen
    <3> QED
      BY <3>1, <2>2 DEF When
  <2> QED
    BY <2>1, <2>2
<1>4. Does(P, m, "phase", t, e, e)
  <2>1. CASE last = 4
    <3> HIDE DEF d
    <3>1. Does(P, m, "phase", <<"otp_gate">>, d, d)
      BY <1>0, <1>1, <2>1, GateDoes DEF GateKinds, Opens
    <3>2. <<"entry", "write", "read">> \o Times(3, <<"alive", "write", "alive">>) \in Seq(Usual)
      <4> DEFINE b == <<"alive", "write", "alive">>
      <4>1. b \in Seq(Usual) /\ b # << >> /\ <<"entry", "write", "read">> \in Seq(Usual)
        BY DEF Usual, Calm, Wakes
      <4> HIDE DEF b
      <4>2. Times(3, b) \in Seq(Usual)
        BY <4>1, TimesIs
      <4> QED
        BY <4>1, <4>2, QuietJoin DEF b
    <3>3. Does(P, m, "phase", <<"entry", "write", "read">> \o Times(3, <<"alive", "write", "alive">>), d, d)
      BY <1>0, <1>1, <3>2, UsualDoes
    <3>4. <<"otp_gate", "entry", "write", "read">> = <<"otp_gate">> \o <<"entry", "write", "read">>
      OBVIOUS
    <3>5. PostBmac = <<"otp_gate">> \o (<<"entry", "write", "read">> \o Times(3, <<"alive", "write", "alive">>))
      <4> DEFINE x == <<"otp_gate">>
                 y == <<"entry", "write", "read">>
                 z == Times(3, <<"alive", "write", "alive">>)
      <4>1. x \in Seq(Kinds) /\ y \in Seq(Kinds) /\ z \in Seq(Kinds)
        <5> DEFINE b == <<"alive", "write", "alive">>
        <5>1. b \in Seq(Kinds) /\ b # << >> /\ x \in Seq(Kinds) /\ y \in Seq(Kinds)
          BY DEF Kinds, Calm, Wakes, GateKinds
        <5> HIDE DEF b, x, y
        <5>2. Times(3, b) \in Seq(Kinds)
          BY <5>1, TimesIs
        <5> QED
          BY <5>1, <5>2 DEF b
      <4> HIDE DEF x, y, z
      <4>2. (x \o y) \o z = x \o (y \o z)
        BY <4>1, ConcatAssociative
      <4> QED
        BY <3>4, <4>2 DEF PostBmac, x, y, z
    <3>6. Does(P, m, "phase", PostBmac, d, d)
      BY <1>0, <3>1, <3>3, <3>5, DoesOn
    <3>7. t = PostBmac /\ e = Lent(m, {})
      BY <2>1 DEF When
    <3> QED
      BY <3>6, <3>7 DEF d
  <2>2. CASE last # 4
    <3>1. Does(P, m, "phase", When(FALSE, << >>), e, e)
      <4>1. e \in Points
        BY <1>1
      <4> QED
        BY <1>0, <4>1, DoesWhen
    <3> QED
      BY <3>1, <2>2 DEF When
  <2> QED
    BY <2>1, <2>2
<1> HIDE DEF c, e, p, q, r, s, t
<1>5. Does(P, m, "phase", (p \o q \o r) \o s \o t, c, e)
  BY <1>0, <1>2, <1>3, <1>4, DoesThrice
<1> QED
  BY <1>5 DEF Class0, c, e, p, q, r, s, t

-----------------------------------------------------------------------------
\* The register of the LPF stage is changed and put back.
LEMMA LpfDoes ==
  ASSUME NEW P, NEW m, PhaseMode(m)
  PROVE  Does(P, m, "phase", LpfStage(P), Lent(m, {}), Lent(m, {}))
<1> DEFINE c == Lent(m, {})
           d == Lent(m, {"019e"})
<1>0. "phase" \in Places /\ {} \in SUBSET Bits /\ {"019e"} \in SUBSET Bits
  BY DEF Places, Bits
<1>1. /\ Safe(m, c, "phase") /\ Settles(c) /\ Safe(m, d, "phase") /\ Settles(d)
  BY <1>0, PhaseSafe
<1>2. Does(P, m, "phase", <<"set_019e">>, c, d)
  <2>1. \A b \in Bits : b \in {"019e"} <=>
          IF "set_019e" \in DOMAIN Drops THEN b \in {} /\ b # Drops["set_019e"]
          ELSE b \in {} \/ b = Adds["set_019e"]
    BY DEF Drops, Adds
  <2> QED
    BY <1>0, <2>1, LentDoes
<1>3. Does(P, m, "phase", <<"clear_019e">>, d, c)
  <2>1. \A b \in Bits : b \in {} <=>
          IF "clear_019e" \in DOMAIN Drops THEN b \in {"019e"} /\ b # Drops["clear_019e"]
          ELSE b \in {"019e"} \/ b = Adds["clear_019e"]
    BY DEF Drops, Adds
  <2> QED
    BY <1>0, <2>1, LentDoes
<1> HIDE DEF c, d
<1>4. <<"write">> \in Seq(Usual)
  BY DEF Usual, Wakes
<1>5. /\ Does(P, m, "phase", <<"write">>, c, c) /\ Does(P, m, "phase", <<"write">>, d, d)
      /\ Does(P, m, "phase", Tripoint(P), c, c)
  BY <1>0, <1>1, <1>4, UsualDoes, AttachParts
<1>6. Does(P, m, "phase", <<"write">> \o <<"set_019e">> \o <<"write">>, c, d)
  BY <1>0, <1>2, <1>5, DoesThrice
<1>7. Does(P, m, "phase", (<<"write">> \o <<"set_019e">> \o <<"write">>) \o <<"clear_019e">> \o <<"write">>, c, c)
  BY <1>0, <1>3, <1>5, <1>6, DoesThrice
<1>8. <<"write", "set_019e", "write", "clear_019e", "write">> =
      (<<"write">> \o <<"set_019e">> \o <<"write">>) \o <<"clear_019e">> \o <<"write">>
  OBVIOUS
<1>9. Does(P, m, "phase", <<"write", "set_019e", "write", "clear_019e", "write">>, c, c)
  BY <1>7, <1>8
<1> QED
  BY <1>0, <1>5, <1>9, DoesOn DEF LpfStage, c

\* The radio prefix, up to the block it always ends with.
LEMMA PrefixDoes ==
  ASSUME NEW P, NEW m \in RadioModes
  PROVE  Does(P, m, "phase", RadioPrefix(P), Lent(m, {}), Later(m, "rev1"))
<1> DEFINE c == Lent(m, {})
           d == Lent(m, RadioBits)
           e == Later(m, "rev1")
<1>0. "phase" \in Places /\ {} \in SUBSET Bits /\ RadioBits \in SUBSET Bits /\ PhaseMode(m)
  BY DEF Places, Bits, PhaseMode, RadioModes, Isolated, DmaModes
<1>1. /\ Safe(m, c, "phase") /\ Settles(c) /\ c.state = "post_ucode" /\ c.did = "common"
      /\ ~c.retain /\ c.phy = "ready" /\ c.lent = {} /\ c.try = "no" /\ ~c.lossy /\ c.res = {}
      /\ c.otp = (m = "class0_postbmac")
  BY <1>0, PhaseSafe, PhasePoints
<1>2. /\ d \in Points /\ d.state = "post_ucode" /\ d.did = "common"
      /\ ~d.retain /\ d.phy = "ready" /\ d.lent = RadioBits /\ d.try = "no" /\ ~d.lossy /\ d.res = {}
      /\ d.otp = (m = "class0_postbmac")
  BY <1>0, PhasePoints
<1>3. /\ e \in Points /\ e.state = "post_ucode" /\ e.did = "common"
      /\ ~e.retain /\ e.phy = "rev1" /\ e.lent = {} /\ e.try = "no" /\ ~e.lossy /\ e.res = {}
      /\ e.otp = (m = "class0_postbmac")
  BY PhasePoints
<1>4. Does(P, m, "phase", Class0(3), d, c)
  BY <1>0, Class0Does
<1>5. Does(P, m, "phase", LpfStage(P), c, c)
  BY <1>0, LpfDoes
<1> HIDE DEF c, d, e
<1>6. Does(P, m, "phase", <<"entry">>, c, c) /\ Does(P, m, "phase", ShmWord, c, c)
  <2>1. <<"entry">> \in Seq(Usual) /\ ShmWord \in Seq(Usual)
    BY DEF Usual, Wakes, Calm, ShmWord, Latching
  <2> QED
    BY <1>0, <1>1, <2>1, UsualDoes
<1>7. Does(P, m, "phase", <<"radio_gate">>, c, c)
  BY <1>0, <1>1, GateDoes DEF GateKinds, Opens
<1>8. Does(P, m, "phase", <<"board">>, c, d)
  <2>1. ASSUME NEW s \in Step, s.kind = "board", s.at = "phase" PROVE Link(P, m, c, s, d)
    <3>1. Moves(c, s) = c
      BY Zenon, <2>1, MovesIs
    <3>2. Exits(m, c, s)
      BY <2>1, <1>1 DEF Exits, Begins, Wakes, Safe
    <3>3. Allows(P, m, c, s)
      BY <2>1, <1>1 DEF Allows, GateKinds, Begins, Wakes, Latching, LadderKinds, Resources, Adds,
         Through
    <3>4. Below(Moves(c, s), d)
      BY <1>1, <1>2, <3>1 DEF Below, Skips
    <3> QED
      BY <2>1, <1>1, <3>2, <3>3, <3>4 DEF Link, Blocks, Safe
  <2> QED
    BY <1>0, <1>1, <1>2, <2>1, DoesStep DEF Kinds
<1>9. Does(P, m, "phase", <<"blocked">>, c, e)
  <2>1. ASSUME NEW s \in Step, s.kind = "blocked", s.at = "phase" PROVE Link(P, m, c, s, e)
    <3>1. Moves(c, s) = [c EXCEPT !.phy = "rev1"]
      BY Zenon, <2>1, MovesIs
    <3>2. Exits(m, c, s)
      BY <2>1, <1>1 DEF Exits, Begins, Wakes, Safe
    <3>3. Allows(P, m, c, s)
      BY <2>1, <1>1 DEF Allows, GateKinds, Begins, Wakes, Latching, LadderKinds, Resources, Adds,
         Through
    <3>4. Below(Moves(c, s), e)
      BY <1>1, <1>3, <3>1 DEF Below, Skips, Safe, Points
    <3> QED
      BY <2>1, <1>1, <3>4, <3>2, <3>3 DEF Link, Blocks, Safe
  <2> QED
    BY <1>0, <1>1, <1>3, <2>1, DoesStep DEF Kinds
<1>10. Does(P, m, "phase", <<"entry">> \o <<"radio_gate">> \o <<"board">>, c, d)
  BY <1>0, <1>6, <1>7, <1>8, DoesThrice
<1>11. <<"entry", "radio_gate", "board">> = <<"entry">> \o <<"radio_gate">> \o <<"board">>
  OBVIOUS
<1>12. Does(P, m, "phase", <<"entry", "radio_gate", "board">>, c, d)
  BY <1>10, <1>11
<1> DEFINE p == <<"entry", "radio_gate", "board">>
<1> HIDE DEF p
<1>13. Does(P, m, "phase", p \o Class0(3) \o LpfStage(P), c, c)
  BY <1>0, <1>4, <1>5, <1>12, DoesThrice DEF p
<1>14. Does(P, m, "phase", (p \o Class0(3) \o LpfStage(P)) \o ShmWord \o <<"blocked">>, c, e)
  BY <1>0, <1>6, <1>9, <1>13, DoesThrice
<1> QED
  BY <1>14 DEF RadioPrefix, p, c, e

\* Behind the block of the prefix.
LEMMA PostLpfDoes ==
  ASSUME NEW P, NEW m \in RadioModes
  PROVE  Does(P, m, "phase", PostLpf(P), Later(m, "rev1"), Later(m, "complete"))
<1> DEFINE c == Later(m, "rev1")
           e == Later(m, "complete")
<1>0. "phase" \in Places /\ PhaseMode(m)
  BY DEF Places, PhaseMode, RadioModes, Isolated, DmaModes
<1>1. /\ Safe(m, c, "phase") /\ Settles(c) /\ c \in Points /\ c.state = "post_ucode" /\ c.did = "common"
      /\ ~c.retain /\ c.phy = "rev1" /\ c.lent = {} /\ c.try = "no" /\ ~c.lossy /\ c.res = {}
      /\ c.otp = (m = "class0_postbmac")
  BY <1>0, PhaseSafe, PhasePoints
<1>2. /\ e \in Points /\ e.state = "post_ucode" /\ e.did = "common"
      /\ ~e.retain /\ e.phy = "complete" /\ e.lent = {} /\ e.try = "no" /\ ~e.lossy /\ e.res = {}
      /\ e.otp = (m = "class0_postbmac")
  BY PhasePoints
<1> HIDE DEF c, e
<1>3. Does(P, m, "phase", <<"resume">>, c, c)
  BY <1>0, <1>1, GateDoes DEF GateKinds, Opens
<1>4. /\ Does(P, m, "phase", When("acphy_96203_live" \in P, Live96203), c, c)
      /\ Does(P, m, "phase", GoldenUnit, c, c)
      /\ Does(P, m, "phase", <<"entry">>, c, c)
      /\ Does(P, m, "phase", InitRun, c, c)
  <2>1. /\ Live96203 \in Seq(Usual) /\ GoldenUnit \in Seq(Usual) /\ <<"entry">> \in Seq(Usual)
        /\ InitRun \in Seq(Usual)
    BY DEF Live96203, GoldenUnit, InitRun, Usual, Calm, Wakes
  <2>2. Does(P, m, "phase", Live96203, c, c)
    BY <1>0, <1>1, <2>1, UsualDoes
  <2> QED
    BY <1>0, <1>1, <2>1, <2>2, UsualDoes, DoesWhen
<1>5. Does(P, m, "phase", <<"radio_complete">>, c, e)
  <2>1. ASSUME NEW s \in Step, s.kind = "radio_complete", s.at = "phase" PROVE Link(P, m, c, s, e)
    <3>1. Moves(c, s) = [c EXCEPT !.phy = "complete"]
      BY Zenon, <2>1, MovesIs
    <3>2. Exits(m, c, s)
      BY <2>1, <1>1 DEF Exits, Begins, Wakes, Safe
    <3>3. Allows(P, m, c, s)
      BY <2>1, <1>1 DEF Allows, GateKinds, Begins, Wakes, Latching, LadderKinds, Resources, Adds,
         Through
    <3>4. Below(Moves(c, s), e)
      BY <1>1, <1>2, <3>1 DEF Below, Skips, Safe, Points
    <3> QED
      BY <2>1, <1>1, <3>4, <3>2, <3>3 DEF Link, Blocks, Safe
  <2> QED
    BY <1>0, <1>1, <1>2, <2>1, DoesStep DEF Kinds
<1> DEFINE w == When("acphy_96203_live" \in P, Live96203)
<1> HIDE DEF w
<1>6. Does(P, m, "phase", <<"resume">> \o w \o GoldenUnit, c, c)
  BY <1>0, <1>3, <1>4, DoesThrice DEF w
<1>7. Does(P, m, "phase", (<<"resume">> \o w \o GoldenUnit) \o <<"entry">> \o InitRun, c, c)
  BY <1>0, <1>4, <1>6, DoesThrice
<1>8. Does(P, m, "phase", ((<<"resume">> \o w \o GoldenUnit) \o <<"entry">> \o InitRun) \o <<"radio_complete">>, c, e)
  BY <1>0, <1>5, <1>7, DoesOn
<1> QED
  BY <1>8 DEF PostLpf, w, c, e

\* The stages of the modes behind the firmware chain, but the normal path.
LEMMA RunsOfDoes == ASSUME NEW P, NEW m, NEW pl, NEW p, NEW c, NEW d, Does(P, m, pl, p, c, d)
                    PROVE  Runs(P, m, Stage(pl, p), c, d)
BY DEF Does

\* The radio prefix, and what follows it.
LEMMA RadioOnDoes ==
  ASSUME NEW P, NEW m \in RadioModes
  PROVE  /\ Runs(P, m, RadioOnTest(P), Chained(m), Later(m, "rev1"))
         /\ Runs(P, m, PostLpfTest(P), Chained(m), Later(m, "complete"))
<1>0. PhaseMode(m) /\ {} \in SUBSET Bits
  BY DEF PhaseMode, RadioModes, Isolated, DmaModes
<1>1. Runs(P, m, Stage("pre_radio", PreRadio), Chained(m), Lent(m, {}))
  BY <1>0, PreRadioDoes, RunsOfDoes
<1>2. Runs(P, m, Stage("phase", RadioPrefix(P)), Lent(m, {}), Later(m, "rev1"))
  BY PrefixDoes, RunsOfDoes
<1>3. Runs(P, m, Stage("phase", PostLpf(P)), Later(m, "rev1"), Later(m, "complete"))
  BY PostLpfDoes, RunsOfDoes
<1>4. Runs(P, m, RadioOnTest(P), Chained(m), Later(m, "rev1"))
  BY <1>1, <1>2, RunsOn DEF RadioOnTest
<1> QED
  BY <1>3, <1>4, RunsOn DEF PostLpfTest

\* At most one calibration stage, behind the inputs.
LEMMA CalInputsDoes ==
  ASSUME NEW P, NEW m, m = "acphy_cal_inputs"
  PROVE  Runs(P, m, CalInputsTest(P), Chained(m), Later(m, "complete"))
<1> DEFINE c == Chained(m)
           e == Later(m, "complete")
           b == P \cap {"cal_stage_witness", "cal_write_stage", "cal_w2_replay"} # {}
<1>0. /\ PhaseMode(m) /\ m \in RadioModes /\ "phase" \in Places /\ "inputs" \in Places
  BY DEF PhaseMode, RadioModes, Isolated, DmaModes, Places
<1>1. /\ Safe(m, c, "phase") /\ Settles(c)
      /\ Safe(m, e, "phase") /\ Safe(m, e, "inputs") /\ Settles(e)
      /\ e \in Points /\ e.try = "no" /\ e.phy = "complete"
  BY <1>0, PhaseSafe, PhasePoints
<1>2. Runs(P, m, PostLpfTest(P), c, e)
  BY <1>0, RadioOnDoes
<1> HIDE DEF c, e, b
<1>3. Runs(P, m, Stage("phase", Tripoint(P)), c, c)
  <2>1. Does(P, m, "phase", Tripoint(P), c, c)
    BY <1>0, <1>1, AttachParts, UsualDoes
  <2> QED
    BY <2>1, RunsOfDoes
<1>4. Runs(P, m, Stage("inputs", CalibrationInputs), e, e)
  <2>1. Does(P, m, "inputs", CalibrationInputs, e, e)
    BY <1>0, <1>1, GateDoes DEF GateKinds, Opens, CalibrationInputs
  <2> QED
    BY <2>1, RunsOfDoes
<1>5. Runs(P, m, When(b, Stage("phase", <<"entry", "stage">>)), e, e)
  <2>1. <<"entry", "stage">> \in Seq(Usual)
    BY DEF Usual, Calm, Latching
  <2>2. Does(P, m, "phase", <<"entry", "stage">>, e, e)
    BY <1>0, <1>1, <2>1, UsualDoes
  <2>3. Runs(P, m, Stage("phase", <<"entry", "stage">>), e, e)
    BY <2>2, RunsOfDoes
  <2>4. Runs(P, m, << >>, e, e)
    BY <1>1, NothingRuns
  <2> QED
    BY <2>3, <2>4 DEF When
<1>6. Runs(P, m, Stage("phase", Tripoint(P)) \o PostLpfTest(P) \o Stage("inputs", CalibrationInputs), c, e)
  BY <1>2, <1>3, <1>4, RunsThrice
<1>7. Runs(P, m, (Stage("phase", Tripoint(P)) \o PostLpfTest(P) \o Stage("inputs", CalibrationInputs)) \o
                 When(b, Stage("phase", <<"entry", "stage">>)), c, e)
  BY <1>5, <1>6, RunsOn
<1> QED
  BY <1>7 DEF CalInputsTest, CalStage, b, c, e

\* The class 0 modes.
LEMMA Class0TestDoes ==
  ASSUME NEW P, NEW m \in DOMAIN Class0Modes
  PROVE  Runs(P, m, Class0Test(m), Chained(m),
              Lent(m, IF Class0Modes[m] >= 3 THEN {} ELSE RadioBits))
<1>0. /\ PhaseMode(m) /\ RadioBits \in SUBSET Bits /\ Class0Modes[m] \in 0 .. 4
      /\ (Class0Modes[m] = 4 => m = "class0_postbmac")
  BY DEF PhaseMode, Class0Modes, Isolated, DmaModes, Bits
<1>1. Runs(P, m, Stage("pre_radio", PreRadio), Chained(m), Lent(m, RadioBits))
  BY <1>0, PreRadioDoes, RunsOfDoes
<1>2. Runs(P, m, Stage("phase", Class0(Class0Modes[m])), Lent(m, RadioBits),
           Lent(m, IF Class0Modes[m] >= 3 THEN {} ELSE RadioBits))
  BY <1>0, Class0Does, RunsOfDoes
<1> QED
  BY <1>1, <1>2, RunsOn DEF Class0Test

\* The rev4 probe never gets past its gate, and whatever is behind it changes nothing.
LEMMA Rev4Does ==
  ASSUME NEW P, NEW m, m = "radio2069_rev4_probe"
  PROVE  Runs(P, m, Stage("phase", Rev4Probe), Chained(m), Chained(m))
<1> DEFINE c == Chained(m)
<1>0. PhaseMode(m) /\ "phase" \in Places
  BY DEF PhaseMode, Isolated, DmaModes, Places
<1>1. Safe(m, c, "phase") /\ Settles(c) /\ c.try = "no" /\ c.state = "post_ucode"
  BY <1>0, PhaseSafe, PhasePoints
<1> HIDE DEF c
<1>2. Does(P, m, "phase", <<"post_ucode">>, c, c) /\ Does(P, m, "phase", <<"suspended">>, c, c)
  BY <1>0, <1>1, GateDoes DEF GateKinds, Opens, Exempt
<1>3. /\ Does(P, m, "phase", <<"entry">>, c, c) /\ Does(P, m, "phase", <<"alive", "alive", "loose">>, c, c)
      /\ Does(P, m, "phase", <<"write">>, c, c) /\ Does(P, m, "phase", Times(7, <<"alive">>), c, c)
      /\ Does(P, m, "phase", <<"trust", "resume_mac">>, c, c)
  <2>1. /\ <<"entry">> \in Seq(Usual) /\ <<"alive", "alive", "loose">> \in Seq(Usual)
        /\ <<"write">> \in Seq(Usual) /\ <<"trust", "resume_mac">> \in Seq(Usual)
    BY DEF Usual, Calm, Wakes, Latching
  <2>2. Times(7, <<"alive">>) \in Seq(Usual)
    BY QuietTimes DEF Usual, Calm
  <2> QED
    BY <1>0, <1>1, <2>1, <2>2, UsualDoes
<1>4. Does(P, m, "phase", Quiesce, c, c)
  <2>1. Does(P, m, "phase", <<"entry">> \o <<"post_ucode">> \o <<"alive", "alive", "loose">>, c, c)
    BY <1>0, <1>2, <1>3, DoesThrice
  <2>2. <<"entry", "post_ucode", "alive", "alive", "loose">> =
        <<"entry">> \o <<"post_ucode">> \o <<"alive", "alive", "loose">>
    OBVIOUS
  <2> QED
    BY <2>1, <2>2 DEF Quiesce
<1>5. Does(P, m, "phase", <<"write">> \o <<"suspended">>, c, c)
  BY <1>0, <1>2, <1>3, DoesOn
<1>6. <<"write", "suspended">> = <<"write">> \o <<"suspended">>
  OBVIOUS
<1>7. Does(P, m, "phase", Quiesce \o <<"write", "suspended">> \o Times(7, <<"alive">>), c, c)
  BY <1>0, <1>3, <1>4, <1>5, <1>6, DoesThrice
<1>8. Does(P, m, "phase", (Quiesce \o <<"write", "suspended">> \o Times(7, <<"alive">>)) \o <<"trust", "resume_mac">>, c, c)
  BY <1>0, <1>3, <1>7, DoesOn
<1> QED
  BY <1>8, RunsOfDoes DEF Rev4Probe, c

-----------------------------------------------------------------------------
(***************************************************************************)
(* The normal path, and the ladder of the modes that stop along it.        *)
(***************************************************************************)
Held(R) == [Chained("normal") EXCEPT !.res = R]

\* The tail of the normal path takes one thing after another.
LEMMA TakeDoes ==
  ASSUME NEW P, NEW R \in SUBSET Resources, NEW k \in Resources
  PROVE  Does(P, "normal", "normal", <<k>>, Held(R), Held(R \cup {k}))
<1> DEFINE m == "normal"
           c == Held(R)
           d == Held(R \cup {k})
           s == [kind |-> k, at |-> "normal"]
<1>1. /\ Chained(m) \in Points /\ Chained(m).state = "post_ucode"
      /\ Chained(m).did = "common" /\ ~Chained(m).retain /\ Chained(m).phy = "none"
      /\ Chained(m).lent = {} /\ Chained(m).try = "no" /\ ~Chained(m).lossy
      /\ Chained(m).res = {} /\ Chained(m).otp = (m = "class0_postbmac")
  BY DEF Chained, Start, Points, Dids
<1>2. /\ c \in Points /\ c.state = "post_ucode" /\ c.did = "common" /\ ~c.retain
      /\ c.lent = {} /\ c.try = "no" /\ ~c.lossy /\ c.res = R /\ c.phy = "none"
  BY <1>1 DEF Held, Points
<1>3. /\ d \in Points /\ d.state = c.state /\ d.did = c.did /\ d.retain = c.retain
      /\ d.lent = c.lent /\ d.try = c.try /\ d.lossy = c.lossy /\ d.res = R \cup {k}
      /\ d.otp = c.otp /\ d.phy = c.phy
  <2>1. R \cup {k} \in SUBSET Resources
    OBVIOUS
  <2> QED
    BY <1>1, <2>1 DEF Held, Points
<1>4. "normal" \in Places /\ k \in Kinds
  BY DEF Places, Kinds
<1>5. s.kind = k /\ s.at = "normal"
  OBVIOUS
<1> HIDE DEF c, d, s
<1>6. k \notin Wakes \cup {"verdict", "core_ready"}
  BY DEF Wakes, Resources
<1>7. ~Begins(c, s)
  BY <1>5 DEF Begins
<1>8. Exits(m, c, s)
  BY <1>2, <1>5, <1>6, <1>7 DEF Exits, Leaves
<1>9. Allows(P, m, c, s)
  BY <1>2, <1>5, <1>7 DEF Allows, Resources, GateKinds, Latching, LadderKinds, Adds, Settles
<1>10. Below(Moves(c, s), d)
  <2>1. Moves(c, s) = [c EXCEPT !.res = @ \cup {s.kind}]
    BY Zenon, <1>5, MovesIs
  <2> DEFINE z == Moves(c, s)
  <2>2. /\ z.state = c.state /\ z.did = c.did /\ z.retain = c.retain
        /\ z.lent = c.lent /\ z.try = c.try /\ z.lossy = c.lossy /\ z.res = R \cup {k}
        /\ z.otp = c.otp /\ z.phy = c.phy
    BY <1>2, <1>5, <2>1 DEF Points
  <2> HIDE DEF z
  <2> QED
    BY <1>3, <2>2 DEF Below, Skips, z
<1>11. Link(P, m, c, s, d)
  BY <1>2, <1>5, <1>6, <1>8, <1>9, <1>10 DEF Link, Blocks, Dead
<1> QED
  BY <1>2, <1>3, <1>4, <1>11, DoesOne DEF c, d, s

\* The tail of the normal path acquires all resources.
LEMMA NormalDoes ==
  ASSUME NEW P
  PROVE  Does(P, "normal", "normal", NormalTail, Chained("normal"), Held(Resources))
<1> DEFINE m == "normal"
           a == {"owner"}
           b == {"owner", "pool"}
           c == {"owner", "pool", "rx_ring"}
           d == {"owner", "pool", "rx_ring", "tx_ring"}
           e == {"owner", "pool", "rx_ring", "tx_ring", "irq"}
<1>0. "normal" \in Places
  BY DEF Places
<1>1. /\ {} \in SUBSET Resources /\ a \in SUBSET Resources /\ b \in SUBSET Resources
      /\ c \in SUBSET Resources /\ d \in SUBSET Resources /\ e \in SUBSET Resources
      /\ {"owner", "pool", "rx_ring", "tx_ring", "irq", "register"} \subseteq Resources
  BY DEF Resources
<1>2. /\ {} \cup {"owner"} = a /\ a \cup {"pool"} = b /\ b \cup {"rx_ring"} = c
      /\ c \cup {"tx_ring"} = d /\ d \cup {"irq"} = e /\ e \cup {"register"} = Resources
  BY DEF Resources
<1>3. Held({}) = Chained(m)
  <2>1. Chained(m) \in Points /\ Chained(m).res = {}
    BY PhasePoints
  <2> QED
    BY <2>1 DEF Held, Points
<1> HIDE DEF a, b, c, d, e
<1>4. /\ Does(P, m, m, <<"owner">>, Held({}), Held(a))
      /\ Does(P, m, m, <<"pool">>, Held(a), Held(b))
      /\ Does(P, m, m, <<"rx_ring">>, Held(b), Held(c))
      /\ Does(P, m, m, <<"tx_ring">>, Held(c), Held(d))
      /\ Does(P, m, m, <<"irq">>, Held(d), Held(e))
      /\ Does(P, m, m, <<"register">>, Held(e), Held(Resources))
  BY <1>1, <1>2, TakeDoes
<1>5. Does(P, m, m, <<"supply">>, Held({}), Held({}))
  <2>1. Safe(m, Held({}), m)
    <3>1. /\ Chained(m) \in Points /\ Chained(m).state = "post_ucode"
          /\ Chained(m).did = "common" /\ Chained(m).lent = {} /\ Chained(m).res = {}
      BY DEF Chained, Start, Points, Dids
    <3> QED
      BY <1>3, <3>1 DEF Safe, Dead, Leaves
  <2>2. <<"supply">> \in Seq(Calm)
    BY DEF Calm
  <2> QED
    BY <1>0, <2>1, <2>2, CalmDoes
<1>6. Does(P, m, m, <<"supply">> \o <<"owner">> \o <<"pool">>, Held({}), Held(b))
  BY <1>0, <1>4, <1>5, DoesThrice
<1>7. <<"supply", "owner", "pool">> = <<"supply">> \o <<"owner">> \o <<"pool">>
  OBVIOUS
<1>8. Does(P, m, m, <<"supply", "owner", "pool">> \o <<"rx_ring">> \o <<"tx_ring">>, Held({}), Held(d))
  BY <1>0, <1>4, <1>6, <1>7, DoesThrice
<1>9. Does(P, m, m, <<"irq">> \o <<"register">>, Held(d), Held(Resources))
  BY <1>0, <1>4, DoesOn
<1>10. <<"irq", "register">> = <<"irq">> \o <<"register">>
  OBVIOUS
<1>11. NormalTail = (<<"supply", "owner", "pool">> \o <<"rx_ring">> \o <<"tx_ring">>) \o <<"irq", "register">>
  BY DEF NormalTail, DmaInit, RingAlloc
<1> QED
  BY <1>0, <1>3, <1>8, <1>9, <1>10, <1>11, DoesOn

\* Behind the firmware chain.
LEMMA AfterChainDoes ==
  ASSUME NEW P, NEW m, m \notin Isolated, m # "acphy_identity_timing"
  PROVE  \E d \in Points : Runs(P, m, AfterChain(P, m), Chained(m), d) /\ Ends(m, d) /\ ~Dead(d)
                          /\ d.state = "post_ucode"
<1>0. RadioBits \in SUBSET Bits /\ {} \in SUBSET Bits /\ RadioBits \cap {"power", "controls"} = {}
  BY DEF Bits, RadioBits
<1>1. CASE m = "normal"
  <2>1. AfterChain(P, m) = Stage("normal", NormalTail)
    BY <1>1 DEF AfterChain, Class0Modes
  <2>2. Runs(P, m, AfterChain(P, m), Chained(m), Held(Resources))
    BY <1>1, <2>1, NormalDoes, RunsOfDoes
  <2>3. /\ Held(Resources) \in Points /\ Held(Resources).state = "post_ucode" /\ Ends(m, Held(Resources))
    BY <1>1 DEF Ends, Held, Chained, Start, Points, Dids, Returning
  <2> QED
    BY <2>2, <2>3 DEF Dead
<1>2. CASE m = "acphy_pre_radio"
  <2>1. AfterChain(P, m) = Stage("pre_radio", PreRadio)
    BY <1>2 DEF AfterChain, Class0Modes
  <2>2. Runs(P, m, AfterChain(P, m), Chained(m), Lent(m, {}))
    BY <1>0, <1>1, <1>2, <2>1, PreRadioDoes, RunsOfDoes DEF PhaseMode
  <2>3. /\ Lent(m, {}) \in Points /\ Lent(m, {}).state = "post_ucode" /\ Ends(m, Lent(m, {}))
    BY <1>0, <1>2, PhasePoints DEF Ends
  <2> QED
    BY <2>2, <2>3 DEF Dead
<1>3. CASE m \in DOMAIN Class0Modes
  <2>1. AfterChain(P, m) = Class0Test(m)
    BY <1>3 DEF AfterChain, Class0Modes
  <2> DEFINE l == IF Class0Modes[m] >= 3 THEN {} ELSE RadioBits
  <2>2. Runs(P, m, AfterChain(P, m), Chained(m), Lent(m, l))
    BY <1>3, <2>1, Class0TestDoes
  <2>3. l \in SUBSET Bits /\ l \cap {"power", "controls"} = {} /\ (m \in Returning => l = {}) /\ m # "normal"
    BY <1>0, <1>3 DEF Class0Modes, Returning
  <2> HIDE DEF l
  <2>4. /\ Lent(m, l) \in Points /\ Lent(m, l).state = "post_ucode"
        /\ Lent(m, l).lent = l /\ Lent(m, l).try = "no" /\ Lent(m, l).res = {}
    BY <2>3, PhasePoints
  <2>5. Ends(m, Lent(m, l))
    BY <2>3, <2>4 DEF Ends
  <2> QED
    BY <2>2, <2>4, <2>5 DEF Dead
<1>4. CASE m \in RadioModes
  <2>1. /\ m = "acphy_radio_on" => AfterChain(P, m) = RadioOnTest(P)
        /\ m = "acphy_radio_postlpf" => AfterChain(P, m) = PostLpfTest(P)
        /\ m = "acphy_cal_inputs" => AfterChain(P, m) = CalInputsTest(P)
    BY <1>4 DEF AfterChain, Class0Modes
  <2>2. m \in {"acphy_radio_on", "acphy_radio_postlpf", "acphy_cal_inputs"} /\ m # "normal"
    BY <1>4 DEF RadioModes
  <2>3. PICK p \in {"rev1", "complete"} : Runs(P, m, AfterChain(P, m), Chained(m), Later(m, p))
    BY <1>4, <2>1, <2>2, RadioOnDoes, CalInputsDoes
  <2>4. /\ Later(m, p) \in Points /\ Later(m, p).state = "post_ucode" /\ Later(m, p).lent = {}
        /\ Later(m, p).try = "no" /\ Later(m, p).res = {}
    BY PhasePoints
  <2>5. Ends(m, Later(m, p))
    BY <2>2, <2>4 DEF Ends
  <2> QED
    BY <2>3, <2>4, <2>5 DEF Dead
<1>5. ASSUME m \notin {"normal", "acphy_pre_radio"} \cup DOMAIN Class0Modes \cup RadioModes
      PROVE  Runs(P, m, AfterChain(P, m), Chained(m), Chained(m)) /\ Ends(m, Chained(m))
  <2>1. m \notin Returning
    BY <1>5 DEF Returning, Class0Modes
  <2>2. /\ Chained(m) \in Points /\ Chained(m).lent = {} /\ Chained(m).try = "no" /\ Chained(m).res = {}
    BY PhasePoints
  <2>3. Ends(m, Chained(m))
    BY <1>5, <2>1, <2>2 DEF Ends
  <2>4. CASE m = "radio2069_rev4_probe"
    <3>1. AfterChain(P, m) = Stage("phase", Rev4Probe)
      BY <2>4 DEF AfterChain, Class0Modes
    <3> QED
      BY <2>3, <2>4, <3>1, Rev4Does
  <2>5. CASE m # "radio2069_rev4_probe"
    <3>1. AfterChain(P, m) = << >>
      BY <1>5, <2>5 DEF AfterChain, RadioModes
    <3> QED
      BY <2>2, <2>3, <3>1, NothingRuns
  <2> QED
    BY <2>4, <2>5
<1>6. Chained(m) \in Points /\ Chained(m).state = "post_ucode"
  BY PhasePoints
<1> QED
  BY <1>1, <1>2, <1>3, <1>4, <1>5, <1>6 DEF Dead

\* The ladder.
LEMMA RunsMoves ==
  ASSUME NEW P, NEW m, NEW p, NEW c, NEW d, Runs(P, m, p, c, d), c # d
  PROVE  p # << >>
<1> SUFFICES ASSUME p = << >> PROVE FALSE
  OBVIOUS
<1>1. Len(p) = 0
  OBVIOUS
<1> QED
  BY <1>1 DEF Runs

\* The modes along the normal path lead to a point where the probe may be over.
LEMMA LadderRuns ==
  ASSUME NEW P, NEW m, m \notin Isolated
  PROVE  \E d \in Points : Runs(P, m, Ladder(P, m), Start, d) /\ Ends(m, d) /\ d # Start
<1> DEFINE short == m \in {"d11_transaction_timing", "acphy_identity_timing"}
           rest == Stage("attach", AttachIdentity(P, ShmRoundtrip)) \o Stage("identity_gate", IdentityGate) \o
                   Stage("fwprobe", FwProbe) \o PublishedChain \o AfterChain(P, m)
<1>1. Runs(P, m, SiProbe(P, m), Start, Probed(m))
  BY SiDoes
<1>2. /\ Probed(m) \in Points /\ Probed(m).state = "core" /\ Probed(m).lent = {}
      /\ Probed(m).try = "no" /\ Probed(m).res = {} /\ Probed(m).did = "none"
      /\ Start.state = "none"
  BY DEF Probed, Woken, Start, Points, Dids
<1>3. CASE short
  <2>1. Ladder(P, m) = SiProbe(P, m) \o << >>
    BY <1>3 DEF Ladder
  <2>2. Runs(P, m, << >>, Probed(m), Probed(m))
    BY <1>2, NothingRuns
  <2>3. Ends(m, Probed(m))
    BY <1>2, <1>3 DEF Ends, Returning
  <2> QED
    BY <1>1, <1>2, <2>1, <2>2, <2>3, RunsOn
<1>4. CASE ~short
  <2>1. Ladder(P, m) = SiProbe(P, m) \o rest
    BY <1>4 DEF Ladder
  <2>2. Runs(P, m, Stage("attach", AttachIdentity(P, ShmRoundtrip)), Probed(m), Named(m))
    BY <1>4, AttachDoes, RunsOfDoes
  <2>3. \A pl \in {"identity_gate", "fwprobe"} : pl \in Places /\ Safe(m, Named(m), pl)
    <3>1. /\ Named(m) \in Points /\ Named(m).state = "attach" /\ Named(m).lent = {}
          /\ Named(m).try = "no" /\ Named(m).res = {} /\ Named(m).did = "none"
      BY <1>2 DEF Named, Points
    <3> QED
      BY <3>1 DEF Safe, Leaves, Dead, Places
  <2>4. /\ Runs(P, m, Stage("identity_gate", IdentityGate), Named(m), Named(m))
        /\ Runs(P, m, Stage("fwprobe", FwProbe), Named(m), Named(m))
    BY <2>3, SiParts, CalmDoes, RunsOfDoes
  <2>5. Runs(P, m, PublishedChain, Named(m), Chained(m))
    BY <1>4, PublishedChainDoes
  <2>6. PICK d \in Points : Runs(P, m, AfterChain(P, m), Chained(m), d) /\ Ends(m, d) /\ d.state = "post_ucode"
    BY <1>4, AfterChainDoes
  <2>7. Runs(P, m, rest, Probed(m), d)
    <3>1. Runs(P, m, Stage("attach", AttachIdentity(P, ShmRoundtrip)) \o Stage("identity_gate", IdentityGate) \o
                     Stage("fwprobe", FwProbe), Probed(m), Named(m))
      BY <2>2, <2>4, RunsThrice
    <3> QED
      BY <2>5, <2>6, <3>1, RunsThrice
  <2> HIDE DEF rest
  <2> QED
    BY <1>1, <1>2, <2>1, <2>6, <2>7, RunsOn
<1> QED
  BY <1>3, <1>4

-----------------------------------------------------------------------------
(***************************************************************************)
(* The isolated modes.                                                     *)
(***************************************************************************)
LEMMA StartSafe ==
  ASSUME NEW m \in Isolated, NEW pl
  PROVE  Safe(m, Start, pl) /\ Settles(Start) /\ Ends(m, Start)
<1>1. /\ Start \in Points /\ Start.state = "none" /\ Start.did = "none" /\ Start.lent = {}
      /\ Start.res = {} /\ Start.try = "no" /\ ~Start.lossy
  BY DEF Start, Points, Dids
<1>2. m # "normal" /\ m \notin Returning
  BY DEF Isolated, DmaModes, Returning
<1> QED
  BY <1>1, <1>2 DEF Safe, Dead, Leaves, Settles, Ends

\* A program with a step is not empty.
LEMMA NotNothing ==
  ASSUME NEW K, NEW p \in Seq(K), NEW q \in Seq(K), p # << >>
  PROVE  p \o q # << >>
<1>1. Len(p) \in Nat /\ Len(p) # 0 /\ Len(q) \in Nat /\ Len(p \o q) = Len(p) + Len(q)
  BY ConcatProperties
<1>2. Len(p \o q) # 0
  BY <1>1
<1> QED
  BY <1>2

\* Nor is its stage.
LEMMA StageSome ==
  ASSUME NEW pl \in Places, NEW kinds \in Seq(Kinds), kinds # << >>
  PROVE  Stage(pl, kinds) # << >>
<1>1. Stage(pl, kinds) \in Seq(Step) /\ Len(Stage(pl, kinds)) = Len(kinds)
  BY StageIs
<1>2. Len(kinds) # 0
  OBVIOUS
<1> QED
  BY <1>1, <1>2

\* One stage of quiet steps.
LEMMA QuietRuns ==
  ASSUME NEW P, NEW m \in Isolated, NEW pl \in Places, pl # "ucode", NEW p \in Seq(Usual), p # << >>
  PROVE  Runs(P, m, Stage(pl, p), Start, Start) /\ Stage(pl, p) # << >>
<1>1. Safe(m, Start, pl) /\ Settles(Start)
  BY StartSafe
<1>2. Does(P, m, pl, p, Start, Start)
  BY <1>1, UsualDoes
<1>3. p \in Seq(Kinds)
  BY <1>2 DEF Does
<1> QED
  BY <1>2, <1>3, RunsOfDoes, StageSome

\* The isolated modes that only look, or reset the core.
LEMMA QuietProgramsRun ==
  ASSUME NEW P, NEW m \in {"sflags_diag", "fw_validate", "rev42_attach_probe", "rev42_sb_reset",
                          "rev42_ai_wrapper", "rev42_ai_enable", "rev42_maccontrol_once"}
  PROVE  Runs(P, m, Program(P, m), Start, Start) /\ Program(P, m) # << >>
<1>0. m \in Isolated /\ "isolated" \in Places /\ "ai" \in Places
  BY DEF Isolated, Places
<1>1. SflagsEvidence \in Seq(Usual) /\ SflagsEvidence # << >>
  <2> DEFINE a == <<"supply">> \o Context
             b == <<"alive">>
  <2>1. <<"supply">> \in Seq(Usual) /\ <<"supply">> # << >> /\ Context \in Seq(Usual)
    BY DEF Context, Usual, Calm
  <2>2. a \in Seq(Usual) /\ b \in Seq(Usual) /\ a # << >>
    <3>1. b \in Seq(Usual)
      BY DEF Usual, Calm
    <3>2. <<"supply">> \o Context \in Seq(Usual) /\ <<"supply">> \o Context # << >>
      BY <2>1, NotNothing, QuietJoin
    <3> QED
      BY <3>1, <3>2
  <2> HIDE DEF a, b
  <2>3. a \o b \in Seq(Usual) /\ a \o b # << >>
    BY <2>2, NotNothing, ConcatProperties
  <2> QED
    BY <2>3 DEF SflagsEvidence, a, b
<1>2. FwProbe \in Seq(Usual) /\ FwProbe # << >>
  <2> DEFINE a == <<"supply">>
  <2>1. a \in Seq(Usual) /\ a # << >> /\ Len(a) = 1
    BY DEF Usual, Calm
  <2> HIDE DEF a
  <2>2. Times(3, a) \in Seq(Usual) /\ Len(Times(3, a)) = 3 * Len(a)
    BY <2>1, TimesIs
  <2>3. Times(3, a) # << >>
    <3>1. Len(Times(3, a)) # 0
      BY <2>1, <2>2
    <3> QED
      BY <3>1
  <2> QED
    BY <2>2, <2>3 DEF FwProbe, FwRequest, a
<1>3. AttachTest # << >>
  <2>1. AttachCore \in Seq(Usual) /\ AttachCore # << >>
    BY DEF AttachCore, Usual, Calm, Wakes
  <2>2. AttachClocks \in Seq(Usual) /\ AttachSites \in Seq(Usual)
    <3>1. Times(3, <<"blind">>) \in Seq(Usual) /\ Times(2, <<"blind">>) \in Seq(Usual)
      BY QuietTimes DEF Usual, Calm
    <3>2. <<"trust", "post", "trust">> \in Seq(Usual) /\ <<"trust">> \in Seq(Usual)
      BY DEF Usual, Calm, Latching
    <3> DEFINE p == <<"post", "trust">>
    <3>3. p \in Seq(Usual) /\ p # << >>
      BY DEF Usual, Calm, Latching
    <3> HIDE DEF p
    <3>4. Times(3, p) \in Seq(Usual)
      BY <3>3, TimesIs
    <3> QED
      BY <3>1, <3>2, <3>4, QuietJoin DEF AttachSites, AttachClocks, p
  <2> DEFINE x == AttachCore
             y == AttachClocks
             z == AttachSites
  <2> HIDE DEF x, y, z
  <2>3. x \o y \in Seq(Usual) /\ x \o y # << >>
    BY <2>1, <2>2, NotNothing, ConcatProperties DEF x, y
  <2>4. (x \o y) \o z # << >>
    BY <2>2, <2>3, NotNothing DEF z
  <2> QED
    BY <2>4 DEF AttachTest, x, y, z
<1>4. SbReset # << >>
  <2>1. SbEntry \in Seq(Usual) /\ SbEntry # << >> /\ SbDisable \in Seq(Usual) /\ SbRelease \in Seq(Usual)
    BY DEF SbEntry, SbDisable, SbRelease, Usual, Calm, Wakes
  <2> DEFINE x == SbEntry
             y == SbDisable
             z == SbRelease
  <2> HIDE DEF x, y, z
  <2>3. x \o y \in Seq(Usual) /\ x \o y # << >>
    BY <2>1, NotNothing, ConcatProperties DEF x, y
  <2>4. (x \o y) \o z # << >>
    BY <2>1, <2>3, NotNothing DEF z
  <2> QED
    BY <2>4 DEF SbReset, x, y, z
<1>5. <<"entry">> \in Seq(Usual) /\ <<"entry">> # << >>
  BY DEF Usual, Calm
<1>6. AiWrapper # << >>
  <2> DEFINE x == <<"entry">>
             y == Times(3, WrapperRead)
  <2>1. x \in Seq(Usual) /\ x # << >>
    BY <1>5
  <2>2. y \in Seq(Usual)
    BY QuietTimes DEF WrapperRead, Usual, Latching
  <2> HIDE DEF x, y
  <2>3. x \o y # << >>
    BY <2>1, <2>2, NotNothing
  <2> QED
    BY <2>3 DEF AiWrapper, x, y
<1>7. AiEnable # << >>
  <2> DEFINE x == <<"entry">>
             y == Times(3, WrapperIdle)
             z == Times(3, <<"transition">>)
  <2>1. x \in Seq(Usual) /\ x # << >>
    BY <1>5
  <2>2. y \in Seq(Usual) /\ z \in Seq(Usual)
    BY QuietTimes DEF WrapperIdle, Usual, Latching
  <2> HIDE DEF x, y, z
  <2>3. x \o y \in Seq(Usual) /\ x \o y # << >>
    BY <2>1, <2>2, NotNothing, ConcatProperties
  <2>4. (x \o y) \o z # << >>
    BY <2>2, <2>3, NotNothing
  <2> QED
    BY <2>4 DEF AiEnable, x, y, z
<1>8. CASE m = "sflags_diag"
  <2>1. Program(P, m) = Stage("isolated", SflagsEvidence)
    BY <1>8 DEF Program
  <2> QED
    BY <1>0, <1>1, <2>1, QuietRuns
<1>9. CASE m = "fw_validate"
  <2>1. Program(P, m) = Stage("isolated", FwProbe)
    BY <1>9 DEF Program
  <2> QED
    BY <1>0, <1>2, <2>1, QuietRuns
<1>10. CASE m = "rev42_attach_probe"
  <2>1. Program(P, m) = Stage("isolated", AttachTest)
    BY <1>10 DEF Program
  <2> QED
    BY <1>0, <1>3, <2>1, QuietRuns, IsolatedParts
<1>11. CASE m = "rev42_sb_reset"
  <2>1. Program(P, m) = Stage("isolated", SbReset)
    BY <1>11 DEF Program
  <2> QED
    BY <1>0, <1>4, <2>1, QuietRuns, IsolatedParts
<1>12. CASE m = "rev42_ai_wrapper"
  <2>1. Program(P, m) = Stage("isolated", AiWrapper)
    BY <1>12 DEF Program, AiWrapperTest
  <2> QED
    BY <1>0, <1>6, <2>1, QuietRuns, IsolatedParts
<1>13. Runs(P, m, AiEnableTest, Start, Start) /\ AiEnableTest # << >>
  BY <1>0, <1>7, QuietRuns, IsolatedParts DEF AiEnableTest
<1>14. CASE m = "rev42_ai_enable"
  <2>1. Program(P, m) = AiEnableTest
    BY <1>14 DEF Program
  <2> QED
    BY <1>13, <2>1
<1>15. CASE m = "rev42_maccontrol_once"
  <2>1. Program(P, m) = AiEnableTest \o Stage("ai", MaccontrolOnce)
    BY <1>15 DEF Program, MaccontrolOnceTest
  <2>2. MaccontrolOnce # << >>
    BY DEF MaccontrolOnce
  <2>3. Runs(P, m, Stage("ai", MaccontrolOnce), Start, Start)
    BY <1>0, <2>2, QuietRuns, IsolatedParts
  <2>4. AiEnableTest \in Seq(Step) /\ Stage("ai", MaccontrolOnce) \in Seq(Step)
    BY <1>13, <2>3 DEF Runs
  <2> QED
    BY <1>13, <2>1, <2>3, <2>4, RunsOn, NotNothing
<1> QED
  BY <1>8, <1>9, <1>10, <1>11, <1>12, <1>14, <1>15

\* The SPROM evidence mode.
LEMMA SpromEvidenceRuns ==
  ASSUME NEW P, NEW m, m = "sprom_evidence"
  PROVE  Runs(P, m, Program(P, m), Start, Start) /\ Program(P, m) # << >>
<1>0. m \in Isolated /\ "isolated" \in Places
  BY DEF Isolated, Places
<1>1. Safe(m, Start, "isolated") /\ Settles(Start) /\ Start.try = "no"
  BY <1>0, StartSafe DEF Settles
<1>2. <<"supply", "entry", "supply">> \in Seq(Calm)
  BY DEF Calm
<1>3. Does(P, m, "isolated", <<"supply", "entry", "supply">>, Start, Start)
  BY <1>0, <1>1, <1>2, CalmDoes
<1>4. Does(P, m, "isolated", <<"sprom_asked">>, Start, Start)
  BY <1>0, <1>1, GateDoes DEF GateKinds, Opens, Exempt
<1>5. Does(P, m, "isolated", SpromDiag, Start, Start)
  BY <1>0, <1>1, SiParts, CalmDoes
<1>6. Does(P, m, "isolated", <<"supply", "entry", "supply">> \o <<"sprom_asked">> \o SpromDiag, Start, Start)
  BY <1>0, <1>3, <1>4, <1>5, DoesThrice
<1>7. SpromEvidence = <<"supply", "entry", "supply">> \o <<"sprom_asked">> \o SpromDiag
  BY DEF SpromEvidence, Context, SpromDiag
<1>8. Program(P, m) = Stage("isolated", SpromEvidence)
  BY DEF Program
<1>9. SpromEvidence # << >>
  BY DEF SpromEvidence, Context, SpromDiag
<1>10. SpromEvidence \in Seq(Kinds)
  BY <1>6, <1>7 DEF Does
<1> QED
  BY <1>0, <1>6, <1>7, <1>8, <1>9, <1>10, RunsOfDoes, StageSome

\* The isolated radio identity probe.
LEMMA RadioProbeRuns ==
  ASSUME NEW P, NEW m, m = "radio_id_probe"
  PROVE  Runs(P, m, Program(P, m), Start, Start) /\ Program(P, m) # << >>
<1>0. m \in Isolated /\ "isolated" \in Places
  BY DEF Isolated, Places
<1>1. Safe(m, Start, "isolated") /\ Settles(Start) /\ Start.lent = {}
  BY <1>0, StartSafe DEF Start
<1>2. Does(P, m, "isolated", PreIdentity({}), Start, Start)
  BY <1>0, <1>1, AttachParts, UsualDoes
<1>3. Does(P, m, "isolated", RadioSequence, Start, Start)
  BY <1>1, RadioSequenceDoes
<1>4. Does(P, m, "isolated", RadioProbe, Start, Start)
  BY <1>0, <1>2, <1>3, DoesOn DEF RadioProbe
<1>5. Program(P, m) = Stage("isolated", RadioProbe)
  BY DEF Program
<1>6. PreIdentity({}) # << >>
  <2> DEFINE x == <<"entry", "supply", "bus", "enable", "confirm">>
             y == Tripoint({})
             z == CoreMirror
  <2>1. x \in Seq(Usual) /\ x # << >>
    BY DEF Usual, Calm, Wakes, Latching
  <2>2. y \in Seq(Usual) /\ z \in Seq(Usual)
    BY AttachParts
  <2> HIDE DEF x, y, z
  <2>3. x \o y \in Seq(Usual) /\ x \o y # << >>
    BY <2>1, <2>2, NotNothing, ConcatProperties
  <2>4. (x \o y) \o z # << >>
    BY <2>2, <2>3, NotNothing
  <2> QED
    BY <2>4 DEF PreIdentity, x, y, z
<1>7. RadioProbe # << >> /\ RadioProbe \in Seq(Kinds)
  <2>1. PreIdentity({}) \in Seq(Kinds) /\ RadioSequence \in Seq(Kinds)
    BY <1>2, <1>3 DEF Does
  <2> QED
    BY <1>4, <1>6, <2>1, NotNothing DEF RadioProbe, Does
<1> QED
  BY <1>0, <1>4, <1>5, <1>7, RunsOfDoes, StageSome

-----------------------------------------------------------------------------
(***************************************************************************)
(* The isolated modes that load the firmware.                              *)
(***************************************************************************)
LEMMA FirmwareIsLoadable ==
  ASSUME NEW m \in Firmware
  PROVE  /\ m \in Isolated /\ Loadable(m, Start) /\ Done2A(Start) \in Points
         /\ Done2A(Start).did = "loaded" /\ Done2A(Start).lent = {} /\ Done2A(Start).res = {}
         /\ Done2A(Start).try = "no" /\ ~Done2A(Start).lossy /\ Done2A(Start).state = "core"
         /\ Start.did = "none"
<1>1. m \in Isolated
  BY DEF Firmware, Isolated
<1>2. /\ Start \in Points /\ Start.state = "none" /\ Start.did = "none" /\ Start.lent = {}
      /\ Start.res = {} /\ Start.try = "no" /\ ~Start.lossy
  BY DEF Start, Points, Dids
<1>3. Safe(m, Start, "ucode") /\ Settles(Start)
  BY <1>1, StartSafe
<1>4. Loadable(m, Start)
  BY <1>2, <1>3 DEF Loadable, CoreIsReady, Owning
<1>5. /\ Done2A(Start) \in Points
      /\ Done2A(Start).did = "loaded" /\ Done2A(Start).lent = {} /\ Done2A(Start).res = {}
      /\ Done2A(Start).try = "no" /\ ~Done2A(Start).lossy /\ Done2A(Start).state = "core"
  BY DEF Done2A, Ready2A, Begun2A, Start, Points, Dids
<1> QED
  BY <1>1, <1>2, <1>4, <1>5

\* The ucode test.
LEMMA UcodeTestRuns ==
  ASSUME NEW P, NEW m, m = "ucode_test"
  PROVE  \E d \in Points : Runs(P, m, Program(P, m), Start, d) /\ Ends(m, d) /\ d # Start
<1> DEFINE d == Done2A(Start)
<1>0. m \in Firmware /\ "ucode" \in Places
  BY DEF Firmware, Places
<1>1. /\ Loadable(m, Start) /\ d \in Points /\ d.did = "loaded" /\ d.lent = {} /\ d.res = {}
      /\ d.try = "no" /\ ~d.lossy /\ Start.did = "none"
  BY <1>0, FirmwareIsLoadable
<1>2. Safe(m, d, "ucode") /\ Settles(d)
  BY <1>1, Points2A
<1>3. Does(P, m, "ucode", D2A, Start, d)
  BY <1>1, D2ADoes
<1> HIDE DEF d
<1>4. Does(P, m, "ucode", ShmDiag, d, d)
  BY <1>0, <1>1, <1>2, IsolatedParts, UsualDoes
<1>5. Does(P, m, "ucode", D2A \o ShmDiag, Start, d)
  BY <1>0, <1>3, <1>4, DoesOn
<1>6. Program(P, m) = Stage("ucode", D2A \o ShmDiag)
  BY DEF Program, UcodeTest
<1>7. Ends(m, d)
  BY <1>1 DEF Ends, Returning
<1> QED
  BY <1>1, <1>5, <1>6, <1>7, RunsOfDoes

\* The initvals test.
LEMMA InitvalsTestRuns ==
  ASSUME NEW P, NEW m, m = "initvals_test"
  PROVE  \E d \in Points : Runs(P, m, Program(P, m), Start, d) /\ Ends(m, d) /\ d # Start
<1> DEFINE c == Done2A(Start)
           d == [c EXCEPT !.did = "common"]
<1>0. m \in Firmware
  BY DEF Firmware
<1>1. /\ c \in Points /\ c.lent = {} /\ c.res = {} /\ c.try = "no" /\ Start.did = "none"
  BY <1>0, FirmwareIsLoadable
<1>2. Runs(P, m, Chain(FALSE), Start, d)
  BY <1>0, OwnChainDoes
<1> HIDE DEF c
<1>3. /\ d \in Points /\ d.did = "common" /\ d.lent = {} /\ d.res = {} /\ d.try = "no"
  BY <1>1 DEF Points, Dids
<1>4. Program(P, m) = Chain(FALSE)
  BY DEF Program
<1>5. Ends(m, d)
  BY <1>3 DEF Ends, Returning
<1> HIDE DEF d
<1> QED
  BY <1>1, <1>2, <1>3, <1>4, <1>5

\* The DMA tests.
LEMMA DmaTestRuns ==
  ASSUME NEW P, NEW m \in DmaModes
  PROVE  \E d \in Points : Runs(P, m, Program(P, m), Start, d) /\ Ends(m, d) /\ d # Start
<1> DEFINE c == Done2A(Start)
           d == [c EXCEPT !.did = "common"]
           b == m # "dma_test"
<1>0. m \in Firmware /\ m \in Isolated /\ "dma" \in Places
  BY DEF Firmware, Isolated, Places
<1>1. /\ c \in Points /\ c.lent = {} /\ c.res = {} /\ c.try = "no" /\ Start.did = "none"
      /\ ~c.lossy /\ c.state = "core"
  BY <1>0, FirmwareIsLoadable
<1>2. Runs(P, m, Chain(FALSE), Start, d) /\ Safe(m, d, "dma") /\ Settles(d)
  BY <1>0, OwnChainDoes
<1> HIDE DEF c
<1>3. /\ d \in Points /\ d.did = "common" /\ d.lent = {} /\ d.res = {} /\ d.try = "no"
      /\ ~d.lossy /\ d.state = "core"
  BY <1>1 DEF Points, Dids
<1> HIDE DEF d, b
<1>4. Runs(P, m, Stage("dma", When(b, BoardData) \o <<"entry">>), Start, Start)
  <2>1. When(b, BoardData) \in Seq(Calm) /\ <<"entry">> \in Seq(Calm)
    <3>1. BoardData \in Seq(Calm)
      BY SiParts DEF BoardData
    <3>2. <<"entry">> \in Seq(Calm)
      BY DEF Calm
    <3> QED
      BY <3>1, <3>2, EmptySeq DEF When
  <2>2. Safe(m, Start, "dma")
    BY <1>0, StartSafe
  <2>3. Does(P, m, "dma", When(b, BoardData) \o <<"entry">>, Start, Start)
    BY <1>0, <2>1, <2>2, QuietJoin, CalmDoes
  <2> QED
    BY <2>3, RunsOfDoes
<1>5. Runs(P, m, Stage("dma", <<"isolated">>), d, d)
  <2>1. ASSUME NEW s \in Step, s.kind = "isolated", s.at = "dma" PROVE Link(P, m, d, s, d)
    <3>1. Below(Moves(d, s), d)
      <4>1. Moves(d, s) = d
        BY Zenon, <2>1, MovesIs
      <4> QED
        BY <4>1 DEF Below, Skips
    <3>2. Exits(m, d, s)
      BY <2>1, <1>2, <1>3 DEF Exits, Safe, Begins, Wakes
    <3>3. Allows(P, m, d, s)
      BY <2>1, <1>3 DEF Allows, GateKinds, Begins, Wakes, Latching, LadderKinds, Resources, Adds
    <3> QED
      BY <2>1, <1>2, <1>3, <3>1, <3>2, <3>3 DEF Link, Blocks, Safe
  <2>2. Does(P, m, "dma", <<"isolated">>, d, d)
    BY <1>0, <1>2, <1>3, <2>1, DoesStep DEF Kinds
  <2> QED
    BY <2>2, RunsOfDoes
<1>6. Program(P, m) = DmaTest(m)
  BY DEF Program, DmaModes
<1>7. Runs(P, m, Program(P, m), Start, d)
  BY <1>2, <1>4, <1>5, <1>6, RunsThrice DEF DmaTest, b
<1>8. Ends(m, d)
  BY <1>3 DEF Ends, Returning, DmaModes
<1> QED
  BY <1>1, <1>3, <1>7, <1>8

-----------------------------------------------------------------------------
(***************************************************************************)
(* The staged diagnosis: its firmware stage stops at the gate of the core. *)
(***************************************************************************)
Never == [Start EXCEPT !.state = "never"]

\* Of steps that no probe comes to nothing need be said.
LEMMA NeverDoes ==
  ASSUME NEW P, NEW m, m = "rev42_diag_probe", NEW pl \in Places, NEW kinds \in Seq(Kinds)
  PROVE  Does(P, m, pl, kinds, Never, Never)
<1>1. Never \in Points /\ Dead(Never)
  BY DEF Never, Start, Points, Dids, Dead
<1>2. \A k \in Kinds : Link(P, m, Never, [kind |-> k, at |-> pl], Never)
  BY <1>1 DEF Link
<1> QED
  BY <1>1, <1>2, DoesStill

\* The staged diagnosis stops at the gate of its D2A, before the first write to the core.
LEMMA StagedDoes ==
  ASSUME NEW P, NEW m, m = "rev42_diag_probe", "rev42_diag_full" \in P
  PROVE  Does(P, m, "ucode", D2A, Start, Never)
<1>0. m \in Isolated /\ "ucode" \in Places /\ Never \in Points
  BY DEF Isolated, Places, Never, Start, Points, Dids
<1>1. Safe(m, Start, "ucode") /\ Settles(Start) /\ Start.try = "no" /\ Start.state = "none"
  BY <1>0, StartSafe DEF Start
<1>2. Does(P, m, "ucode", <<"entry", "supply", "supply">>, Start, Start)
  <2>1. <<"entry", "supply", "supply">> \in Seq(Calm)
    BY DEF Calm
  <2> QED
    BY <1>0, <1>1, <2>1, CalmDoes
<1>3. Does(P, m, "ucode", <<"entry">>, Start, Start)
  <2>1. <<"entry">> \in Seq(Calm)
    BY DEF Calm
  <2> QED
    BY <1>0, <1>1, <2>1, CalmDoes
<1>4. Does(P, m, "ucode", <<"core_ready">>, Start, Never)
  <2>1. ASSUME NEW s \in Step, s.kind = "core_ready", s.at = "ucode" PROVE Link(P, m, Start, s, Never)
    <3>0. Never.state = "never" /\ ~CoreIsReady(m, Start)
      BY <1>1 DEF Never, Start, CoreIsReady, Firmware, DmaModes
    <3>2. Exits(m, Start, s)
      BY <2>1, <1>1 DEF Exits, Safe, Begins, Wakes
    <3>3. Allows(P, m, Start, s)
      BY <2>1, <1>1 DEF Allows, GateKinds, Begins, Wakes, Latching, LadderKinds, Resources, Adds,
         Opens, Exempt
    <3> QED
      BY <2>1, <1>1, <3>0, <3>2, <3>3 DEF Link, Blocks, Dead
  <2> QED
    BY <1>0, <1>1, <2>1, DoesStep DEF Kinds, GateKinds
<1>5. Does(P, m, "ucode", <<"entry", "core_ready">>, Start, Never)
  <2>1. Does(P, m, "ucode", <<"entry">> \o <<"core_ready">>, Start, Never)
    BY <1>0, <1>3, <1>4, DoesOn
  <2>2. <<"entry", "core_ready">> = <<"entry">> \o <<"core_ready">>
    OBVIOUS
  <2> QED
    BY <2>1, <2>2
<1>6. /\ Does(P, m, "ucode", Snapshot, Never, Never) /\ Does(P, m, "ucode", <<"bus">>, Never, Never)
      /\ Does(P, m, "ucode", <<"enable">>, Never, Never)
      /\ Does(P, m, "ucode", <<"bus", "confirm", "check", "publish_core">>, Never, Never)
      /\ Does(P, m, "ucode", D2AUpload, Never, Never) /\ Does(P, m, "ucode", D2AStart, Never, Never)
  <2>1. /\ Snapshot \in Seq(Kinds) /\ <<"bus">> \in Seq(Kinds) /\ <<"enable">> \in Seq(Kinds)
        /\ <<"bus", "confirm", "check", "publish_core">> \in Seq(Kinds)
    BY DEF Snapshot, Kinds, Wakes, Latching
  <2>2. D2AUpload \in Seq(Kinds) /\ D2AStart \in Seq(Kinds)
    BY DEF D2AUpload, D2AStart, Kinds, Wakes, Latching
  <2> QED
    BY <1>0, <2>1, <2>2, NeverDoes
<1> DEFINE a == <<"entry", "core_ready">>
           b == <<"bus">>
           c == <<"enable">>
           e == <<"bus", "confirm", "check", "publish_core">>
<1> HIDE DEF a, b, c, e
<1>7. Does(P, m, "ucode", a \o Snapshot \o b, Start, Never)
  BY <1>0, <1>5, <1>6, DoesThrice DEF a, b
<1>8. Does(P, m, "ucode", (a \o Snapshot \o b) \o Snapshot \o c, Start, Never)
  BY <1>0, <1>6, <1>7, DoesThrice DEF c
<1>9. Does(P, m, "ucode", ((a \o Snapshot \o b) \o Snapshot \o c) \o Snapshot \o e, Start, Never)
  BY <1>0, <1>6, <1>8, DoesThrice DEF e
<1>10. Does(P, m, "ucode", UcodePrepare, Start, Never)
  BY <1>9 DEF UcodePrepare, a, b, c, e
<1>11. Does(P, m, "ucode", D2APrepare, Start, Never)
  BY <1>0, <1>2, <1>10, DoesOn DEF D2APrepare
<1> QED
  BY <1>0, <1>6, <1>11, DoesThrice DEF D2A

\* The diagnosis, staged or not.
LEMMA DiagTestRuns ==
  ASSUME NEW P, NEW m, m = "rev42_diag_probe"
  PROVE  /\ \E d \in Points : Runs(P, m, Program(P, m), Start, d) /\ Ends(m, d)
         /\ Program(P, m) # << >>
<1> DEFINE full == "rev42_diag_full" \in P
           a == <<"supply", "entry">> \o DiagPrepare \o <<"trust">> \o DiagRadio
           z == <<"post", "trust">> \o DiagRadio \o <<"trust", "trust", "read">>
           first == Stage("diag", a)
           staged == Stage("ucode", D2A) \o Stage("diag", <<"trust">>) \o
                     Stage("common", Initvals) \o Stage("diag", <<"trust", "trust">>)
           last == Stage("diag", z)
           d == IF full THEN Never ELSE Start
<1>0. m \in Isolated /\ "diag" \in Places /\ "common" \in Places /\ Start \in Points /\ Never \in Points
  BY DEF Isolated, Places, Never, Start, Points, Dids
<1>1. a \in Seq(Usual) /\ a # << >> /\ z \in Seq(Usual) /\ z # << >>
  <2> DEFINE i == <<"supply", "entry">>
             j == <<"trust">>
             k == <<"post", "trust">>
             l == <<"trust", "trust", "read">>
  <2>1. i \in Seq(Usual) /\ i # << >> /\ j \in Seq(Usual) /\ k \in Seq(Usual) /\ k # << >> /\ l \in Seq(Usual)
    <3>1. i \in Seq(Usual) /\ i # << >>
      BY DEF Usual, Calm
    <3>2. j \in Seq(Usual)
      BY DEF Usual, Latching
    <3>3. k \in Seq(Usual) /\ k # << >>
      BY DEF Usual, Calm, Latching
    <3>4. l \in Seq(Usual)
      BY DEF Usual, Calm, Latching
    <3> HIDE DEF i, j, k, l
    <3> QED
      BY <3>1, <3>2, <3>3, <3>4
  <2>2. DiagPrepare \in Seq(Usual) /\ DiagRadio \in Seq(Usual)
    BY IsolatedParts
  <2> HIDE DEF i, j, k, l
  <2>3. i \o DiagPrepare \in Seq(Usual) /\ i \o DiagPrepare # << >>
    BY <2>1, <2>2, NotNothing, QuietJoin
  <2>4. (i \o DiagPrepare) \o j \in Seq(Usual) /\ (i \o DiagPrepare) \o j # << >>
    BY <2>1, <2>3, NotNothing, QuietJoin
  <2>5. ((i \o DiagPrepare) \o j) \o DiagRadio \in Seq(Usual) /\ ((i \o DiagPrepare) \o j) \o DiagRadio # << >>
    BY <2>2, <2>4, NotNothing, QuietJoin
  <2>6. k \o DiagRadio \in Seq(Usual) /\ k \o DiagRadio # << >>
    BY <2>1, <2>2, NotNothing, QuietJoin
  <2>7. (k \o DiagRadio) \o l \in Seq(Usual) /\ (k \o DiagRadio) \o l # << >>
    BY <2>1, <2>6, NotNothing, QuietJoin
  <2> QED
    BY <2>5, <2>7 DEF i, j, k, l
<1> HIDE DEF a, z
<1>2. Runs(P, m, first, Start, Start) /\ first # << >> /\ first \in Seq(Step)
  BY <1>0, <1>1, QuietRuns DEF Runs
<1>3. Runs(P, m, When(full, staged), Start, d)
  <2>1. CASE full
    <3>1. Runs(P, m, Stage("ucode", D2A), Start, Never)
      BY <2>1, StagedDoes, RunsOfDoes
    <3>2. /\ Runs(P, m, Stage("diag", <<"trust">>), Never, Never)
          /\ Runs(P, m, Stage("common", Initvals), Never, Never)
          /\ Runs(P, m, Stage("diag", <<"trust", "trust">>), Never, Never)
      <4>1. <<"trust">> \in Seq(Kinds) /\ <<"trust", "trust">> \in Seq(Kinds) /\ Initvals \in Seq(Kinds)
        BY DEF Initvals, Kinds, Latching, Calm
      <4> QED
        BY <1>0, <4>1, NeverDoes, RunsOfDoes
    <3>3. Runs(P, m, Stage("ucode", D2A) \o Stage("diag", <<"trust">>) \o Stage("common", Initvals), Start, Never)
      BY <3>1, <3>2, RunsThrice
    <3>4. Runs(P, m, staged, Start, Never)
      BY <3>2, <3>3, RunsOn
    <3> QED
      BY <2>1, <3>4 DEF When
  <2>2. CASE ~full
    BY <2>2, <1>0, NothingRuns DEF When
  <2> QED
    BY <2>1, <2>2
<1>4. Runs(P, m, last, d, d)
  <2>1. CASE full
    <3>1. z \in Seq(Kinds)
      BY <1>1, SeqMonotonic DEF Usual, Kinds
    <3>2. Runs(P, m, last, Never, Never)
      BY <1>0, <3>1, NeverDoes, RunsOfDoes
    <3> QED
      BY <2>1, <3>2
  <2>2. CASE ~full
    BY <2>2, <1>0, <1>1, QuietRuns
  <2> QED
    BY <2>1, <2>2
<1>5. Ends(m, d) /\ d \in Points
  <2>1. Ends(m, Start)
    BY <1>0, StartSafe
  <2>2. Ends(m, Never)
    BY DEF Ends, Dead, Never, Start
  <2> QED
    BY <1>0, <2>1, <2>2
<1>6. Program(P, m) = first \o When(full, staged) \o last
  BY DEF Program, DiagTest, a, z
<1> DEFINE middle == When(full, staged)
<1> HIDE DEF first, staged, last, d, full, middle
<1>7. Runs(P, m, Program(P, m), Start, d)
  BY <1>2, <1>3, <1>4, <1>6, RunsThrice
<1>8. Program(P, m) # << >>
  <2>1. middle \in Seq(Step) /\ last \in Seq(Step) /\ first \in Seq(Step)
    BY <1>2, <1>3, <1>4 DEF Runs, middle
  <2>2. first \o middle \in Seq(Step) /\ first \o middle # << >>
    BY <1>2, <2>1, NotNothing, ConcatProperties
  <2>3. (first \o middle) \o last # << >>
    BY <2>1, <2>2, NotNothing
  <2> QED
    BY <1>6, <2>3 DEF middle
<1> QED
  BY <1>5, <1>7, <1>8

-----------------------------------------------------------------------------
(***************************************************************************)
(* Every program.                                                          *)
(***************************************************************************)
\* Whatever the parameters, the program of a mode is one that leads somewhere.
LEMMA ProgramRuns ==
  ASSUME NEW P, NEW m
  PROVE  /\ Program(P, m) \in Seq(Step) /\ Program(P, m) # << >>
         /\ \E d \in Points : Runs(P, m, Program(P, m), Start, d) /\ Ends(m, d)
<1> DEFINE p == Program(P, m)
<1>1. SUFFICES p # << >> /\ \E d \in Points : Runs(P, m, p, Start, d) /\ Ends(m, d)
  BY DEF Runs
<1>2. CASE m \notin Isolated
  <2>1. p = Ladder(P, m)
    BY Zenon, <1>2 DEF Program, Isolated, DmaModes
  <2> HIDE DEF p
  <2> QED
    BY <1>2, <2>1, LadderRuns, RunsMoves
<1>3. CASE m \in {"sflags_diag", "fw_validate", "rev42_attach_probe", "rev42_sb_reset",
                  "rev42_ai_wrapper", "rev42_ai_enable", "rev42_maccontrol_once"}
  <2>1. m \in Isolated
    BY <1>3 DEF Isolated
  <2>2. Runs(P, m, p, Start, Start) /\ p # << >>
    BY <1>3, QuietProgramsRun
  <2>3. Ends(m, Start) /\ Start \in Points
    BY <2>1, StartSafe DEF Safe
  <2> HIDE DEF p
  <2> QED
    BY <2>2, <2>3
<1>4. CASE m = "sprom_evidence"
  <2>1. m \in Isolated
    BY <1>4 DEF Isolated
  <2>2. Runs(P, m, p, Start, Start) /\ p # << >>
    BY <1>4, SpromEvidenceRuns
  <2>3. Ends(m, Start) /\ Start \in Points
    BY <2>1, StartSafe DEF Safe
  <2> HIDE DEF p
  <2> QED
    BY <2>2, <2>3
<1>5. CASE m = "radio_id_probe"
  <2>1. m \in Isolated
    BY <1>5 DEF Isolated
  <2>2. Runs(P, m, p, Start, Start) /\ p # << >>
    BY <1>5, RadioProbeRuns
  <2>3. Ends(m, Start) /\ Start \in Points
    BY <2>1, StartSafe DEF Safe
  <2> HIDE DEF p
  <2> QED
    BY <2>2, <2>3
<1>6. CASE m \in {"ucode_test", "initvals_test"} \cup DmaModes
  <2>1. \E d \in Points : Runs(P, m, p, Start, d) /\ Ends(m, d) /\ d # Start
    BY <1>6, UcodeTestRuns, InitvalsTestRuns, DmaTestRuns
  <2> HIDE DEF p
  <2> QED
    BY <2>1, RunsMoves
<1>7. CASE m = "rev42_diag_probe"
  BY <1>7, DiagTestRuns
<1> HIDE DEF p
<1> QED
  BY <1>2, <1>3, <1>4, <1>5, <1>6, <1>7 DEF Isolated

-----------------------------------------------------------------------------
Has(p, k) == \E i \in 1 .. Len(p) : p[i].kind = k

\* The steps of a join.
LEMMA JoinIs ==
  ASSUME NEW K, NEW p \in Seq(K), NEW q \in Seq(K)
  PROVE  /\ Len(p \o q) = Len(p) + Len(q) /\ Len(p) \in Nat /\ Len(q) \in Nat
         /\ \A i \in 1 .. Len(p) : (p \o q)[i] = p[i]
         /\ \A i \in Len(p) + 1 .. Len(p) + Len(q) : (p \o q)[i] = q[i - Len(p)]
OBVIOUS

\* A join has what its parts have.
LEMMA HasOn ==
  ASSUME NEW p \in Seq(Step), NEW q \in Seq(Step), NEW k, Has(p, k) \/ Has(q, k)
  PROVE  Has(p \o q, k)
<1>1. /\ Len(p \o q) = Len(p) + Len(q) /\ Len(p) \in Nat /\ Len(q) \in Nat
      /\ \A i \in 1 .. Len(p) : (p \o q)[i] = p[i]
      /\ \A i \in Len(p) + 1 .. Len(p) + Len(q) : (p \o q)[i] = q[i - Len(p)]
  BY JoinIs
<1>2. CASE Has(p, k)
  <2>1. PICK i \in 1 .. Len(p) : p[i].kind = k
    BY <1>2 DEF Has
  <2>2. i \in 1 .. Len(p \o q) /\ (p \o q)[i].kind = k
    BY <1>1, <2>1
  <2> QED
    BY <2>2 DEF Has
<1>3. CASE Has(q, k)
  <2>1. PICK i \in 1 .. Len(q) : q[i].kind = k
    BY <1>3 DEF Has
  <2> DEFINE j == Len(p) + i
  <2>2. j \in Len(p) + 1 .. Len(p) + Len(q) /\ j - Len(p) = i /\ j \in 1 .. Len(p \o q)
    BY <1>1
  <2> HIDE DEF j
  <2>3. (p \o q)[j].kind = k
    BY <1>1, <2>1, <2>2
  <2> QED
    BY <2>2, <2>3 DEF Has
<1> QED
  BY <1>2, <1>3

\* A load that may switch the radio on has a place where the prefix blocks.
LEMMA RadioIsBlocked ==
  ASSUME NEW P, NEW m \in RadioModes
  PROVE  Has(Program(P, m), "blocked")
<1>0. m \notin Isolated /\ m \notin {"d11_transaction_timing", "acphy_identity_timing"} /\ "phase" \in Places
      /\ PhaseMode(m)
  BY DEF RadioModes, Isolated, DmaModes, Places, PhaseMode
<1>1. Has(Stage("phase", RadioPrefix(P)), "blocked")
  <2> DEFINE x == <<"entry", "radio_gate", "board">> \o Class0(3) \o LpfStage(P) \o ShmWord
             y == <<"blocked">>
             n == Len(x) + 1
  <2>1. RadioPrefix(P) = x \o y
    BY DEF RadioPrefix
  <2>2. RadioPrefix(P) \in Seq(Kinds)
    BY PrefixDoes DEF Does
  <2>3. y \in Seq(Kinds) /\ Len(y) = 1 /\ y[1] = "blocked"
    BY DEF Kinds
  <2>4. x \in Seq(Kinds)
    <3>1. <<"entry", "radio_gate", "board">> \in Seq(Kinds) /\ ShmWord \in Seq(Kinds)
      BY DEF Kinds, Calm, GateKinds, ShmWord, Wakes, Latching
    <3>2. Class0(3) \in Seq(Kinds) /\ LpfStage(P) \in Seq(Kinds)
      <4>1. Does(P, m, "phase", Class0(3), Lent(m, RadioBits), Lent(m, IF 3 >= 3 THEN {} ELSE RadioBits))
        BY <1>0, Class0Does
      <4> QED
        BY <1>0, <4>1, LpfDoes DEF Does
    <3> QED
      BY <3>1, <3>2, ConcatProperties
  <2> HIDE DEF x, y
  <2>5. n \in 1 .. Len(x \o y) /\ (x \o y)[n] = "blocked"
    <3>1. /\ Len(x \o y) = Len(x) + Len(y) /\ Len(x) \in Nat
          /\ \A i \in Len(x) + 1 .. Len(x) + Len(y) : (x \o y)[i] = y[i - Len(x)]
      BY <2>3, <2>4, JoinIs
    <3>2. n \in Len(x) + 1 .. Len(x) + Len(y) /\ n - Len(x) = 1
      BY <2>3, <3>1
    <3> QED
      BY <2>3, <3>1, <3>2
  <2> DEFINE w == RadioPrefix(P)
             v == Stage("phase", w)
  <2>6. w \in Seq(Kinds) /\ n \in 1 .. Len(w) /\ w[n] = "blocked"
    BY <2>1, <2>2, <2>5
  <2> HIDE DEF n, w
  <2>7. Len(v) = Len(w) /\ \A i \in 1 .. Len(w) : v[i] = [kind |-> w[i], at |-> "phase"]
    BY <1>0, <2>6, StageIs
  <2> HIDE DEF v
  <2>8. v[n].kind = "blocked"
    <3>1. v[n] = [kind |-> w[n], at |-> "phase"]
      BY <2>6, <2>7
    <3> QED
      BY <2>6, <3>1
  <2> QED
    BY <2>6, <2>7, <2>8 DEF Has, v, w
<1>2. /\ Stage("pre_radio", PreRadio) \in Seq(Step) /\ Stage("phase", RadioPrefix(P)) \in Seq(Step)
      /\ Stage("phase", PostLpf(P)) \in Seq(Step)
  <2>1. {} \in SUBSET Bits
    OBVIOUS
  <2> QED
    BY <1>0, <2>1, PreRadioDoes, PrefixDoes, PostLpfDoes DEF Does, Runs
<1>3. RadioOnTest(P) \in Seq(Step) /\ Has(RadioOnTest(P), "blocked")
  BY <1>1, <1>2, HasOn, ConcatProperties DEF RadioOnTest
<1>4. PostLpfTest(P) \in Seq(Step) /\ Has(PostLpfTest(P), "blocked")
  BY <1>2, <1>3, HasOn, ConcatProperties DEF PostLpfTest
<1>5. m = "acphy_cal_inputs" => CalInputsTest(P) \in Seq(Step) /\ Has(CalInputsTest(P), "blocked")
  <2> DEFINE a == Stage("phase", Tripoint(P))
             b == PostLpfTest(P)
             c == Stage("inputs", CalibrationInputs)
             d == CalStage(P)
  <2>1. "inputs" \in Places
    BY DEF Places
  <2>2. a \in Seq(Step) /\ c \in Seq(Step)
    <3>1. Tripoint(P) \in Seq(Kinds)
      BY AttachParts, SeqMonotonic DEF Usual, Kinds
    <3>2. CalibrationInputs \in Seq(Kinds)
      BY DEF CalibrationInputs, Kinds, GateKinds
    <3> QED
      BY <1>0, <2>1, <3>1, <3>2, StageIs
  <2>3. d \in Seq(Step)
    <3>1. <<"entry", "stage">> \in Seq(Kinds)
      BY DEF Kinds, Calm, Latching
    <3>2. Stage("phase", <<"entry", "stage">>) \in Seq(Step)
      BY <1>0, <3>1, StageIs
    <3> QED
      BY <3>2, EmptySeq DEF CalStage, When
  <2> HIDE DEF a, b, c, d
  <2>4. a \o b \in Seq(Step) /\ Has(a \o b, "blocked")
    BY <1>4, <2>2, HasOn, ConcatProperties DEF b
  <2>5. (a \o b) \o c \in Seq(Step) /\ Has((a \o b) \o c, "blocked")
    BY <2>2, <2>4, HasOn, ConcatProperties
  <2>6. ((a \o b) \o c) \o d \in Seq(Step) /\ Has(((a \o b) \o c) \o d, "blocked")
    BY <2>3, <2>5, HasOn, ConcatProperties
  <2> QED
    BY <2>6 DEF CalInputsTest, a, b, c, d
<1>6. AfterChain(P, m) \in Seq(Step) /\ Has(AfterChain(P, m), "blocked")
  <2>1. /\ m = "acphy_radio_on" => AfterChain(P, m) = RadioOnTest(P)
        /\ m = "acphy_radio_postlpf" => AfterChain(P, m) = PostLpfTest(P)
        /\ m = "acphy_cal_inputs" => AfterChain(P, m) = CalInputsTest(P)
    BY DEF AfterChain, Class0Modes
  <2>2. m \in {"acphy_radio_on", "acphy_radio_postlpf", "acphy_cal_inputs"}
    BY DEF RadioModes
  <2> QED
    BY <1>3, <1>4, <1>5, <2>1, <2>2
<1>7. Program(P, m) = Ladder(P, m)
  BY <1>0 DEF Program, Isolated, DmaModes
<1> DEFINE a == SiProbe(P, m)
           b == Stage("attach", AttachIdentity(P, ShmRoundtrip))
           c == Stage("identity_gate", IdentityGate)
           d == Stage("fwprobe", FwProbe)
           e == PublishedChain
           f == AfterChain(P, m)
<1>8. Ladder(P, m) = a \o (b \o c \o d \o e \o f)
  BY <1>0 DEF Ladder
<1>9. a \in Seq(Step) /\ b \in Seq(Step) /\ c \in Seq(Step) /\ d \in Seq(Step) /\ e \in Seq(Step)
  <2>1. a \in Seq(Step) /\ e \in Seq(Step)
    BY <1>0, SiDoes, PublishedChainDoes DEF Runs
  <2>2. b \in Seq(Step)
    BY <1>0, AttachDoes DEF Does, Runs
  <2>3. IdentityGate \in Seq(Kinds) /\ FwProbe \in Seq(Kinds) /\ {"identity_gate", "fwprobe"} \subseteq Places
    BY SiParts, SeqMonotonic DEF Kinds, Places
  <2>4. c \in Seq(Step) /\ d \in Seq(Step)
    BY <2>3, StageIs
  <2> QED
    BY <2>1, <2>2, <2>4
<1>10. f \in Seq(Step) /\ Has(f, "blocked")
  BY <1>6
<1> HIDE DEF a, b, c, d, e, f
<1>11. (((b \o c) \o d) \o e) \in Seq(Step)
  BY <1>9, ConcatProperties
<1>12. (((b \o c) \o d) \o e) \o f \in Seq(Step) /\ Has((((b \o c) \o d) \o e) \o f, "blocked")
  BY <1>10, <1>11, HasOn, ConcatProperties
<1>13. Has(a \o ((((b \o c) \o d) \o e) \o f), "blocked")
  BY <1>9, <1>12, HasOn
<1> QED
  BY <1>7, <1>8, <1>13

-----------------------------------------------------------------------------
(***************************************************************************)
(* The invariant.                                                          *)
(***************************************************************************)
Hw ==
    [lost : BOOLEAN, fatal : BOOLEAN, retain : BOOLEAN, mutated : BOOLEAN, suspended : BOOLEAN,
     state : {"none", "core", "attach", "suspended", "post_ucode"},
     phy : {"none", "ready", "rev1", "complete", "blocked"}, otp : {"none", "right", "other"}]

Values ==
    /\ res \in SUBSET Resources /\ alive \in BOOLEAN /\ did \in Dids /\ odd \in BOOLEAN
    /\ record \in SUBSET {"fatal", "owner"} /\ late \in BOOLEAN /\ lent \in SUBSET Lendable

TypeOK ==
    /\ hw \in Hw /\ load \in SUBSET Params /\ at \in Nat
    /\ phase \in {"idle", "probe", "bound", "failed"} /\ trying \in {"no", "open", "failed"}
    /\ Values

\* The program of the load P, with a point in front of every step.
Labels(P, L) ==
    /\ L \in [1 .. Len(ProgramOf[P]) + 1 -> Points]
    /\ L[1] = Start
    /\ \A i \in 1 .. Len(ProgramOf[P]) : Link(P, ModeOf[P], L[i], ProgramOf[P][i], L[i + 1])
    /\ Ends(ModeOf[P], L[Len(ProgramOf[P]) + 1])

\* The next step of the probe leads from c to d.
Comes(c, d) == \E L : Labels(load, L) /\ L[at] = c /\ L[at + 1] = d

\* What the lifecycle states say of the core, and the last PHY states of what is lent.
Sound(h, done, l) ==
    /\ h.state = "suspended" => done \in {"loaded", "common"}
    /\ h.state = "post_ucode" => done = "common" /\ ~h.retain
    /\ ~h.lost /\ h.phy \in {"rev1", "complete"} => l = {}

Probing ==
    phase = "probe" =>
        /\ load \in DOMAIN ProgramOf /\ at \in 1 .. Len(Todo)
        /\ \E c \in Points, d \in Points : Comes(c, d) /\ Fits(c)

Idle ==
    phase = "idle" =>
        hw = Fresh /\ did = "none" /\ lent = {} /\ res = {} /\ trying = "no"

\* A device that is bound has all of the normal path's resources or none, and has back what
\* the probe borrowed.
Bound ==
    phase = "bound" =>
        /\ load \in DOMAIN ProgramOf
        /\ res # {} => res = Resources /\ hw.state = "post_ucode" /\ ~hw.lost
        /\ mode = "normal" => (res = {} <=> hw.retain)
        /\ mode # "normal" => res = {}
        /\ ~hw.lost =>
              /\ lent \cap {"power", "controls"} = {}
              /\ mode \in Returning => lent = {}

Failed ==
    phase = "failed" =>
        /\ load \in DOMAIN ProgramOf /\ res = {}
        /\ did \in {"begun", "loaded"} => mode \in DmaModes
        /\ odd \/ Exempt(load, mode)
        /\ ~hw.lost => lent \cap {"power", "controls"} = {}

IInv ==
    /\ TypeOK
    /\ ~late
    /\ Sound(hw, did, lent)
    /\ Probing
    /\ Idle
    /\ Bound
    /\ Failed

-----------------------------------------------------------------------------
(***************************************************************************)
(* Programs and points.                                                    *)
(***************************************************************************)
LEMMA ProgramsAre ==
  ASSUME NEW P \in DOMAIN ProgramOf
  PROVE  /\ P \in Loads /\ ModeOf[P] # "refused" /\ ProgramOf[P] = Program(P, ModeOf[P])
         /\ ProgramOf[P] \in Seq(Step) /\ Len(ProgramOf[P]) \in Nat \ {0}
         /\ \E L : Labels(P, L)
<1>1. P \in Loads /\ ModeOf[P] # "refused" /\ ProgramOf[P] = Program(P, ModeOf[P])
  BY DEF ProgramOf
<1> DEFINE p == ProgramOf[P]
           m == ModeOf[P]
<1>2. p \in Seq(Step) /\ p # << >> /\ \E d \in Points : Runs(P, m, p, Start, d) /\ Ends(m, d)
  BY <1>1, ProgramRuns
<1> HIDE DEF p, m
<1>3. Len(p) \in Nat \ {0}
  BY <1>2
<1>4. PICK d \in Points : Runs(P, m, p, Start, d) /\ Ends(m, d)
  BY <1>2
<1>5. PICK L \in [1 .. Len(p) + 1 -> Points] :
          /\ L[1] = Start /\ L[Len(p) + 1] = d
          /\ \A i \in 1 .. Len(p) : Link(P, m, L[i], p[i], L[i + 1])
  BY <1>4 DEF Runs
<1>6. Labels(P, L)
  BY <1>4, <1>5 DEF Labels, p, m
<1> QED
  BY <1>1, <1>2, <1>3, <1>6 DEF p, m

\* What is known of the step that is next.
LEMMA Here ==
  ASSUME IInv, phase = "probe"
  PROVE  \E c \in Points, d \in Points :
            /\ Comes(c, d) /\ Fits(c) /\ ~Dead(c)
            /\ Link(load, mode, c, Todo[at], d)
<1>1. PICK c \in Points, d \in Points : Comes(c, d) /\ Fits(c)
  BY DEF IInv, Probing
<1>2. PICK L : Labels(load, L) /\ L[at] = c /\ L[at + 1] = d
  BY <1>1 DEF Comes
<1>3. Link(load, mode, c, Todo[at], d)
  BY <1>2 DEF IInv, Probing, Labels, mode, Todo
<1>4. ~Dead(c)
  BY <1>1 DEF Fits, Matches, Dead, IInv, TypeOK, Hw
<1> QED
  BY <1>1, <1>3, <1>4

\* The program, the mode and the step in a probe.
LEMMA HereIs ==
  ASSUME IInv, phase = "probe"
  PROVE  /\ load \in DOMAIN ProgramOf /\ Todo = ProgramOf[load] /\ mode = ModeOf[load]
         /\ at \in 1 .. Len(Todo) /\ Len(Todo) \in Nat
         /\ Todo[at] \in Step /\ Todo[at].kind = Kind /\ Todo[at].at = Place
<1>1. load \in DOMAIN ProgramOf /\ at \in 1 .. Len(Todo)
  BY DEF IInv, Probing
<1>2. Todo \in Seq(Step) /\ Len(Todo) \in Nat
  BY <1>1, ProgramsAre DEF Todo
<1> QED
  BY <1>1, <1>2 DEF Todo, mode, Kind, Place

\* What fits a point fits the points below it.
LEMMA MatchesBelow ==
  ASSUME NEW c, NEW d, NEW h, NEW done, NEW wrong, NEW rec, NEW l, NEW t, NEW x,
         Matches(c, h, done, wrong, rec, l, t, x), Below(c, d)
  PROVE  Matches(d, h, done, wrong, rec, l, t, x)
<1>1. /\ d.state = c.state /\ d.did = c.did /\ d.retain = c.retain /\ d.phy = c.phy
      /\ d.try = c.try /\ d.res = c.res
      /\ c.lent \subseteq d.lent
      /\ c.lossy => d.lossy
      /\ d.otp => c.otp
  BY DEF Below, Skips
<1> QED
  BY <1>1 DEF Matches

-----------------------------------------------------------------------------
(***************************************************************************)
(* A probe goes on.                                                        *)
(***************************************************************************)
\* The probe has come to the point d behind its step n.
LEMMA Arriving ==
  ASSUME IInv, phase = "probe", NEW L, Labels(load, L), NEW n \in 1 .. Len(Todo),
         NEW d \in Points, L[n + 1] = d, NEW h \in Hw, NEW t, hw' = h, trying' = t,
         IF n = Len(Todo) THEN phase' = "bound" /\ at' = at ELSE phase' = phase /\ at' = n + 1,
         load' = load, Values', late' = FALSE,
         Matches(d, h, did', odd', record', lent', t, res'), Sound(h, did', lent')
  PROVE  IInv'
<1>1. /\ load \in DOMAIN ProgramOf /\ Todo = ProgramOf[load] /\ mode = ModeOf[load]
      /\ at \in 1 .. Len(Todo) /\ Len(Todo) \in Nat
  BY HereIs
<1>2. d.state # "never" /\ t \in {"no", "open", "failed"}
  <2>1. d.state = h.state /\ d.try \in {"no", "open", "sampled"}
    BY DEF Matches, Points
  <2> QED
    BY <2>1 DEF Matches, Hw, Tries
<1>3. load \in SUBSET Params /\ at \in Nat
  BY DEF IInv, TypeOK
<1>4. mode' = mode /\ Todo' = Todo
  BY DEF mode, Todo
<1>5. CASE n = Len(Todo)
  <2>1. phase' = "bound" /\ at' = at
    BY <1>5
  <2>2. Ends(mode, d)
    BY <1>1, <1>5 DEF Labels
  <2>3. TypeOK'
    BY <1>2, <1>3, <2>1 DEF TypeOK
  <2>4. Bound'
    <3>1. /\ d.try = "no" /\ d.lent \cap {"power", "controls"} = {}
          /\ mode \in Returning => d.lent = {}
          /\ IF mode = "normal"
             THEN d.res = Resources /\ d.state = "post_ucode" /\ ~d.retain /\ ~d.lossy
             ELSE d.res = {}
      BY <1>2, <2>2 DEF Ends, Dead
    <3>2. res' = d.res /\ h.state = d.state /\ h.retain = d.retain /\ (~h.lost => lent' \subseteq d.lent)
          /\ (h.lost => d.lossy)
      BY <3>1 DEF Matches
    <3>3. Resources # {}
      BY DEF Resources
    <3> QED
      BY <1>1, <1>4, <3>1, <3>2, <3>3 DEF Bound
  <2> QED
    BY <2>1, <2>3, <2>4 DEF IInv, Probing, Idle, Failed
<1>6. CASE n # Len(Todo)
  <2>1. phase' = "probe" /\ at' = n + 1 /\ at' \in 1 .. Len(Todo) /\ at' \in Nat
    BY <1>1, <1>6
  <2>2. TypeOK'
    BY <1>2, <1>3, <2>1 DEF TypeOK
  <2>3. PICK z \in Points : L[at' + 1] = z /\ L[at'] = d
    <3>1. L[at' + 1] \in Points
      BY <1>1, <2>1 DEF Labels
    <3> QED
      BY <2>1, <3>1
  <2>4. Comes(d, z)'
    BY <2>3 DEF Comes, Labels
  <2>5. Fits(d)'
    BY DEF Fits
  <2>6. Probing'
    BY <1>1, <1>4, <2>1, <2>3, <2>4, <2>5 DEF Probing
  <2> QED
    BY <2>1, <2>2, <2>6 DEF IInv, Idle, Bound, Failed
<1> QED
  BY <1>5, <1>6

\* The probe goes on from its step to the next point.
LEMMA Onward ==
  ASSUME IInv, phase = "probe", NEW c, NEW d \in Points, Comes(c, d),
         NEW e, Below(e, d), NEW h \in Hw, NEW t, Proceed(h, t), load' = load, Values', late' = FALSE,
         Matches(e, h, did', odd', record', lent', t, res'), Sound(h, did', lent')
  PROVE  IInv'
<1>1. PICK L : Labels(load, L) /\ L[at] = c /\ L[at + 1] = d
  BY DEF Comes
<1>2. Matches(d, h, did', odd', record', lent', t, res')
  BY MatchesBelow
<1>3. /\ hw' = h /\ trying' = t
      /\ IF at = Len(Todo) THEN phase' = "bound" /\ at' = at ELSE phase' = phase /\ at' = at + 1
  BY DEF Proceed
<1> QED
  BY <1>1, <1>2, <1>3, HereIs, Arriving

-----------------------------------------------------------------------------
(***************************************************************************)
(* A probe ends early.                                                     *)
(***************************************************************************)
\* The ladder of identity probes stops, which is no failure.
LEMMA Stopping ==
  ASSUME IInv, phase = "probe", NEW c \in Points, NEW d \in Points, Fits(c), ~Dead(c),
         Link(load, mode, c, Todo[at], d), Kind \in LadderKinds,
         NEW h \in Hw, Stop(h), load' = load, Values', late' = FALSE, res' = res, did' = did,
         lent' = lent, h.state = hw.state, h.retain = hw.retain, h.phy = hw.phy, hw.lost => h.lost
  PROVE  IInv'
<1>1. /\ load \in DOMAIN ProgramOf /\ Todo[at].kind = Kind
  BY HereIs
<1>2. hw' = h /\ phase' = "bound" /\ at' = at /\ trying' = trying
  BY DEF Stop
<1>3. mode = "acphy_identity_timing" /\ c.lent = {} /\ c.res = {}
  BY <1>1 DEF Link, Allows
<1>4. res = {} /\ (~hw.lost => lent = {})
  BY <1>3 DEF Fits, Matches
<1>5. mode' = mode
  BY DEF mode
<1>6. TypeOK'
  BY <1>2 DEF IInv, TypeOK
<1>7. Bound'
  BY <1>1, <1>2, <1>3, <1>4, <1>5 DEF Bound
<1>8. Sound(hw, did, lent)'
  BY <1>2 DEF IInv, Sound
<1> QED
  BY <1>2, <1>6, <1>7, <1>8 DEF IInv, Probing, Idle, Failed

\* A failure nobody keeps: the probe is abandoned.
LEMMA Abandoning ==
  ASSUME IInv, phase = "probe", NEW c \in Points, Fits(c),
         Leaves(mode, c, Place), NEW s, s.at = Place, Begins(c, s) => Owning(mode),
         c.lent \cap {"power", "controls"} = {},
         NEW h \in Hw, Abandon(h), load' = load, Values', late' = FALSE, res' = {},
         did' = did \/ (Begins(c, s) /\ did' = "begun" /\ h.mutated),
         lent' = lent, h.state = hw.state, h.retain = hw.retain, h.phy = hw.phy, hw.lost => h.lost,
         hw.mutated => h.mutated, odd' \/ Exempt(load, mode)
  PROVE  IInv'
<1> DEFINE r == Retained(h, Place)
           g == [h EXCEPT !.retain = r]
<1>1. load \in DOMAIN ProgramOf
  BY HereIs
<1>2. hw' = g /\ trying' = "no" /\ at' = at
      /\ phase' = IF Kept(g, Place) THEN "bound" ELSE "failed"
  BY DEF Abandon
<1>3. r \in BOOLEAN
  <2>1. h.mutated \in BOOLEAN /\ h.lost \in BOOLEAN /\ h.retain \in BOOLEAN
    BY DEF Hw
  <2> QED
    BY <2>1 DEF Retained
<1>4. /\ g \in Hw /\ g.state = h.state /\ g.phy = h.phy /\ g.lost = h.lost /\ g.retain = r
  <2> HIDE DEF r
  <2> QED
    BY <1>3 DEF Hw
<1>5. /\ h.state = c.state /\ did = c.did /\ (did \in {"begun", "loaded"} => hw.mutated)
      /\ (~hw.lost => lent \subseteq c.lent)
  BY DEF Fits, Matches
<1>6. h.state = "post_ucode" => r = hw.retain
  BY <1>5 DEF Leaves, Retained
<1>7. did' \in {"begun", "loaded"} => r = TRUE /\ Place \in {"ucode", "common"} /\ Owning(mode)
  <2>1. CASE did' = did
    <3>1. did' \in {"begun", "loaded"} => Place \in {"ucode", "common"} /\ Owning(mode)
      BY <1>5, <2>1 DEF Leaves
    <3>2. did' \in {"begun", "loaded"} => h.mutated
      BY <1>5, <2>1
    <3> QED
      BY <3>1, <3>2, <1>3 DEF Retained
  <2>2. CASE Begins(c, s) /\ did' = "begun" /\ h.mutated
    <3>1. Place = "ucode" /\ did # "loaded" /\ Owning(mode)
      BY <1>5, <2>2 DEF Begins
    <3> QED
      BY <2>2, <3>1, <1>3 DEF Retained
  <2> QED
    BY <2>1, <2>2
<1> HIDE DEF r, g
<1>8. Sound(g, did', lent)
  <2>1. g.state = "suspended" => did' \in {"loaded", "common"}
    BY <1>4, <1>5 DEF IInv, Sound, Begins
  <2>2. g.state = "post_ucode" => did' = "common" /\ ~g.retain
    BY <1>4, <1>5, <1>6 DEF IInv, Sound, Begins
  <2>3. ~g.lost /\ g.phy \in {"rev1", "complete"} => lent = {}
    BY <1>4 DEF IInv, Sound
  <2> QED
    BY <2>1, <2>2, <2>3 DEF Sound
<1>9. mode' = mode
  BY DEF mode
<1>10. TypeOK'
  BY <1>2, <1>4 DEF IInv, TypeOK
<1>11. ~g.lost => lent \cap {"power", "controls"} = {}
  BY <1>4, <1>5
<1>12. CASE Kept(g, Place)
  <2>1. mode = "normal" => g.retain
    <3>1. mode = "normal" => mode \notin Isolated /\ mode \notin PostPhase
      BY DEF Isolated, DmaModes, PostPhase
    <3>2. mode = "normal" => Place \notin {"pre_radio", "phase"}
      BY DEF Leaves
    <3> QED
      BY <3>1, <3>2, <1>12 DEF Kept, KeptChain, KeptPhase
  <2>2. ~g.lost /\ mode \in Returning => lent = {}
    <3>1. SUFFICES ASSUME ~g.lost, mode \in Returning PROVE lent = {}
      OBVIOUS
    <3>2. mode \notin Isolated
      BY <3>1 DEF Returning, Isolated, DmaModes
    <3>3. Place \in {"gate", "ucode", "common"}
      BY <1>12, <3>1, <3>2 DEF Kept, KeptChain, KeptPhase
    <3> QED
      BY <1>4, <1>5, <3>1, <3>3 DEF Leaves
  <2>3. phase' = "bound"
    BY <1>2, <1>12
  <2>4. Bound'
    BY <1>1, <1>2, <1>9, <1>11, <2>1, <2>2 DEF Bound
  <2> QED
    BY <1>2, <1>8, <1>10, <2>3, <2>4 DEF IInv, Probing, Idle, Failed
<1>13. CASE ~Kept(g, Place)
  <2>1. did' \in {"begun", "loaded"} => mode \in DmaModes
    <3>1. SUFFICES ASSUME did' \in {"begun", "loaded"}, mode \notin DmaModes PROVE FALSE
      OBVIOUS
    <3>2. g.retain /\ Place \in {"ucode", "common"} /\ Owning(mode)
      BY <1>4, <1>7, <3>1
    <3>3. CASE mode \notin Isolated
      BY <1>13, <3>2, <3>3 DEF Kept, KeptChain
    <3>4. CASE mode \in {"ucode_test", "initvals_test"}
      <4>1. mode \in Isolated
        BY <3>4 DEF Isolated
      <4> QED
        BY <1>13, <3>2, <3>4, <4>1 DEF Kept, KeptFirmware, D2ARetained
    <3> QED
      BY <3>1, <3>2, <3>3, <3>4 DEF Owning, Firmware
  <2>2. phase' = "failed"
    BY <1>2, <1>13
  <2>3. Failed'
    <3>1. Exempt(load, mode)' = Exempt(load, mode)
      BY <1>9 DEF Exempt
    <3> QED
      BY <1>1, <1>2, <1>9, <1>11, <2>1, <3>1 DEF Failed
  <2> QED
    BY <1>2, <1>8, <1>10, <2>2, <2>3 DEF IInv, Probing, Idle, Bound
<1> QED
  BY <1>12, <1>13

-----------------------------------------------------------------------------
(***************************************************************************)
(* A failure that is kept is caught.                                       *)
(***************************************************************************)
Before == {ss \in Nat \X Nat : ss[1] < ss[2]}

\* Every set of steps has a first one.
LEMMA FirstIs ==
  ASSUME NEW S \in SUBSET Nat, S # {}
  PROVE  \E i \in S : \A j \in S : i <= j
<1>1. WF!IsWellFoundedOn(Before, Nat)
  BY WF!NatLessThanWellFounded, Zenon DEF WF!OpToRel, Before
<1>2. PICK i \in S : \A j \in S : ~(<<j, i>> \in Before)
  BY <1>1, WF!WFMin
<1>3. ASSUME NEW j \in S PROVE i <= j
  <2>1. i \in Nat /\ j \in Nat /\ (j < i => <<j, i>> \in Before)
    BY DEF Before
  <2> QED
    BY <1>2, <2>1
<1> QED
  BY <1>3

\* Skipping twice is skipping.
LEMMA SkipsOn ==
  ASSUME NEW b, NEW c, NEW d, Skips(b, c), Skips(c, d)
  PROVE  Skips(b, d)
BY DEF Skips

\* Behind a point where a failure is kept, everything that is known stays known up to the
\* step that catches it, and there is one.
LEMMA CatchIs ==
  ASSUME IInv, phase = "probe", NEW c \in Points, NEW d \in Points, Fits(c), ~Dead(c),
         NEW L, Labels(load, L), L[at] = c, L[at + 1] = d, c.try # "no", Kind \notin Catches
  PROVE  Catch \in at + 1 .. Len(Todo) /\ Skips(c, L[Catch])
<1>1. /\ load \in DOMAIN ProgramOf /\ Todo = ProgramOf[load] /\ mode = ModeOf[load]
      /\ at \in 1 .. Len(Todo) /\ Len(Todo) \in Nat /\ Todo[at].kind = Kind /\ at \in Nat
  BY HereIs DEF IInv, TypeOK
<1> DEFINE n == Len(Todo)
           Clear(j) == \A i \in at + 1 .. j - 1 : Todo[i].kind \notin Catches
<1>2. \A i \in 1 .. n : Link(load, mode, L[i], Todo[i], L[i + 1])
  BY <1>1 DEF Labels
<1>3. Ends(mode, L[n + 1])
  BY <1>1 DEF Labels
<1> HIDE DEF n
<1>4. \A b, e, s : Link(load, mode, b, s, e) /\ ~Dead(b) /\ b.try # "no" /\ s.kind \notin Catches => Skips(b, e)
  BY DEF Link
<1>5. Skips(c, d)
  BY <1>1, <1>2, <1>4 DEF n
<1>6. \A j \in at + 1 .. n + 1 : Clear(j) => Skips(c, L[j])
  <2> DEFINE B == {j \in at + 1 .. n + 1 : Clear(j) /\ ~Skips(c, L[j])}
  <2>1. SUFFICES ASSUME B # {} PROVE FALSE
    OBVIOUS
  <2>2. B \in SUBSET Nat /\ n \in Nat
    BY <1>1 DEF n
  <2>3. PICK j \in B : \A i \in B : j <= i
    <3> HIDE DEF B
    <3> QED
      BY <2>1, <2>2, FirstIs
  <2>4. j \in at + 1 .. n + 1 /\ Clear(j) /\ ~Skips(c, L[j])
    BY <2>3
  <2>5. j # at + 1
    BY <1>5, <2>4
  <2> DEFINE i == j - 1
  <2>6. i \in at + 1 .. n + 1 /\ i \notin B /\ i \in 1 .. n /\ i + 1 = j /\ i \in at + 1 .. j - 1
    BY <1>1, <2>2, <2>3, <2>4, <2>5
  <2>7. Clear(i)
    BY <1>1, <2>2, <2>4, <2>6
  <2>8. Todo[i].kind \notin Catches
    BY <2>4, <2>6
  <2> HIDE DEF i
  <2>9. Skips(c, L[i])
    BY <2>6, <2>7
  <2>10. ~Dead(L[i]) /\ L[i].try # "no"
    BY <2>9 DEF Skips, Dead
  <2>11. Link(load, mode, L[i], Todo[i], L[j])
    BY <1>2, <2>6
  <2>12. Skips(L[i], L[j])
    BY <1>4, <2>8, <2>10, <2>11
  <2> QED
    BY <2>4, <2>9, <2>12, SkipsOn
<1> DEFINE S == {i \in at + 1 .. n : Todo[i].kind \in Catches}
<1>7. S # {}
  <2>1. SUFFICES ASSUME S = {} PROVE FALSE
    OBVIOUS
  <2>2. n + 1 \in at + 1 .. n + 1 /\ (n + 1) - 1 = n
    BY <1>1 DEF n
  <2>3. Clear(n + 1)
    BY <2>1, <2>2
  <2>4. Skips(c, L[n + 1])
    BY <1>6, <2>2, <2>3
  <2> QED
    BY <1>3, <2>4 DEF Ends, Skips, Dead
<1>8. PICK k \in S : \A i \in S : k <= i
  <2>1. S \in SUBSET Nat
    BY <1>1 DEF n
  <2> HIDE DEF S
  <2> QED
    BY <1>7, <2>1, FirstIs
<1>9. k \in at + 1 .. n /\ Todo[k].kind \in Catches /\ Clear(k)
  BY <1>1, <1>8 DEF n
<1>10. Catch \in at + 1 .. n /\ Todo[Catch].kind \in Catches /\ Clear(Catch)
  BY <1>9 DEF Catch, Catches, n
<1>11. Catch \in at + 1 .. n + 1
  BY <1>1, <1>10 DEF n
<1> HIDE DEF Clear
<1> QED
  BY <1>6, <1>10, <1>11 DEF n

\* A failure that is kept goes to where it is caught, and the point there fits.
LEMMA Catching ==
  ASSUME IInv, phase = "probe", NEW c \in Points, NEW d \in Points, Comes(c, d), Fits(c), ~Dead(c),
         trying # "no", Kind \notin Catches,
         NEW h \in Hw, hw' = h, at' = Catch, trying' = "failed", phase' = phase, load' = load,
         Values', late' = FALSE, res' = res, did' = did, lent' = lent,
         h.state = hw.state, h.retain = hw.retain, h.phy = hw.phy, hw.lost => h.lost,
         hw.mutated => h.mutated, odd', h.lost /\ ~hw.lost => c.try # "open", record' # {} => h.lost
  PROVE  IInv'
<1>1. PICK L : Labels(load, L) /\ L[at] = c /\ L[at + 1] = d
  BY DEF Comes
<1>2. c.try \in {"open", "sampled"}
  <2>1. c.try \in {"no", "open", "sampled"} /\ trying \in Tries[c.try]
    BY DEF Fits, Matches, Points
  <2> QED
    BY <2>1 DEF Tries
<1>3. Catch \in at + 1 .. Len(Todo) /\ Skips(c, L[Catch])
  BY <1>1, <1>2, CatchIs
<1>4. /\ load \in DOMAIN ProgramOf /\ Todo = ProgramOf[load] /\ Len(Todo) \in Nat /\ at \in 1 .. Len(Todo)
  BY HereIs
<1>5. at' \in 1 .. Len(Todo) + 1 /\ at' + 1 \in 1 .. Len(Todo) + 1
  BY <1>3, <1>4
<1>6. L[at'] \in Points /\ L[at' + 1] \in Points
  BY <1>1, <1>4, <1>5 DEF Labels
<1>7. PICK y \in Points : L[at'] = y
  BY <1>6
<1>8. PICK z \in Points : L[at' + 1] = z
  BY <1>6
<1>9. Skips(c, y)
  BY <1>3, <1>7
<1>10. at' \in 1 .. Len(Todo) /\ at' \in Nat /\ Todo' = Todo
  BY <1>3, <1>4 DEF Todo
<1>11. Fits(y)'
  <2>1. /\ y.state = c.state /\ y.did = c.did /\ y.retain = c.retain /\ y.phy = c.phy
        /\ y.try = c.try /\ y.res = c.res /\ c.lent \subseteq y.lent /\ (c.lossy => y.lossy)
    BY <1>9 DEF Skips
  <2>2. Matches(c, hw, did, odd, record, lent, trying, res)
    BY DEF Fits
  <2>3. "failed" \in Tries[y.try]
    BY <1>2, <2>1 DEF Tries
  <2>4. h.lost => y.lossy \/ y.try = "sampled"
    BY <1>2, <2>1, <2>2 DEF Matches
  <2> QED
    BY <2>1, <2>2, <2>3, <2>4 DEF Fits, Matches
<1>12. Comes(y, z)'
  BY <1>1, <1>7, <1>8 DEF Comes, Labels
<1>13. Probing'
  BY <1>4, <1>10, <1>11, <1>12 DEF Probing
<1>14. TypeOK'
  BY <1>10 DEF IInv, TypeOK
<1>15. Sound(hw, did, lent)'
  BY DEF IInv, Sound
<1> QED
  BY <1>13, <1>14, <1>15 DEF IInv, Idle, Bound, Failed

\* Whatever a step's failure leads to.
LEMMA Failing ==
  ASSUME IInv, phase = "probe", NEW c \in Points, NEW d \in Points, Comes(c, d), Fits(c), ~Dead(c),
         Link(load, mode, c, Todo[at], d), Kind \notin Catches,
         NEW h \in Hw, Fail(h), load' = load, Values', late' = FALSE,
         (res' = res /\ Kind \notin Resources) \/ (res' = {} /\ c.try = "no"),
         did' = did \/ (Begins(c, Todo[at]) /\ did' = "begun" /\ h.mutated),
         lent' = lent, h.state = hw.state, h.retain = hw.retain, h.phy = hw.phy, hw.lost => h.lost,
         hw.mutated => h.mutated, odd' \/ (c.try = "no" /\ Exempt(load, mode)),
         h.lost /\ ~hw.lost => c.try # "open", c.try # "no" => (record' # {} => h.lost)
  PROVE  IInv'
<1>1. Todo[at].kind = Kind /\ Todo[at].at = Place
  BY HereIs
<1>2. /\ Exits(mode, c, Todo[at]) /\ (Begins(c, Todo[at]) => c.try = "no")
  BY DEF Link, Allows, Settles
<1>3. c.try \in {"no", "open", "sampled"} /\ trying \in Tries[c.try] /\ res = c.res
  BY DEF Fits, Matches, Points
<1>4. Kind \notin Resources => res = {}
  BY <1>1, <1>2, <1>3 DEF Exits
<1>5. CASE trying = "no"
  <2>1. c.try # "open"
    BY <1>3, <1>5 DEF Tries
  <2>2. c.lent \cap {"power", "controls"} = {} /\ Leaves(mode, c, Place)
    BY <1>1, <1>2, <2>1 DEF Exits, Leaves
  <2>3. Abandon(h)
    BY <1>5 DEF Fail
  <2>4. odd' \/ Exempt(load, mode)
    OBVIOUS
  <2>5. res' = {} /\ (Begins(c, Todo[at]) => Owning(mode))
    BY <1>2, <1>4 DEF Exits
  <2> QED
    BY <1>1, <2>2, <2>3, <2>4, <2>5, Abandoning
<1>6. CASE trying # "no"
  <2>1. c.try # "no"
    BY <1>3, <1>6 DEF Tries
  <2>2. hw' = h /\ at' = Catch /\ trying' = "failed" /\ phase' = phase
    BY <1>6 DEF Fail
  <2>3. res' = res /\ did' = did /\ odd' /\ (record' # {} => h.lost)
    BY <1>2, <2>1
  <2> QED
    BY <1>6, <2>2, <2>3, Catching
<1> QED
  BY <1>5, <1>6

-----------------------------------------------------------------------------
(***************************************************************************)
(* What the accesses have in common.                                       *)
(***************************************************************************)
LEMMA AnswersAre ==
  ASSUME IInv, NEW a \in Answers
  PROVE  /\ a \in {"refused", "right", "wrong", "ones"}
         /\ a = "refused" <=> hw.lost
         /\ hw.lost \in BOOLEAN
BY DEF Answers, IInv, TypeOK, Hw

\* ob_dev_lost_latch changes the latch and its record only.
LEMMA LatchedIs ==
  ASSUME NEW h \in Hw
  PROVE  /\ Latched(h) \in Hw /\ Latched(h).lost = TRUE
         /\ Latched(h).state = h.state /\ Latched(h).retain = h.retain /\ Latched(h).phy = h.phy
         /\ Latched(h).mutated = h.mutated /\ Latched(h).suspended = h.suspended
         /\ Latched(h).otp = h.otp
<1> DEFINE u == h.fatal \/ ~Unrecorded
<1>1. u \in BOOLEAN
  OBVIOUS
<1> HIDE DEF u
<1>2. /\ [h EXCEPT !.lost = TRUE, !.fatal = u] \in Hw
      /\ [h EXCEPT !.lost = TRUE, !.fatal = u].lost = TRUE
      /\ [h EXCEPT !.lost = TRUE, !.fatal = u].state = h.state
      /\ [h EXCEPT !.lost = TRUE, !.fatal = u].retain = h.retain
      /\ [h EXCEPT !.lost = TRUE, !.fatal = u].phy = h.phy
      /\ [h EXCEPT !.lost = TRUE, !.fatal = u].mutated = h.mutated
      /\ [h EXCEPT !.lost = TRUE, !.fatal = u].suspended = h.suspended
      /\ [h EXCEPT !.lost = TRUE, !.fatal = u].otp = h.otp
  BY <1>1 DEF Hw
<1> QED
  BY <1>2 DEF Latched, u

\* A write changes the mark of a mutation only.
LEMMA MarkedIs ==
  ASSUME IInv
  PROVE  /\ Marked \in Hw /\ Marked.lost = hw.lost /\ Marked.state = hw.state
         /\ Marked.retain = hw.retain /\ Marked.phy = hw.phy
         /\ Marked.suspended = hw.suspended /\ Marked.otp = hw.otp
         /\ hw.mutated => Marked.mutated
         /\ Place = "ucode" => Marked.mutated = TRUE
<1>1. hw \in Hw
  BY DEF IInv, TypeOK
<1>2. /\ [hw EXCEPT !.mutated = TRUE] \in Hw
      /\ [hw EXCEPT !.mutated = TRUE].mutated = TRUE
      /\ [hw EXCEPT !.mutated = TRUE].lost = hw.lost
      /\ [hw EXCEPT !.mutated = TRUE].state = hw.state
      /\ [hw EXCEPT !.mutated = TRUE].retain = hw.retain
      /\ [hw EXCEPT !.mutated = TRUE].phy = hw.phy
      /\ [hw EXCEPT !.mutated = TRUE].suspended = hw.suspended
      /\ [hw EXCEPT !.mutated = TRUE].otp = hw.otp
  BY <1>1 DEF Hw
<1> QED
  BY <1>1, <1>2 DEF Marked

\* A guarded access is made by a device that is not on record, or not made.
LEMMA TouchIsQuiet ==
  ASSUME IInv, NEW c, Fits(c), Touch
  PROVE  late' = FALSE
<1>1. ~late /\ (record # {} => hw.lost) /\ hw.lost \in BOOLEAN
  BY DEF IInv, TypeOK, Hw, Fits, Matches
<1>2. ~(late \/ (record # {} /\ ~hw.lost))
  BY <1>1
<1> QED
  BY <1>2 DEF Touch

\* Where a call into bcma is made no loss is latched.
LEMMA TouchedIsQuiet ==
  ASSUME IInv, NEW c, Fits(c), Settles(c), Touched
  PROVE  late' = FALSE /\ ~hw.lost
<1>1. c.try = "no" /\ ~c.lossy
  BY DEF Settles
<1>2. ~late /\ (record # {} => hw.lost) /\ ~hw.lost
  BY <1>1 DEF IInv, Fits, Matches
<1>3. ~(late \/ record # {} \/ hw.lost)
  BY <1>2
<1> QED
  BY <1>2, <1>3 DEF Touched

\* A step that touches nothing is not late.
LEMMA StillQuiet ==
  ASSUME IInv, late' = late
  PROVE  late' = FALSE
BY DEF IInv, TypeOK, Values

\* A failure does not change the latch.
LEMMA FailIs ==
  ASSUME NEW h \in Hw, Fail(h)
  PROVE  hw'.lost = h.lost
<1>1. CASE trying = "no"
  <2> DEFINE r == Retained(h, Place)
  <2>1. hw' = [h EXCEPT !.retain = r]
    BY <1>1 DEF Fail, Abandon
  <2> HIDE DEF r
  <2> QED
    BY <2>1 DEF Hw
<1>2. CASE trying # "no"
  BY <1>2 DEF Fail
<1> QED
  BY <1>1, <1>2

\* Steps that change nothing of what a point says: they lead on, or they fail.
LEMMA Plain ==
  ASSUME IInv, phase = "probe", NEW c \in Points, NEW d \in Points, Comes(c, d), Fits(c), ~Dead(c),
         Link(load, mode, c, Todo[at], d), Kind \notin Catches, Kind \notin Resources,
         NEW h \in Hw, load' = load, Values', late' = FALSE, res' = res, did' = did, lent' = lent,
         h.state = hw.state, h.retain = hw.retain, h.phy = hw.phy, hw.mutated => h.mutated,
         odd => odd', hw.lost => h.lost,
         \/ /\ Advance(h) /\ Moves(c, Todo[at]) = c /\ ~Blocks(mode, c, Todo[at])
            /\ h.lost => hw.lost
            /\ record' = record
            /\ odd' \/ (h.suspended = hw.suspended /\ (hw.otp = "right" => h.otp = "right"))
         \/ /\ Fail(h)
            /\ odd' \/ (c.try = "no" /\ Exempt(load, mode))
            /\ h.lost /\ ~hw.lost => c.try # "open"
            /\ c.try # "no" => (record' # {} => h.lost)
  PROVE  IInv'
<1>1. CASE /\ Advance(h) /\ Moves(c, Todo[at]) = c /\ ~Blocks(mode, c, Todo[at])
           /\ h.lost => hw.lost
           /\ record' = record
           /\ odd' \/ (h.suspended = hw.suspended /\ (hw.otp = "right" => h.otp = "right"))
  <2>1. Below(c, d)
    BY <1>1 DEF Link
  <2>2. Proceed(h, trying)
    BY <1>1 DEF Advance
  <2>3. Matches(c, h, did', odd', record', lent', trying, res')
    <3>1. Matches(c, hw, did, odd, record, lent, trying, res)
      BY DEF Fits
    <3> QED
      BY <1>1, <3>1 DEF Matches
  <2>4. Sound(h, did', lent')
    BY <1>1 DEF IInv, Sound
  <2> QED
    BY <2>1, <2>2, <2>3, <2>4, Onward
<1>2. CASE /\ Fail(h)
           /\ odd' \/ (c.try = "no" /\ Exempt(load, mode))
           /\ h.lost /\ ~hw.lost => c.try # "open"
           /\ c.try # "no" => (record' # {} => h.lost)
  BY <1>2, Failing
<1> QED
  BY <1>1, <1>2

\* Such a step of a point is one of these kinds.
LEMMA StaysAt ==
  ASSUME NEW c, NEW m, NEW s, s.kind \in Calm \cup Latching \cup GateKinds \cup {"isolated"}
  PROVE  Moves(c, s) = c /\ s.kind \notin Catches /\ s.kind \notin Resources
<1>1. s.kind \notin Wakes \cup DOMAIN Adds \cup DOMAIN Drops \cup Resources \cup Catches \cup
        {"loaded", "common", "publish_core", "publish_ucode", "publish_common", "core_up",
         "identified", "ready", "blocked", "radio_complete", "try", "forget", "verdict", "sample",
         "otp_word", "island"}
  BY DEF Calm, Latching, GateKinds, Wakes, Adds, Drops, Resources, Catches
<1> QED
  BY <1>1 DEF Moves

-----------------------------------------------------------------------------
(***************************************************************************)
(* Gates, supplies and accesses.                                           *)
(***************************************************************************)
\* A gate is open unless an answer was wrong, or the load can never succeed.
LEMMA GateOpens ==
  ASSUME IInv, NEW c \in Points, Fits(c), NEW k \in GateKinds, Opens(load, mode, c, k),
         ~odd, ~Exempt(load, mode)
  PROVE  Open[k]
<1>1. /\ hw.state = c.state /\ hw.retain = c.retain
      /\ hw.phy = c.phy \/ (c.phy = "rev1" /\ odd)
      /\ ~hw.lost /\ ~hw.suspended /\ (c.otp => hw.otp = "right")
  BY DEF Fits, Matches
<1>2. hw.phy = c.phy
  BY <1>1
<1>3. CASE k = "entry"
  BY <1>1, <1>3 DEF Open
<1>4. CASE k = "core_ready"
  <2>1. c.state \in {"core", "attach"} \/ mode \in {"ucode_test", "initvals_test"} \cup DmaModes
    BY <1>4 DEF Opens, CoreIsReady, Firmware
  <2> QED
    BY <1>1, <1>4, <2>1 DEF Open
<1>5. CASE k = "core_fresh"
  <2>1. hw.state = "core"
    BY <1>1, <1>5 DEF Opens
  <2> QED
    BY <1>5, <2>1 DEF Open
<1>6. CASE k = "attach_ready"
  <2>1. hw.state = "attach"
    BY <1>1, <1>6 DEF Opens
  <2> QED
    BY <1>6, <2>1 DEF Open
<1>7. CASE k = "unretained"
  <2>1. ~hw.retain
    BY <1>1, <1>7 DEF Opens
  <2> QED
    BY <1>7, <2>1 DEF Open
<1>8. CASE k = "post_ucode"
  <2>1. hw.state = "post_ucode" /\ ~hw.lost
    BY <1>1, <1>8 DEF Opens
  <2> QED
    BY <1>8, <2>1 DEF Open
<1>9. CASE k = "ready_gate"
  <2>1. hw.phy # "none"
    BY <1>2, <1>9 DEF Opens
  <2> QED
    BY <1>9, <2>1 DEF Open
<1>10. CASE k = "radio_gate"
  <2>1. hw.phy = "ready"
    BY <1>2, <1>10 DEF Opens
  <2> QED
    BY <1>10, <2>1 DEF Open
<1>11. CASE k = "otp_gate"
  <2>1. hw.otp = "right"
    BY <1>1, <1>11 DEF Opens
  <2> QED
    BY <1>11, <2>1 DEF Open
<1>12. CASE k = "suspended"
  BY <1>12 DEF Opens
<1>13. CASE k = "resume"
  <2>1. hw.phy = "rev1" /\ ~hw.lost
    BY <1>1, <1>2, <1>13 DEF Opens
  <2> QED
    BY <1>13, <2>1 DEF Open
<1>14. CASE k = "radio_ready"
  <2>1. hw.phy = "complete" /\ ~hw.lost
    BY <1>1, <1>2, <1>14 DEF Opens
  <2> QED
    BY <1>14, <2>1 DEF Open
<1>15. CASE k = "sprom_asked"
  <2>1. "sprom_diag" \in load
    BY <1>15 DEF Opens
  <2> QED
    BY <1>15, <2>1 DEF Open
<1> QED
  BY <1>3, <1>4, <1>5, <1>6, <1>7, <1>8, <1>9, <1>10, <1>11, <1>12, <1>13, <1>14, <1>15
  DEF GateKinds

\* A gate that is closed was closed by a wrong answer, unless the load can never succeed.
LEMMA GatesStep ==
  ASSUME IInv, Gates
  PROVE  IInv'
<1>1. phase = "probe" /\ Kind \in GateKinds /\ Pass(Open[Kind], hw)
  BY DEF Gates, Open, GateKinds
<1>2. PICK c \in Points, d \in Points :
         /\ Comes(c, d) /\ Fits(c) /\ ~Dead(c)
         /\ Link(load, mode, c, Todo[at], d)
  BY <1>1, Here
<1>3. Todo[at].kind = Kind
  BY <1>1, HereIs
<1>4. Opens(load, mode, c, Kind) /\ (c.try # "no" => Kind = "entry")
  BY <1>1, <1>2, <1>3 DEF Link, Allows
<1>5. load' = load /\ Values' /\ late' = FALSE /\ res' = res /\ did' = did /\ lent' = lent
      /\ odd' = odd /\ record' = record /\ hw \in Hw
  BY DEF Gates, IInv, TypeOK, Values
<1>6. Moves(c, Todo[at]) = c /\ Kind \notin Catches /\ Kind \notin Resources
  BY <1>1, <1>3, StaysAt
<1>7. CASE Open[Kind]
  <2>1. Advance(hw)
    BY <1>1, <1>7 DEF Pass
  <2>2. ~Blocks(mode, c, Todo[at])
    <3>1. SUFFICES ASSUME Kind = "core_ready", mode = "rev42_diag_probe", ~CoreIsReady(mode, c)
                   PROVE  FALSE
      BY <1>3 DEF Blocks
    <3>2. hw.state \in {"core", "attach"} \/ mode \in {"ucode_test", "initvals_test"} \cup DmaModes
      BY <1>7, <3>1 DEF Open
    <3>3. hw.state = c.state
      BY <1>2 DEF Fits, Matches
    <3> QED
      BY <3>1, <3>2, <3>3 DEF CoreIsReady, Firmware
  <2> QED
    BY <1>1, <1>2, <1>5, <1>6, <2>1, <2>2, Plain
<1>8. CASE ~Open[Kind]
  <2>1. Fail(hw)
    BY <1>1, <1>8 DEF Pass
  <2>2. odd \/ (c.try = "no" /\ Exempt(load, mode))
    <3>1. CASE c.try = "no"
      BY <1>1, <1>2, <1>4, <1>8, <3>1, GateOpens
    <3>2. CASE c.try # "no"
      <4>1. Kind = "entry"
        BY <1>4, <3>2
      <4>2. Open["entry"] = ~hw.lost
        BY DEF Open
      <4>3. hw.lost
        BY <1>8, <4>1, <4>2
      <4> QED
        BY <1>2, <4>3 DEF Fits, Matches
    <3> QED
      BY <3>1, <3>2
  <2>3. record' # {} => hw.lost
    BY <1>2, <1>5 DEF Fits, Matches
  <2> QED
    BY <1>1, <1>2, <1>5, <1>6, <2>1, <2>2, <2>3, Plain
<1> QED
  BY <1>7, <1>8

\* What the system has, or has not.
LEMMA SupplyStep ==
  ASSUME IInv, Supply
  PROVE  IInv'
<1>1. phase = "probe" /\ Kind = "supply"
  BY DEF Supply, Kind
<1>2. PICK c \in Points, d \in Points :
         /\ Comes(c, d) /\ Fits(c) /\ ~Dead(c)
         /\ Link(load, mode, c, Todo[at], d)
  BY <1>1, Here
<1>3. Todo[at].kind = Kind
  BY <1>1, HereIs
<1>4. PICK found \in BOOLEAN : Pass(found, hw) /\ Odd(~found)
  BY DEF Supply
<1>5. load' = load /\ Values' /\ late' = FALSE /\ res' = res /\ did' = did /\ lent' = lent
      /\ record' = record /\ hw \in Hw /\ (odd => odd') /\ (~found => odd')
  BY <1>4 DEF Supply, IInv, TypeOK, Values, Odd
<1>6. Moves(c, Todo[at]) = c /\ Kind \notin Catches /\ Kind \notin Resources
  BY <1>1, <1>3, StaysAt DEF Calm
<1>7. ~Blocks(mode, c, Todo[at]) /\ (record' # {} => hw.lost)
  BY <1>1, <1>2, <1>3, <1>5 DEF Blocks, Fits, Matches
<1>8. CASE found
  <2>1. Advance(hw)
    BY <1>4, <1>8 DEF Pass
  <2> QED
    BY <1>1, <1>2, <1>5, <1>6, <1>7, <2>1, Plain
<1>9. CASE ~found
  <2>1. Fail(hw)
    BY <1>4, <1>9 DEF Pass
  <2> QED
    BY <1>1, <1>2, <1>5, <1>6, <1>7, <1>9, <2>1, Plain
<1> QED
  BY <1>8, <1>9

\* A read whose answer is not taken fails, and the answer was wrong.
LEMMA ReadStep ==
  ASSUME IInv, Read
  PROVE  IInv'
<1>1. phase = "probe" /\ Kind \in {"read", "rmw", "alive", "selector"}
  BY DEF Read, Accepts, Kind
<1>2. PICK c \in Points, d \in Points :
         /\ Comes(c, d) /\ Fits(c) /\ ~Dead(c)
         /\ Link(load, mode, c, Todo[at], d)
  BY <1>1, Here
<1>3. Todo[at].kind = Kind
  BY <1>1, HereIs
<1>4. PICK a \in Answers : Pass(a \in Accepts[Kind], hw) /\ Odd(a # "right")
  BY DEF Read
<1>5. late' = FALSE
  BY <1>2, TouchIsQuiet DEF Read
<1>6. load' = load /\ Values' /\ res' = res /\ did' = did /\ lent' = lent
      /\ record' = record /\ hw \in Hw /\ (odd => odd') /\ (a # "right" => odd')
  BY <1>4, <1>5 DEF Read, IInv, TypeOK, Values, Odd
<1>7. Moves(c, Todo[at]) = c /\ Kind \notin Catches /\ Kind \notin Resources
  BY <1>1, <1>3, StaysAt DEF Calm
<1>8. ~Blocks(mode, c, Todo[at]) /\ (record' # {} => hw.lost)
  BY <1>1, <1>2, <1>3, <1>6 DEF Blocks, Fits, Matches
<1>9. CASE a \in Accepts[Kind]
  <2>1. Advance(hw)
    BY <1>4, <1>9 DEF Pass
  <2> QED
    BY <1>1, <1>2, <1>5, <1>6, <1>7, <1>8, <2>1, Plain
<1>10. CASE a \notin Accepts[Kind]
  <2>1. Fail(hw) /\ a # "right"
    BY <1>1, <1>4, <1>10 DEF Pass, Accepts
  <2> QED
    BY <1>1, <1>2, <1>5, <1>6, <1>7, <1>8, <2>1, Plain
<1> QED
  BY <1>9, <1>10

\* Posted writes.
LEMMA PostStep ==
  ASSUME IInv, Post
  PROVE  IInv'
<1>1. phase = "probe" /\ Kind \in {"post", "blind"} /\ Advance(hw)
  BY DEF Post, Kind
<1>2. PICK c \in Points, d \in Points :
         /\ Comes(c, d) /\ Fits(c) /\ ~Dead(c)
         /\ Link(load, mode, c, Todo[at], d)
  BY <1>1, Here
<1>3. Todo[at].kind = Kind
  BY <1>1, HereIs
<1>4. late' = FALSE
  BY <1>2, TouchIsQuiet DEF Post
<1>5. load' = load /\ Values' /\ res' = res /\ did' = did /\ lent' = lent
      /\ record' = record /\ hw \in Hw /\ odd' = odd
  BY <1>4 DEF Post, IInv, TypeOK, Values
<1>6. Moves(c, Todo[at]) = c /\ Kind \notin Catches /\ Kind \notin Resources
  BY <1>1, <1>3, StaysAt DEF Calm
<1>7. ~Blocks(mode, c, Todo[at])
  BY <1>1, <1>3 DEF Blocks
<1> QED
  BY <1>1, <1>2, <1>4, <1>5, <1>6, <1>7, Plain

\* All ones in a trusted read latch the loss, and the step fails.
LEMMA TrustStep ==
  ASSUME IInv, Trust
  PROVE  IInv'
<1>1. phase = "probe" /\ Kind \in {"trust", "check", "snapshot", "confirm"}
  BY DEF Trust, Kind
<1>2. PICK c \in Points, d \in Points :
         /\ Comes(c, d) /\ Fits(c) /\ ~Dead(c)
         /\ Link(load, mode, c, Todo[at], d)
  BY <1>1, Here
<1>3. Todo[at].kind = Kind
  BY <1>1, HereIs
<1>4. PICK a \in Answers :
         /\ IF a = "ones" THEN Fail(Latched(hw))
            ELSE Pass(a = "right" \/ Kind \in {"trust", "snapshot"}, hw)
         /\ Odd(a # "right") /\ OnRecord(a = "ones")
  BY DEF Trust
<1>5. late' = FALSE
  BY <1>2, TouchIsQuiet DEF Trust
<1>6. record' \in SUBSET {"fatal", "owner"} /\ (a # "ones" => record' = record)
  BY <1>4 DEF OnRecord, IInv, TypeOK, Values
<1>7. load' = load /\ Values' /\ res' = res /\ did' = did /\ lent' = lent
      /\ hw \in Hw /\ (odd => odd') /\ (a # "right" => odd')
  BY <1>4, <1>5, <1>6 DEF Trust, IInv, TypeOK, Values, Odd
<1>8. Moves(c, Todo[at]) = c /\ Kind \notin Catches /\ Kind \notin Resources
  BY <1>1, <1>3, StaysAt DEF Latching
<1>9. ~Blocks(mode, c, Todo[at]) /\ c.try # "open" /\ (record # {} => hw.lost)
  BY <1>1, <1>2, <1>3 DEF Blocks, Fits, Matches, Link, Allows, Latching
<1>10. CASE a = "ones"
  <2>1. Fail(Latched(hw))
    BY <1>4, <1>10
  <2>2. /\ Latched(hw) \in Hw /\ Latched(hw).lost
        /\ Latched(hw).state = hw.state /\ Latched(hw).retain = hw.retain
        /\ Latched(hw).phy = hw.phy /\ Latched(hw).mutated = hw.mutated
    BY <1>7, LatchedIs
  <2> QED
    BY <1>1, <1>2, <1>5, <1>7, <1>8, <1>9, <1>10, <2>1, <2>2, Plain
<1>11. CASE a # "ones" /\ (a = "right" \/ Kind \in {"trust", "snapshot"})
  <2>1. Advance(hw)
    BY <1>4, <1>11 DEF Pass
  <2> QED
    BY <1>1, <1>2, <1>5, <1>6, <1>7, <1>8, <1>9, <1>11, <2>1, Plain
<1>12. CASE a # "ones" /\ ~(a = "right" \/ Kind \in {"trust", "snapshot"})
  <2>1. Fail(hw)
    BY <1>4, <1>12 DEF Pass
  <2> QED
    BY <1>1, <1>2, <1>5, <1>6, <1>7, <1>8, <1>9, <1>12, <2>1, Plain
<1> QED
  BY <1>10, <1>11, <1>12

\* A calibration stage is only run where no failure is kept.
LEMMA CalibrationStageStep ==
  ASSUME IInv, CalibrationStage
  PROVE  IInv'
<1>1. phase = "probe" /\ Kind = "stage"
  BY DEF CalibrationStage, Kind
<1>2. PICK c \in Points, d \in Points :
         /\ Comes(c, d) /\ Fits(c) /\ ~Dead(c)
         /\ Link(load, mode, c, Todo[at], d)
  BY <1>1, Here
<1>3. Todo[at].kind = Kind
  BY <1>1, HereIs
<1>4. PICK a \in Answers :
         /\ IF a # "ones" THEN Pass(a = "right", hw) ELSE Fail(Latched(hw)) \/ Fail(hw)
         /\ Odd(a # "right") /\ OnRecord(hw'.lost)
  BY DEF CalibrationStage
<1>5. late' = FALSE
  BY <1>2, TouchIsQuiet DEF CalibrationStage
<1>6. record' \in SUBSET {"fatal", "owner"} /\ (~hw'.lost => record' = record)
  BY <1>4 DEF OnRecord, IInv, TypeOK, Values
<1>7. load' = load /\ Values' /\ res' = res /\ did' = did /\ lent' = lent
      /\ hw \in Hw /\ (odd => odd') /\ (a # "right" => odd')
  BY <1>4, <1>5, <1>6 DEF CalibrationStage, IInv, TypeOK, Values, Odd
<1>8. Moves(c, Todo[at]) = c /\ Kind \notin Catches /\ Kind \notin Resources
  BY <1>1, <1>3, StaysAt DEF Latching
<1>9. ~Blocks(mode, c, Todo[at]) /\ c.try # "open" /\ (record # {} => hw.lost)
  BY <1>1, <1>2, <1>3 DEF Blocks, Fits, Matches, Link, Allows, Latching
<1>10. a \in {"refused", "right", "wrong", "ones"} /\ (a = "refused" <=> hw.lost) /\ hw.lost \in BOOLEAN
  BY AnswersAre
<1>11. CASE a = "right"
  <2>1. Advance(hw)
    BY <1>4, <1>11 DEF Pass
  <2>2. hw' = hw
    BY <2>1 DEF Advance, Proceed
  <2>3. record' = record
    BY <1>6, <1>10, <1>11, <2>2
  <2> QED
    BY <1>1, <1>2, <1>5, <1>7, <1>8, <1>9, <2>1, <2>3, Plain
<1>12. CASE a # "right"
  <2>1. PICK h \in {hw, Latched(hw)} : Fail(h)
    BY <1>4, <1>12 DEF Pass
  <2>2. h \in Hw /\ h.state = hw.state /\ h.retain = hw.retain /\ h.phy = hw.phy
        /\ (hw.mutated => h.mutated) /\ (hw.lost => h.lost)
    BY <1>7, <2>1, LatchedIs
  <2>3. hw'.lost = h.lost
    BY <2>1, <2>2, FailIs
  <2>4. record' # {} => h.lost
    BY <1>6, <1>9, <2>2, <2>3
  <2> QED
    BY <1>1, <1>2, <1>5, <1>7, <1>8, <1>9, <1>12, <2>1, <2>2, <2>4, Plain
<1> QED
  BY <1>11, <1>12

\* A DMA test runs where no failure is kept, whatever it leaves on record.
LEMMA PartStep ==
  ASSUME IInv, Part
  PROVE  IInv'
<1>1. phase = "probe" /\ Kind = "isolated"
  BY DEF Part, Kind
<1>2. PICK c \in Points, d \in Points :
         /\ Comes(c, d) /\ Fits(c) /\ ~Dead(c)
         /\ Link(load, mode, c, Todo[at], d)
  BY <1>1, Here
<1>3. Todo[at].kind = Kind
  BY <1>1, HereIs
<1>4. PICK a \in Answers :
         /\ \/ a \in {"right", "wrong"} /\ Pass(a = "right", hw) /\ UNCHANGED record
            \/ a = "refused" /\ Fail(hw) /\ UNCHANGED record
            \/ a = "wrong" /\ Fail([hw EXCEPT !.fatal = TRUE]) /\ record' = record \cup {"fatal", "owner"}
            \/ a = "ones" /\ Fail(Latched(hw)) /\ record' = record \cup {"fatal", "owner"}
            \/ /\ a = "ones" /\ "d3b_boundary_witness" \in load
               /\ Fail([hw EXCEPT !.lost = TRUE]) /\ record' = record \cup {"owner"}
         /\ Odd(a # "right")
  BY DEF Part
<1>5. late' = FALSE
  BY <1>2, TouchIsQuiet DEF Part
<1>6. record' \in SUBSET {"fatal", "owner"}
  BY <1>4 DEF IInv, TypeOK, Values
<1>7. load' = load /\ Values' /\ res' = res /\ did' = did /\ lent' = lent
      /\ hw \in Hw /\ (odd => odd') /\ (a # "right" => odd')
  BY <1>4, <1>5, <1>6 DEF Part, IInv, TypeOK, Values, Odd
<1>8. Moves(c, Todo[at]) = c /\ Kind \notin Catches /\ Kind \notin Resources
  BY <1>1, <1>3, StaysAt
<1>9. ~Blocks(mode, c, Todo[at]) /\ c.try = "no"
  BY <1>1, <1>2, <1>3 DEF Blocks, Link, Allows
<1>10. CASE a = "right"
  <2>1. Advance(hw) /\ record' = record
    BY <1>4, <1>10 DEF Pass
  <2> QED
    BY <1>1, <1>2, <1>5, <1>7, <1>8, <1>9, <2>1, Plain
<1>11. CASE a # "right"
  <2>1. PICK h \in {hw, [hw EXCEPT !.fatal = TRUE], Latched(hw), [hw EXCEPT !.lost = TRUE]} : Fail(h)
    BY <1>4, <1>11 DEF Pass
  <2>2. h \in Hw /\ h.state = hw.state /\ h.retain = hw.retain /\ h.phy = hw.phy
        /\ (hw.mutated => h.mutated) /\ (hw.lost => h.lost)
    <3>1. CASE h = Latched(hw)
      BY <1>7, <3>1, LatchedIs
    <3>2. CASE h # Latched(hw)
      BY <1>7, <2>1, <3>2 DEF Hw
    <3> QED
      BY <3>1, <3>2
  <2> QED
    BY <1>1, <1>2, <1>5, <1>7, <1>8, <1>9, <1>11, <2>1, <2>2, Plain
<1> QED
  BY <1>10, <1>11

\* The OTP that was powered is polled.
LEMMA PoweredStep ==
  ASSUME IInv, Powered
  PROVE  IInv'
<1>1. phase = "probe" /\ Kind = "powered"
  BY DEF Powered, Kind
<1>2. PICK c \in Points, d \in Points :
         /\ Comes(c, d) /\ Fits(c) /\ ~Dead(c)
         /\ Link(load, mode, c, Todo[at], d)
  BY <1>1, Here
<1>3. Todo[at].kind = Kind
  BY <1>1, HereIs
<1>4. PICK a \in Answers :
         IF "power" \in lent THEN Pass(a \in {"right", "ones"}, hw) /\ Odd(a # "right")
         ELSE Advance(hw) /\ UNCHANGED odd
  BY DEF Powered
<1>5. late' = FALSE
  BY <1>2, TouchIsQuiet DEF Powered
<1>6. odd' \in BOOLEAN /\ (odd => odd')
  BY <1>4 DEF IInv, TypeOK, Values, Odd
<1>7. load' = load /\ Values' /\ res' = res /\ did' = did /\ lent' = lent
      /\ hw \in Hw /\ record' = record
  BY <1>5, <1>6 DEF Powered, IInv, TypeOK, Values
<1>8. Moves(c, Todo[at]) = c /\ Kind \notin Catches /\ Kind \notin Resources
  BY <1>1, <1>3, StaysAt DEF Calm
<1>9. ~Blocks(mode, c, Todo[at]) /\ (record' # {} => hw.lost)
  BY <1>1, <1>2, <1>3, <1>7 DEF Blocks, Fits, Matches
<1>10. Advance(hw) \/ (Fail(hw) /\ odd')
  BY <1>4 DEF Pass, Odd
<1> QED
  BY <1>1, <1>2, <1>5, <1>6, <1>7, <1>8, <1>9, <1>10, Plain

\* A MAC found running is suspended; it is only found running if an answer was wrong.
LEMMA LooseStep ==
  ASSUME IInv, Loose
  PROVE  IInv'
<1>1. phase = "probe" /\ Kind = "loose"
  BY DEF Loose, Kind
<1>2. PICK c \in Points, d \in Points :
         /\ Comes(c, d) /\ Fits(c) /\ ~Dead(c)
         /\ Link(load, mode, c, Todo[at], d)
  BY <1>1, Here
<1>3. Todo[at].kind = Kind
  BY <1>1, HereIs
<1>4. PICK a \in Answers :
         /\ \/ a = "right" /\ Advance(hw)
            \/ a = "wrong" /\ Advance([hw EXCEPT !.suspended = TRUE])
            \/ a # "right" /\ Fail(hw)
         /\ Odd(a # "right")
  BY DEF Loose
<1>5. late' = FALSE
  BY <1>2, TouchIsQuiet DEF Loose
<1>6. load' = load /\ Values' /\ res' = res /\ did' = did /\ lent' = lent
      /\ hw \in Hw /\ record' = record /\ (odd => odd') /\ (a # "right" => odd')
  BY <1>4, <1>5 DEF Loose, IInv, TypeOK, Values, Odd
<1>7. Moves(c, Todo[at]) = c /\ Kind \notin Catches /\ Kind \notin Resources
  BY <1>1, <1>3, StaysAt DEF Calm
<1>8. ~Blocks(mode, c, Todo[at]) /\ (record' # {} => hw.lost)
  BY <1>1, <1>2, <1>3, <1>6 DEF Blocks, Fits, Matches
<1>9. CASE a # "right" /\ Fail(hw)
  BY <1>1, <1>2, <1>5, <1>6, <1>7, <1>8, <1>9, Plain
<1>10. CASE a = "right" /\ Advance(hw)
  BY <1>1, <1>2, <1>5, <1>6, <1>7, <1>8, <1>10, Plain
<1>11. CASE a = "wrong" /\ Advance([hw EXCEPT !.suspended = TRUE])
  <2>1. PICK h : h = [hw EXCEPT !.suspended = TRUE]
    OBVIOUS
  <2>2. h \in Hw /\ h.state = hw.state /\ h.retain = hw.retain /\ h.phy = hw.phy
        /\ (hw.mutated => h.mutated) /\ (hw.lost <=> h.lost)
    BY <1>6, <2>1 DEF Hw
  <2> QED
    BY <1>1, <1>2, <1>5, <1>6, <1>7, <1>8, <1>11, <2>1, <2>2, Plain
<1> QED
  BY <1>4, <1>9, <1>10, <1>11

\* A MAC that was suspended is resumed.
LEMMA ResumeMacStep ==
  ASSUME IInv, ResumeMac
  PROVE  IInv'
<1>1. phase = "probe" /\ Kind = "resume_mac"
  BY DEF ResumeMac, Kind
<1>2. PICK c \in Points, d \in Points :
         /\ Comes(c, d) /\ Fits(c) /\ ~Dead(c)
         /\ Link(load, mode, c, Todo[at], d)
  BY <1>1, Here
<1>3. Todo[at].kind = Kind
  BY <1>1, HereIs
<1>4. late' = FALSE
  BY <1>2, TouchIsQuiet DEF ResumeMac
<1>5. PICK h : h = [hw EXCEPT !.suspended = FALSE]
  OBVIOUS
<1>6. hw \in Hw
  BY DEF IInv, TypeOK
<1>7. h \in Hw /\ h.state = hw.state /\ h.retain = hw.retain /\ h.phy = hw.phy /\ h.otp = hw.otp
      /\ (hw.mutated => h.mutated) /\ (hw.lost <=> h.lost) /\ h.suspended = FALSE
  BY <1>5, <1>6 DEF Hw
<1>8. (odd => odd') /\ odd' \in BOOLEAN
      /\ \/ Advance(hw)
         \/ hw.suspended /\ Advance(h)
         \/ Fail(h) /\ odd'
  BY <1>5 DEF ResumeMac, Odd, Pass, IInv, TypeOK, Values
<1>9. load' = load /\ Values' /\ res' = res /\ did' = did /\ lent' = lent /\ record' = record
  BY <1>4, <1>8 DEF ResumeMac, IInv, TypeOK, Values
<1>10. Moves(c, Todo[at]) = c /\ Kind \notin Catches /\ Kind \notin Resources
  BY <1>1, <1>3, StaysAt DEF Calm
<1>11. /\ ~Blocks(mode, c, Todo[at]) /\ (record' # {} => hw.lost)
       /\ hw.suspended => odd
  BY <1>1, <1>2, <1>3, <1>9 DEF Blocks, Fits, Matches
<1>12. CASE Advance(hw)
  BY <1>1, <1>2, <1>4, <1>6, <1>8, <1>9, <1>10, <1>11, <1>12, Plain
<1>13. CASE hw.suspended /\ Advance(h)
  BY <1>1, <1>2, <1>4, <1>7, <1>8, <1>9, <1>10, <1>11, <1>13, Plain
<1>14. CASE Fail(h) /\ odd'
  BY <1>1, <1>2, <1>4, <1>7, <1>8, <1>9, <1>10, <1>11, <1>14, Plain
<1> QED
  BY <1>8, <1>12, <1>13, <1>14

-----------------------------------------------------------------------------
(***************************************************************************)
(* What writes to the core.                                                *)
(***************************************************************************)
LEMMA BegunIs ==
  ASSUME IInv, phase = "probe", NEW c \in Points, Fits(c), Begun, Kind \in Wakes
  PROVE  /\ did' \in Dids
         /\ Begins(c, Todo[at]) => did' = "begun" /\ Place = "ucode"
         /\ ~Begins(c, Todo[at]) => did' = did
<1>1. Todo[at].kind = Kind /\ Todo[at].at = Place
  BY HereIs
<1>2. did = c.did /\ did \in Dids
  BY DEF Fits, Matches, IInv, TypeOK, Values
<1> QED
  BY <1>1, <1>2 DEF Begun, Begins, Dids

\* The step goes on, or fails, with what it did to the core told.
LEMMA Waking ==
  ASSUME IInv, phase = "probe", NEW c \in Points, NEW d \in Points, Comes(c, d), Fits(c), ~Dead(c),
         Link(load, mode, c, Todo[at], d), Kind \in Wakes, Begun,
         NEW h \in Hw, h.state = hw.state, h.retain = hw.retain, h.phy = hw.phy, h.otp = hw.otp,
         h.suspended = hw.suspended, h.lost = hw.lost, hw.mutated => h.mutated,
         Place = "ucode" => h.mutated = TRUE \/ ~Begins(c, Todo[at]),
         load' = load, Values', late' = FALSE, res' = res, lent' = lent, record' = record,
         odd => odd', Advance(h) \/ (Fail(h) /\ odd')
  PROVE  IInv'
<1>1. Todo[at].kind = Kind /\ Todo[at].at = Place
  BY HereIs
<1>2. Matches(c, hw, did, odd, record, lent, trying, res)
  BY DEF Fits
<1>3. /\ Begins(c, Todo[at]) => did' = "begun" /\ h.mutated /\ did = "none" /\ c.did = "none"
      /\ ~Begins(c, Todo[at]) => did' = did
  BY <1>1, <1>2, BegunIs DEF Begins, Matches
<1>4. CASE Advance(h)
  <2>1. ~Blocks(mode, c, Todo[at])
    BY <1>1 DEF Blocks, Wakes
  <2>2. Moves(c, Todo[at]) = IF Begins(c, Todo[at]) THEN [c EXCEPT !.did = "begun"] ELSE c
    BY Zenon, <1>1, MovesIs
  <2>3. PICK e : e = Moves(c, Todo[at])
    OBVIOUS
  <2>4. Below(e, d)
    BY <2>1, <2>3 DEF Link
  <2>5. /\ e.state = c.state /\ e.retain = c.retain /\ e.phy = c.phy /\ e.otp = c.otp
        /\ e.lent = c.lent /\ e.try = c.try /\ e.lossy = c.lossy /\ e.res = c.res
        /\ e.did = IF Begins(c, Todo[at]) THEN "begun" ELSE c.did
    <3>1. CASE Begins(c, Todo[at])
      <4>1. e = [c EXCEPT !.did = "begun"]
        BY <2>2, <2>3, <3>1
      <4> QED
        BY <3>1, <4>1 DEF Points
    <3>2. CASE ~Begins(c, Todo[at])
      BY <2>2, <2>3, <3>2
    <3> QED
      BY <3>1, <3>2
  <2>6. Matches(e, h, did', odd', record', lent', trying, res')
    BY <1>2, <1>3, <2>5 DEF Matches
  <2>7. Sound(h, did', lent')
    BY <1>3 DEF IInv, Sound
  <2>8. Proceed(h, trying)
    BY <1>4 DEF Advance
  <2> QED
    BY <2>4, <2>6, <2>7, <2>8, Onward
<1>5. CASE Fail(h) /\ odd'
  <2>1. Kind \notin Catches /\ Kind \notin Resources
    BY DEF Wakes, Catches, Resources
  <2>2. record' # {} => h.lost
    BY <1>2 DEF Matches
  <2> QED
    BY <1>3, <1>5, <2>1, <2>2, Failing
<1> QED
  BY <1>4, <1>5

\* A call into bcma is only made where no loss can be latched.
LEMMA BusStep ==
  ASSUME IInv, Bus
  PROVE  IInv'
<1>1. phase = "probe" /\ Kind = "bus" /\ Kind \in Wakes
  BY DEF Bus, Kind, Wakes
<1>2. PICK c \in Points, d \in Points :
         /\ Comes(c, d) /\ Fits(c) /\ ~Dead(c)
         /\ Link(load, mode, c, Todo[at], d)
  BY <1>1, Here
<1>3. Todo[at].kind = Kind
  BY <1>1, HereIs
<1>4. Settles(c)
  BY <1>1, <1>2, <1>3 DEF Link, Allows
<1>5. late' = FALSE
  BY <1>2, <1>4, TouchedIsQuiet DEF Bus
<1>6. Advance(Marked) /\ Begun /\ did' \in Dids
  BY <1>1, <1>2, BegunIs DEF Bus
<1>7. load' = load /\ Values' /\ res' = res /\ lent' = lent /\ record' = record /\ odd' = odd
  BY <1>5, <1>6 DEF Bus, IInv, TypeOK, Values
<1> QED
  BY <1>1, <1>2, <1>5, <1>6, <1>7, MarkedIs, Waking

\* So is bcma_core_enable, which may fail.
LEMMA EnableStep ==
  ASSUME IInv, Enable
  PROVE  IInv'
<1>1. phase = "probe" /\ Kind = "enable" /\ Kind \in Wakes
  BY DEF Enable, Kind, Wakes
<1>2. PICK c \in Points, d \in Points :
         /\ Comes(c, d) /\ Fits(c) /\ ~Dead(c)
         /\ Link(load, mode, c, Todo[at], d)
  BY <1>1, Here
<1>3. Todo[at].kind = Kind
  BY <1>1, HereIs
<1>4. Settles(c)
  BY <1>1, <1>2, <1>3 DEF Link, Allows
<1>5. late' = FALSE
  BY <1>2, <1>4, TouchedIsQuiet DEF Enable
<1>6. Begun /\ did' \in Dids
  BY <1>1, <1>2, BegunIs DEF Enable
<1>7. odd' \in BOOLEAN /\ (odd => odd') /\ (Advance(Marked) \/ (Fail(Marked) /\ odd'))
  BY DEF Enable, Pass, Odd, IInv, TypeOK, Values
<1>8. load' = load /\ Values' /\ res' = res /\ lent' = lent /\ record' = record
  BY <1>5, <1>6, <1>7 DEF Enable, IInv, TypeOK, Values
<1> QED
  BY <1>1, <1>2, <1>5, <1>6, <1>7, <1>8, MarkedIs, Waking

\* A write that the latch suppresses is never the first one to the core.
LEMMA WriteStep ==
  ASSUME IInv, Write
  PROVE  IInv'
<1>1. phase = "probe" /\ Kind = "write" /\ Kind \in Wakes
  BY DEF Write, Kind, Wakes
<1>2. PICK c \in Points, d \in Points :
         /\ Comes(c, d) /\ Fits(c) /\ ~Dead(c)
         /\ Link(load, mode, c, Todo[at], d)
  BY <1>1, Here
<1>3. Todo[at].kind = Kind
  BY <1>1, HereIs
<1>4. late' = FALSE
  BY <1>2, TouchIsQuiet DEF Write
<1>5. Begun /\ did' \in Dids
  BY <1>1, <1>2, BegunIs DEF Write
<1>6. load' = load /\ Values' /\ res' = res /\ lent' = lent /\ record' = record /\ odd' = odd
      /\ hw \in Hw
  BY <1>4, <1>5 DEF Write, IInv, TypeOK, Values
<1>7. CASE hw.lost
  <2>1. Fail(hw) /\ odd'
    BY <1>2, <1>6, <1>7 DEF Write, Pass, Fits, Matches
  <2>2. ~Begins(c, Todo[at])
    <3>1. ~Settles(c)
      BY <1>2, <1>7 DEF Settles, Fits, Matches
    <3> QED
      BY <1>2, <3>1 DEF Link, Allows
  <2> QED
    BY <1>1, <1>2, <1>4, <1>5, <1>6, <2>1, <2>2, Waking
<1>8. CASE ~hw.lost
  <2>1. Advance(Marked)
    BY <1>8 DEF Write, Pass
  <2> QED
    BY <1>1, <1>2, <1>4, <1>5, <1>6, <2>1, MarkedIs, Waking
<1> QED
  BY <1>7, <1>8

\* A transition of the wrapper.
LEMMA TransitionStep ==
  ASSUME IInv, Transition
  PROVE  IInv'
<1>1. phase = "probe" /\ Kind = "transition"
  BY DEF Transition, Kind
<1>2. PICK c \in Points, d \in Points :
         /\ Comes(c, d) /\ Fits(c) /\ ~Dead(c)
         /\ Link(load, mode, c, Todo[at], d)
  BY <1>1, Here
<1>3. Todo[at].kind = Kind
  BY <1>1, HereIs
<1>4. PICK a \in Answers :
         /\ CASE a = "refused" -> Fail(hw)
              [] a = "ones" -> Fail(Latched(Marked))
              [] OTHER -> Pass(a = "right", Marked)
         /\ Odd(a # "right") /\ OnRecord(a = "ones")
  BY DEF Transition
<1>5. late' = FALSE
  BY <1>2, TouchIsQuiet DEF Transition
<1>6. record' \in SUBSET {"fatal", "owner"} /\ (a # "ones" => record' = record)
  BY <1>4 DEF OnRecord, IInv, TypeOK, Values
<1>7. load' = load /\ Values' /\ res' = res /\ did' = did /\ lent' = lent
      /\ hw \in Hw /\ (odd => odd') /\ (a # "right" => odd')
  BY <1>4, <1>5, <1>6 DEF Transition, IInv, TypeOK, Values, Odd
<1>8. Moves(c, Todo[at]) = c /\ Kind \notin Catches /\ Kind \notin Resources
  BY <1>1, <1>3, StaysAt DEF Latching
<1>9. ~Blocks(mode, c, Todo[at]) /\ c.try # "open" /\ (record # {} => hw.lost)
  BY <1>1, <1>2, <1>3 DEF Blocks, Fits, Matches, Link, Allows, Latching
<1>10. CASE a = "right"
  <2>1. Advance(Marked)
    BY <1>4, <1>10 DEF Pass
  <2>2. record' = record
    BY <1>6, <1>10
  <2> QED
    BY <1>1, <1>2, <1>5, <1>7, <1>8, <1>9, <2>1, <2>2, MarkedIs, Plain
<1>11. CASE a # "right"
  <2>1. PICK h \in {hw, Marked, Latched(Marked)} : Fail(h) /\ (a = "ones" => h = Latched(Marked))
    BY <1>4, <1>11 DEF Pass
  <2>2. h \in Hw /\ h.state = hw.state /\ h.retain = hw.retain /\ h.phy = hw.phy
        /\ (hw.mutated => h.mutated) /\ (hw.lost => h.lost) /\ (a = "ones" => h.lost)
    <3>1. CASE h = Latched(Marked)
      BY <3>1, MarkedIs, LatchedIs
    <3>2. CASE h # Latched(Marked)
      BY <1>7, <2>1, <3>2, MarkedIs
    <3> QED
      BY <3>1, <3>2
  <2>3. record' # {} => h.lost
    BY <1>6, <1>9, <2>2
  <2> QED
    BY <1>1, <1>2, <1>5, <1>7, <1>8, <1>9, <1>11, <2>1, <2>2, <2>3, Plain
<1> QED
  BY <1>10, <1>11

-----------------------------------------------------------------------------
(***************************************************************************)
(* The identity ladder.                                                    *)
(***************************************************************************)
\* A step of the ladder goes on, past a stall too if it is the island's, or stops it.
LEMMA Laddering ==
  ASSUME IInv, phase = "probe", NEW c \in Points, NEW d \in Points, Comes(c, d), Fits(c), ~Dead(c),
         Link(load, mode, c, Todo[at], d), Kind \in LadderKinds,
         NEW h \in {hw, Latched(hw)}, Advance(h) \/ Stop(h),
         h = hw \/ Stop(h) \/ (Kind = "island" /\ odd'),
         load' = load, Values', late' = FALSE, res' = res, did' = did, lent' = lent,
         record' = record, odd => odd'
  PROVE  IInv'
<1>1. Todo[at].kind = Kind
  BY HereIs
<1>2. hw \in Hw /\ h \in Hw /\ h.state = hw.state /\ h.retain = hw.retain /\ h.phy = hw.phy
      /\ h.mutated = hw.mutated /\ h.suspended = hw.suspended /\ h.otp = hw.otp
      /\ (hw.lost => h.lost)
  BY LatchedIs DEF IInv, TypeOK
<1>3. CASE Stop(h)
  BY <1>2, <1>3, Stopping
<1>4. CASE Advance(h) /\ h = hw /\ Kind # "island"
  <2>1. Moves(c, Todo[at]) = c
    BY Zenon, <1>1, <1>4, MovesIs
  <2>2. Kind \notin Catches /\ Kind \notin Resources /\ ~Blocks(mode, c, Todo[at])
    BY <1>1 DEF LadderKinds, Catches, Resources, Blocks
  <2> QED
    BY <1>2, <1>4, <2>1, <2>2, Plain
<1>5. CASE Advance(h) /\ Kind = "island" /\ ~Stop(h)
  <2>1. PICK e : e = [c EXCEPT !.lossy = TRUE]
    OBVIOUS
  <2>2. /\ e.state = c.state /\ e.retain = c.retain /\ e.phy = c.phy /\ e.otp = c.otp
        /\ e.lent = c.lent /\ e.try = c.try /\ e.lossy = TRUE /\ e.res = c.res /\ e.did = c.did
    BY <2>1 DEF Points
  <2>3. Moves(c, Todo[at]) = e /\ ~Blocks(mode, c, Todo[at])
    <3>1. Todo[at].kind = "island"
      BY <1>1, <1>5
    <3>2. Moves(c, Todo[at]) = e
      BY Zenon, <2>1, <3>1, MovesIs
    <3> QED
      BY <3>1, <3>2 DEF Blocks
  <2>4. Below(e, d)
    BY <2>3 DEF Link
  <2>5. Matches(c, hw, did, odd, record, lent, trying, res) /\ (h = hw \/ odd')
    BY <1>5 DEF Fits
  <2>6. c.lent = {}
    BY <1>1 DEF Link, Allows
  <2>7. Matches(e, h, did', odd', record', lent', trying, res')
    BY <1>2, <2>2, <2>5, <2>6 DEF Matches
  <2>8. Sound(h, did', lent') /\ Proceed(h, trying)
    BY <1>2, <1>5 DEF IInv, Sound, Advance
  <2> QED
    BY <1>2, <2>4, <2>7, <2>8, Onward
<1> QED
  BY <1>3, <1>4, <1>5

\* A rung.
LEMMA RungStep ==
  ASSUME IInv, Rung
  PROVE  IInv'
<1>1. phase = "probe" /\ Kind \in LadderKinds
  BY DEF Rung, Kind, LadderKinds
<1>2. PICK c \in Points, d \in Points :
         /\ Comes(c, d) /\ Fits(c) /\ ~Dead(c)
         /\ Link(load, mode, c, Todo[at], d)
  BY <1>1, Here
<1>3. late' = FALSE
  BY <1>2, TouchIsQuiet DEF Rung
<1>4. odd' \in BOOLEAN /\ (odd => odd')
      /\ (Stop(Latched(hw)) \/ Stop(hw) \/ Advance(hw))
  BY DEF Rung, Odd, IInv, TypeOK, Values
<1>5. load' = load /\ Values' /\ res' = res /\ did' = did /\ lent' = lent /\ record' = record
  BY <1>3, <1>4 DEF Rung, IInv, TypeOK, Values
<1> QED
  BY <1>1, <1>2, <1>3, <1>4, <1>5, Laddering

\* A baseline.
LEMMA BaselineStep ==
  ASSUME IInv, Baseline
  PROVE  IInv'
<1>1. phase = "probe" /\ Kind \in LadderKinds
  BY DEF Baseline, Kind, LadderKinds
<1>2. PICK c \in Points, d \in Points :
         /\ Comes(c, d) /\ Fits(c) /\ ~Dead(c)
         /\ Link(load, mode, c, Todo[at], d)
  BY <1>1, Here
<1>3. late' = FALSE
  BY <1>2, TouchIsQuiet DEF Baseline
<1>4. odd' \in BOOLEAN /\ (odd => odd') /\ (Stop(hw) \/ Advance(hw))
  BY DEF Baseline, Odd, IInv, TypeOK, Values
<1>5. load' = load /\ Values' /\ res' = res /\ did' = did /\ lent' = lent /\ record' = record
  BY <1>3, <1>4 DEF Baseline, IInv, TypeOK, Values
<1> QED
  BY <1>1, <1>2, <1>3, <1>4, <1>5, Laddering

\* The island, where a stall is what is looked for.
LEMMA IslandStep ==
  ASSUME IInv, Island
  PROVE  IInv'
<1>1. phase = "probe" /\ Kind \in LadderKinds /\ Kind = "island"
  BY DEF Island, Kind, LadderKinds
<1>2. PICK c \in Points, d \in Points :
         /\ Comes(c, d) /\ Fits(c) /\ ~Dead(c)
         /\ Link(load, mode, c, Todo[at], d)
  BY <1>1, Here
<1>3. late' = FALSE
  BY <1>2, TouchIsQuiet DEF Island
<1>4. odd' \in BOOLEAN /\ (odd => odd')
      /\ (((Advance(Latched(hw)) \/ Stop(Latched(hw))) /\ odd') \/ Advance(hw))
  BY DEF Island, Odd, IInv, TypeOK, Values
<1>5. load' = load /\ Values' /\ res' = res /\ did' = did /\ lent' = lent /\ record' = record
  BY <1>3, <1>4 DEF Island, IInv, TypeOK, Values
<1> QED
  BY <1>1, <1>2, <1>3, <1>4, <1>5, Laddering

\* Reads past the latch.
LEMMA BypassStep ==
  ASSUME IInv, Bypass
  PROVE  IInv'
<1>1. phase = "probe" /\ Kind \in LadderKinds
  BY DEF Bypass, Kind, LadderKinds
<1>2. PICK c \in Points, d \in Points :
         /\ Comes(c, d) /\ Fits(c) /\ ~Dead(c)
         /\ Link(load, mode, c, Todo[at], d)
  BY <1>1, Here
<1>3. late' = FALSE
  BY StillQuiet DEF Bypass
<1>4. odd' \in BOOLEAN /\ (odd => odd') /\ (Stop(hw) \/ Advance(hw))
  BY DEF Bypass, Odd, IInv, TypeOK, Values
<1>5. load' = load /\ Values' /\ res' = res /\ did' = did /\ lent' = lent /\ record' = record
  BY <1>3, <1>4 DEF Bypass, IInv, TypeOK, Values
<1> QED
  BY <1>1, <1>2, <1>3, <1>4, <1>5, Laddering

\* The end of the ladder.
LEMMA SettledStep ==
  ASSUME IInv, Settled
  PROVE  IInv'
<1>1. phase = "probe" /\ Kind \in LadderKinds
  BY DEF Settled, Kind, LadderKinds
<1>2. PICK c \in Points, d \in Points :
         /\ Comes(c, d) /\ Fits(c) /\ ~Dead(c)
         /\ Link(load, mode, c, Todo[at], d)
  BY <1>1, Here
<1>3. late' = FALSE
  BY StillQuiet DEF Settled
<1>4. odd' = odd /\ (Stop(hw) \/ Advance(hw))
  BY DEF Settled
<1>5. load' = load /\ Values' /\ res' = res /\ did' = did /\ lent' = lent /\ record' = record
  BY <1>3, <1>4 DEF Settled, IInv, TypeOK, Values
<1> QED
  BY <1>1, <1>2, <1>3, <1>4, <1>5, Laddering

-----------------------------------------------------------------------------
(***************************************************************************)
(* What the stages publish, and the failures they keep.                    *)
(***************************************************************************)
LEMMA Leading ==
  ASSUME IInv, phase = "probe", NEW c \in Points, NEW d \in Points, Comes(c, d), ~Dead(c),
         Link(load, mode, c, Todo[at], d), Kind # "core_ready",
         NEW e, Moves(c, Todo[at]) = e, NEW h \in Hw, NEW t, Proceed(h, t),
         load' = load, Values', late' = FALSE,
         Matches(e, h, did', odd', record', lent', t, res'), Sound(h, did', lent')
  PROVE  IInv'
<1>1. ~Blocks(mode, c, Todo[at])
  BY HereIs DEF Blocks
<1>2. Below(e, d)
  BY <1>1 DEF Link
<1> QED
  BY <1>2, Onward

\* The core that is loaded was begun with, and so it is retained.
LEMMA LoadedStep ==
  ASSUME IInv, Loaded
  PROVE  IInv'
<1>1. phase = "probe" /\ Kind = "loaded"
  BY DEF Loaded, Kind
<1>2. PICK c \in Points, d \in Points :
         /\ Comes(c, d) /\ Fits(c) /\ ~Dead(c)
         /\ Link(load, mode, c, Todo[at], d)
  BY <1>1, Here
<1>3. Todo[at].kind = "loaded"
  BY <1>1, HereIs
<1>4. c.did = "begun" /\ c.try = "no"
  BY <1>2, <1>3 DEF Link, Allows
<1>5. Matches(c, hw, did, odd, record, lent, trying, res) /\ hw \in Hw
  BY <1>2 DEF Fits, IInv, TypeOK
<1>6. PICK h : h = [hw EXCEPT !.retain = hw.mutated]
  OBVIOUS
<1>7. hw.mutated = TRUE
  BY <1>4, <1>5 DEF Matches, Hw
<1>8. /\ h \in Hw /\ h.state = hw.state /\ h.retain = TRUE /\ h.phy = hw.phy /\ h.otp = hw.otp
      /\ h.mutated = TRUE /\ h.lost = hw.lost /\ h.suspended = hw.suspended
  BY <1>5, <1>6, <1>7 DEF Hw
<1>9. PICK e : e = [c EXCEPT !.did = "loaded", !.retain = TRUE]
  OBVIOUS
<1>10. Moves(c, Todo[at]) = e
  BY Zenon, <1>3, <1>9, MovesIs
<1>11. /\ e.state = c.state /\ e.retain = TRUE /\ e.phy = c.phy /\ e.otp = c.otp
       /\ e.lent = c.lent /\ e.try = c.try /\ e.lossy = c.lossy /\ e.res = c.res /\ e.did = "loaded"
  BY <1>9 DEF Points
<1>12. Proceed(h, trying) /\ did' = "loaded" /\ load' = load /\ odd' = odd /\ record' = record
       /\ lent' = lent /\ res' = res
  BY <1>6 DEF Loaded, Advance
<1>13. Values' /\ late' = FALSE
  BY <1>12, StillQuiet DEF Loaded, IInv, TypeOK, Values, Dids
<1>14. Matches(e, h, did', odd', record', lent', trying, res')
  BY <1>5, <1>8, <1>11, <1>12 DEF Matches
<1>15. Sound(h, did', lent')
  BY <1>4, <1>5, <1>8, <1>12 DEF IInv, Sound, Matches
<1> QED
  BY <1>1, <1>2, <1>8, <1>10, <1>12, <1>13, <1>14, <1>15, Leading

\* The common initvals.
LEMMA CommonStep ==
  ASSUME IInv, Common
  PROVE  IInv'
<1>1. phase = "probe" /\ Kind = "common"
  BY DEF Common, Kind
<1>2. PICK c \in Points, d \in Points :
         /\ Comes(c, d) /\ Fits(c) /\ ~Dead(c)
         /\ Link(load, mode, c, Todo[at], d)
  BY <1>1, Here
<1>3. Todo[at].kind = "common"
  BY <1>1, HereIs
<1>4. Matches(c, hw, did, odd, record, lent, trying, res) /\ hw \in Hw
  BY <1>2 DEF Fits, IInv, TypeOK
<1>5. PICK e : e = [c EXCEPT !.did = "common"]
  BY Zenon
<1>6. Moves(c, Todo[at]) = e
  BY Zenon, <1>3, <1>5, MovesIs
<1>7. /\ e.state = c.state /\ e.retain = c.retain /\ e.phy = c.phy /\ e.otp = c.otp
      /\ e.lent = c.lent /\ e.try = c.try /\ e.lossy = c.lossy /\ e.res = c.res /\ e.did = "common"
  BY <1>5 DEF Points
<1>8. Proceed(hw, trying) /\ did' = "common" /\ load' = load /\ odd' = odd /\ record' = record
      /\ lent' = lent /\ res' = res
  BY DEF Common, Advance
<1>9. Values' /\ late' = FALSE
  BY <1>8, StillQuiet DEF Common, IInv, TypeOK, Values, Dids
<1>10. Matches(e, hw, did', odd', record', lent', trying, res')
  BY <1>4, <1>7, <1>8 DEF Matches
<1>11. Sound(hw, did', lent')
  BY <1>8 DEF IInv, Sound
<1> QED
  BY <1>1, <1>2, <1>4, <1>6, <1>8, <1>9, <1>10, <1>11, Leading

\* The core state of a mode that has none yet.
LEMMA PublishCoreStep ==
  ASSUME IInv, PublishCore
  PROVE  IInv'
<1>1. phase = "probe" /\ Kind = "publish_core"
  BY DEF PublishCore, Kind
<1>2. PICK c \in Points, d \in Points :
         /\ Comes(c, d) /\ Fits(c) /\ ~Dead(c)
         /\ Link(load, mode, c, Todo[at], d)
  BY <1>1, Here
<1>3. Todo[at].kind = "publish_core"
  BY <1>1, HereIs
<1>4. Matches(c, hw, did, odd, record, lent, trying, res) /\ hw \in Hw
  BY <1>2 DEF Fits, IInv, TypeOK
<1>5. PICK h : h = IF hw.state = "none" THEN [hw EXCEPT !.state = "core"] ELSE hw
  OBVIOUS
<1>6. /\ h \in Hw /\ h.state = (IF hw.state = "none" THEN "core" ELSE hw.state)
      /\ h.retain = hw.retain /\ h.phy = hw.phy /\ h.otp = hw.otp
      /\ h.mutated = hw.mutated /\ h.lost = hw.lost /\ h.suspended = hw.suspended
  BY <1>4, <1>5 DEF Hw
<1>7. PICK e : e = IF c.state = "none" THEN [c EXCEPT !.state = "core"] ELSE c
  OBVIOUS
<1>8. Moves(c, Todo[at]) = e
  BY Zenon, <1>3, <1>7, MovesIs
<1>9. /\ e.state = (IF c.state = "none" THEN "core" ELSE c.state)
      /\ e.retain = c.retain /\ e.phy = c.phy /\ e.otp = c.otp /\ e.did = c.did
      /\ e.lent = c.lent /\ e.try = c.try /\ e.lossy = c.lossy /\ e.res = c.res
  BY <1>7 DEF Points
<1>10. Proceed(h, trying) /\ did' = did /\ load' = load /\ odd' = odd /\ record' = record
       /\ lent' = lent /\ res' = res
  BY <1>5 DEF PublishCore, Advance
<1>11. Values' /\ late' = FALSE
  BY <1>10, StillQuiet DEF PublishCore, IInv, TypeOK, Values
<1>12. Matches(e, h, did', odd', record', lent', trying, res')
  BY <1>4, <1>6, <1>9, <1>10 DEF Matches
<1>13. Sound(h, did', lent')
  BY <1>6, <1>10 DEF IInv, Sound
<1> QED
  BY <1>1, <1>2, <1>6, <1>8, <1>10, <1>11, <1>12, <1>13, Leading

\* A lifecycle step is made from the right state, so that it is never refused.
LEMMA PublishStep ==
  ASSUME IInv, Publish
  PROVE  IInv'
<1>1. phase = "probe" /\ Kind \in {"publish_ucode", "publish_common"}
  BY DEF Publish, Kind
<1>2. PICK c \in Points, d \in Points :
         /\ Comes(c, d) /\ Fits(c) /\ ~Dead(c)
         /\ Link(load, mode, c, Todo[at], d)
  BY <1>1, Here
<1>3. Todo[at].kind = Kind
  BY <1>1, HereIs
<1>4. Matches(c, hw, did, odd, record, lent, trying, res) /\ hw \in Hw
  BY <1>2 DEF Fits, IInv, TypeOK
<1>5. did' = did /\ load' = load /\ odd' = odd /\ record' = record /\ lent' = lent /\ res' = res
      /\ Values' /\ late' = FALSE
  BY StillQuiet DEF Publish, IInv, TypeOK, Values
<1>6. CASE Kind = "publish_ucode"
  <2>1. c.state = "attach" /\ c.did = "loaded" /\ Settles(c)
    BY <1>2, <1>3, <1>6 DEF Link, Allows
  <2>2. hw.state = "attach" /\ ~hw.lost
    BY <1>4, <2>1 DEF Matches, Settles
  <2>3. PICK h : h = [hw EXCEPT !.state = "suspended"]
    OBVIOUS
  <2>4. /\ h \in Hw /\ h.state = "suspended" /\ h.retain = hw.retain /\ h.phy = hw.phy
        /\ h.otp = hw.otp /\ h.mutated = hw.mutated /\ h.lost = hw.lost
        /\ h.suspended = hw.suspended
    BY <1>4, <2>3 DEF Hw
  <2>5. PICK e : e = [c EXCEPT !.state = "suspended"]
    OBVIOUS
  <2>6. Moves(c, Todo[at]) = e
    <3>1. Todo[at].kind = "publish_ucode"
      BY <1>3, <1>6
    <3> QED
      BY Zenon, <2>5, <3>1, MovesIs
  <2>7. /\ e.state = "suspended" /\ e.retain = c.retain /\ e.phy = c.phy /\ e.otp = c.otp
        /\ e.did = c.did /\ e.lent = c.lent /\ e.try = c.try /\ e.lossy = c.lossy /\ e.res = c.res
    BY <2>5 DEF Points
  <2>8. Proceed(h, trying)
    BY <1>6, <2>2, <2>3 DEF Publish, Advance
  <2>9. Matches(e, h, did', odd', record', lent', trying, res')
    BY <1>4, <1>5, <2>4, <2>7 DEF Matches
  <2>10. Sound(h, did', lent')
    BY <1>4, <1>5, <2>1, <2>4 DEF IInv, Sound, Matches
  <2> QED
    BY <1>1, <1>2, <1>5, <2>4, <2>6, <2>8, <2>9, <2>10, Leading
<1>7. CASE Kind = "publish_common"
  <2>1. c.state = "suspended" /\ c.did = "common" /\ Settles(c)
    BY <1>2, <1>3, <1>7 DEF Link, Allows
  <2>2. hw.state = "suspended" /\ ~hw.lost
    BY <1>4, <2>1 DEF Matches, Settles
  <2>3. PICK h : h = [hw EXCEPT !.state = "post_ucode", !.retain = FALSE]
    OBVIOUS
  <2>4. /\ h \in Hw /\ h.state = "post_ucode" /\ h.retain = FALSE /\ h.phy = hw.phy
        /\ h.otp = hw.otp /\ h.mutated = hw.mutated /\ h.lost = hw.lost
        /\ h.suspended = hw.suspended
    BY <1>4, <2>3 DEF Hw
  <2>5. PICK e : e = [c EXCEPT !.state = "post_ucode", !.retain = FALSE]
    OBVIOUS
  <2>6. Moves(c, Todo[at]) = e
    <3>1. Todo[at].kind = "publish_common"
      BY <1>3, <1>7
    <3> QED
      BY Zenon, <2>5, <3>1, MovesIs
  <2>7. /\ e.state = "post_ucode" /\ e.retain = FALSE /\ e.phy = c.phy /\ e.otp = c.otp
        /\ e.did = c.did /\ e.lent = c.lent /\ e.try = c.try /\ e.lossy = c.lossy /\ e.res = c.res
    BY <2>5 DEF Points
  <2>8. Proceed(h, trying)
    BY <1>7, <2>2, <2>3 DEF Publish, Advance
  <2>9. Matches(e, h, did', odd', record', lent', trying, res')
    BY <1>4, <1>5, <2>4, <2>7 DEF Matches
  <2>10. Sound(h, did', lent')
    BY <1>4, <1>5, <2>1, <2>4 DEF IInv, Sound, Matches
  <2> QED
    BY <1>1, <1>2, <1>5, <2>4, <2>6, <2>8, <2>9, <2>10, Leading
<1> QED
  BY <1>1, <1>6, <1>7

\* The states that attach and the PHY stages publish: the last two with nothing lent.
LEMMA RecordStep ==
  ASSUME IInv, Record
  PROVE  IInv'
<1>1. phase = "probe" /\ Kind \in {"core_up", "identified", "ready", "blocked", "radio_complete"}
  BY DEF Record, Kind
<1>2. PICK c \in Points, d \in Points :
         /\ Comes(c, d) /\ Fits(c) /\ ~Dead(c)
         /\ Link(load, mode, c, Todo[at], d)
  BY <1>1, Here
<1>3. PICK k : k = Kind
  OBVIOUS
<1>4. Todo[at].kind = k /\ k # "core_ready"
  BY <1>1, <1>3, HereIs
<1>5. Matches(c, hw, did, odd, record, lent, trying, res) /\ hw \in Hw
  BY <1>2 DEF Fits, IInv, TypeOK
<1>6. did' = did /\ load' = load /\ odd' = odd /\ record' = record /\ lent' = lent /\ res' = res
      /\ Values' /\ late' = FALSE
  BY StillQuiet DEF Record, IInv, TypeOK, Values
<1>7. CASE k \in {"core_up", "identified"}
  <2>1. c.state \notin {"suspended", "post_ucode"} /\ c.try = "no"
    BY <1>2, <1>4, <1>7 DEF Link, Allows
  <2>2. PICK s : s = IF k = "core_up" THEN "core" ELSE "attach"
    OBVIOUS
  <2>3. PICK h, e : h = [hw EXCEPT !.state = s] /\ e = [c EXCEPT !.state = s]
    OBVIOUS
  <2>4. /\ h \in Hw /\ h.state = s /\ h.retain = hw.retain /\ h.phy = hw.phy
        /\ h.otp = hw.otp /\ h.mutated = hw.mutated /\ h.lost = hw.lost
        /\ h.suspended = hw.suspended
    BY <1>5, <2>2, <2>3 DEF Hw
  <2>5. Moves(c, Todo[at]) = e
    BY <1>4, <1>7, <2>2, <2>3, CoreMoves
  <2>6. /\ e.state = s /\ e.retain = c.retain /\ e.phy = c.phy /\ e.otp = c.otp
        /\ e.did = c.did /\ e.lent = c.lent /\ e.try = c.try /\ e.lossy = c.lossy /\ e.res = c.res
    BY <2>3 DEF Points
  <2>7. Proceed(h, trying)
    BY <1>3, <1>7, <2>2, <2>3 DEF Record, Advance
  <2>8. Matches(e, h, did', odd', record', lent', trying, res')
    BY <1>5, <1>6, <2>4, <2>6 DEF Matches
  <2>9. Sound(h, did', lent')
    BY <1>6, <2>2, <2>4 DEF IInv, Sound
  <2> QED
    BY <1>1, <1>2, <1>3, <1>4, <1>6, <2>4, <2>5, <2>7, <2>8, <2>9, Leading
<1>8. CASE k \in {"ready", "blocked", "radio_complete"}
  <2>1. k \in {"blocked", "radio_complete"} => Through(c)
    BY <1>2, <1>4 DEF Link, Allows
  <2>2. PICK p : p = CASE k = "ready" -> "ready" [] k = "blocked" -> "rev1" [] OTHER -> "complete"
    OBVIOUS
  <2>3. PICK h, e : h = [hw EXCEPT !.phy = p] /\ e = [c EXCEPT !.phy = p]
    OBVIOUS
  <2>4. /\ h \in Hw /\ h.phy = p /\ h.retain = hw.retain /\ h.state = hw.state
        /\ h.otp = hw.otp /\ h.mutated = hw.mutated /\ h.lost = hw.lost
        /\ h.suspended = hw.suspended
    BY <1>5, <2>2, <2>3 DEF Hw
  <2>5. Moves(c, Todo[at]) = e
    BY <1>4, <1>8, <2>2, <2>3, PhyMoves
  <2>6. /\ e.phy = p /\ e.retain = c.retain /\ e.state = c.state /\ e.otp = c.otp
        /\ e.did = c.did /\ e.lent = c.lent /\ e.try = c.try /\ e.lossy = c.lossy /\ e.res = c.res
    BY <2>3 DEF Points
  <2>7. Proceed(h, trying)
    BY <1>3, <1>8, <2>2, <2>3 DEF Record, Advance
  <2>8. Matches(e, h, did', odd', record', lent', trying, res')
    BY <1>5, <1>6, <2>4, <2>6 DEF Matches
  <2>9. p \in {"rev1", "complete"} /\ ~hw.lost => lent = {}
    BY <1>5, <1>8, <2>1, <2>2 DEF Matches, Through
  <2>10. Sound(h, did', lent')
    BY <1>6, <2>2, <2>4, <2>9 DEF IInv, Sound
  <2> QED
    BY <1>1, <1>2, <1>3, <1>4, <1>6, <2>4, <2>5, <2>7, <2>8, <2>10, Leading
<1> QED
  BY <1>1, <1>3, <1>7, <1>8

\* A board the radio prefix does not support skips to behind it: nothing was lent before
\* it, nothing is lent behind it.
LEMMA BoardStep ==
  ASSUME IInv, Board
  PROVE  IInv'
<1>1. phase = "probe" /\ Kind = "board"
  BY DEF Board, Kind
<1>2. PICK c \in Points, d \in Points :
         /\ Comes(c, d) /\ Fits(c) /\ ~Dead(c)
         /\ Link(load, mode, c, Todo[at], d)
  BY <1>1, Here
<1>3. Todo[at].kind = "board"
  BY <1>1, HereIs
<1>4. mode \in RadioModes /\ Through(c)
  BY <1>2, <1>3 DEF Link, Allows
<1>5. Matches(c, hw, did, odd, record, lent, trying, res) /\ hw \in Hw
  BY <1>2 DEF Fits, IInv, TypeOK
<1>6. odd' \in BOOLEAN /\ (odd => odd')
  BY DEF Board, Odd, IInv, TypeOK, Values
<1>7. did' = did /\ load' = load /\ record' = record /\ lent' = lent /\ res' = res
      /\ Values' /\ late' = FALSE
  BY <1>6, StillQuiet DEF Board, IInv, TypeOK, Values
<1>8. CASE Advance(hw)
  <2>1. Moves(c, Todo[at]) = c
    BY Zenon, <1>3, MovesIs
  <2>2. Kind \notin Catches /\ Kind \notin Resources /\ ~Blocks(mode, c, Todo[at])
    BY <1>1, <1>3 DEF Catches, Resources, Blocks
  <2> QED
    BY <1>1, <1>2, <1>5, <1>6, <1>7, <1>8, <2>1, <2>2, Plain
<1>9. CASE ~Advance(hw)
  <2> DEFINE end == CHOOSE i \in DOMAIN Todo : Todo[i].kind = "blocked"
  <2>1. /\ hw' = [hw EXCEPT !.phy = "blocked"] /\ odd' /\ trying' = trying
        /\ IF end = Len(Todo) THEN phase' = "bound" /\ at' = at ELSE at' = end + 1 /\ phase' = phase
    BY <1>9 DEF Board, Odd
  <2>2. /\ load \in DOMAIN ProgramOf /\ Todo = ProgramOf[load] /\ mode = ModeOf[load]
        /\ Len(Todo) \in Nat
    BY <1>1, HereIs
  <2>3. Todo = Program(load, mode) /\ Todo \in Seq(Step) /\ DOMAIN Todo = 1 .. Len(Todo)
    BY <2>2, ProgramsAre
  <2>4. end \in 1 .. Len(Todo) /\ Todo[end].kind = "blocked"
    <3>1. Has(Todo, "blocked")
      BY <1>4, <2>3, RadioIsBlocked
    <3>2. \E i \in 1 .. Len(Todo) : Todo[i].kind = "blocked"
      BY <3>1 DEF Has
    <3> QED
      BY <2>3, <3>2
  <2> HIDE DEF end
  <2>5. PICK L : Labels(load, L) /\ L[at] = c /\ L[at + 1] = d
    BY <1>2 DEF Comes
  <2>6. PICK y \in Points, z \in Points : L[end] = y /\ L[end + 1] = z
    <3>1. end \in 1 .. Len(Todo) + 1 /\ end + 1 \in 1 .. Len(Todo) + 1
      BY <2>2, <2>4
    <3>2. L[end] \in Points /\ L[end + 1] \in Points
      BY <2>2, <2>5, <3>1 DEF Labels
    <3> QED
      BY <3>2
  <2>7. Link(load, mode, y, Todo[end], z)
    BY <2>2, <2>4, <2>5, <2>6 DEF Labels
  <2>8. ~Dead(y) /\ mode # "rev42_diag_probe"
    BY <1>4, <2>7 DEF Link, RadioModes
  <2>9. Through(y)
    BY <2>4, <2>7, <2>8 DEF Link, Allows
  <2>10. PICK e, h : e = [y EXCEPT !.phy = "rev1"] /\ h = [hw EXCEPT !.phy = "blocked"]
    OBVIOUS
  <2>11. Moves(y, Todo[end]) = e
    BY Zenon, <2>4, <2>10, MovesIs
  <2>12. Below(e, z)
    BY <2>7, <2>8, <2>11 DEF Link, Blocks
  <2>13. /\ e.phy = "rev1" /\ e.retain = y.retain /\ e.state = y.state /\ e.otp = y.otp
         /\ e.did = y.did /\ e.lent = y.lent /\ e.try = y.try /\ e.lossy = y.lossy /\ e.res = y.res
    BY <2>10 DEF Points
  <2>14. /\ h \in Hw /\ h.phy = "blocked" /\ h.retain = hw.retain /\ h.state = hw.state
         /\ h.otp = hw.otp /\ h.mutated = hw.mutated /\ h.lost = hw.lost
         /\ h.suspended = hw.suspended
    BY <1>5, <2>10 DEF Hw
  <2>15. Matches(e, h, did', odd', record', lent', trying, res')
    BY <1>4, <1>5, <1>7, <2>1, <2>9, <2>13, <2>14 DEF Matches, Through, Settles
  <2>16. Matches(z, h, did', odd', record', lent', trying, res')
    BY <2>12, <2>15, MatchesBelow
  <2>17. Sound(h, did', lent')
    BY <1>7, <2>14 DEF IInv, Sound
  <2>18. hw' = h /\ trying' = trying
         /\ IF end = Len(Todo) THEN phase' = "bound" /\ at' = at ELSE phase' = phase /\ at' = end + 1
    BY <2>1, <2>10
  <2> QED
    BY <1>1, <1>7, <2>4, <2>5, <2>6, <2>14, <2>16, <2>17, <2>18, Arriving
<1> QED
  BY <1>8, <1>9

\* A failure is kept, and in the end judged or forgotten.
LEMMA TryStep ==
  ASSUME IInv, Try
  PROVE  IInv'
<1>1. phase = "probe" /\ Kind \in {"try", "forget", "verdict"}
  BY DEF Try, Kind
<1>2. PICK c \in Points, d \in Points :
         /\ Comes(c, d) /\ Fits(c) /\ ~Dead(c)
         /\ Link(load, mode, c, Todo[at], d)
  BY <1>1, Here
<1>3. PICK k : k = Kind
  OBVIOUS
<1>4. Todo[at].kind = k /\ k # "core_ready" /\ Todo[at].at = Place
  BY <1>1, <1>3, HereIs
<1>5. Matches(c, hw, did, odd, record, lent, trying, res) /\ hw \in Hw
  BY <1>2 DEF Fits, IInv, TypeOK
<1>6. did' = did /\ load' = load /\ odd' = odd /\ record' = record /\ lent' = lent /\ res' = res
      /\ Values' /\ late' = FALSE
  BY StillQuiet DEF Try, IInv, TypeOK, Values
<1>7. Sound(hw, did', lent')
  BY <1>6 DEF IInv, Sound
<1>8. CASE k = "try"
  <2>1. c.try = "no"
    BY <1>2, <1>4, <1>8 DEF Link, Allows
  <2>2. PICK e : e = [c EXCEPT !.try = "open"]
    OBVIOUS
  <2>3. Moves(c, Todo[at]) = e
    <3>1. Todo[at].kind = "try"
      BY <1>4, <1>8
    <3> QED
      BY Zenon, <2>2, <3>1, MovesIs
  <2>4. /\ e.try = "open" /\ e.retain = c.retain /\ e.state = c.state /\ e.otp = c.otp
        /\ e.did = c.did /\ e.lent = c.lent /\ e.phy = c.phy /\ e.lossy = c.lossy /\ e.res = c.res
    BY <2>2 DEF Points
  <2>5. Proceed(hw, "open")
    BY <1>3, <1>8 DEF Try
  <2>6. Matches(e, hw, did', odd', record', lent', "open", res')
    BY <1>5, <1>6, <2>1, <2>4 DEF Matches, Tries
  <2> QED
    BY <1>1, <1>2, <1>3, <1>4, <1>5, <1>6, <1>7, <2>3, <2>5, <2>6, Leading
<1>9. CASE (k = "forget" \/ (k = "verdict" /\ trying # "failed"))
  <2>1. (k = "forget" => c.try = "open") /\ c.try # "no"
    BY <1>2, <1>4, <1>9 DEF Link, Allows
  <2>2. PICK e : e = [c EXCEPT !.try = "no"]
    OBVIOUS
  <2>3. Moves(c, Todo[at]) = e
    BY Zenon, <1>4, <1>9, <2>2, MovesIs
  <2>4. /\ e.try = "no" /\ e.retain = c.retain /\ e.state = c.state /\ e.otp = c.otp
        /\ e.did = c.did /\ e.lent = c.lent /\ e.phy = c.phy /\ e.lossy = c.lossy /\ e.res = c.res
    BY <2>2 DEF Points
  <2>5. Proceed(hw, "no")
    BY <1>3, <1>9 DEF Try
  <2>6. hw.lost => c.lossy
    BY <1>5, <1>9, <2>1 DEF Matches
  <2>7. Matches(e, hw, did', odd', record', lent', "no", res')
    BY <1>5, <1>6, <2>4, <2>6 DEF Matches, Tries
  <2> QED
    BY <1>1, <1>2, <1>3, <1>4, <1>5, <1>6, <1>7, <2>3, <2>5, <2>7, Leading
<1>10. CASE k = "verdict" /\ trying = "failed"
  <2>1. Abandon(hw)
    BY <1>3, <1>10 DEF Try
  <2>2. Exits(mode, c, Todo[at])
    BY <1>2 DEF Link
  <2>3. /\ Leaves(mode, c, Place) /\ c.lent \cap {"power", "controls"} = {}
        /\ Begins(c, Todo[at]) => Owning(mode)
    BY <1>4, <1>10, <2>2 DEF Exits
  <2>4. res' = {}
    <3>1. c.res = {}
      BY <1>4, <1>10, <2>2 DEF Exits, Resources
    <3> QED
      BY <1>5, <1>6, <3>1 DEF Matches
  <2>5. odd'
    BY <1>5, <1>6, <1>10 DEF Matches
  <2> QED
    BY <1>1, <1>2, <1>4, <1>5, <1>6, <2>1, <2>3, <2>4, <2>5, Abandoning
<1> QED
  BY <1>1, <1>3, <1>8, <1>9, <1>10

\* A wrong sample is a failure kept until the last trusted read.
LEMMA SampleStep ==
  ASSUME IInv, Sample
  PROVE  IInv'
<1>1. phase = "probe" /\ Kind = "sample"
  BY DEF Sample, Kind
<1>2. PICK c \in Points, d \in Points :
         /\ Comes(c, d) /\ Fits(c) /\ ~Dead(c)
         /\ Link(load, mode, c, Todo[at], d)
  BY <1>1, Here
<1>3. Todo[at].kind = "sample"
  BY <1>1, HereIs
<1>4. PICK a \in Answers :
         /\ IF a = "refused" THEN Fail(hw)
            ELSE Proceed(hw, IF a = "right" THEN trying ELSE "failed")
         /\ Odd(a # "right")
  BY DEF Sample
<1>5. late' = FALSE
  BY <1>2, TouchIsQuiet DEF Sample
<1>6. load' = load /\ Values' /\ res' = res /\ did' = did /\ lent' = lent
      /\ hw \in Hw /\ record' = record /\ (odd => odd') /\ (a # "right" => odd')
  BY <1>4, <1>5 DEF Sample, IInv, TypeOK, Values, Odd
<1>7. Matches(c, hw, did, odd, record, lent, trying, res) /\ (a = "refused" <=> hw.lost)
  BY <1>2, AnswersAre DEF Fits
<1>8. CASE a = "refused"
  <2>1. Fail(hw) /\ odd' /\ Kind \notin Catches /\ Kind \notin Resources
    BY <1>1, <1>4, <1>6, <1>8 DEF Catches, Resources
  <2>2. record' # {} => hw.lost
    BY <1>6, <1>7 DEF Matches
  <2> QED
    BY <1>1, <1>2, <1>5, <1>6, <2>1, <2>2, Failing
<1>9. CASE a # "refused"
  <2>1. PICK t : t = IF a = "right" THEN trying ELSE "failed"
    OBVIOUS
  <2>2. Proceed(hw, t) /\ ~hw.lost
    BY <1>4, <1>7, <1>9, <2>1
  <2>3. c.try # "open"
    BY <1>2, <1>3 DEF Link, Allows
  <2>4. PICK e : e = [c EXCEPT !.try = "sampled"]
    OBVIOUS
  <2>5. Moves(c, Todo[at]) = e
    BY Zenon, <1>3, <2>4, MovesIs
  <2>6. /\ e.try = "sampled" /\ e.retain = c.retain /\ e.state = c.state /\ e.otp = c.otp
        /\ e.did = c.did /\ e.lent = c.lent /\ e.phy = c.phy /\ e.lossy = c.lossy /\ e.res = c.res
    BY <2>4 DEF Points
  <2>7. t \in {"no", "failed"} /\ (t = "failed" => odd')
    <3>1. c.try \in {"no", "sampled"}
      BY <2>3 DEF Points
    <3>2. trying \in {"no", "failed"} /\ (trying = "failed" => odd)
      BY <1>7, <3>1 DEF Matches, Tries
    <3> QED
      BY <1>6, <2>1, <3>2
  <2>8. Matches(e, hw, did', odd', record', lent', t, res')
    BY <1>6, <1>7, <2>2, <2>6, <2>7 DEF Matches, Tries
  <2>9. Sound(hw, did', lent')
    BY <1>6 DEF IInv, Sound
  <2> QED
    BY <1>1, <1>2, <1>5, <1>6, <2>2, <2>5, <2>8, <2>9, Leading
<1> QED
  BY <1>8, <1>9

-----------------------------------------------------------------------------
(***************************************************************************)
(* What is lent and given back.                                            *)
(***************************************************************************)
LEMMA OtpWordReadStep ==
  ASSUME IInv, OtpWordRead
  PROVE  IInv'
<1>1. phase = "probe" /\ Kind = "otp_word"
  BY DEF OtpWordRead, Kind
<1>2. PICK c \in Points, d \in Points :
         /\ Comes(c, d) /\ Fits(c) /\ ~Dead(c)
         /\ Link(load, mode, c, Todo[at], d)
  BY <1>1, Here
<1>3. Todo[at].kind = "otp_word"
  BY <1>1, HereIs
<1>4. PICK a \in Answers :
         /\ \/ a = "right" /\ Advance([hw EXCEPT !.otp = "right"])
            \/ a = "wrong" /\ Advance([hw EXCEPT !.otp = "other"])
            \/ a # "right" /\ Fail(hw)
         /\ Odd(a # "right")
  BY DEF OtpWordRead
<1>5. late' = FALSE
  BY <1>2, TouchIsQuiet DEF OtpWordRead
<1>6. load' = load /\ Values' /\ res' = res /\ did' = did /\ lent' = lent
      /\ hw \in Hw /\ record' = record /\ (odd => odd') /\ (a # "right" => odd')
  BY <1>4, <1>5 DEF OtpWordRead, IInv, TypeOK, Values, Odd
<1>7. Matches(c, hw, did, odd, record, lent, trying, res)
  BY <1>2 DEF Fits
<1>8. CASE a # "right" /\ Fail(hw)
  <2>1. Kind \notin Catches /\ Kind \notin Resources
    BY <1>1 DEF Catches, Resources
  <2>2. record' # {} => hw.lost
    BY <1>6, <1>7 DEF Matches
  <2> QED
    BY <1>1, <1>2, <1>5, <1>6, <1>8, <2>1, <2>2, Failing
<1>9. CASE a \in {"right", "wrong"} /\ Advance([hw EXCEPT !.otp = IF a = "right" THEN "right" ELSE "other"])
  <2>1. PICK v : v = IF a = "right" THEN "right" ELSE "other"
    OBVIOUS
  <2>2. PICK h, e : h = [hw EXCEPT !.otp = v] /\ e = [c EXCEPT !.otp = TRUE]
    OBVIOUS
  <2>3. /\ h \in Hw /\ h.otp = v /\ h.retain = hw.retain /\ h.phy = hw.phy
        /\ h.state = hw.state /\ h.mutated = hw.mutated /\ h.lost = hw.lost
        /\ h.suspended = hw.suspended
    BY <1>6, <2>1, <2>2 DEF Hw
  <2>4. Moves(c, Todo[at]) = e
    BY Zenon, <1>3, <2>2, MovesIs
  <2>5. /\ e.otp = TRUE /\ e.retain = c.retain /\ e.state = c.state /\ e.try = c.try
        /\ e.did = c.did /\ e.lent = c.lent /\ e.phy = c.phy /\ e.lossy = c.lossy /\ e.res = c.res
    BY <2>2 DEF Points
  <2>6. Proceed(h, trying)
    BY <1>9, <2>1, <2>2 DEF Advance
  <2>7. v = "right" \/ odd'
    BY <1>6, <2>1
  <2>8. Matches(e, h, did', odd', record', lent', trying, res')
    BY <1>6, <1>7, <2>3, <2>5, <2>7 DEF Matches
  <2>9. Sound(h, did', lent')
    BY <1>6, <2>3 DEF IInv, Sound
  <2> QED
    BY <1>1, <1>2, <1>5, <1>6, <2>3, <2>4, <2>6, <2>8, <2>9, Leading
<1>10. (a # "right" /\ Fail(hw)) \/
       (a \in {"right", "wrong"} /\ Advance([hw EXCEPT !.otp = IF a = "right" THEN "right" ELSE "other"]))
  <2>1. CASE a = "right" /\ Advance([hw EXCEPT !.otp = "right"])
    BY <2>1
  <2>2. CASE a = "wrong" /\ Advance([hw EXCEPT !.otp = "other"])
    BY <2>2
  <2> QED
    BY <1>4, <2>1, <2>2
<1> QED
  BY <1>8, <1>9, <1>10

\* A step that lends or takes back; it may fail, and then lends nothing.
LEMMA Lending ==
  ASSUME IInv, phase = "probe", NEW c \in Points, NEW d \in Points, Comes(c, d), Fits(c), ~Dead(c),
         Link(load, mode, c, Todo[at], d), Kind \in DOMAIN Adds \cup DOMAIN Drops,
         load' = load, Values', late' = FALSE, res' = res, did' = did, record' = record,
         odd => odd',
         \/ /\ Advance(hw)
            /\ hw.lost => lent' = lent
            /\ Kind \in DOMAIN Adds => lent' \subseteq lent \cup {Adds[Kind]}
            /\ Kind \in DOMAIN Drops => lent' \subseteq lent
            /\ ~hw.lost /\ Kind \in DOMAIN Drops => Drops[Kind] \notin lent'
         \/ Fail(hw) /\ odd' /\ lent' = lent /\ Kind \notin Catches
  PROVE  IInv'
<1>1. Todo[at].kind = Kind
  BY HereIs
<1>2. Matches(c, hw, did, odd, record, lent, trying, res) /\ hw \in Hw
  BY DEF Fits, IInv, TypeOK
<1>3. Kind \notin Resources /\ Kind # "core_ready"
  BY DEF Resources, Adds, Drops
<1>4. Kind \in DOMAIN Adds => Kind \notin DOMAIN Drops
  BY DEF Adds, Drops
<1>5. CASE Advance(hw) /\ /\ hw.lost => lent' = lent
                          /\ Kind \in DOMAIN Adds => lent' \subseteq lent \cup {Adds[Kind]}
                          /\ Kind \in DOMAIN Drops => lent' \subseteq lent
                          /\ ~hw.lost /\ Kind \in DOMAIN Drops => Drops[Kind] \notin lent'
  <2>1. PICK e : e = Moves(c, Todo[at])
    OBVIOUS
  <2>2. /\ e.state = c.state /\ e.did = c.did /\ e.retain = c.retain /\ e.phy = c.phy
        /\ e.try = c.try /\ e.res = c.res /\ e.lossy = c.lossy /\ e.otp = c.otp
        /\ \A b : b \in e.lent <=>
              IF Kind \in DOMAIN Adds THEN b \in c.lent \/ b = Adds[Kind]
              ELSE b \in c.lent /\ b # Drops[Kind]
    BY <1>1, <2>1, LentMoves
  <2>3. ~hw.lost => lent' \subseteq e.lent
    BY <1>2, <1>4, <1>5, <2>2 DEF Matches
  <2>4. Matches(e, hw, did', odd', record', lent', trying, res')
    BY <1>2, <2>2, <2>3 DEF Matches
  <2>5. Sound(hw, did', lent')
    <3>1. SUFFICES ASSUME ~hw.lost, hw.phy \in {"rev1", "complete"} PROVE lent' = {}
      BY DEF IInv, Sound
    <3>2. lent = {}
      BY <3>1 DEF IInv, Sound
    <3>3. Kind \notin DOMAIN Adds
      <4>1. c.phy \in {"rev1", "complete"}
        BY <1>2, <3>1 DEF Matches
      <4> QED
        BY <1>1, <4>1 DEF Link, Allows
    <3> QED
      BY <1>5, <3>2, <3>3
  <2>6. Proceed(hw, trying)
    BY <1>5 DEF Advance
  <2> QED
    BY <1>2, <1>3, <2>1, <2>4, <2>5, <2>6, Leading
<1>6. CASE Fail(hw) /\ odd' /\ lent' = lent /\ Kind \notin Catches
  <2>1. record' # {} => hw.lost
    BY <1>2 DEF Matches
  <2> QED
    BY <1>2, <1>3, <1>6, <2>1, Failing
<1> QED
  BY <1>5, <1>6

\* The power of the OTP.
LEMMA TakePowerStep ==
  ASSUME IInv, TakePower
  PROVE  IInv'
<1>1. phase = "probe" /\ Kind = "take_power"
  BY DEF TakePower, Kind
<1>2. PICK c \in Points, d \in Points :
         /\ Comes(c, d) /\ Fits(c) /\ ~Dead(c)
         /\ Link(load, mode, c, Todo[at], d)
  BY <1>1, Here
<1>3. PICK a \in Answers, powered \in BOOLEAN :
         /\ Advance(hw) /\ Odd(a # "right")
         /\ lent' = IF powered \/ a \in {"ones", "refused"} THEN lent ELSE lent \cup {"power"}
  BY DEF TakePower
<1>4. late' = FALSE
  BY <1>2, TouchIsQuiet DEF TakePower
<1>5. Kind \in DOMAIN Adds /\ Kind \notin DOMAIN Drops /\ Adds[Kind] = "power"
  BY <1>1 DEF Adds, Drops
<1>6. lent' \in SUBSET Lendable /\ lent' \subseteq lent \cup {"power"} /\ (hw.lost => lent' = lent)
  BY <1>3, AnswersAre DEF IInv, TypeOK, Values, Lendable
<1>7. load' = load /\ Values' /\ res' = res /\ did' = did /\ record' = record /\ (odd => odd')
  BY <1>3, <1>4, <1>6 DEF TakePower, IInv, TypeOK, Values, Odd
<1> QED
  BY <1>1, <1>2, <1>3, <1>4, <1>5, <1>6, <1>7, Lending

\* The controls of the OTP.
LEMMA TakeControlsStep ==
  ASSUME IInv, TakeControls
  PROVE  IInv'
<1>1. phase = "probe" /\ Kind = "take_controls" /\ Advance(hw)
  BY DEF TakeControls, Kind
<1>2. PICK c \in Points, d \in Points :
         /\ Comes(c, d) /\ Fits(c) /\ ~Dead(c)
         /\ Link(load, mode, c, Todo[at], d)
  BY <1>1, Here
<1>3. late' = FALSE
  BY <1>2, TouchIsQuiet DEF TakeControls
<1>4. Kind \in DOMAIN Adds /\ Kind \notin DOMAIN Drops /\ Adds[Kind] = "controls"
  BY <1>1 DEF Adds, Drops
<1>5. lent' \in SUBSET Lendable /\ lent' \subseteq lent \cup {"controls"} /\ (hw.lost => lent' = lent)
  BY DEF TakeControls, IInv, TypeOK, Values, Lendable
<1>6. load' = load /\ Values' /\ res' = res /\ did' = did /\ record' = record /\ odd' = odd
  BY <1>3, <1>5 DEF TakeControls, IInv, TypeOK, Values
<1> QED
  BY <1>1, <1>2, <1>3, <1>4, <1>5, <1>6, Lending

\* The restores run whatever happened before.
LEMMA GiveStep ==
  ASSUME IInv, Give
  PROVE  IInv'
<1>1. phase = "probe" /\ Kind \in {"give_power", "give_controls"} /\ Advance(hw)
  BY DEF Give, Gives, Kind
<1>2. PICK c \in Points, d \in Points :
         /\ Comes(c, d) /\ Fits(c) /\ ~Dead(c)
         /\ Link(load, mode, c, Todo[at], d)
  BY <1>1, Here
<1>3. late' = FALSE
  BY <1>2, TouchIsQuiet DEF Give
<1>4. Kind \in DOMAIN Drops /\ Kind \notin DOMAIN Adds /\ Drops[Kind] = Gives[Kind]
  BY <1>1 DEF Adds, Drops, Gives
<1>5. lent' = IF hw.lost THEN lent ELSE lent \ {Gives[Kind]}
  BY DEF Give
<1>6. load' = load /\ Values' /\ res' = res /\ did' = did /\ record' = record /\ odd' = odd
  BY <1>3, <1>5 DEF Give, IInv, TypeOK, Values
<1> QED
  BY <1>1, <1>2, <1>3, <1>4, <1>5, <1>6, Lending

\* A radio bit is lent, or given back, unless its read fails.
LEMMA RadioBitStep ==
  ASSUME IInv, RadioBit
  PROVE  IInv'
<1>1. phase = "probe" /\ Kind \in DOMAIN Sets \cup DOMAIN Clears
  BY DEF RadioBit, Sets, Clears, Kind
<1>2. PICK c \in Points, d \in Points :
         /\ Comes(c, d) /\ Fits(c) /\ ~Dead(c)
         /\ Link(load, mode, c, Todo[at], d)
  BY <1>1, Here
<1>3. PICK a \in Answers :
         /\ lent' = IF a \notin {"right", "wrong"} THEN lent
                    ELSE IF Kind \in DOMAIN Sets THEN lent \cup {Sets[Kind]}
                    ELSE lent \ {Clears[Kind]}
         /\ Pass(a \in {"right", "wrong"}, hw) /\ Odd(a # "right")
  BY DEF RadioBit
<1>4. late' = FALSE
  BY <1>2, TouchIsQuiet DEF RadioBit
<1>5. Kind \notin Catches
  BY <1>1 DEF Sets, Clears, Catches
<1>6. Kind \in DOMAIN Sets =>
         Kind \in DOMAIN Adds /\ Kind \notin DOMAIN Drops /\ Adds[Kind] = Sets[Kind] /\ Sets[Kind] \in Lendable
  BY DEF Sets, Adds, Drops, Lendable, RadioBits
<1>7. Kind \notin DOMAIN Sets => Kind \in DOMAIN Drops /\ Kind \notin DOMAIN Adds /\ Drops[Kind] = Clears[Kind]
  BY <1>1 DEF Sets, Clears, Adds, Drops
<1>8. lent' \in SUBSET Lendable
  BY <1>3, <1>6 DEF IInv, TypeOK, Values
<1>9. load' = load /\ Values' /\ res' = res /\ did' = did /\ record' = record /\ (odd => odd')
      /\ (a # "right" => odd')
  BY <1>3, <1>4, <1>8 DEF RadioBit, IInv, TypeOK, Values, Odd
<1>10. a = "refused" <=> hw.lost
  BY AnswersAre
<1>11. CASE a \in {"right", "wrong"}
  <2>1. Advance(hw) /\ ~hw.lost
    BY <1>3, <1>10, <1>11 DEF Pass
  <2>2. /\ Kind \in DOMAIN Adds => lent' \subseteq lent \cup {Adds[Kind]}
        /\ Kind \in DOMAIN Drops => lent' \subseteq lent /\ Drops[Kind] \notin lent'
    BY <1>3, <1>6, <1>7, <1>11
  <2> QED
    BY <1>1, <1>2, <1>4, <1>6, <1>7, <1>9, <2>1, <2>2, Lending
<1>12. CASE a \notin {"right", "wrong"}
  <2>1. Fail(hw) /\ odd' /\ lent' = lent
    BY <1>3, <1>9, <1>12 DEF Pass
  <2> QED
    BY <1>1, <1>2, <1>4, <1>5, <1>6, <1>7, <1>9, <2>1, Lending
<1> QED
  BY <1>11, <1>12

\* The PHY bit.
LEMMA PhyBitStep ==
  ASSUME IInv, PhyBit
  PROVE  IInv'
<1>1. phase = "probe" /\ Kind \in {"set_019e", "clear_019e"}
  BY DEF PhyBit, Kind
<1>2. PICK c \in Points, d \in Points :
         /\ Comes(c, d) /\ Fits(c) /\ ~Dead(c)
         /\ Link(load, mode, c, Todo[at], d)
  BY <1>1, Here
<1>3. late' = FALSE
  BY <1>2, TouchIsQuiet DEF PhyBit
<1>4. /\ Kind \notin Catches
      /\ Kind = "set_019e" => Kind \in DOMAIN Adds /\ Kind \notin DOMAIN Drops /\ Adds[Kind] = "019e"
      /\ Kind = "clear_019e" => Kind \in DOMAIN Drops /\ Kind \notin DOMAIN Adds /\ Drops[Kind] = "019e"
  <2>1. CASE Kind = "set_019e"
    BY <2>1 DEF Catches, Adds, Drops
  <2>2. CASE Kind = "clear_019e"
    BY <2>2 DEF Catches, Adds, Drops
  <2> QED
    BY <1>1, <2>1, <2>2
<1>5. /\ Kind = "set_019e" => lent' = IF hw.lost THEN lent ELSE lent \cup {"019e"}
      /\ Kind = "clear_019e" => lent' = IF hw.lost THEN lent ELSE lent \ {"019e"}
  BY DEF PhyBit
<1>6. load' = load /\ Values' /\ res' = res /\ did' = did /\ record' = record /\ odd' = odd
  BY <1>1, <1>3, <1>5 DEF PhyBit, IInv, TypeOK, Values, Lendable
<1>7. CASE hw.lost
  <2>1. Fail(hw) /\ lent' = lent
    BY <1>1, <1>5, <1>7 DEF PhyBit, Pass
  <2>2. odd'
    BY <1>2, <1>6, <1>7 DEF Fits, Matches
  <2> QED
    BY <1>1, <1>2, <1>3, <1>4, <1>6, <2>1, <2>2, Lending
<1>8. CASE ~hw.lost
  <2>1. Advance(hw)
    BY <1>8 DEF PhyBit, Pass
  <2>2. /\ Kind \in DOMAIN Adds => lent' \subseteq lent \cup {Adds[Kind]}
        /\ Kind \in DOMAIN Drops => lent' \subseteq lent /\ Drops[Kind] \notin lent'
    BY <1>1, <1>4, <1>5, <1>8
  <2> QED
    BY <1>1, <1>2, <1>3, <1>4, <1>6, <1>8, <2>1, <2>2, Lending
<1> QED
  BY <1>7, <1>8

-----------------------------------------------------------------------------
(***************************************************************************)
(* The tail of the normal path, loads, removal, and the device.            *)
(***************************************************************************)
LEMMA AcquireStep ==
  ASSUME IInv, Acquire
  PROVE  IInv'
<1>1. PICK r \in Resources, got \in BOOLEAN :
         /\ Kind = r /\ Pass(got, hw) /\ Odd(~got)
         /\ res' = IF got THEN res \cup {r} ELSE {}
  BY DEF Acquire
<1>2. phase = "probe" /\ Kind \in Resources /\ Kind \notin Catches /\ Kind # "core_ready"
  BY <1>1 DEF Kind, Resources, Catches
<1>3. PICK c \in Points, d \in Points :
         /\ Comes(c, d) /\ Fits(c) /\ ~Dead(c)
         /\ Link(load, mode, c, Todo[at], d)
  BY <1>2, Here
<1>4. Todo[at].kind = r
  BY <1>1, <1>2, HereIs
<1>5. Settles(c)
  BY <1>3, <1>4 DEF Link, Allows
<1>6. Matches(c, hw, did, odd, record, lent, trying, res) /\ hw \in Hw
  BY <1>3 DEF Fits, IInv, TypeOK
<1>7. late' = FALSE
  BY StillQuiet DEF Acquire
<1>8. load' = load /\ Values' /\ did' = did /\ lent' = lent /\ record' = record
      /\ (odd => odd') /\ (~got => odd')
  BY <1>1, <1>7 DEF Acquire, IInv, TypeOK, Values, Odd
<1>9. CASE got
  <2>1. Proceed(hw, trying) /\ res' = res \cup {r}
    BY <1>1, <1>9 DEF Pass, Advance
  <2>2. PICK e : e = [c EXCEPT !.res = @ \cup {r}]
    BY Zenon
  <2>3. Moves(c, Todo[at]) = e
    BY <1>1, <1>4, <2>2, TakeMoves
  <2>4. /\ e.res = c.res \cup {r} /\ e.retain = c.retain /\ e.state = c.state /\ e.try = c.try
        /\ e.did = c.did /\ e.lent = c.lent /\ e.phy = c.phy /\ e.lossy = c.lossy /\ e.otp = c.otp
    BY <2>2 DEF Points
  <2>5. Matches(e, hw, did', odd', record', lent', trying, res')
    BY <1>6, <1>8, <2>1, <2>4 DEF Matches
  <2>6. Sound(hw, did', lent')
    BY <1>8 DEF IInv, Sound
  <2> QED
    BY <1>2, <1>3, <1>6, <1>7, <1>8, <2>1, <2>3, <2>5, <2>6, Leading
<1>10. CASE ~got
  <2>1. Fail(hw) /\ res' = {} /\ odd'
    BY <1>1, <1>8, <1>10 DEF Pass
  <2>2. c.try = "no"
    BY <1>5 DEF Settles
  <2> QED
    BY <1>2, <1>3, <1>6, <1>7, <1>8, <2>1, <2>2, Failing
<1> QED
  BY <1>9, <1>10

\* Every admitted load starts at the first point of its program.
LEMMA LoadStep ==
  ASSUME IInv, Load
  PROVE  IInv'
<1>1. PICK P \in Loads : ModeOf[P] # "refused" /\ load' = P
  BY DEF Load
<1>2. P \in DOMAIN ProgramOf /\ P \in SUBSET Params
  BY <1>1, LoadsAssumption DEF ProgramOf
<1>3. PICK L : Labels(P, L)
  BY <1>2, ProgramsAre
<1>4. Len(ProgramOf[P]) \in Nat \ {0} /\ Todo' = ProgramOf[P]
  BY <1>1, <1>2, ProgramsAre DEF Todo
<1>5. phase = "idle" /\ record = {} /\ hw' = Fresh /\ at' = 1 /\ phase' = "probe"
      /\ did' = "none" /\ odd' = FALSE /\ res' = res /\ alive' = alive /\ record' = record
      /\ late' = late /\ lent' = lent /\ trying' = trying
  BY DEF Load
<1>6. lent = {} /\ res = {} /\ trying = "no"
  BY <1>5 DEF IInv, Idle
<1>7. Fresh \in Hw /\ Fresh.state = "none" /\ Fresh.phy = "none" /\ ~Fresh.lost /\ ~Fresh.retain
      /\ ~Fresh.suspended
  BY DEF Fresh, Hw
<1>8. Matches(Start, Fresh, "none", FALSE, {}, {}, "no", {})
  <2>1. /\ Start.state = "none" /\ Start.did = "none" /\ ~Start.retain /\ Start.phy = "none"
        /\ ~Start.otp /\ Start.lent = {} /\ Start.try = "no" /\ ~Start.lossy /\ Start.res = {}
    BY DEF Start
  <2>2. Start.retain = FALSE /\ Fresh.retain = FALSE
    BY DEF Start, Fresh
  <2>3. "no" \in Tries["no"]
    BY DEF Tries
  <2>4. "no" \in Tries[Start.try]
    BY <2>1, <2>3
  <2>5. {} \subseteq Start.lent
    OBVIOUS
  <2> HIDE DEF Fresh, Start
  <2> QED
    BY <1>7, <2>1, <2>2, <2>4, <2>5 DEF Matches
<1>9. Fits(Start)'
  BY <1>5, <1>6, <1>8 DEF Fits
<1>10. PICK d \in Points : L[1] = Start /\ L[2] = d /\ Start \in Points
  <2>1. L[2] \in Points /\ L[1] \in Points /\ L[1] = Start
    BY <1>3, <1>4 DEF Labels
  <2> QED
    BY <2>1
<1>11. Comes(Start, d)'
  BY <1>1, <1>3, <1>5, <1>10 DEF Comes, Labels
<1>12. Probing'
  BY <1>1, <1>2, <1>4, <1>5, <1>9, <1>10, <1>11 DEF Probing
<1>13. TypeOK'
  BY <1>1, <1>2, <1>5, <1>7 DEF IInv, TypeOK, Values, Dids
<1>14. Sound(hw, did, lent)'
  BY <1>5, <1>6, <1>7 DEF Sound
<1> QED
  BY <1>5, <1>12, <1>13, <1>14 DEF IInv, Idle, Bound, Failed

\* A device that no load is in effect for.
LEMMA EmptyAgain ==
  ASSUME IInv, hw' = Fresh, load' = {}, at' = 0, phase' = "idle", did' = "none", odd' = FALSE,
         lent' = {}, trying' = "no", res' = {}, alive' \in BOOLEAN,
         record' \in SUBSET {"fatal", "owner"}, late' = late
  PROVE  IInv'
<1>1. Fresh \in Hw /\ Fresh.state = "none" /\ Fresh.phy = "none"
  BY DEF Fresh, Hw
<1>2. TypeOK'
  BY <1>1 DEF IInv, TypeOK, Values, Dids
<1>3. Sound(hw, did, lent)'
  BY <1>1 DEF Sound
<1> QED
  BY <1>2, <1>3 DEF IInv, Probing, Idle, Bound, Failed

\* The device is given back, or the machine is rebooted: nothing is held afterwards.
LEMMA EndStep ==
  ASSUME IInv, GiveUp \/ LeaveAsIs \/ Release \/ Reboot
  PROVE  IInv'
<1>1. alive \in BOOLEAN /\ record \in SUBSET {"fatal", "owner"}
  BY DEF IInv, TypeOK, Values
<1>2. CASE GiveUp
  <2>1. Gone /\ res' = {}
    BY <1>2 DEF GiveUp, IInv, Failed
  <2> QED
    BY <1>1, <2>1, EmptyAgain DEF Gone
<1>3. CASE LeaveAsIs
  <2>1. Gone /\ res' = {}
    BY <1>3 DEF LeaveAsIs, IInv, Bound
  <2> QED
    BY <1>1, <2>1, EmptyAgain DEF Gone
<1>4. CASE Release
  BY <1>1, <1>4, EmptyAgain DEF Release, Gone
<1>5. CASE Reboot
  BY <1>1, <1>5, EmptyAgain DEF Reboot
<1> QED
  BY <1>2, <1>3, <1>4, <1>5

\* The device dies, which the driver does not see yet; or nothing happens.
LEMMA DieStep ==
  ASSUME IInv, UNCHANGED <<hw, load, at, phase, res, did, odd, record, late, lent, trying>>,
         alive' \in BOOLEAN
  PROVE  IInv'
<1>1. mode' = mode /\ Todo' = Todo
  BY DEF mode, Todo
<1>2. TypeOK'
  BY DEF IInv, TypeOK, Values
<1>3. Sound(hw, did, lent)'
  BY DEF IInv, Sound
<1>4. Probing'
  <2>1. SUFFICES ASSUME phase = "probe"
                 PROVE  /\ load' \in DOMAIN ProgramOf /\ at' \in 1 .. Len(Todo')
                        /\ \E c \in Points, d \in Points : Comes(c, d)' /\ Fits(c)'
    BY DEF Probing
  <2>2. PICK c \in Points, d \in Points : Comes(c, d) /\ Fits(c)
    BY <2>1 DEF IInv, Probing
  <2>3. Comes(c, d)' /\ Fits(c)'
    BY <2>2 DEF Comes, Labels, Fits
  <2> QED
    BY <1>1, <2>1, <2>3 DEF IInv, Probing
<1>5. Exempt(load, mode)' = Exempt(load, mode)
  BY <1>1 DEF Exempt
<1>6. Idle' /\ Bound' /\ Failed'
  BY <1>1, <1>5 DEF IInv, Idle, Bound, Failed
<1> QED
  BY <1>2, <1>3, <1>4, <1>6 DEF IInv

-----------------------------------------------------------------------------
(***************************************************************************)
(* The theorems.                                                           *)
(***************************************************************************)
\* The inductive invariant: a probe is at a point of its program which its state fits.
THEOREM Invariance == Spec => []IInv
<1>1. Init => IInv
  <2>1. SUFFICES ASSUME Init PROVE IInv
    OBVIOUS
  <2>2. Fresh \in Hw /\ Fresh.state = "none" /\ Fresh.phy = "none"
    BY DEF Fresh, Hw
  <2> QED
    BY <2>1, <2>2 DEF Init, IInv, TypeOK, Values, Dids, Sound, Probing, Idle, Bound, Failed
<1>2. IInv /\ [Next]_vars => IInv'
  <2>1. SUFFICES ASSUME IInv, [Next]_vars PROVE IInv'
    OBVIOUS
  <2>2. CASE Load
    BY <2>1, <2>2, LoadStep
  <2>3. CASE GiveUp \/ LeaveAsIs \/ Release \/ Reboot
    BY <2>1, <2>3, EndStep
  <2>4. CASE Die
    BY <2>1, <2>4, DieStep DEF Die
  <2>5. CASE Gates \/ Supply \/ Board \/ Read \/ Trust \/ Post
    BY <2>1, <2>5, GatesStep, SupplyStep, BoardStep, ReadStep, TrustStep, PostStep
  <2>6. CASE Bus \/ Enable \/ Write \/ Transition
    BY <2>1, <2>6, BusStep, EnableStep, WriteStep, TransitionStep
  <2>7. CASE CalibrationStage \/ Part \/ Try \/ Sample \/ Loose \/ ResumeMac
    BY <2>1, <2>7, CalibrationStageStep, PartStep, TryStep, SampleStep, LooseStep, ResumeMacStep
  <2>8. CASE TakePower \/ Powered \/ OtpWordRead \/ TakeControls \/ Give \/ RadioBit \/ PhyBit
    BY <2>1, <2>8, TakePowerStep, PoweredStep, OtpWordReadStep, TakeControlsStep, GiveStep,
       RadioBitStep, PhyBitStep
  <2>9. CASE Rung \/ Baseline \/ Island \/ Bypass \/ Settled
    BY <2>1, <2>9, RungStep, BaselineStep, IslandStep, BypassStep, SettledStep
  <2>10. CASE Loaded \/ Common \/ PublishCore \/ Publish \/ Record \/ Acquire
    BY <2>1, <2>10, LoadedStep, CommonStep, PublishCoreStep, PublishStep, RecordStep, AcquireStep
  <2>11. CASE UNCHANGED vars
    <3>1. alive' \in BOOLEAN
      BY <2>1, <2>11 DEF vars, IInv, TypeOK, Values
    <3> QED
      BY <2>1, <2>11, <3>1, DieStep DEF vars
  <2> QED
    BY <2>1, <2>2, <2>3, <2>4, <2>5, <2>6, <2>7, <2>8, <2>9, <2>10, <2>11 DEF Next
<1> QED
  BY <1>1, <1>2, PTL DEF Spec

\* Every variable keeps to its values: the states and the resources of a load, and what is lent.
THEOREM TypeCorrect == Spec => []TypeOK
<1>1. IInv => TypeOK
  BY DEF IInv
<1> QED
  BY <1>1, Invariance, PTL

\* ob_probe returns no error for a core that is half way through D2A or D2B, but in the DMA tests.
THEOREM HalfProgrammed == Spec => []HalfProgrammedIsRetained
<1>1. IInv => HalfProgrammedIsRetained
  BY DEF IInv, Failed, HalfProgrammedIsRetained
<1> QED
  BY <1>1, Invariance, PTL

\* The lifecycle state that the stages trust says what was done to the core in this load.
THEOREM StatesMatch == Spec => []StateMatchesDevice
<1>1. IInv => StateMatchesDevice
  BY DEF IInv, Sound, StateMatchesDevice
<1> QED
  BY <1>1, Invariance, PTL

\* No access is made in the load that latched a loss, guarded or by bcma, and none in any load
\* while the device is on record.  A binding after a loss that was latched without a record
\* is not in it, nor are the reads of Bypass, which pass the latch on purpose.
THEOREM Silence == Spec => []SilentAfterLoss
<1>1. IInv => SilentAfterLoss
  BY DEF IInv, SilentAfterLoss
<1> QED
  BY <1>1, Invariance, PTL

\* mac80211, the interrupt and the rings are there together on a core that is through the chain, or none is.
THEOREM Balance == Spec => []ResourcesBalanced
<1>1. IInv => ResourcesBalanced
  BY DEF IInv, Idle, Bound, Failed, ResourcesBalanced
<1> QED
  BY <1>1, Invariance, PTL

\* A load that is refused was given a wrong answer, or is one of the three that can never succeed.
THEOREM HealthyBinds == Spec => []HealthyProbeBinds
<1>1. IInv => HealthyProbeBinds
  BY DEF IInv, Failed, Exempt, HealthyProbeBinds
<1> QED
  BY <1>1, Invariance, PTL

\* The OTP power and controls, the radio bits and the PHY bit are back before success is reported.
THEOREM Returned == Spec => []BorrowedIsReturned
<1>1. IInv => BorrowedIsReturned
  BY DEF IInv, Sound, Bound, Failed, Returning, BorrowedIsReturned
<1> QED
  BY <1>1, Invariance, PTL
=============================================================================
