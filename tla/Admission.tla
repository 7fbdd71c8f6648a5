----------------------------- MODULE Admission -----------------------------
(***************************************************************************)
(* How the module parameters of one load become the mode of ob_probe        *)
(* (ob_core.c) by the selectors of ob_ucode.h.  A load is the set of the     *)
(* boolean parameters that are set; the gate number and the values only     *)
(* later stages look at are left out.  An admitted load yields its mode;     *)
(* the normal path, which only bringup_test_only may ask for, is "normal".   *)
(***************************************************************************)
LOCAL INSTANCE FiniteSets
LOCAL INSTANCE Sequences
LOCAL INSTANCE SequencesExt

\* The first eight selectors count the flags: two of them are a conflict.
FirmwareFlags ==
    {"fw_validate", "ucode_test", "initvals_test", "dma_test", "d11_tail_test",
     "bsinitvals_test", "radio_id_probe", "rev42_diag_probe"}

SelectFirmware(P) ==
    LET F == P \cap FirmwareFlags
    IN  IF F = {} THEN "none"
        ELSE IF Cardinality(F) > 1 THEN "conflict" ELSE CHOOSE f \in F : TRUE

\* Every later selector adds one flag to the answer of the one before.
Add(P, m, f) ==
    IF m = "conflict" \/ (f \in P /\ m # "none") THEN "conflict"
    ELSE IF f \in P THEN f ELSE m

SelectWrapper(P) ==
    FoldLeft(LAMBDA m, f : Add(P, m, f), SelectFirmware(P),
             <<"rev42_attach_probe", "rev42_sb_reset", "rev42_ai_probe", "rev42_ai_enable">>)

SelectTiming(P) ==
    FoldLeft(LAMBDA m, f : Add(P, m, f), SelectWrapper(P),
             <<"radio2069_rev4_probe", "d11_transaction_timing", "acphy_pre_radio">>)

SelectPhase(P) ==
    FoldLeft(LAMBDA m, f : Add(P, m, f), SelectTiming(P),
             <<"class0_0413", "class0_post0413", "class0_postphase1">>)

SelectReturn(P) ==
    FoldLeft(LAMBDA m, f : Add(P, m, f), SelectPhase(P),
             <<"class0_postphase2_return", "class0_postbmac", "acphy_radio_on">>)

SelectRadio(P) ==
    FoldLeft(LAMBDA m, f : Add(P, m, f), SelectReturn(P),
             <<"acphy_radio_postlpf", "rev42_ai_wrapper", "rev42_maccontrol_once">>)

\* ob_isolated_mode_select26.
Select(P) ==
    FoldLeft(LAMBDA m, f : Add(P, m, f), SelectRadio(P), <<"acphy_identity_timing", "fw_chain_test">>)

\* ob_probe adds the calibration inputs after the selectors.
Mode(P) == Add(P, Select(P), "acphy_cal_inputs")

\* Parameters that mean something only with another one.
FirmwareModifiers ==
    [rev42_diag_full |-> {"rev42_diag_probe"},
     d11_fifo530_continue |-> {"d11_tail_test", "bsinitvals_test"},
     d3b_boundary_witness |-> {"bsinitvals_test"},
     d3b_witness_v2 |-> {"d3b_boundary_witness"}]

CalModifiers ==
    [m \in {"cal_stage_witness", "cal_write_stage", "cal_w2_replay", "phy_tripoint_probe",
            "acphy_96203_live"} |-> {"acphy_cal_inputs"}]

IdentityModifiers ==
    [m \in {"identity_3e2_first", "identity_span", "identity_control", "identity_control16",
            "identity_upper", "identity_edge", "identity_wide", "identity_edge2", "identity_lower",
            "identity_wrapper_witness", "identity_pll_witness", "identity_3e0_first"} |->
        {"acphy_identity_timing"}]

RadioModifiers == [p1_shm_roundtrip |-> {"acphy_pre_radio"}]

Satisfied(P, table) ==
    \A m \in DOMAIN table \cap P : table[m] \cap P # {}

\* The calibration stages exclude each other, and a witness that must come
\* first or alone tolerates no other identity probe.
Exclusive(P) ==
    /\ Cardinality(P \cap {"cal_stage_witness", "cal_write_stage", "cal_w2_replay"}) <= 1
    /\ \A w \in {"identity_wrapper_witness", "identity_pll_witness", "identity_3e0_first"} \cap P :
          P \cap DOMAIN IdentityModifiers = {w}

Evidence == {"sprom_evidence", "sflags_diag"}

\* Evidence and bring-up loads stand alone; a load that asks for nothing is refused.
Admitted(P, mode) ==
    /\ mode # "conflict"
    /\ P \cap Evidence # {} => mode = "none" /\ Cardinality(P \cap Evidence) = 1
    /\ "bringup_test" \in P => mode = "none" /\ P \cap Evidence = {}
    /\ mode = "none" => P \cap (Evidence \cup {"bringup_test"}) # {}

Coupled(P) ==
    /\ Satisfied(P, FirmwareModifiers)
    /\ Satisfied(P, CalModifiers)
    /\ Satisfied(P, IdentityModifiers)
    /\ Satisfied(P, RadioModifiers)
    /\ Exclusive(P)

\* rev42_ai_probe is retired: the first thing ob_probe refuses.
Admit(P) ==
    IF "rev42_ai_probe" \in P \/ ~Coupled(P) \/ ~Admitted(P, Mode(P)) THEN "refused"
    ELSE IF Mode(P) # "none" THEN Mode(P)
    ELSE IF "bringup_test" \in P THEN "normal"
    ELSE CHOOSE e \in P \cap Evidence : TRUE

ModeFlags ==
    FirmwareFlags \cup
    {"rev42_attach_probe", "rev42_sb_reset", "rev42_ai_probe", "rev42_ai_enable",
     "radio2069_rev4_probe", "d11_transaction_timing", "acphy_pre_radio", "class0_0413",
     "class0_post0413", "class0_postphase1", "class0_postphase2_return", "class0_postbmac",
     "acphy_radio_on", "acphy_radio_postlpf", "rev42_ai_wrapper", "rev42_maccontrol_once",
     "acphy_identity_timing", "fw_chain_test", "acphy_cal_inputs"}

Modifiers ==
    DOMAIN FirmwareModifiers \cup DOMAIN CalModifiers \cup DOMAIN IdentityModifiers \cup
    DOMAIN RadioModifiers

\* sprom_diag and otp_diag are read by the code they switch on; no coupling looks at them.
Params == ModeFlags \cup Modifiers \cup Evidence \cup {"bringup_test", "sprom_diag", "otp_diag"}
=============================================================================
