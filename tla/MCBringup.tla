----------------------------- MODULE MCBringup -----------------------------
(***************************************************************************)
(* Every load with at most two of the parameters.                           *)
(***************************************************************************)
EXTENDS Bringup

PairLoads == { {p, q} : p \in Params, q \in Params }

WitnessLoads ==
    { {"rev42_ai_wrapper"}, {"rev42_ai_enable"}, {"acphy_identity_timing", "identity_wide"} }

DiagLoads == { {"rev42_diag_probe"}, {"rev42_diag_probe", "rev42_diag_full"} }
=============================================================================
