----------------------------- MODULE MCD11Tail -----------------------------
(***************************************************************************)
(* D11Tail for TLC: the slots, and the boards, are interchangeable.        *)
(***************************************************************************)
EXTENDS D11Tail, TLC

Symmetry == Permutations(Slots) \cup Permutations(Boards)
=============================================================================
