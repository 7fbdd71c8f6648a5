--------------------------- MODULE MCDmaLifetime ---------------------------
(***************************************************************************)
(* DmaLifetime for TLC: slots, and boards, are interchangeable, and        *)
(* MaxPresent devices have a thread, or a bound driver, at once.           *)
(***************************************************************************)
EXTENDS DmaLifetime, TLC

CONSTANT MaxPresent

Symmetry == Permutations(Slots) \cup Permutations(Boards)

FewPresent == Cardinality({d \in Devices : ~At(d, "absent")}) <= MaxPresent
=============================================================================
