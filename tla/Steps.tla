------------------------------- MODULE Steps -------------------------------
(***************************************************************************)
(* How the bring-up code is written down: a program is a sequence of steps,  *)
(* each the name of its kind, and module Bringup says what a step of a kind  *)
(* does and what a wrong answer leads to.                                   *)
(***************************************************************************)
LOCAL INSTANCE Naturals
LOCAL INSTANCE Sequences

\* The steps of one stage of ob_probe, which decides what its failure means.
Stage(name, kinds) == [i \in DOMAIN kinds |-> [kind |-> kinds[i], at |-> name]]

When(condition, kinds) == IF condition THEN kinds ELSE << >>

Times(n, kinds) == [i \in 1 .. n * Len(kinds) |-> kinds[((i - 1) % Len(kinds)) + 1]]
=============================================================================
