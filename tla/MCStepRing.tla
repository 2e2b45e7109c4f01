----------------------------- MODULE MCStepRing -----------------------------
(***************************************************************************)
(* StepRing on a storage of a few bytes, where every way of wrapping, and  *)
(* every skipped tail length, happens.                                     *)
(***************************************************************************)
EXTENDS StepRing

CONSTANTS a, b

MCTags == {a, b}
MCGarbage == {[tag |-> a, size |-> 1, index |-> 0]}
=============================================================================
