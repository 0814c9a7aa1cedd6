-------------------------- MODULE MCCarePublication --------------------------
(* Instances of CarePublication.                                           *)
EXTENDS CarePublication, TLC

CONSTANTS r1, r2

MCSymmetry == Permutations(Runner)
=============================================================================
