----------------------------- MODULE MCOnboarding -----------------------------
(***************************************************************************)
(* Instances of Onboarding for TLC.                                        *)
(***************************************************************************)
EXTENDS Onboarding, TLC

CONSTANTS s1, s2

\* The administrators' requests are interchangeable.
SlotSymmetry == Permutations(Slots)
=============================================================================
