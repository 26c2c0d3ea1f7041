----------------------------- MODULE MCChatSync -----------------------------
(* Instances of ChatSync for TLC.                                           *)
EXTENDS ChatSync, TLC

Symmetry == Permutations(Slots)
=============================================================================
