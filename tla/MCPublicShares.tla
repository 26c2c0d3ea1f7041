--------------------------- MODULE MCPublicShares ---------------------------
(* Instances of PublicShares for TLC.                                       *)
EXTENDS PublicShares, TLC

\* Handlers and leases are interchangeable.
Symmetry == Permutations(Requests) \cup Permutations(Leases)

\* So are tokens of one type.
SymmetryOfTokens == Symmetry \cup Permutations(Tokens)
=============================================================================
