----------------------------- MODULE MCAccount -----------------------------
(* Account on a small instance.                                            *)
EXTENDS Account, TLC

Symmetry == Permutations(Request) \cup Permutations(Token) \cup Permutations(Key)
=============================================================================
