---------------------------- MODULE MCRequestFlow ----------------------------
(* Instance of RequestFlow for TLC. *)
EXTENDS RequestFlow, TLC

CONSTANTS r1, r2, c1, c2

TwoRequests == {r1, r2}
TwoCallers == {c1, c2}
AllSymmetry == Permutations(TwoRequests) \cup Permutations(TwoCallers)
=============================================================================
