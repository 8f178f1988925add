---------------------------- MODULE MCProfileLife ----------------------------
(* Instance of ProfileLife for TLC. *)
EXTENDS ProfileLife

CONSTANTS p1, p2

OneProfile == {p1}
TwoProfiles == {p1, p2}
=============================================================================
