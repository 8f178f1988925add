--------------------------- MODULE MCInboxDelivery ---------------------------
(* Sealed delivery on small instances.                                     *)
EXTENDS InboxDelivery, TLC

CONSTANTS t1, t2, d1, d2

OneTicket == {t1}
TwoTickets == {t1, t2}
SecondTicket == {t2}
OneDrain == {d1}
TwoDrains == {d1, d2}
DrainSymmetry == Permutations(Drains)
=============================================================================
