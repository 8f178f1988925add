--------------------------- MODULE MCTelegramOutbox ---------------------------
(* The outbox of one chat on small instances.                              *)
EXTENDS TelegramOutbox, TLC

CONSTANTS k1, k2, a1, a2

OneKey == {k1}
TwoKeys == {k1, k2}
TwoAttempts == {a1, a2}
=============================================================================
