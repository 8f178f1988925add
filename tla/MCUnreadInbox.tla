---------------------------- MODULE MCUnreadInbox ----------------------------
(* The unread inbox on three tickets and two workers, the webhook with two *)
(* updates and two requests at a time, the account of one person with two  *)
(* updates at a time, and the statistics with two messages and two batches *)
(* at a time.  The webhook's shards and the users' objects are of the same *)
(* class but different objects, the account and the statistics are in      *)
(* different tables of D1, so each behaviour explores one of them.         *)
EXTENDS UnreadInbox, Intake, Identity, Stats

CONSTANTS t1, t2, t3, a1, a2, u1, u2, q1, q2, b1, b2

VARIABLE part

mcVars == <<inboxVars, intakeVars, identityVars, statsVars, part>>

MCTickets == {t1, t2, t3}
MCAttempts == {a1, a2}
MCUpdates == {u1, u2}
MCRuns == {q1, q2}

MCEvents == {1, 2}
MCBatches == {b1, b2}
MCBody == [e \in MCEvents |-> [count |-> e, key |-> 1, hash |-> 1]]

MCInit == Init /\ IntakeInit /\ IdentityInit /\ StatsInit
          /\ part \in {"inbox", "intake", "identity", "statistics"}

MCNext ==
  \/ part = "inbox" /\ Next /\ UNCHANGED <<intakeVars, identityVars, statsVars, part>>
  \/ part = "intake" /\ IntakeNext /\ UNCHANGED <<inboxVars, identityVars, statsVars, part>>
  \/ part = "identity" /\ IdentityNext /\ UNCHANGED <<inboxVars, intakeVars, statsVars, part>>
  \/ part = "statistics" /\ StatsNext /\ UNCHANGED <<inboxVars, intakeVars, identityVars, part>>

MCSpec == MCInit /\ [][MCNext]_mcVars /\ IntakeFairness

\* Every variable of the four parts keeps its type: the type invariants of
\* the modules.
TypesOK == TypeOK /\ IntakeTypeOK /\ IdentityTypeOK /\ StatsTypeOK
=============================================================================
