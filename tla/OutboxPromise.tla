---------------------------- MODULE OutboxPromise ----------------------------
(***************************************************************************)
(* What the per-chat TelegramOutbox Durable Object                         *)
(* (src/storage/telegram-outbox.do.ts) promises its callers, abstracted    *)
(* from its leases, locks and pacing.  A job is known by its idempotency   *)
(* key.  The ledger remembers the outcome of a key - sent, or permanently  *)
(* rejected - for RETENTION days; Telegram may also show a message whose   *)
(* outcome never reached the ledger.                                       *)
(***************************************************************************)
EXTENDS Integers

CONSTANTS
  Keys,       \* idempotency keys
  RETENTION   \* days an outcome is remembered

VARIABLES
  ledger,  \* the recorded outcome of each key, and the days it is kept
  shown    \* keys Telegram has shown to the user at least once

promiseVars == <<ledger, shown>>

Outcome == [state : {"none", "sent", "rejected"}, keep : 0..RETENTION]

NoOutcome == [state |-> "none", keep |-> 0]

TypeOK ==
  /\ ledger \in [Keys -> Outcome]
  /\ shown \subseteq Keys

Init ==
  /\ ledger = [k \in Keys |-> NoOutcome]
  /\ shown = {}

Open(k) == ledger[k].state = "none"

\* Telegram shows the message.
Show(k) == shown' = shown \cup {k} /\ UNCHANGED ledger

Write(k, state) ==
  /\ Open(k)
  /\ ledger' = [ledger EXCEPT ![k] = [state |-> state, keep |-> RETENTION]]

\* The outcome of a message that was shown is recorded.
RecordSent(k) == k \in shown /\ Write(k, "sent") /\ UNCHANGED shown

\* Both at once: a send that goes well.
Send(k) == Write(k, "sent") /\ shown' = shown \cup {k}

\* A permanent rejection is recorded as it arrives.
Refuse(k) == Write(k, "rejected") /\ UNCHANGED shown

\* Outcomes that are old enough are forgotten.
Old(k) == ~ Open(k) /\ ledger[k].keep = 0

Forget(K) ==
  /\ \A k \in K : Old(k)
  /\ ledger' = [k \in Keys |-> IF k \in K THEN NoOutcome ELSE ledger[k]]
  /\ UNCHANGED shown

Day ==
  /\ ledger' = [k \in Keys |->
                  [ledger[k] EXCEPT !.keep = IF @ > 0 THEN @ - 1 ELSE 0]]
  /\ UNCHANGED shown

Next ==
  \/ \E k \in Keys : Show(k) \/ RecordSent(k) \/ Send(k) \/ Refuse(k)
  \/ \E K \in SUBSET Keys : Forget(K)
  \/ Day

Spec == Init /\ [][Next]_promiseVars

-----------------------------------------------------------------------------
(* Correctness. *)

\* An outcome stands for as long as it is retained: callers that ask again with
\* the same key are told the same (telegram-outbox.do.ts:179-189, 520-540).
OutcomeStands ==
  [][\A k \in Keys :
       ~ Open(k) /\ ledger[k].keep > 0
         => ledger'[k].state = ledger[k].state]_promiseVars

\* Sent is only ever recorded of a message the user can see
\* (telegram-outbox.do.ts:268-284).
SentWasShown == \A k \in Keys : ledger[k].state = "sent" => k \in shown
=============================================================================
