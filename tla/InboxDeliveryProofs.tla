-------------------------- MODULE InboxDeliveryProofs --------------------------
(***************************************************************************)
(* Proofs about sealed delivery, for every set of tickets and drain jobs,  *)
(* every limit, lease and lifetime, and any number of faults.              *)
(*                                                                         *)
(* Each call of the inbox, the vault and the outbox is described once by   *)
(* what it does to a ticket (the lemmas ...Calls).  A message is owed from *)
(* the moment its call stored it until it is settled or expires: as long   *)
(* as it is, its row and its record outlive it, and no worker that has it  *)
(* is past the point where it gives the message up (Owed).                 *)
(***************************************************************************)
EXTENDS InboxDelivery, FiniteSetTheorems, TLAPS

Tables == [Tickets -> Inbox!Row]
Vaults == [Tickets -> Vault!Record]
Alarms == 0..TTL \cup {NoAlarm}
Ledgers == [Tickets -> Outbox!Outcome]
Job == [pc : DrainPC, ticket : Tickets \cup {NoTicket}, tries : 0..MAX_RETRIES,
        left : 0..INBOX_DELIVERY_LIMIT]
Call == [pc : SenderPC, created : BOOLEAN, ttl : 0..TTL]

Typed ==
  /\ inbox \in Tables /\ vault \in Vaults /\ alarm \in Alarms
  /\ ledger \in Ledgers /\ shown \subseteq Tickets /\ refused \subseteq Tickets
  /\ drain \in [Drains -> Job] /\ sender \in [Tickets -> Call]

\* A job has a ticket while it works on one.
Shape ==
  \A d \in Drains :
    /\ drain[d].pc \in Holding \cup {"scrub"} => drain[d].ticket \in Tickets
    /\ drain[d].pc \in {"idle", "queued", "loop"} => drain[d].ticket = NoTicket

\* The attempt named in a row is one at this row.
Names ==
  \A t \in Tickets :
    inbox[t].attempt # NoAttempt => \E d \in Drains : inbox[t].attempt = <<d, t>>

\* What counts as sent or viewed was shown.
Seen ==
  /\ Outbox!SentWasShown
  /\ \A d \in Drains : drain[d].pc \in {"sent", "viewed"} => drain[d].ticket \in shown
  /\ ViewedWasShown

\* Until its call has added it, a message has no row and no worker, and until
\* it has stored it, no record.
Unborn(t) ==
  /\ sender[t].pc \in {"idle", "storing", "adding"} =>
       inbox[t] = Inbox!NoRow /\ \A d \in Drains : drain[d].ticket # t
  /\ sender[t].pc \in {"idle", "storing"} => vault[t] = Vault!NoRecord

\* The message was stored, and is neither settled nor expired.
Due(t) == sender[t].pc \in {"adding", "ok"} /\ sender[t].ttl > 0 /\ ~ Settled(t)

\* A job at one of these has not given its message up.
Hopeful == {"claimed", "resolved", "release", "retry"}

Owed(t) ==
  Due(t) =>
    /\ vault[t].status = "active" /\ vault[t].payload /\ vault[t].route
    /\ sender[t].ttl <= vault[t].ttl
    /\ sender[t].pc = "ok" => inbox[t].state # "none" /\ sender[t].ttl <= inbox[t].ttl
    /\ \A d \in Drains : drain[d].ticket = t => drain[d].pc \in Hopeful

\* The row of a record that is about to be scrubbed is gone.
Scrubbing(t) ==
  \A d \in Drains :
    At(d, "scrub") /\ drain[d].ticket = t => inbox[t] = Inbox!NoRow

Life(t) == Unborn(t) /\ Owed(t) /\ Scrubbing(t)

IInv == Typed /\ Shape /\ Names /\ Seen /\ \A t \in Tickets \ Repeatable : Life(t)

\* The message is neither settled nor expired, whatever its call is doing.
Lives(t) == sender[t].ttl > 0 /\ ~ Settled(t)

Present(t) == inbox[t] # Inbox!NoRow \/ \E d \in Drains : drain[d].ticket = t

\* Of a message that a request accept may repeat: what is there of it lasts, and
\* the call that stored it adds it before anybody sees it.
Repeated(t) ==
  /\ sender[t].pc = "idle" => ~ Present(t) /\ vault[t] = Vault!NoRecord
  /\ sender[t].pc \in {"idle", "storing"} => ~ sender[t].created
  /\ sender[t].pc = "cleanup" => sender[t].created
  /\ Lives(t) =>
       /\ Present(t) \/ sender[t].pc \in {"adding", "ok"} => vault[t] # Vault!NoRecord
       /\ vault[t] # Vault!NoRecord =>
            /\ vault[t].status = "active" /\ vault[t].payload
            /\ sender[t].ttl <= vault[t].ttl
       /\ inbox[t] # Inbox!NoRow =>
            inbox[t].state # "none" /\ sender[t].ttl <= inbox[t].ttl
       /\ sender[t].pc = "ok" => inbox[t] # Inbox!NoRow
       /\ \A d \in Drains : drain[d].ticket = t => drain[d].pc \in Hopeful
       /\ sender[t].created /\ sender[t].pc \in {"adding", "cleanup"} => ~ Present(t)

RepeatInv == \A t \in Repeatable : Repeated(t)

\* A step after which it is still so.
Repeats == \A t \in Repeatable : Repeated(t) => Repeated(t)'

\* A message that nobody may drop, in the one way or the other.
Wanted(t) == (Due(t) /\ Life(t)) \/ (Lives(t) /\ Repeated(t))

-----------------------------------------------------------------------------
(* What the calls do to the rows and records. *)

Named == (Drains \X Tickets) \cup {NoAttempt}

LEMMA RowShape ==
  Inbox!Row = [state : {"none", "active", "delivering"}, attempt : Named,
               lease : 0..LEASE, ttl : 0..TTL]
BY DEF Inbox!Row, Named

\* A row that was put back.
LEMMA ReleasedRow ==
  ASSUME NEW r \in Inbox!Row
  PROVE  /\ Inbox!Released(r) \in Inbox!Row
         /\ Inbox!Released(r).state = "active" /\ Inbox!Released(r).attempt = NoAttempt
         /\ Inbox!Released(r).ttl = r.ttl
<1>1. NoAttempt \in Named /\ 0 \in 0..LEASE
  BY DeliveryAssumption DEF Named
<1> QED BY <1>1, RowShape DEF Inbox!Released

\* A row that was claimed.
LEMMA ClaimedRow ==
  ASSUME NEW r \in Inbox!Row, NEW a \in Drains \X Tickets, NEW c,
         c = [r EXCEPT !.state = "delivering", !.attempt = a, !.lease = LEASE]
  PROVE  /\ c \in Inbox!Row
         /\ c.state = "delivering" /\ c.attempt = a /\ c.ttl = r.ttl
<1>1. a \in Named /\ LEASE \in 0..LEASE
  BY DeliveryAssumption DEF Named
<1> QED BY <1>1, RowShape

\* A row as time passes.
LEMMA ElapsedRow ==
  ASSUME NEW r \in Inbox!Row
  PROVE  /\ [r EXCEPT !.lease = Inbox!Elapse(@)] \in Inbox!Row
         /\ [r EXCEPT !.lease = Inbox!Elapse(@)].state = r.state
         /\ [r EXCEPT !.lease = Inbox!Elapse(@)].attempt = r.attempt
         /\ [r EXCEPT !.lease = Inbox!Elapse(@)].ttl = r.ttl
         /\ [r EXCEPT !.ttl = Inbox!Elapse(@)] \in Inbox!Row
         /\ [r EXCEPT !.ttl = Inbox!Elapse(@)].state = r.state
         /\ [r EXCEPT !.ttl = Inbox!Elapse(@)].attempt = r.attempt
         /\ [r EXCEPT !.ttl = Inbox!Elapse(@)].ttl = IF r.ttl > 0 THEN r.ttl - 1 ELSE 0
<1>1. LEASE \in Nat /\ TTL \in Nat
  BY DeliveryAssumption
<1>2. r.lease \in 0..LEASE /\ r.ttl \in 0..TTL
  BY RowShape
<1>3. Inbox!Elapse(r.lease) \in 0..LEASE /\ Inbox!Elapse(r.ttl) \in 0..TTL
  BY <1>1, <1>2 DEF Inbox!Elapse
<1>4. Inbox!Elapse(r.ttl) = IF r.ttl > 0 THEN r.ttl - 1 ELSE 0
  BY DEF Inbox!Elapse
<1> QED BY <1>3, <1>4, RowShape

LEMMA FixedRows ==
  /\ Inbox!NoRow \in Inbox!Row /\ Inbox!NewRow \in Inbox!Row
  /\ Inbox!NoRow.state = "none" /\ Inbox!NoRow.attempt = NoAttempt /\ Inbox!NoRow.ttl = 0
  /\ Inbox!NewRow.state = "active" /\ Inbox!NewRow.attempt = NoAttempt
  /\ Inbox!NewRow.ttl = TTL
<1>1. NoAttempt \in Named /\ 0 \in 0..LEASE /\ 0 \in 0..TTL /\ TTL \in 0..TTL
  BY DeliveryAssumption DEF Named
<1> QED BY <1>1, RowShape DEF Inbox!NoRow, Inbox!NewRow

\* From ib to kb, row u is left alone, put back, or removed as expired.
Tidied(ib, kb, u) ==
  \/ kb[u] = ib[u]
  \/ ib[u].state = "delivering" /\ kb[u] = Inbox!Released(ib[u])
  \/ ib[u].ttl = 0 /\ kb[u] = Inbox!NoRow

LEMMA RecoveredTidies ==
  ASSUME NEW ib \in Tables
  PROVE  /\ Inbox!Recovered(ib) \in Tables
         /\ \A u \in Tickets :
              \/ Inbox!Recovered(ib)[u] = ib[u]
              \/ ib[u].state = "delivering"
                 /\ Inbox!Recovered(ib)[u] = Inbox!Released(ib[u])
<1>1. \A u \in Tickets : ib[u] \in Inbox!Row /\ Inbox!Released(ib[u]) \in Inbox!Row
  BY ReleasedRow DEF Tables
<1> QED BY <1>1 DEF Inbox!Recovered, Tables

LEMMA PreparedTidies ==
  ASSUME NEW ib \in Tables, NEW D \in Inbox!CleanupBatches(ib)
  PROVE  /\ Inbox!Prepared(ib, D) \in Tables
         /\ \A u \in Tickets : Tidied(ib, Inbox!Prepared(ib, D), u)
<1> DEFINE kb == [t \in Tickets |-> IF t \in D THEN Inbox!NoRow ELSE ib[t]]
<1>1. kb \in Tables
  BY FixedRows DEF Tables
<1>2. Inbox!Prepared(ib, D) = Inbox!Recovered(kb)
  BY DEF Inbox!Prepared
<1>3. \A u \in Tickets : kb[u] = ib[u] \/ (ib[u].ttl = 0 /\ kb[u] = Inbox!NoRow)
  BY DEF Inbox!CleanupBatches, Inbox!Expired
<1>4. Inbox!NoRow.state # "delivering"
  BY DEF Inbox!NoRow
<1> HIDE DEF kb
<1> QED BY <1>1, <1>2, <1>3, <1>4, RecoveredTidies DEF Tidied

\* A call leaves row u in the inbox for as long as it is not expired, and
\* names none but attempts at u in it.
Calm(u) ==
  /\ inbox'[u].attempt \in {NoAttempt, inbox[u].attempt} \cup (Drains \X {u})
  /\ inbox[u] = Inbox!NoRow => inbox'[u] = Inbox!NoRow
  /\ inbox[u].state # "none" /\ inbox[u].ttl > 0
       => inbox'[u].state # "none" /\ inbox'[u].ttl = inbox[u].ttl

LEMMA TidiedIsCalm ==
  ASSUME inbox \in Tables, NEW u \in Tickets, Tidied(inbox, inbox', u)
  PROVE  Calm(u)
<1>1. inbox[u] \in Inbox!Row /\ inbox[u].ttl \in Nat
  BY RowShape DEF Tables
<1>2. inbox[u].state = "delivering" /\ inbox'[u] = Inbox!Released(inbox[u]) => Calm(u)
  BY <1>1, ReleasedRow, FixedRows DEF Calm
<1>3. inbox[u].ttl = 0 /\ inbox'[u] = Inbox!NoRow => Calm(u)
  BY <1>1, FixedRows DEF Calm
<1>4. inbox'[u] = inbox[u] => Calm(u)
  BY DEF Calm
<1> QED BY <1>2, <1>3, <1>4 DEF Tidied

\* A row that is not touched.
LEMMA UnchangedIsCalm ==
  ASSUME inbox \in Tables, NEW u \in Tickets, inbox'[u] = inbox[u]
  PROVE  Calm(u)
BY DEF Calm

\* addUnreadItem.
LEMMA AddCalls ==
  ASSUME inbox \in Tables, NEW t \in Tickets
  PROVE  /\ Inbox!AddUnreadItem(t) =>
              /\ inbox' \in Tables /\ inbox'[t] = Inbox!NewRow
              /\ \A u \in Tickets \ {t} : Calm(u)
         /\ Inbox!AddDuplicate(t) =>
              /\ inbox' \in Tables /\ \A u \in Tickets : Calm(u)
              /\ inbox[t] # Inbox!NoRow
         /\ Inbox!AddRefusedFull(t) =>
              inbox' \in Tables /\ \A u \in Tickets : Calm(u)
<1>1. ASSUME Inbox!AddUnreadItem(t)
      PROVE  /\ inbox' \in Tables /\ inbox'[t] = Inbox!NewRow
             /\ \A u \in Tickets \ {t} : Calm(u)
  <2>1. PICK D \in Inbox!CleanupBatches(inbox) :
          inbox' = [Inbox!Prepared(inbox, D) EXCEPT ![t] = Inbox!NewRow]
    BY <1>1 DEF Inbox!AddUnreadItem
  <2>2. Inbox!Prepared(inbox, D) \in Tables
        /\ \A u \in Tickets : Tidied(inbox, Inbox!Prepared(inbox, D), u)
    BY PreparedTidies
  <2>3. inbox' \in Tables /\ inbox'[t] = Inbox!NewRow
        /\ \A u \in Tickets \ {t} : inbox'[u] = Inbox!Prepared(inbox, D)[u]
    BY <2>1, <2>2, FixedRows DEF Tables
  <2>4. \A u \in Tickets \ {t} : Tidied(inbox, inbox', u)
    BY <2>2, <2>3 DEF Tidied
  <2> QED BY <2>3, <2>4, TidiedIsCalm
<1>2. ASSUME Inbox!AddDuplicate(t)
      PROVE  /\ inbox' \in Tables /\ \A u \in Tickets : Calm(u)
             /\ inbox[t] # Inbox!NoRow
  <2>1. PICK D \in Inbox!CleanupBatches(inbox) :
          inbox' = Inbox!Prepared(inbox, D) /\ inbox'[t].state # "none"
    BY <1>2 DEF Inbox!AddDuplicate, Inbox!Stored
  <2>2. inbox' \in Tables /\ \A u \in Tickets : Tidied(inbox, inbox', u)
    BY <2>1, PreparedTidies
  <2>3. \A u \in Tickets : Calm(u)
    BY <2>2, TidiedIsCalm
  <2>4. inbox[t] # Inbox!NoRow
    BY <2>1, <2>3 DEF Calm, Inbox!NoRow
  <2> QED BY <2>2, <2>3, <2>4
<1>3. ASSUME Inbox!AddRefusedFull(t)
      PROVE  inbox' \in Tables /\ \A u \in Tickets : Calm(u)
  <2>1. PICK D \in Inbox!CleanupBatches(inbox) : inbox' = Inbox!Prepared(inbox, D)
    BY <1>3 DEF Inbox!AddRefusedFull
  <2> QED BY <2>1, PreparedTidies, TidiedIsCalm
<1> QED BY <1>1, <1>2, <1>3

\* claimNextUnreadItem.
LEMMA ClaimCalls ==
  ASSUME inbox \in Tables
  PROVE  /\ \A t \in Tickets, d \in Drains : Inbox!ClaimUnread(t, <<d, t>>) =>
              /\ inbox' \in Tables /\ inbox[t] # Inbox!NoRow
              /\ \A u \in Tickets : Calm(u)
         /\ Inbox!ClaimNothing => inbox' \in Tables /\ \A u \in Tickets : Calm(u)
<1>1. ASSUME NEW t \in Tickets, NEW d \in Drains, Inbox!ClaimUnread(t, <<d, t>>)
      PROVE  /\ inbox' \in Tables /\ inbox[t] # Inbox!NoRow
             /\ \A u \in Tickets : Calm(u)
  <2> DEFINE a == <<d, t>>
  <2>0. a \in Drains \X Tickets /\ a \in Drains \X {t} /\ Inbox!ClaimUnread(t, a)
    BY <1>1
  <2> HIDE DEF a
  <2>1. PICK D \in Inbox!CleanupBatches(inbox) :
          /\ t \in Inbox!Oldest(Inbox!Prepared(inbox, D))
          /\ inbox' = [Inbox!Prepared(inbox, D) EXCEPT ![t].state = "delivering",
                                                       ![t].attempt = a,
                                                       ![t].lease = LEASE]
    BY <2>0 DEF Inbox!ClaimUnread
  <2> DEFINE ib == Inbox!Prepared(inbox, D)
  <2>2. ib \in Tables /\ \A u \in Tickets : Tidied(inbox, ib, u)
    BY PreparedTidies
  <2>3. ib[t] \in Inbox!Row /\ ib[t].state = "active" /\ ib[t].ttl > 0
    BY <2>1, <2>2 DEF Inbox!Oldest, Inbox!Claimable, Tables
  <2>4. ib[t].ttl = inbox[t].ttl /\ inbox[t] # Inbox!NoRow
    <3>1. inbox[t] \in Inbox!Row
      BY DEF Tables
    <3>2. inbox[t].state = "delivering" \/ ib[t] = inbox[t] \/ ib[t] = Inbox!NoRow
      BY <2>2 DEF Tidied
    <3>3. ib[t] # Inbox!NoRow /\ inbox[t] # Inbox!NoRow
      BY <2>3, <3>2, FixedRows
    <3>4. ib[t] = inbox[t] \/ ib[t] = Inbox!Released(inbox[t])
      BY <2>2, <3>3 DEF Tidied
    <3> QED BY <3>1, <3>3, <3>4, ReleasedRow
  <2> HIDE DEF ib
  <2>5. inbox' = [ib EXCEPT ![t] = [ib[t] EXCEPT !.state = "delivering",
                                                 !.attempt = a, !.lease = LEASE]]
    BY <2>1, <2>2, <2>3 DEF Tables, ib
  <2>12. \A r \in Inbox!Row : \A c :
           c = [r EXCEPT !.state = "delivering", !.attempt = a, !.lease = LEASE] =>
             /\ c \in Inbox!Row
             /\ c.state = "delivering" /\ c.attempt = a /\ c.ttl = r.ttl
    BY <2>0, ClaimedRow
  <2>6. PICK c : c = [ib[t] EXCEPT !.state = "delivering", !.attempt = a, !.lease = LEASE]
    OBVIOUS
  <2>11. /\ c \in Inbox!Row
         /\ c.state = "delivering" /\ c.attempt = a /\ c.ttl = ib[t].ttl
    BY <2>3, <2>6, <2>12
  <2>7. inbox' \in Tables
        /\ inbox'[t] = c
        /\ \A u \in Tickets \ {t} : inbox'[u] = ib[u]
    BY <2>2, <2>5, <2>6, <2>11 DEF Tables
  <2>8. \A u \in Tickets \ {t} : Tidied(inbox, inbox', u)
    BY <2>2, <2>7 DEF Tidied
  <2>9. \A u \in Tickets \ {t} : Calm(u)
    BY <2>8, TidiedIsCalm
  <2>10. Calm(t)
    BY <2>0, <2>4, <2>7, <2>11 DEF Calm
  <2> QED BY <2>4, <2>7, <2>9, <2>10
<1>2. ASSUME Inbox!ClaimNothing
      PROVE  inbox' \in Tables /\ \A u \in Tickets : Calm(u)
  <2>1. PICK D \in Inbox!CleanupBatches(inbox) : inbox' = Inbox!Prepared(inbox, D)
    BY <1>2 DEF Inbox!ClaimNothing
  <2> QED BY <2>1, PreparedTidies, TidiedIsCalm
<1> QED BY <1>1, <1>2

\* completeUnreadDelivery and releaseUnreadDelivery touch one row at most.
LEMMA ReportCalls ==
  ASSUME inbox \in Tables, NEW t \in Tickets, NEW a \in Drains \X Tickets
  PROVE  /\ Inbox!CompleteUnread(t, a) =>
              /\ inbox' \in Tables
              /\ \A u \in Tickets : Calm(u) \/ (u = t /\ inbox'[u] = Inbox!NoRow)
              /\ Inbox!Owns(t, a) => inbox'[t] = Inbox!NoRow
         /\ Inbox!ReleaseUnread(t, a) =>
              inbox' \in Tables /\ \A u \in Tickets : Calm(u)
<1>1. ASSUME Inbox!CompleteUnread(t, a)
      PROVE  /\ inbox' \in Tables
             /\ \A u \in Tickets : Calm(u) \/ (u = t /\ inbox'[u] = Inbox!NoRow)
             /\ Inbox!Owns(t, a) => inbox'[t] = Inbox!NoRow
  <2>1. PICK kb : /\ kb = IF Inbox!Owns(t, a)
                          THEN [inbox EXCEPT ![t] = Inbox!NoRow] ELSE inbox
                  /\ inbox' = Inbox!Recovered(kb)
    BY <1>1 DEF Inbox!CompleteUnread
  <2>2. kb \in Tables
    BY <2>1, FixedRows DEF Tables
  <2>3. \A u \in Tickets : kb[u] = inbox[u] \/ (u = t /\ kb[u] = Inbox!NoRow)
    BY <2>1 DEF Tables
  <2>4. Inbox!Owns(t, a) => kb[t] = Inbox!NoRow
    BY <2>1 DEF Tables
  <2>5. Inbox!NoRow.state # "delivering"
    BY DEF Inbox!NoRow
  <2>6. /\ inbox' \in Tables
        /\ \A u \in Tickets : inbox'[u] = kb[u] \/ (kb[u].state = "delivering"
                                                    /\ inbox'[u] = Inbox!Released(kb[u]))
    BY <2>1, <2>2, RecoveredTidies
  <2>7. \A u \in Tickets : Tidied(inbox, inbox', u) \/ (u = t /\ inbox'[u] = Inbox!NoRow)
    BY <2>3, <2>5, <2>6 DEF Tidied
  <2>8. Inbox!Owns(t, a) => inbox'[t] = Inbox!NoRow
    BY <2>4, <2>5, <2>6
  <2> QED BY <2>6, <2>7, <2>8, TidiedIsCalm
<1>2. ASSUME Inbox!ReleaseUnread(t, a)
      PROVE  inbox' \in Tables /\ \A u \in Tickets : Calm(u)
  <2>1. inbox[t] \in Inbox!Row /\ Inbox!Released(inbox[t]) \in Inbox!Row
    BY ReleasedRow DEF Tables
  <2>2. CASE Inbox!Owns(t, a)
    <3>1. inbox' = [inbox EXCEPT ![t] = Inbox!Released(inbox[t])]
      BY <1>2, <2>2 DEF Inbox!ReleaseUnread
    <3>2. inbox[t].attempt # NoAttempt
      BY <2>2, DeliveryAssumption DEF Inbox!Owns
    <3>3. Calm(t)
      <4>1. inbox'[t] = Inbox!Released(inbox[t])
        BY <3>1 DEF Tables
      <4>2. inbox[t] # Inbox!NoRow
        BY <3>2, FixedRows
      <4> QED BY <2>1, <4>1, <4>2, ReleasedRow DEF Calm
    <3>4. inbox' \in Tables /\ \A u \in Tickets \ {t} : inbox'[u] = inbox[u]
      BY <2>1, <3>1 DEF Tables
    <3> QED BY <3>3, <3>4, UnchangedIsCalm
  <2>3. CASE ~ Inbox!Owns(t, a)
    BY <1>2, <2>3, UnchangedIsCalm DEF Inbox!ReleaseUnread
  <2> QED BY <2>2, <2>3
<1> QED BY <1>1, <1>2

\* The calls that only tidy up, and a minute.
LEMMA QuietCalls ==
  ASSUME inbox \in Tables,
         \/ Inbox!GetUnreadSummary \/ Inbox!CleanupExpiredUnreadItems
         \/ Inbox!Minute \/ UNCHANGED inbox
  PROVE  inbox' \in Tables /\ \A u \in Tickets : Calm(u)
<1>1. CASE Inbox!GetUnreadSummary
  <2>1. inbox' = Inbox!Recovered(inbox)
    BY <1>1 DEF Inbox!GetUnreadSummary
  <2>2. \A u \in Tickets : Tidied(inbox, inbox', u)
    BY <2>1, RecoveredTidies DEF Tidied
  <2> QED BY <2>1, <2>2, RecoveredTidies, TidiedIsCalm
<1>2. CASE Inbox!CleanupExpiredUnreadItems
  <2>1. PICK D \in Inbox!CleanupBatches(inbox) : inbox' = Inbox!Prepared(inbox, D)
    BY <1>2 DEF Inbox!CleanupExpiredUnreadItems
  <2> QED BY <2>1, PreparedTidies, TidiedIsCalm
<1>3. CASE Inbox!Minute
  <2>1. \A u \in Tickets : inbox[u] \in Inbox!Row
                           /\ inbox'[u] = [inbox[u] EXCEPT !.lease = Inbox!Elapse(@)]
    BY <1>3 DEF Inbox!Minute, Tables
  <2>2. inbox' \in Tables
    <3>1. \A u \in Tickets : inbox'[u] \in Inbox!Row
      BY <2>1, ElapsedRow
    <3> QED BY <1>3, <3>1 DEF Inbox!Minute, Tables
  <2>3. ASSUME NEW u \in Tickets
        PROVE  Calm(u)
    <3>1. /\ inbox'[u].state = inbox[u].state /\ inbox'[u].attempt = inbox[u].attempt
          /\ inbox'[u].ttl = inbox[u].ttl
      BY <2>1, ElapsedRow
    <3>2. inbox[u] = Inbox!NoRow => inbox'[u] = Inbox!NoRow
      BY <2>1 DEF Inbox!NoRow, Inbox!Elapse
    <3> QED BY <3>1, <3>2 DEF Calm
  <2> QED BY <2>2, <2>3
<1>4. CASE UNCHANGED inbox
  BY <1>4, UnchangedIsCalm
<1> QED BY <1>1, <1>2, <1>3, <1>4

-----------------------------------------------------------------------------
(* What the calls do to the records of the vault. *)

LEMMA RecordShapes ==
  /\ Vault!NoRecord \in Vault!Record /\ Vault!NewRecord \in Vault!Record
  /\ Vault!NoRecord.status = "none" /\ Vault!NoRecord.ttl = -1
  /\ Vault!NewRecord.status = "active" /\ Vault!NewRecord.ttl = TTL
  /\ Vault!NewRecord.payload /\ Vault!NewRecord.route
BY DeliveryAssumption DEF Vault!NoRecord, Vault!NewRecord, Vault!Record

LEMMA ScrubbedRecord ==
  ASSUME NEW r \in Vault!Record
  PROVE  Vault!Scrubbed(r) \in Vault!Record /\ Vault!Scrubbed(r).status = "expired"
BY DEF Vault!Scrubbed, Vault!Record

\* The alarm that is set last.
LEMMA Scheduled ==
  ASSUME vault' \in Vaults, Vault!ScheduleNextExpiryAlarm
  PROVE  alarm' \in Alarms
<1>1. \A t \in Tickets : Vault!DueIn(vault', t) \in 0..TTL
  <2> TAKE t \in Tickets
  <2>1. vault'[t].ttl \in -1..TTL
    BY DEF Vaults, Vault!Record
  <2> QED BY <2>1, DeliveryAssumption DEF Vault!DueIn
<1>2. PICK a \in {Vault!DueIn(vault', t) : t \in Vault!Pending(vault')} \cup {NoAlarm} :
        alarm' = a
  BY DEF Vault!ScheduleNextExpiryAlarm
<1> QED BY <1>1, <1>2 DEF Vault!Pending, Alarms

\* A call makes no record of nothing, marks none as viewed, and leaves a live
\* one alone.
Steady(u) ==
  /\ vault[u] = Vault!NoRecord => vault'[u] = Vault!NoRecord
  /\ vault'[u].status = "viewed" => vault[u].status = "viewed"
  /\ vault[u].status \in {"active", "viewed"} /\ vault[u].ttl > 0 => vault'[u] = vault[u]

LEMMA UnchangedIsSteady ==
  ASSUME NEW u \in Tickets, vault'[u] = vault[u]
  PROVE  Steady(u)
BY DEF Steady

\* storeTicket, on a ticket that has no record.
LEMMA StoreCall ==
  ASSUME vault \in Vaults, NEW t \in Tickets, Vault!StoreTicket(t)
  PROVE  /\ vault' \in Vaults /\ alarm' \in Alarms /\ vault'[t] = Vault!NewRecord
         /\ \A u \in Tickets \ {t} : Steady(u)
<1>1. /\ vault' \in Vaults /\ vault'[t] = Vault!NewRecord
      /\ \A u \in Tickets \ {t} : vault'[u] = vault[u]
  BY RecordShapes DEF Vault!StoreTicket, Vaults
<1>2. alarm' \in Alarms
  BY <1>1, Scheduled DEF Vault!StoreTicket
<1> QED BY <1>1, <1>2, UnchangedIsSteady

\* getTicket.
LEMMA GetCalls ==
  ASSUME vault \in Vaults, alarm \in Alarms, NEW t \in Tickets,
         Vault!GetExpired(t) \/ Vault!GetFound(t) \/ Vault!GetMissing(t)
  PROVE  vault' \in Vaults /\ alarm' \in Alarms /\ \A u \in Tickets : Steady(u)
<1>1. CASE Vault!GetExpired(t)
  <2>1. vault[t] \in Vault!Record
    BY DEF Vaults
  <2>2. /\ vault' \in Vaults /\ vault'[t] = Vault!Scrubbed(vault[t])
        /\ \A u \in Tickets \ {t} : vault'[u] = vault[u]
    BY <1>1, <2>1, ScrubbedRecord DEF Vault!GetExpired, Vaults
  <2>3. alarm' \in Alarms
    BY <1>1, <2>2, Scheduled DEF Vault!GetExpired
  <2>4. vault[t].status = "expired" \/ (vault[t].status # "none" /\ vault[t].ttl < 0)
    BY <1>1 DEF Vault!GetExpired, Vault!ReadsAsExpired, Vault!Exists
  <2>5. vault[t].ttl \in -1..TTL /\ vault'[t].status = "expired"
    BY <2>1, <2>2, ScrubbedRecord DEF Vault!Record
  <2>6. Steady(t)
    BY <2>4, <2>5, RecordShapes DEF Steady
  <2> QED BY <2>2, <2>3, <2>6, UnchangedIsSteady
<1>2. CASE UNCHANGED <<vault, alarm>>
  BY <1>2, UnchangedIsSteady
<1> QED BY <1>1, <1>2 DEF Vault!GetFound, Vault!GetMissing

\* markStatus(viewed) and deleteTicket, which touch one record at most.
LEMMA MarkCall ==
  ASSUME vault \in Vaults, alarm \in Alarms, NEW t \in Tickets, Vault!MarkViewed(t)
  PROVE  /\ vault' \in Vaults /\ alarm' \in Alarms
         /\ vault[t] = Vault!NoRecord => vault'[t] = Vault!NoRecord
         /\ \A u \in Tickets \ {t} : Steady(u)
<1>1. CASE vault[t].status \in {"active", "viewed"} /\ vault[t].ttl > 0
  <2>1. vault[t] \in Vault!Record /\ vault[t] # Vault!NoRecord
    BY <1>1, RecordShapes DEF Vaults
  <2>2. [vault[t] EXCEPT !.status = "viewed", !.payload = FALSE] \in Vault!Record
    BY <2>1 DEF Vault!Record
  <2>3. vault' = [vault EXCEPT ![t] = [vault[t] EXCEPT !.status = "viewed",
                                                       !.payload = FALSE]]
    BY <1>1 DEF Vault!MarkViewed, Vaults
  <2>4. vault' \in Vaults /\ \A u \in Tickets \ {t} : vault'[u] = vault[u]
    BY <2>2, <2>3 DEF Vaults
  <2> QED BY <2>1, <2>4, UnchangedIsSteady DEF Vault!MarkViewed
<1>2. CASE ~ (vault[t].status \in {"active", "viewed"} /\ vault[t].ttl > 0)
  <2>1. vault' = vault /\ alarm' = alarm
    BY <1>2 DEF Vault!MarkViewed
  <2> QED BY <2>1, UnchangedIsSteady
<1> QED BY <1>1, <1>2

LEMMA DeleteCall ==
  ASSUME vault \in Vaults, NEW t \in Tickets, Vault!DeleteTicket(t)
  PROVE  /\ vault' \in Vaults /\ alarm' \in Alarms /\ vault'[t] = Vault!NoRecord
         /\ \A u \in Tickets \ {t} : Steady(u)
<1>1. /\ vault' \in Vaults /\ vault'[t] = Vault!NoRecord
      /\ \A u \in Tickets \ {t} : vault'[u] = vault[u]
  BY RecordShapes DEF Vault!DeleteTicket, Vaults
<1>2. alarm' \in Alarms
  BY <1>1, Scheduled DEF Vault!DeleteTicket
<1> QED BY <1>1, <1>2, UnchangedIsSteady

\* The expiry sweep takes records that are due.
LEMMA AlarmCall ==
  ASSUME vault \in Vaults, Vault!Alarm
  PROVE  vault' \in Vaults /\ alarm' \in Alarms /\ \A u \in Tickets : Steady(u)
<1>1. PICK D \in Vault!SweepBatches(vault) :
        vault' = [t \in Tickets |->
                    IF t \in D THEN Vault!Scrubbed(vault[t]) ELSE vault[t]]
  BY DEF Vault!Alarm
<1>2. \A u \in Tickets : vault[u] \in Vault!Record /\ Vault!Scrubbed(vault[u]) \in Vault!Record
  BY ScrubbedRecord DEF Vaults
<1>3. vault' \in Vaults
  BY <1>1, <1>2 DEF Vaults
<1>4. \A u \in D : u \in Tickets /\ vault[u].status \in {"active", "viewed"} /\ vault[u].ttl <= 0
  BY DEF Vault!SweepBatches, Vault!Due, Vault!Pending
<1>5. ASSUME NEW u \in Tickets
      PROVE  Steady(u)
  <2>1. CASE u \in D
    <3>1. vault'[u].status = "expired" /\ vault[u].ttl \in -1..TTL
      BY <1>1, <1>2, <2>1, ScrubbedRecord DEF Vault!Record
    <3> QED BY <1>4, <2>1, <3>1, RecordShapes DEF Steady
  <2>2. CASE u \notin D
    BY <1>1, <2>2, UnchangedIsSteady
  <2> QED BY <2>1, <2>2
<1>6. alarm' \in Alarms
  BY <1>3, Scheduled DEF Vault!Alarm
<1> QED BY <1>3, <1>5, <1>6

-----------------------------------------------------------------------------
(* What the calls do to the ledger of the outbox. *)

LEMMA OutboxCalls ==
  ASSUME ledger \in Ledgers, shown \subseteq Tickets, Outbox!SentWasShown, NEW t \in Tickets,
         \/ Outbox!Show(t) \/ Outbox!Send(t) \/ Outbox!Refuse(t) \/ Outbox!Forget({t})
         \/ Outbox!Day \/ UNCHANGED <<ledger, shown>>
  PROVE  /\ ledger' \in Ledgers /\ shown' \subseteq Tickets /\ Outbox!SentWasShown'
         /\ shown \subseteq shown'
         /\ Outbox!Send(t) => t \in shown'
<1>1. RETENTION \in 0..RETENTION /\ 0 \in 0..RETENTION /\ RETENTION \in Nat
  BY DeliveryAssumption
<1>2. /\ [state |-> "sent", keep |-> RETENTION] \in Outbox!Outcome
      /\ [state |-> "rejected", keep |-> RETENTION] \in Outbox!Outcome
      /\ Outbox!NoOutcome \in Outbox!Outcome /\ Outbox!NoOutcome.state = "none"
  BY <1>1 DEF Outbox!Outcome, Outbox!NoOutcome
<1>3. CASE Outbox!Show(t) \/ UNCHANGED <<ledger, shown>>
  <2>1. ledger' = ledger /\ shown \subseteq shown' /\ shown' \subseteq Tickets
    BY <1>3 DEF Outbox!Show
  <2>2. Outbox!Send(t) => t \in shown'
    BY DEF Outbox!Send
  <2> QED BY <2>1, <2>2 DEF Outbox!SentWasShown
<1>4. CASE Outbox!Send(t)
  <2>1. /\ ledger' = [ledger EXCEPT ![t] = [state |-> "sent", keep |-> RETENTION]]
        /\ shown' = shown \cup {t}
    BY <1>4 DEF Outbox!Send, Outbox!Write
  <2>2. ledger' \in Ledgers /\ \A u \in Tickets \ {t} : ledger'[u] = ledger[u]
    BY <1>2, <2>1 DEF Ledgers
  <2> QED BY <2>1, <2>2 DEF Outbox!SentWasShown
<1>5. CASE Outbox!Refuse(t)
  <2>1. /\ ledger' = [ledger EXCEPT ![t] = [state |-> "rejected", keep |-> RETENTION]]
        /\ shown' = shown
    BY <1>5 DEF Outbox!Refuse, Outbox!Write
  <2>2. /\ ledger' \in Ledgers /\ ledger'[t].state = "rejected"
        /\ \A u \in Tickets \ {t} : ledger'[u] = ledger[u]
    BY <1>2, <2>1 DEF Ledgers
  <2>3. Outbox!Send(t) => t \in shown'
    BY DEF Outbox!Send
  <2> QED BY <2>1, <2>2, <2>3 DEF Outbox!SentWasShown
<1>6. CASE Outbox!Forget({t})
  <2>1. /\ ledger' = [u \in Tickets |-> IF u \in {t} THEN Outbox!NoOutcome ELSE ledger[u]]
        /\ shown' = shown
    BY <1>6 DEF Outbox!Forget
  <2>2. /\ ledger' \in Ledgers
        /\ \A u \in Tickets : ledger'[u] = ledger[u] \/ ledger'[u].state = "none"
    BY <1>2, <2>1 DEF Ledgers
  <2>3. Outbox!Send(t) => t \in shown'
    BY DEF Outbox!Send
  <2> QED BY <2>1, <2>2, <2>3 DEF Outbox!SentWasShown
<1>7. CASE Outbox!Day
  <2>1. shown' = shown
        /\ \A u \in Tickets :
             ledger'[u] = [ledger[u] EXCEPT !.keep = IF @ > 0 THEN @ - 1 ELSE 0]
    BY <1>7 DEF Outbox!Day
  <2>2. \A u \in Tickets : ledger'[u] \in Outbox!Outcome /\ ledger'[u].state = ledger[u].state
    <3> TAKE u \in Tickets
    <3>1. ledger[u] \in Outbox!Outcome /\ ledger[u].keep \in 0..RETENTION
      BY DEF Ledgers, Outbox!Outcome
    <3>2. (IF ledger[u].keep > 0 THEN ledger[u].keep - 1 ELSE 0) \in 0..RETENTION
      BY <1>1, <3>1
    <3> QED BY <2>1, <3>1, <3>2 DEF Outbox!Outcome
  <2>3. ledger' \in Ledgers
    BY <1>7, <2>2 DEF Outbox!Day, Ledgers
  <2>4. Outbox!Send(t) => t \in shown'
    BY DEF Outbox!Send
  <2> QED BY <2>1, <2>2, <2>3, <2>4 DEF Outbox!SentWasShown
<1> QED BY <1>3, <1>4, <1>5, <1>6, <1>7

-----------------------------------------------------------------------------
(* The moves of a job and of a call. *)

\* Job d goes to p with ticket k; the others stay.
Moved(d, p, k) ==
  /\ drain' \in [Drains -> Job]
  /\ drain'[d].pc = p /\ drain'[d].ticket = k
  /\ \A e \in Drains \ {d} : drain'[e] = drain[e]

LEMMA JobMoves ==
  ASSUME drain \in [Drains -> Job], NEW d \in Drains
  PROVE  /\ \A p \in DrainPC : Goto(d, p) => Moved(d, p, drain[d].ticket)
         /\ NextItem(d) => Moved(d, "loop", NoTicket)
         /\ drain' = [drain EXCEPT ![d] = Acked] => Moved(d, "idle", NoTicket)
         /\ drain' = [drain EXCEPT ![d] = Requeued(drain[d])] =>
              Moved(d, "queued", NoTicket) \/ Moved(d, "idle", NoTicket)
<1>1. drain[d] \in Job /\ drain[d].tries \in 0..MAX_RETRIES
  BY DEF Job
<1>2. MAX_RETRIES \in Nat /\ INBOX_DELIVERY_LIMIT \in Nat
  BY DeliveryAssumption
<1>3. {"loop", "idle", "queued"} \subseteq DrainPC
  BY DEF DrainPC
<1>4. ASSUME NEW p \in DrainPC, Goto(d, p)
      PROVE  Moved(d, p, drain[d].ticket)
  <2>1. [drain[d] EXCEPT !.pc = p] \in Job
    BY <1>1, <1>4 DEF Job
  <2>2. drain' = [drain EXCEPT ![d] = [drain[d] EXCEPT !.pc = p]]
    BY <1>4 DEF Goto
  <2>3. drain'[d] = [drain[d] EXCEPT !.pc = p]
    BY <2>2
  <2>4. drain'[d].pc = p /\ drain'[d].ticket = drain[d].ticket
    BY <1>1, <2>3 DEF Job
  <2> QED BY <2>1, <2>2, <2>4 DEF Moved
<1>5. ASSUME NextItem(d)
      PROVE  Moved(d, "loop", NoTicket)
  <2>1. [drain[d] EXCEPT !.pc = "loop", !.ticket = NoTicket] \in Job
    BY <1>1, <1>3 DEF Job
  <2>2. drain' = [drain EXCEPT ![d] = [drain[d] EXCEPT !.pc = "loop", !.ticket = NoTicket]]
    BY <1>5 DEF NextItem
  <2>3. drain'[d] = [drain[d] EXCEPT !.pc = "loop", !.ticket = NoTicket]
    BY <2>2
  <2>4. drain'[d].pc = "loop" /\ drain'[d].ticket = NoTicket
    BY <1>1, <2>3 DEF Job
  <2> QED BY <2>1, <2>2, <2>4 DEF Moved
<1>6. Acked \in Job /\ Acked.pc = "idle" /\ Acked.ticket = NoTicket
  BY <1>2, <1>3 DEF Acked, Job
<1>7. /\ Requeued(drain[d]) \in Job /\ Requeued(drain[d]).pc \in {"queued", "idle"}
      /\ Requeued(drain[d]).ticket = NoTicket
  <2>1. CASE drain[d].tries < MAX_RETRIES
    <3>1. drain[d].tries + 1 \in 0..MAX_RETRIES /\ 0 \in 0..INBOX_DELIVERY_LIMIT
      BY <1>1, <1>2, <2>1
    <3>2. Requeued(drain[d]) = [pc |-> "queued", ticket |-> NoTicket,
                                tries |-> drain[d].tries + 1, left |-> 0]
      BY <2>1 DEF Requeued
    <3> HIDE DEF Requeued
    <3> QED BY <1>3, <3>1, <3>2 DEF Job
  <2>2. CASE ~ (drain[d].tries < MAX_RETRIES)
    BY <1>6, <2>2 DEF Requeued
  <2> QED BY <2>1, <2>2
<1>8. ASSUME NEW r \in Job, drain' = [drain EXCEPT ![d] = r]
      PROVE  Moved(d, r.pc, r.ticket)
  BY <1>8 DEF Moved
<1> QED BY <1>4, <1>5, <1>6, <1>7, <1>8

\* Of the calls only that of t changes, and only its place.
Turned(t, p) ==
  /\ sender' \in [Tickets -> Call]
  /\ sender'[t].pc = p /\ sender'[t].ttl = sender[t].ttl
  /\ \A u \in Tickets \ {t} : sender'[u] = sender[u]

LEMMA CallTurns ==
  ASSUME sender \in [Tickets -> Call], NEW t \in Tickets, NEW p \in SenderPC,
         \/ SenderGoto(t, p)
         \/ sender' = [sender EXCEPT ![t].pc = p, ![t].created = TRUE]
  PROVE  Turned(t, p)
<1>1. sender[t] \in Call
  OBVIOUS
<1>2. CASE SenderGoto(t, p)
  <2>1. [sender[t] EXCEPT !.pc = p] \in Call
    BY <1>1 DEF Call
  <2>2. sender' = [sender EXCEPT ![t] = [sender[t] EXCEPT !.pc = p]]
    BY <1>2 DEF SenderGoto
  <2>3. sender'[t] = [sender[t] EXCEPT !.pc = p]
    BY <2>2
  <2>4. sender'[t].pc = p /\ sender'[t].ttl = sender[t].ttl
    BY <1>1, <2>3 DEF Call
  <2> QED BY <2>1, <2>2, <2>4 DEF Turned
<1>3. CASE sender' = [sender EXCEPT ![t].pc = p, ![t].created = TRUE]
  <2>1. [sender[t] EXCEPT !.pc = p, !.created = TRUE] \in Call
    BY <1>1 DEF Call
  <2>2. sender' = [sender EXCEPT ![t] = [sender[t] EXCEPT !.pc = p, !.created = TRUE]]
    BY <1>3
  <2>3. sender'[t] = [sender[t] EXCEPT !.pc = p, !.created = TRUE]
    BY <2>2
  <2>4. sender'[t].pc = p /\ sender'[t].ttl = sender[t].ttl
    BY <1>1, <2>3 DEF Call
  <2> QED BY <2>1, <2>2, <2>4 DEF Turned
<1> QED BY <1>2, <1>3

LEMMA GivesUp ==
  ASSUME sender \in [Tickets -> Call], NEW t \in Tickets, GiveUp(t)
  PROVE  Turned(t, "cleanup") \/ Turned(t, "failed")
BY CallTurns DEF GiveUp, SenderPC

-----------------------------------------------------------------------------
(* A step that is not the call of t storing or adding it. *)

\* Job e takes on t only from a row, gives it up only when it is settled, and
\* turns to the record only when the row is gone.
JobStill(e, t) ==
  drain'[e].ticket = t =>
    /\ drain[e].ticket = t \/ inbox[t] # Inbox!NoRow
    /\ Due(t) /\ ~ Settled(t)' /\ (drain[e].ticket = t => drain[e].pc \in Hopeful)
         => drain'[e].pc \in Hopeful
    /\ drain'[e].pc = "scrub" =>
         inbox'[t] = Inbox!NoRow \/ (drain[e].ticket = t /\ drain[e].pc = "scrub")

Still(t) ==
  /\ sender'[t] = sender[t] \/ sender'[t].pc \in {"cleanup", "failed"}
  /\ Settled(t) => Settled(t)'
  /\ inbox[t] = Inbox!NoRow => inbox'[t] = Inbox!NoRow
  /\ vault[t] = Vault!NoRecord => vault'[t] = Vault!NoRecord
  /\ Due(t) => /\ vault'[t] = vault[t]
               /\ inbox[t].state # "none" /\ inbox[t].ttl > 0 =>
                    inbox'[t].state # "none" /\ inbox'[t].ttl = inbox[t].ttl
  /\ \A e \in Drains : JobStill(e, t)

LEMMA StillLives ==
  ASSUME Typed, NEW t \in Tickets, Life(t), Still(t)
  PROVE  Life(t)'
<1>1. Unborn(t)'
  BY DEF Life, Unborn, Still, JobStill
<1>2. Owed(t)'
  <2> SUFFICES ASSUME Due(t)'
               PROVE  /\ vault'[t].status = "active" /\ vault'[t].payload /\ vault'[t].route
                      /\ sender'[t].ttl <= vault'[t].ttl
                      /\ sender'[t].pc = "ok" =>
                           inbox'[t].state # "none" /\ sender'[t].ttl <= inbox'[t].ttl
                      /\ \A d \in Drains : drain'[d].ticket = t => drain'[d].pc \in Hopeful
    BY DEF Owed
  <2>1. sender'[t] = sender[t] /\ Due(t) /\ ~ Settled(t)'
    BY DEF Due, Still
  <2>2. /\ vault[t].status = "active" /\ vault[t].payload /\ vault[t].route
        /\ sender[t].ttl <= vault[t].ttl
        /\ sender[t].pc = "ok" => inbox[t].state # "none" /\ sender[t].ttl <= inbox[t].ttl
        /\ \A d \in Drains : drain[d].ticket = t => drain[d].pc \in Hopeful
    BY <2>1 DEF Life, Owed
  <2>3. vault'[t] = vault[t]
    BY <2>1 DEF Still
  <2>4. sender[t].pc = "ok" => inbox'[t].state # "none" /\ inbox'[t].ttl = inbox[t].ttl
    <3>1. sender[t].ttl \in Nat /\ sender[t].ttl > 0 /\ inbox[t].ttl \in Nat
      BY <2>1, RowShape DEF Typed, Tables, Call, Due
    <3> QED BY <2>1, <2>2, <3>1 DEF Still
  <2>5. \A d \in Drains : drain'[d].ticket = t => drain'[d].pc \in Hopeful
    BY <2>1, <2>2 DEF Still, JobStill
  <2> QED BY <2>1, <2>2, <2>3, <2>4, <2>5
<1>3. Scrubbing(t)'
  BY DEF Life, Scrubbing, Still, JobStill, At
<1> QED BY <1>1, <1>2, <1>3 DEF Life

\* The same of a message that may be repeated, while its own call rests.
LEMMA RepeatStands ==
  ASSUME Typed, NEW t \in Tickets, Repeated(t), sender'[t] = sender[t],
         Settled(t) => Settled(t)',
         inbox[t] = Inbox!NoRow => inbox'[t] = Inbox!NoRow,
         vault[t] = Vault!NoRecord => vault'[t] = Vault!NoRecord,
         Lives(t) => Calm(t) /\ Steady(t),
         \A e \in Drains : drain'[e].ticket = t =>
           /\ Present(t)
           /\ Lives(t) /\ ~ Settled(t)' => drain'[e].pc \in Hopeful
  PROVE  Repeated(t)'
<1>1. Present(t)' => Present(t)
  BY DEF Present
<1>2. ASSUME Lives(t)'
      PROVE  /\ Present(t)' \/ sender'[t].pc \in {"adding", "ok"}
                  => vault'[t] # Vault!NoRecord
             /\ vault'[t] # Vault!NoRecord =>
                  /\ vault'[t].status = "active" /\ vault'[t].payload
                  /\ sender'[t].ttl <= vault'[t].ttl
             /\ inbox'[t] # Inbox!NoRow =>
                  inbox'[t].state # "none" /\ sender'[t].ttl <= inbox'[t].ttl
             /\ sender'[t].pc = "ok" => inbox'[t] # Inbox!NoRow
             /\ \A d \in Drains : drain'[d].ticket = t => drain'[d].pc \in Hopeful
             /\ sender'[t].created /\ sender'[t].pc \in {"adding", "cleanup"}
                  => ~ Present(t)'
  <2>1. Lives(t) /\ ~ Settled(t)'
    BY <1>2 DEF Lives
  <2>2. /\ sender[t].ttl \in Nat /\ sender[t].ttl > 0 /\ inbox[t].ttl \in Nat
        /\ vault[t].ttl \in Int
    BY <2>1, RowShape DEF Typed, Tables, Vaults, Vault!Record, Call, Lives
  <2>3. vault'[t] = vault[t]
    BY <2>1, <2>2 DEF Repeated, Steady
  <2>4. inbox[t] # Inbox!NoRow =>
          /\ inbox[t].state # "none" /\ sender[t].ttl <= inbox[t].ttl
          /\ inbox'[t].state # "none" /\ inbox'[t].ttl = inbox[t].ttl
    BY <2>1, <2>2 DEF Repeated, Calm
  <2>5. sender[t].pc = "ok" => inbox'[t] # Inbox!NoRow
    BY <2>1, <2>4, FixedRows DEF Repeated
  <2> QED BY <1>1, <2>1, <2>3, <2>4, <2>5 DEF Repeated
<1>3. vault[t] = Vault!NoRecord /\ ~ Present(t)
        => vault'[t] = Vault!NoRecord /\ ~ Present(t)'
  BY <1>1
<1> QED BY <1>2, <1>3 DEF Repeated

\* No job moves, and the call of t rests.
LEMMA RepeatRests ==
  ASSUME Typed, NEW t \in Tickets, drain' = drain, sender'[t] = sender[t],
         refused' = refused, shown \subseteq shown', Calm(t), Steady(t)
  PROVE  Repeated(t) => Repeated(t)'
<1> SUFFICES ASSUME Repeated(t)
             PROVE  Repeated(t)'
  OBVIOUS
<1>1. /\ Settled(t) => Settled(t)'
      /\ inbox[t] = Inbox!NoRow => inbox'[t] = Inbox!NoRow
      /\ vault[t] = Vault!NoRecord => vault'[t] = Vault!NoRecord
  BY DEF Settled, Calm, Steady
<1>2. \A e \in Drains : drain'[e].ticket = t =>
        Present(t) /\ (Lives(t) => drain'[e].pc \in Hopeful)
  BY DEF Present, Repeated
<1> QED BY <1>1, <1>2, RepeatStands

\* The attempts named stay with their rows.
LEMMA NamesStay ==
  ASSUME Names,
         \A u \in Tickets : Calm(u) \/ inbox'[u] \in {Inbox!NoRow, Inbox!NewRow}
  PROVE  Names'
<1> SUFFICES ASSUME NEW u \in Tickets, inbox'[u].attempt # NoAttempt
             PROVE  \E d \in Drains : inbox'[u].attempt = <<d, u>>
  BY DEF Names
<1>1. inbox'[u].attempt = inbox[u].attempt \/ inbox'[u].attempt \in Drains \X {u}
  BY FixedRows DEF Calm
<1> QED BY <1>1 DEF Names

\* A step of job d alone, with any of the calls it makes.
LEMMA JobStep ==
  ASSUME IInv, NEW d \in Drains, NEW p, NEW k, Moved(d, p, k), sender' = sender,
         p \in Holding \cup {"scrub"} => k \in Tickets,
         p \in {"idle", "queued", "loop"} => k = NoTicket,
         p \in {"sent", "viewed"} => k \in shown',
         p = "scrub" => inbox'[k] = Inbox!NoRow,
         k \in {NoTicket, drain[d].ticket} \/ (p = "claimed" /\ inbox[k] # Inbox!NoRow),
         inbox' \in Tables,
         \A u \in Tickets : Calm(u) \/ inbox'[u] = Inbox!NoRow,
         vault' \in Vaults, alarm' \in Alarms,
         \A u \in Tickets : vault[u] = Vault!NoRecord => vault'[u] = Vault!NoRecord,
         \A u \in Tickets : vault'[u].status = "viewed"
                              => vault[u].status = "viewed" \/ u \in shown',
         ledger' \in Ledgers, Outbox!SentWasShown',
         shown \subseteq shown', shown' \subseteq Tickets,
         refused \subseteq refused', refused' \subseteq Tickets,
         \A u \in Tickets : Wanted(u) =>
           /\ Calm(u) /\ Steady(u)
           /\ k = u /\ ~ Settled(u)' /\ drain[d].ticket = u => p \in Hopeful
  PROVE  IInv' /\ Repeats
<1>1. Typed'
  BY DEF IInv, Typed, Moved
<1>2. Shape'
  BY DEF IInv, Shape, Moved
<1>3. Names'
  BY NamesStay DEF IInv
<1>4. Seen'
  <2>1. ViewedWasShown'
    BY DEF IInv, Seen, ViewedWasShown
  <2>2. \A e \in Drains : drain'[e].pc \in {"sent", "viewed"} => drain'[e].ticket \in shown'
    BY DEF IInv, Seen, Moved
  <2> QED BY <2>1, <2>2 DEF Seen
<1>5. ASSUME NEW t \in Tickets \ Repeatable
      PROVE  Life(t)'
  <2>1. Life(t) /\ Typed
    BY DEF IInv
  <2>2. Settled(t) => Settled(t)'
    BY DEF Settled
  <2>3. inbox[t] = Inbox!NoRow => inbox'[t] = Inbox!NoRow
    BY DEF Calm
  <2>4. Due(t) => /\ vault'[t] = vault[t]
                  /\ inbox[t].state # "none" /\ inbox[t].ttl > 0 =>
                       inbox'[t].state # "none" /\ inbox'[t].ttl = inbox[t].ttl
    <3> SUFFICES ASSUME Due(t)
                 PROVE  /\ vault'[t] = vault[t]
                        /\ inbox[t].state # "none" /\ inbox[t].ttl > 0 =>
                             inbox'[t].state # "none" /\ inbox'[t].ttl = inbox[t].ttl
      OBVIOUS
    <3>1. vault[t].status = "active" /\ sender[t].ttl > 0 /\ sender[t].ttl <= vault[t].ttl
      BY <2>1 DEF Life, Owed, Due
    <3>2. vault[t].ttl \in Int /\ sender[t].ttl \in Int
      BY <2>1 DEF Typed, Vaults, Vault!Record, Call
    <3>3. vault[t].ttl > 0
      BY <3>1, <3>2
    <3>4. Calm(t) /\ Steady(t)
      BY <2>1 DEF Wanted
    <3> QED BY <3>1, <3>3, <3>4 DEF Calm, Steady
  <2>5. ASSUME NEW e \in Drains
        PROVE  JobStill(e, t)
    <3>1. CASE e # d
      BY <3>1 DEF Moved, JobStill
    <3>2. CASE e = d
      <4>1. drain'[d].ticket = k /\ drain'[d].pc = p
        BY DEF Moved
      <4>2. NoTicket \notin Tickets /\ "claimed" \in Hopeful
        BY DeliveryAssumption DEF Hopeful
      <4> QED BY <2>1, <3>2, <4>1, <4>2 DEF JobStill, Wanted
    <3> QED BY <3>1, <3>2
  <2>6. Still(t)
    BY <2>2, <2>3, <2>4, <2>5 DEF Still
  <2> QED BY <2>1, <2>6, StillLives
<1>6. ASSUME NEW t \in Repeatable, Repeated(t)
      PROVE  Repeated(t)'
  <2>1. t \in Tickets /\ Typed /\ NoTicket \notin Tickets /\ "claimed" \in Hopeful
    BY DeliveryAssumption DEF IInv, Hopeful
  <2>2. Settled(t) => Settled(t)'
    BY DEF Settled
  <2>3. inbox[t] = Inbox!NoRow => inbox'[t] = Inbox!NoRow
    BY <2>1 DEF Calm
  <2>4. Lives(t) => Calm(t) /\ Steady(t)
    BY <1>6, <2>1 DEF Wanted
  <2>5. ASSUME NEW e \in Drains, drain'[e].ticket = t
        PROVE  /\ Present(t)
               /\ Lives(t) /\ ~ Settled(t)' => drain'[e].pc \in Hopeful
    <3>1. CASE e # d
      BY <1>6, <2>5, <3>1 DEF Moved, Present, Repeated
    <3>2. CASE e = d
      <4>1. k = t /\ drain'[d].pc = p
        BY <2>5, <3>2 DEF Moved
      <4>2. drain[d].ticket = t \/ (p = "claimed" /\ inbox[t] # Inbox!NoRow)
        BY <2>1, <4>1
      <4>3. Present(t)
        BY <4>2 DEF Present
      <4>4. ASSUME Lives(t), ~ Settled(t)'
            PROVE  p \in Hopeful
        <5>1. Wanted(t)
          BY <1>6, <4>4 DEF Wanted
        <5> QED BY <2>1, <4>1, <4>2, <4>4, <5>1
      <4> QED BY <3>2, <4>1, <4>3, <4>4
    <3> QED BY <3>1, <3>2
  <2> QED BY <1>6, <2>1, <2>2, <2>3, <2>4, <2>5, RepeatStands
<1> QED BY <1>1, <1>2, <1>3, <1>4, <1>5, <1>6 DEF IInv, Repeats

\* A step of the calls in X, with any of the calls they make; no job moves.
LEMMA CallStep ==
  ASSUME IInv, drain' = drain, NEW X \in SUBSET Tickets,
         sender' \in [Tickets -> Call],
         \A u \in Tickets \ X :
           sender'[u] = sender[u] \/ sender'[u].pc \in {"cleanup", "failed"},
         inbox' \in Tables,
         \A u \in Tickets \ X : Calm(u),
         \A u \in X : Calm(u) \/ inbox'[u] = Inbox!NewRow,
         vault' \in Vaults, alarm' \in Alarms,
         \A u \in Tickets \ X : vault[u] = Vault!NoRecord => vault'[u] = Vault!NoRecord,
         \A u \in Tickets : vault'[u].status = "viewed" => vault[u].status = "viewed",
         ledger' \in Ledgers, Outbox!SentWasShown',
         shown \subseteq shown', shown' \subseteq Tickets, refused' = refused,
         \A u \in Tickets \ X : Due(u) => Steady(u),
         \A u \in X \ Repeatable : Life(u)'
  PROVE  IInv'
<1>1. Typed'
  BY DEF IInv, Typed
<1>2. Shape'
  BY DEF IInv, Shape
<1>3. Names'
  BY NamesStay DEF IInv
<1>4. Seen'
  BY DEF IInv, Seen, ViewedWasShown
<1>5. ASSUME NEW t \in Tickets \ Repeatable
      PROVE  Life(t)'
  <2>1. CASE t \in X
    BY <2>1
  <2>2. CASE t \notin X
    <3>1. Life(t) /\ Typed
      BY DEF IInv
    <3>2. (Settled(t) => Settled(t)') /\ (inbox[t] = Inbox!NoRow => inbox'[t] = Inbox!NoRow)
      BY <2>2 DEF Settled, Calm
    <3>3. Due(t) => /\ vault'[t] = vault[t]
                    /\ inbox[t].state # "none" /\ inbox[t].ttl > 0 =>
                         inbox'[t].state # "none" /\ inbox'[t].ttl = inbox[t].ttl
      <4> SUFFICES ASSUME Due(t)
                   PROVE  /\ vault'[t] = vault[t]
                          /\ inbox[t].state # "none" /\ inbox[t].ttl > 0 =>
                               inbox'[t].state # "none" /\ inbox'[t].ttl = inbox[t].ttl
        OBVIOUS
      <4>1. vault[t].status = "active" /\ sender[t].ttl > 0 /\ sender[t].ttl <= vault[t].ttl
        BY <3>1 DEF Life, Owed, Due
      <4>2. vault[t].ttl \in Int /\ sender[t].ttl \in Int
        BY <3>1 DEF Typed, Vaults, Vault!Record, Call
      <4>3. vault[t].ttl > 0
        BY <4>1, <4>2
      <4>4. Calm(t) /\ Steady(t)
        BY <2>2
      <4> QED BY <4>1, <4>3, <4>4 DEF Calm, Steady
    <3>4. \A e \in Drains : JobStill(e, t)
      BY DEF JobStill
    <3>5. sender'[t] = sender[t] \/ sender'[t].pc \in {"cleanup", "failed"}
      BY <2>2
    <3>6. vault[t] = Vault!NoRecord => vault'[t] = Vault!NoRecord
      BY <2>2
    <3>7. Still(t)
      BY <3>2, <3>3, <3>4, <3>5, <3>6 DEF Still
    <3> QED BY <3>1, <3>7, StillLives
  <2> QED BY <2>1, <2>2
<1> QED BY <1>1, <1>2, <1>3, <1>4, <1>5 DEF IInv

-----------------------------------------------------------------------------
(* createSealedTicket. *)

LEMMA BeginInv ==
  ASSUME IInv, NEW t \in Tickets, Begin(t)
  PROVE  IInv'
<1>1. /\ inbox' = inbox /\ vault' = vault /\ alarm' = alarm /\ ledger' = ledger
      /\ shown' = shown /\ refused' = refused /\ drain' = drain
  BY DEF Begin, vaultVars, outboxVars
<1>2. Typed /\ Seen
  BY DEF IInv
<1>3. ASSUME NEW l \in 0..TTL
      PROVE  [pc |-> "storing", created |-> FALSE, ttl |-> l] \in Call
  BY DEF Call, SenderPC
<1>4. /\ sender' \in [Tickets -> Call] /\ sender'[t].pc = "storing"
      /\ \A u \in Tickets \ {t} : sender'[u] = sender[u]
  <2> DEFINE l == IF sender[t].pc = "idle" THEN TTL ELSE sender[t].ttl
  <2>1. l \in 0..TTL
    BY <1>2, DeliveryAssumption DEF Typed, Call
  <2>2. sender' = [sender EXCEPT ![t] = [pc |-> "storing", created |-> FALSE, ttl |-> l]]
    BY DEF Begin
  <2> HIDE DEF l
  <2> QED BY <1>2, <1>3, <2>1, <2>2 DEF Typed
<1>5. ASSUME t \notin Repeatable
      PROVE  Life(t)'
  <2>1. sender[t].pc = "idle" /\ Life(t)
    BY <1>5 DEF Begin, SenderAt, IInv
  <2>2. Unborn(t)'
    BY <1>1, <2>1 DEF Life, Unborn
  <2>3. Owed(t)' /\ Scrubbing(t)'
    BY <1>1, <1>4, <2>1 DEF Life, Owed, Due, Scrubbing, At
  <2> QED BY <2>2, <2>3 DEF Life
<1>6. \A u \in Tickets : Calm(u) /\ Steady(u)
  BY <1>1, <1>2, UnchangedIsCalm, UnchangedIsSteady DEF Typed
<1>7. Outbox!SentWasShown' /\ {t} \in SUBSET Tickets
  BY <1>1, <1>2 DEF Seen, Outbox!SentWasShown
<1>8. /\ inbox' \in Tables /\ vault' \in Vaults /\ alarm' \in Alarms /\ ledger' \in Ledgers
      /\ shown' \subseteq Tickets
  BY <1>1, <1>2 DEF Typed
<1> QED BY ONLY IInv, <1>1, <1>4, <1>5, <1>6, <1>7, <1>8, CallStep

LEMMA StoreInv ==
  ASSUME IInv, NEW t \in Tickets, Store(t)
  PROVE  IInv'
<1>1. /\ inbox' = inbox /\ ledger' = ledger
      /\ shown' = shown /\ refused' = refused /\ drain' = drain
  BY DEF Store, outboxVars
<1>2. Typed /\ Seen
  BY DEF IInv
<1>3. sender[t].pc = "storing" /\ "adding" \in SenderPC
  BY DEF Store, SenderAt, SenderPC
<1>4. Turned(t, "adding")
  BY <1>2, <1>3, CallTurns DEF Store, Typed
<1>5. /\ vault' \in Vaults /\ alarm' \in Alarms
      /\ \A u \in Tickets \ {t} : Steady(u)
      /\ vault'[t].status = "viewed" => vault[t].status = "viewed"
  <2>1. CASE Vault!StoreTicket(t)
    BY <1>2, <2>1, StoreCall, RecordShapes DEF Typed
  <2>2. CASE Vault!StoreExisting(t)
    BY <1>2, <2>2, UnchangedIsSteady DEF Vault!StoreExisting, Typed
  <2> QED BY <2>1, <2>2 DEF Store
<1>6. ASSUME t \notin Repeatable
      PROVE  Life(t)'
  <2>1. /\ inbox[t] = Inbox!NoRow /\ vault[t] = Vault!NoRecord
        /\ \A d \in Drains : drain[d].ticket # t
    BY <1>3, <1>6 DEF IInv, Life, Unborn
  <2>2. ~ Vault!StoreExisting(t)
    BY <2>1, RecordShapes DEF Vault!StoreExisting, Vault!Exists
  <2>3. vault'[t] = Vault!NewRecord
    BY <1>2, <2>2, StoreCall DEF Store, Typed
  <2>4. sender'[t].ttl \in 0..TTL
    BY <1>4 DEF Turned, Call
  <2>5. Unborn(t)'
    BY <1>1, <1>4, <2>1 DEF Unborn, Turned
  <2>6. Owed(t)'
    BY <1>1, <1>4, <2>1, <2>3, <2>4, RecordShapes, DeliveryAssumption
       DEF Owed, Turned
  <2>7. Scrubbing(t)'
    BY <1>1, <2>1 DEF Scrubbing
  <2> QED BY <2>5, <2>6, <2>7 DEF Life
<1>7. \A u \in Tickets : Calm(u)
  BY <1>1, <1>2, UnchangedIsCalm DEF Typed
<1>8. Outbox!SentWasShown' /\ {t} \in SUBSET Tickets
  BY <1>1, <1>2 DEF Seen, Outbox!SentWasShown
<1>9. inbox' \in Tables /\ ledger' \in Ledgers /\ shown' \subseteq Tickets
  BY <1>1, <1>2 DEF Typed
<1>10. /\ sender' \in [Tickets -> Call]
       /\ \A u \in Tickets \ {t} : sender'[u] = sender[u]
  BY <1>4 DEF Turned
<1>11. \A u \in Tickets \ {t} :
         /\ vault[u] = Vault!NoRecord => vault'[u] = Vault!NoRecord
         /\ vault'[u].status = "viewed" => vault[u].status = "viewed"
  BY <1>5 DEF Steady
<1> QED BY ONLY IInv, <1>1, <1>5, <1>6, <1>7, <1>8, <1>9, <1>10, <1>11, CallStep

LEMMA AddInv ==
  ASSUME IInv, NEW t \in Tickets, AddUnread(t) \/ AddThrows(t)
  PROVE  IInv'
<1>1. /\ vault' = vault /\ alarm' = alarm /\ ledger' = ledger
      /\ shown' = shown /\ refused' = refused /\ drain' = drain
  BY DEF AddUnread, AddThrows, vaultVars, outboxVars
<1>2. Typed /\ Seen
  BY DEF IInv
<1>3. sender[t].pc = "adding" /\ "ok" \in SenderPC
  BY DEF AddUnread, AddThrows, SenderAt, SenderPC
<1>4. inbox' \in Tables /\ (\A u \in Tickets \ {t} : Calm(u))
      /\ (Calm(t) \/ inbox'[t] = Inbox!NewRow)
  BY <1>2, AddCalls, UnchangedIsCalm DEF AddUnread, AddThrows, Typed
<1>5. Turned(t, "ok") \/ Turned(t, "cleanup") \/ Turned(t, "failed")
  BY <1>2, <1>3, CallTurns, GivesUp DEF AddUnread, AddThrows, Typed
<1>6. ASSUME t \notin Repeatable
      PROVE  Life(t)'
  <2>1. /\ inbox[t] = Inbox!NoRow /\ Owed(t)
        /\ \A d \in Drains : drain[d].ticket # t
    BY <1>3, <1>6 DEF IInv, Life, Unborn
  <2>2. Unborn(t)' /\ Scrubbing(t)'
    BY <1>1, <1>5, <2>1 DEF Unborn, Scrubbing, Turned
  <2>3. CASE Inbox!AddUnreadItem(t)
    <3>1. inbox'[t] = Inbox!NewRow
      BY <1>2, <2>3, AddCalls DEF Typed
    <3>2. sender[t].ttl \in 0..TTL /\ sender'[t].ttl = sender[t].ttl
      BY <1>2, <1>5 DEF Typed, Call, Turned
    <3>3. Due(t)' => Due(t)
      BY <1>1, <1>3, <3>2 DEF Due, Settled
    <3>4. Owed(t)'
      BY <1>1, <2>1, <3>1, <3>2, <3>3, FixedRows, DeliveryAssumption DEF Owed
    <3> QED BY <2>2, <3>4 DEF Life
  <2>4. CASE sender'[t].pc \in {"cleanup", "failed"}
    <3>1. ~ Due(t)'
      BY <2>4 DEF Due
    <3> QED BY <2>2, <3>1 DEF Life, Owed
  <2>5. ~ Inbox!AddDuplicate(t)
    BY <1>2, <2>1, AddCalls DEF Typed
  <2>6. GiveUp(t) => sender'[t].pc \in {"cleanup", "failed"}
    BY <1>2, GivesUp DEF Turned, Typed
  <2> QED BY <2>3, <2>4, <2>5, <2>6 DEF AddUnread, AddThrows
<1>7. \A u \in Tickets : Steady(u)
  BY <1>1, <1>2, UnchangedIsSteady DEF Typed
<1>8. Outbox!SentWasShown' /\ {t} \in SUBSET Tickets
  BY <1>1, <1>2 DEF Seen, Outbox!SentWasShown
<1>9. vault' \in Vaults /\ alarm' \in Alarms /\ ledger' \in Ledgers /\ shown' \subseteq Tickets
  BY <1>1, <1>2 DEF Typed
<1>10. /\ sender' \in [Tickets -> Call]
       /\ \A u \in Tickets \ {t} : sender'[u] = sender[u]
  BY <1>5 DEF Turned
<1> QED BY ONLY IInv, <1>1, <1>4, <1>6, <1>7, <1>8, <1>9, <1>10, CallStep

\* Cleanup, and the loss of a call.
LEMMA EndInv ==
  ASSUME IInv, NEW t \in Tickets, Cleanup(t) \/ LoseSender(t)
  PROVE  IInv'
<1>1. /\ inbox' = inbox /\ ledger' = ledger
      /\ shown' = shown /\ refused' = refused /\ drain' = drain
  BY DEF Cleanup, LoseSender, outboxVars
<1>2. Typed /\ Seen
  BY DEF IInv
<1>3. Turned(t, "failed")
  BY <1>2, CallTurns DEF Cleanup, LoseSender, Typed, SenderPC
<1>4. /\ vault' \in Vaults /\ alarm' \in Alarms
      /\ \A u \in Tickets :
           /\ vault[u] = Vault!NoRecord => vault'[u] = Vault!NoRecord
           /\ vault'[u].status = "viewed" => vault[u].status = "viewed"
           /\ Due(u) => Steady(u)
  <2>1. CASE Cleanup(t)
    <3>1. ~ Due(t) /\ Vault!DeleteTicket(t)
      BY <2>1 DEF Cleanup, Due, SenderAt
    <3>2. /\ vault' \in Vaults /\ alarm' \in Alarms /\ vault'[t] = Vault!NoRecord
          /\ \A u \in Tickets \ {t} : Steady(u)
      BY <1>2, <3>1, DeleteCall DEF Typed
    <3> QED BY <3>1, <3>2, RecordShapes DEF Steady
  <2>2. CASE LoseSender(t)
    <3>1. vault' = vault /\ alarm' = alarm
      BY <2>2 DEF LoseSender, vaultVars
    <3> QED BY <1>2, <3>1, UnchangedIsSteady DEF Typed
  <2> QED BY <2>1, <2>2
<1>5. \A u \in Tickets : Calm(u)
  BY <1>1, <1>2, UnchangedIsCalm DEF Typed
<1>6. Outbox!SentWasShown' /\ {} \in SUBSET Tickets
  BY <1>1, <1>2 DEF Seen, Outbox!SentWasShown
<1>7. inbox' \in Tables /\ ledger' \in Ledgers /\ shown' \subseteq Tickets
  BY <1>1, <1>2 DEF Typed
<1>8. /\ sender' \in [Tickets -> Call]
      /\ \A u \in Tickets : sender'[u] = sender[u] \/ sender'[u].pc \in {"cleanup", "failed"}
  BY <1>3 DEF Turned
<1> QED BY ONLY IInv, <1>1, <1>4, <1>5, <1>6, <1>7, <1>8, CallStep

-----------------------------------------------------------------------------
(* Everything else that touches the shared state. *)

\* Requests for delivery that find nothing, counts, buttons, alarms, minutes.
LEMMA EnvironmentInv ==
  ASSUME IInv, drain' = drain, sender' = sender, refused' = refused,
         \/ Inbox!GetUnreadSummary \/ Inbox!CleanupExpiredUnreadItems
         \/ Inbox!Minute \/ UNCHANGED inbox,
         \/ \E t \in Tickets :
              Vault!GetExpired(t) \/ Vault!GetFound(t) \/ Vault!GetMissing(t)
         \/ Vault!Alarm \/ UNCHANGED vaultVars,
         (\E t \in Tickets : Outbox!Forget({t})) \/ UNCHANGED <<ledger, shown>>
  PROVE  IInv' /\ Repeats
<1>1. Typed /\ Seen
  BY DEF IInv
<1>2. inbox' \in Tables /\ \A u \in Tickets : Calm(u)
  BY <1>1, QuietCalls DEF Typed
<1>3. vault' \in Vaults /\ alarm' \in Alarms /\ \A u \in Tickets : Steady(u)
  <2>1. CASE \E t \in Tickets :
               Vault!GetExpired(t) \/ Vault!GetFound(t) \/ Vault!GetMissing(t)
    BY <1>1, <2>1, GetCalls DEF Typed
  <2>2. CASE Vault!Alarm
    BY <1>1, <2>2, AlarmCall DEF Typed
  <2>3. CASE UNCHANGED vaultVars
    BY <1>1, <2>3, UnchangedIsSteady DEF Typed, vaultVars
  <2> QED BY <2>1, <2>2, <2>3
<1>4. ledger' \in Ledgers /\ shown' \subseteq Tickets /\ Outbox!SentWasShown'
      /\ shown \subseteq shown'
  <2>1. CASE \E t \in Tickets : Outbox!Forget({t})
    BY <1>1, <2>1, OutboxCalls DEF Typed, Seen
  <2>2. CASE UNCHANGED <<ledger, shown>>
    BY <1>1, <2>2 DEF Typed, Seen, Outbox!SentWasShown
  <2> QED BY <2>1, <2>2
<1>5. \A u \in Tickets :
        /\ vault[u] = Vault!NoRecord => vault'[u] = Vault!NoRecord
        /\ vault'[u].status = "viewed" => vault[u].status = "viewed"
  BY <1>3 DEF Steady
<1>6. sender' \in [Tickets -> Call] /\ {} \in SUBSET Tickets
  BY <1>1 DEF Typed
<1>7. Repeats
  BY <1>1, <1>2, <1>3, <1>4, RepeatRests, DeliveryAssumption DEF Repeats
<1> QED BY <1>2, <1>3, <1>4, <1>5, <1>6, <1>7, CallStep

\* A day is a day for every row, record and call.
LEMMA DayInv ==
  ASSUME IInv, Day
  PROVE  IInv'
<1>1. Typed /\ Seen /\ drain' = drain /\ refused' = refused
  BY DEF IInv, Day
<1>2. inbox' \in Tables
      /\ \A u \in Tickets :
           /\ inbox'[u].state = inbox[u].state /\ inbox'[u].attempt = inbox[u].attempt
           /\ inbox'[u].ttl = IF inbox[u].ttl > 0 THEN inbox[u].ttl - 1 ELSE 0
           /\ inbox[u] = Inbox!NoRow => inbox'[u] = Inbox!NoRow
  <2>1. \A u \in Tickets :
          inbox[u] \in Inbox!Row /\ inbox'[u] = [inbox[u] EXCEPT !.ttl = Inbox!Elapse(@)]
    BY <1>1 DEF Day, Inbox!Day, Typed, Tables
  <2>2. \A u \in Tickets : inbox'[u] \in Inbox!Row
    BY <2>1, ElapsedRow
  <2>3. inbox' \in Tables
    BY <2>2 DEF Day, Inbox!Day, Tables
  <2>4. ASSUME NEW u \in Tickets
        PROVE  /\ inbox'[u].state = inbox[u].state /\ inbox'[u].attempt = inbox[u].attempt
               /\ inbox'[u].ttl = IF inbox[u].ttl > 0 THEN inbox[u].ttl - 1 ELSE 0
    BY <2>1, ElapsedRow
  <2>5. ASSUME NEW u \in Tickets, inbox[u] = Inbox!NoRow
        PROVE  inbox'[u] = Inbox!NoRow
    BY <2>1, <2>5 DEF Inbox!NoRow, Inbox!Elapse
  <2> QED BY <2>3, <2>4, <2>5
<1>3. vault' \in Vaults
      /\ \A u \in Tickets :
           /\ vault'[u].status = vault[u].status /\ vault'[u].payload = vault[u].payload
           /\ vault'[u].route = vault[u].route
           /\ vault'[u].ttl = IF vault[u].ttl > -1 THEN vault[u].ttl - 1 ELSE vault[u].ttl
           /\ vault[u] = Vault!NoRecord => vault'[u] = Vault!NoRecord
  <2>1. \A u \in Tickets :
          /\ vault[u] \in Vault!Record
          /\ vault'[u] = [vault[u] EXCEPT !.ttl = IF @ > -1 THEN @ - 1 ELSE @]
    BY <1>1 DEF Day, Vault!Day, Typed, Vaults
  <2>2. ASSUME NEW u \in Tickets
        PROVE  /\ vault'[u] \in Vault!Record
               /\ vault'[u].status = vault[u].status /\ vault'[u].payload = vault[u].payload
               /\ vault'[u].route = vault[u].route
               /\ vault'[u].ttl = IF vault[u].ttl > -1 THEN vault[u].ttl - 1 ELSE vault[u].ttl
    <3>1. vault[u].ttl \in -1..TTL /\ TTL \in Nat
      BY <2>1, DeliveryAssumption DEF Vault!Record
    <3>2. (IF vault[u].ttl > -1 THEN vault[u].ttl - 1 ELSE vault[u].ttl) \in -1..TTL
      BY <3>1
    <3> QED BY <2>1, <3>2 DEF Vault!Record
  <2>3. ASSUME NEW u \in Tickets, vault[u] = Vault!NoRecord
        PROVE  vault'[u] = Vault!NoRecord
    BY <2>1, <2>3 DEF Vault!NoRecord
  <2>4. vault' \in Vaults
    BY <2>2 DEF Day, Vault!Day, Vaults
  <2> QED BY <2>2, <2>3, <2>4
<1>4. alarm' \in Alarms
  <2>1. CASE alarm # NoAlarm /\ alarm > 0
    <3>1. alarm \in 0..TTL /\ alarm' = alarm - 1
      BY <1>1, <2>1 DEF Day, Vault!Day, Typed, Alarms
    <3> QED BY <2>1, <3>1, DeliveryAssumption DEF Alarms
  <2>2. CASE ~ (alarm # NoAlarm /\ alarm > 0)
    BY <1>1, <2>2 DEF Day, Vault!Day, Typed
  <2> QED BY <2>1, <2>2
<1>5. ledger' \in Ledgers /\ Outbox!SentWasShown' /\ shown' = shown
  <2>1. CASE Tickets = {}
    BY <1>1, <2>1 DEF Day, Outbox!Day, Typed, Ledgers, Outbox!SentWasShown
  <2>2. CASE Tickets # {}
    <3>1. PICK t \in Tickets : TRUE
      BY <2>2
    <3> QED BY <1>1, <3>1, OutboxCalls DEF Day, Outbox!Day, Typed, Seen
  <2> QED BY <2>1, <2>2
<1>6. sender' \in [Tickets -> Call]
      /\ \A u \in Tickets :
           /\ sender'[u].pc = sender[u].pc
           /\ sender'[u].ttl = IF sender[u].ttl > 0 THEN sender[u].ttl - 1 ELSE 0
  <2>1. \A u \in Tickets :
          /\ sender[u] \in Call
          /\ sender'[u] = [sender[u] EXCEPT !.ttl = IF @ > 0 THEN @ - 1 ELSE 0]
    BY <1>1 DEF Day, Typed
  <2>2. ASSUME NEW u \in Tickets
        PROVE  /\ sender'[u] \in Call /\ sender'[u].pc = sender[u].pc
               /\ sender'[u].ttl = IF sender[u].ttl > 0 THEN sender[u].ttl - 1 ELSE 0
    <3>1. sender[u].ttl \in 0..TTL /\ TTL \in Nat
      BY <2>1, DeliveryAssumption DEF Call
    <3>2. (IF sender[u].ttl > 0 THEN sender[u].ttl - 1 ELSE 0) \in 0..TTL
      BY <3>1
    <3> QED BY <2>1, <3>2 DEF Call
  <2> QED BY <2>2 DEF Day
<1>7. Typed'
  BY <1>1, <1>2, <1>3, <1>4, <1>5, <1>6 DEF Typed
<1>8. Shape' /\ Names'
  BY <1>1, <1>2 DEF IInv, Shape, Names
<1>9. Seen'
  BY <1>1, <1>3, <1>5 DEF Seen, ViewedWasShown
<1>10. ASSUME NEW t \in Tickets \ Repeatable
       PROVE  Life(t)'
  <2>1. Life(t)
    BY DEF IInv
  <2>2. Unborn(t)' /\ Scrubbing(t)'
    BY <1>1, <1>2, <1>3, <1>6, <2>1 DEF Life, Unborn, Scrubbing, At
  <2>3. Owed(t)'
    <3>1. sender[t].ttl \in Nat /\ inbox[t].ttl \in Nat /\ vault[t].ttl \in Int
      BY <1>1, RowShape DEF Typed, Tables, Vaults, Vault!Record, Call
    <3>2. Due(t)' => Due(t) /\ sender'[t].ttl = sender[t].ttl - 1
      BY <1>1, <1>5, <1>6, <3>1 DEF Due, Settled
    <3>3. Due(t)' => vault'[t].ttl = vault[t].ttl - 1
      BY <1>3, <2>1, <3>1, <3>2 DEF Life, Owed, Due
    <3>4. Due(t)' /\ sender[t].pc = "ok" =>
            inbox'[t].ttl = inbox[t].ttl - 1 /\ inbox'[t].state # "none"
      BY <1>2, <2>1, <3>1, <3>2 DEF Life, Owed, Due
    <3>5. ASSUME Due(t)'
          PROVE  /\ vault'[t].status = "active" /\ vault'[t].payload /\ vault'[t].route
                 /\ sender'[t].ttl <= vault'[t].ttl
                 /\ sender'[t].pc = "ok" =>
                      inbox'[t].state # "none" /\ sender'[t].ttl <= inbox'[t].ttl
                 /\ \A d \in Drains : drain'[d].ticket = t => drain'[d].pc \in Hopeful
      <4>1. /\ vault[t].status = "active" /\ vault[t].payload /\ vault[t].route
            /\ sender[t].ttl <= vault[t].ttl
            /\ sender[t].pc = "ok" => sender[t].ttl <= inbox[t].ttl
            /\ \A d \in Drains : drain[d].ticket = t => drain[d].pc \in Hopeful
        BY <2>1, <3>2, <3>5 DEF Life, Owed
      <4>2. sender'[t].ttl <= vault'[t].ttl
        BY <3>1, <3>2, <3>3, <3>5, <4>1
      <4>3. sender'[t].pc = "ok" =>
              inbox'[t].state # "none" /\ sender'[t].ttl <= inbox'[t].ttl
        BY <1>6, <3>1, <3>2, <3>4, <3>5, <4>1
      <4> QED BY <1>1, <1>3, <4>1, <4>2, <4>3
    <3> QED BY <3>5 DEF Owed
  <2> QED BY <2>2, <2>3 DEF Life
<1> QED BY <1>7, <1>8, <1>9, <1>10 DEF IInv

-----------------------------------------------------------------------------
(* Drain jobs. *)

LEMMA Unmoved ==
  ASSUME IInv
  PROVE  /\ UNCHANGED inbox => inbox' \in Tables /\ \A u \in Tickets : Calm(u)
         /\ UNCHANGED vaultVars =>
              vault' \in Vaults /\ alarm' \in Alarms /\ \A u \in Tickets : Steady(u)
         /\ UNCHANGED <<ledger, shown>> =>
              /\ ledger' \in Ledgers /\ Outbox!SentWasShown'
              /\ shown \subseteq shown' /\ shown' \subseteq Tickets
BY UnchangedIsCalm, UnchangedIsSteady
   DEF IInv, Typed, Seen, vaultVars, Outbox!SentWasShown

\* Steps that only the job itself notices: it takes a new turn, or gives up.
LoneStep(d) ==
  \/ StartDrain(d) \/ LimitReached(d) \/ ResolveThrows(d)
  \/ ScrubFails(d) \/ Throws(d) \/ Requeue(d) \/ LoseDrain(d)

LEMMA LoneMoves ==
  ASSUME IInv, NEW d \in Drains, LoneStep(d)
  PROVE  \E p, k :
           /\ Moved(d, p, k)
           /\ \/ p \in {"loop", "idle", "queued"} /\ k = NoTicket
              \/ p \in {"release", "retry"} /\ k = drain[d].ticket
                 /\ (p = "release" => drain[d].pc = "claimed")
<1>0. drain \in [Drains -> Job] /\ drain[d] \in Job
  BY DEF IInv, Typed
<1>1. CASE StartDrain(d)
  <2>1. /\ drain[d].pc = "queued" /\ drain[d].ticket = NoTicket
        /\ drain' = [drain EXCEPT ![d] = [drain[d] EXCEPT !.pc = "loop",
                                                          !.left = INBOX_DELIVERY_LIMIT]]
    BY <1>0, <1>1 DEF StartDrain, At, IInv, Shape
  <2>2. "loop" \in DrainPC /\ INBOX_DELIVERY_LIMIT \in 0..INBOX_DELIVERY_LIMIT
    BY DeliveryAssumption DEF DrainPC
  <2>3. [drain[d] EXCEPT !.pc = "loop", !.left = INBOX_DELIVERY_LIMIT] \in Job
    BY <1>0, <2>2 DEF Job
  <2>4. drain'[d] = [drain[d] EXCEPT !.pc = "loop", !.left = INBOX_DELIVERY_LIMIT]
    BY <1>0, <2>1
  <2>5. drain'[d].pc = "loop" /\ drain'[d].ticket = NoTicket
    BY <1>0, <2>1, <2>4 DEF Job
  <2>6. Moved(d, "loop", NoTicket)
    BY <1>0, <2>1, <2>3, <2>5 DEF Moved
  <2> QED BY <2>6
<1>2. CASE LimitReached(d)
  BY <1>0, <1>2, JobMoves DEF LimitReached
<1>3. CASE ResolveThrows(d)
  <2>1. "release" \in DrainPC
    BY DEF DrainPC, Holding
  <2>2. Moved(d, "release", drain[d].ticket) /\ drain[d].pc = "claimed"
    BY <1>0, <1>3, <2>1, JobMoves DEF ResolveThrows, At
  <2> QED BY <2>2
<1>4. CASE ScrubFails(d)
  BY <1>0, <1>4, JobMoves DEF ScrubFails
<1>5. CASE Throws(d)
  <2>1. "retry" \in DrainPC
    BY DEF DrainPC
  <2>2. Moved(d, "retry", drain[d].ticket)
    BY <1>0, <1>5, <2>1, JobMoves DEF Throws
  <2> QED BY <2>2
<1>6. CASE Requeue(d) \/ LoseDrain(d)
  BY <1>0, <1>6, JobMoves DEF Requeue, LoseDrain
<1> QED BY <1>1, <1>2, <1>3, <1>4, <1>5, <1>6 DEF LoneStep

LEMMA LoneInv ==
  ASSUME IInv, NEW d \in Drains, LoneStep(d)
  PROVE  IInv' /\ Repeats
<1>1. /\ inbox' = inbox /\ UNCHANGED vaultVars /\ UNCHANGED outboxVars /\ sender' = sender
  BY DEF LoneStep, StartDrain, LimitReached, ResolveThrows, ScrubFails, Throws, Requeue,
         LoseDrain
<1>2. UNCHANGED <<ledger, shown>> /\ refused' = refused
  BY <1>1 DEF outboxVars
<1>3. Typed /\ drain \in [Drains -> Job] /\ refused \subseteq Tickets /\ drain[d] \in Job
  BY DEF IInv, Typed
<1>4. PICK p, k : /\ Moved(d, p, k)
                  /\ \/ p \in {"loop", "idle", "queued"} /\ k = NoTicket
                     \/ p \in {"release", "retry"} /\ k = drain[d].ticket
                        /\ (p = "release" => drain[d].pc = "claimed")
  BY LoneMoves
<1>5. p = "release" => k \in Tickets
  BY <1>4 DEF IInv, Shape, Holding
<1>6. p \in {"release", "retry"} => p \in Hopeful
  BY DEF Hopeful
<1>7. p \in Holding \cup {"scrub"} => p = "release"
  BY <1>4 DEF Holding
<1>8. NoTicket \notin Tickets
  BY DeliveryAssumption
<1>9. /\ inbox' \in Tables /\ \A u \in Tickets : Calm(u)
      /\ vault' \in Vaults /\ alarm' \in Alarms /\ \A u \in Tickets : Steady(u)
      /\ ledger' \in Ledgers /\ Outbox!SentWasShown'
      /\ shown \subseteq shown' /\ shown' \subseteq Tickets
  BY <1>1, <1>2, Unmoved
<1>10. \A u \in Tickets :
         /\ vault[u] = Vault!NoRecord => vault'[u] = Vault!NoRecord
         /\ vault'[u].status = "viewed" => vault[u].status = "viewed"
  BY <1>9 DEF Steady
<1>11. p \notin {"sent", "viewed", "scrub"} /\ (p \in {"idle", "queued", "loop"} => k = NoTicket)
       /\ (k = NoTicket \/ p \in Hopeful) /\ k \in {NoTicket, drain[d].ticket}
  BY <1>4, <1>6
<1> QED BY ONLY IInv, <1>1, <1>2, <1>3, <1>4, <1>5, <1>7, <1>8, <1>9, <1>10, <1>11, JobStep

\* requestUnreadDelivery.
LEMMA RequestMoves ==
  ASSUME IInv, NEW d \in Drains, RequestDelivery(d)
  PROVE  UNCHANGED drain \/ Moved(d, "queued", NoTicket)
<1>1. drain \in [Drains -> Job]
  BY DEF IInv, Typed
<1>2. [pc |-> "queued", ticket |-> NoTicket, tries |-> 0, left |-> 0] \in Job
  BY DeliveryAssumption DEF Job, DrainPC
<1> QED BY <1>1, <1>2 DEF RequestDelivery, Moved

LEMMA RequestInv ==
  ASSUME IInv, NEW d \in Drains, RequestDelivery(d)
  PROVE  IInv' /\ Repeats
<1>1. /\ UNCHANGED vaultVars /\ UNCHANGED <<ledger, shown>> /\ refused' = refused
      /\ sender' = sender /\ Inbox!CleanupExpiredUnreadItems
  BY DEF RequestDelivery, outboxVars
<1>2. Typed /\ drain \in [Drains -> Job]
  BY DEF IInv, Typed
<1>3. CASE UNCHANGED drain
  BY <1>1, <1>3, EnvironmentInv
<1>4. CASE ~ UNCHANGED drain
  <2>3. Moved(d, "queued", NoTicket)
    BY <1>4, RequestMoves
  <2>4. inbox' \in Tables /\ \A u \in Tickets : Calm(u)
    BY <1>1, <1>2, QuietCalls DEF Typed
  <2>5. /\ vault' \in Vaults /\ alarm' \in Alarms /\ \A u \in Tickets : Steady(u)
        /\ ledger' \in Ledgers /\ Outbox!SentWasShown'
        /\ shown \subseteq shown' /\ shown' \subseteq Tickets
    BY <1>1, Unmoved
  <2>6. \A u \in Tickets :
          /\ vault[u] = Vault!NoRecord => vault'[u] = Vault!NoRecord
          /\ vault'[u].status = "viewed" => vault[u].status = "viewed"
    BY <2>5 DEF Steady
  <2>7. refused' \subseteq Tickets /\ "queued" \notin Holding \cup {"scrub"}
        /\ NoTicket \notin Tickets
    BY <1>1, <1>2, DeliveryAssumption DEF Typed, Holding
  <2> QED BY ONLY IInv, <1>1, <2>3, <2>4, <2>5, <2>6, <2>7, JobStep
<1> QED BY <1>3, <1>4

\* The call to claimNextUnreadItem.
Claims(d, t) ==
  /\ Inbox!ClaimUnread(t, <<d, t>>)
  /\ drain' = [drain EXCEPT ![d].pc = "claimed", ![d].ticket = t, ![d].left = @ - 1]

LEMMA ClaimMoves ==
  ASSUME drain \in [Drains -> Job], NEW d \in Drains, NEW t \in Tickets,
         drain[d].left > 0, Claims(d, t)
  PROVE  Moved(d, "claimed", t)
<1> DEFINE l == drain[d].left - 1
<1>1. l \in 0..INBOX_DELIVERY_LIMIT /\ "claimed" \in DrainPC
  BY DeliveryAssumption DEF Job, DrainPC, Holding
<1>2. drain' = [drain EXCEPT ![d] = [drain[d] EXCEPT !.pc = "claimed", !.ticket = t,
                                                     !.left = l]]
  BY DEF Job, Claims
<1> HIDE DEF l
<1>3. [drain[d] EXCEPT !.pc = "claimed", !.ticket = t, !.left = l] \in Job
  BY <1>1 DEF Job
<1>4. drain'[d] = [drain[d] EXCEPT !.pc = "claimed", !.ticket = t, !.left = l]
  BY <1>2
<1>5. drain'[d].pc = "claimed" /\ drain'[d].ticket = t
  BY <1>4 DEF Job
<1> QED BY <1>2, <1>3, <1>5 DEF Moved

LEMMA ClaimInv ==
  ASSUME IInv, NEW d \in Drains, ClaimNext(d)
  PROVE  IInv' /\ Repeats
<1>1. /\ UNCHANGED vaultVars /\ UNCHANGED <<ledger, shown>> /\ refused' = refused
      /\ sender' = sender /\ drain[d].pc = "loop" /\ drain[d].left > 0
  BY DEF ClaimNext, outboxVars, At
<1>2. Typed /\ drain \in [Drains -> Job] /\ drain[d] \in Job
  BY DEF IInv, Typed
<1>3. PICK p, k : /\ Moved(d, p, k)
                  /\ \/ p = "claimed" /\ k \in Tickets /\ inbox[k] # Inbox!NoRow
                     \/ p = "idle" /\ k = NoTicket
                  /\ inbox' \in Tables /\ \A u \in Tickets : Calm(u)
  <2>1. CASE Inbox!ClaimNothing /\ drain' = [drain EXCEPT ![d] = Acked]
    BY <1>2, <2>1, ClaimCalls, JobMoves DEF Typed
  <2>2. ASSUME NEW t \in Tickets, Claims(d, t)
        PROVE  /\ Moved(d, "claimed", t) /\ inbox[t] # Inbox!NoRow
               /\ inbox' \in Tables /\ \A u \in Tickets : Calm(u)
    BY <1>1, <1>2, <2>2, ClaimMoves, ClaimCalls DEF Typed, Claims
  <2> QED BY <2>1, <2>2 DEF ClaimNext, Claims
<1>4. /\ vault' \in Vaults /\ alarm' \in Alarms /\ \A u \in Tickets : Steady(u)
      /\ ledger' \in Ledgers /\ Outbox!SentWasShown'
      /\ shown \subseteq shown' /\ shown' \subseteq Tickets
  BY <1>1, Unmoved
<1>5. \A u \in Tickets :
        /\ vault[u] = Vault!NoRecord => vault'[u] = Vault!NoRecord
        /\ vault'[u].status = "viewed" => vault[u].status = "viewed"
  BY <1>4 DEF Steady
<1>6. refused' \subseteq Tickets /\ "idle" \notin Holding \cup {"scrub"}
      /\ NoTicket \notin Tickets /\ "claimed" \in Hopeful
  BY <1>1, <1>2, DeliveryAssumption DEF Typed, Holding, Hopeful
<1> QED BY ONLY IInv, <1>1, <1>3, <1>4, <1>5, <1>6, JobStep

\* A job that has a ticket.
LEMMA AtWork ==
  ASSUME IInv, NEW d \in Drains, drain[d].pc \in Holding \cup {"scrub"}
  PROVE  /\ drain[d].ticket \in Tickets /\ drain[d].ticket # NoTicket
         /\ Attempt(d) \in Drains \X Tickets
         /\ drain \in [Drains -> Job] /\ refused \subseteq Tickets
BY DeliveryAssumption DEF IInv, Shape, Typed, Attempt

\* A job at a message that nobody may drop.
LEMMA WantedAtWork ==
  ASSUME IInv, NEW d \in Drains, NEW t \in Tickets, drain[d].ticket = t, Wanted(t)
  PROVE  /\ drain[d].pc \in Hopeful /\ ~ Settled(t)
         /\ vault[t].status = "active" /\ vault[t].payload /\ vault[t].ttl > 0
<1>1. /\ drain[d].pc \in Hopeful /\ ~ Settled(t) /\ sender[t].ttl > 0
      /\ vault[t].status = "active" /\ vault[t].payload /\ sender[t].ttl <= vault[t].ttl
  <2>1. CASE Due(t) /\ Life(t)
    BY <2>1 DEF Due, Life, Owed
  <2>2. CASE Lives(t) /\ Repeated(t)
    BY <2>2 DEF Lives, Repeated, Present
  <2> QED BY <2>1, <2>2 DEF Wanted
<1>2. sender[t].ttl \in Int /\ vault[t].ttl \in Int
  BY DEF IInv, Typed, Vaults, Vault!Record, Call
<1> QED BY <1>1, <1>2

\* openUnreadCapability and resolveTicketAction.
LEMMA ResolveInv ==
  ASSUME IInv, NEW d \in Drains, Resolve(d)
  PROVE  IInv' /\ Repeats
<1> DEFINE t == drain[d].ticket
<1>1. /\ inbox' = inbox /\ UNCHANGED <<ledger, shown>> /\ refused' = refused
      /\ sender' = sender /\ drain[d].pc = "claimed"
  BY DEF Resolve, outboxVars, At
<1>2. t \in Tickets /\ t # NoTicket /\ drain \in [Drains -> Job] /\ refused \subseteq Tickets
  BY <1>1, AtWork DEF Holding
<1>3. PICK p \in {"orphanSealed", "orphan", "resolved"} :
        /\ Goto(d, p)
        /\ Wanted(t) => p = "resolved"
  <2>1. Wanted(t) => /\ vault[t].status = "active" /\ vault[t].payload
                             /\ vault[t].ttl > 0 /\ t \notin Malformed \cup Undeliverable
    BY <1>2, WantedAtWork DEF Settled
  <2>2. ASSUME t \in Malformed, Goto(d, "orphanSealed")
        PROVE  Wanted(t) => "orphanSealed" = "resolved"
    BY <2>1, <2>2
  <2>3. ASSUME Vault!GetMissing(t) \/ Vault!GetExpired(t)
        PROVE  ~ (Wanted(t))
    <3>1. vault[t].ttl \in Int
      BY <1>2 DEF IInv, Typed, Vaults, Vault!Record
    <3> QED BY <2>1, <2>3, <3>1 DEF Vault!GetMissing, Vault!GetExpired, Vault!ReadsAsExpired, Vault!Exists
  <2>4. \/ t \in Malformed /\ Goto(d, "orphanSealed")
        \/ (Vault!GetMissing(t) \/ Vault!GetExpired(t)) /\ Goto(d, "orphan")
        \/ Goto(d, IF /\ vault[t].status = "active" /\ vault[t].payload
                      /\ t \notin Undeliverable
                   THEN "resolved" ELSE "orphan")
    BY DEF Resolve
  <2> QED BY <2>1, <2>2, <2>3, <2>4
<1>4. Moved(d, p, t)
  <2>1. p \in DrainPC
    BY <1>3 DEF DrainPC, Holding
  <2> QED BY <1>2, <1>3, <2>1, JobMoves
<1>5. vault' \in Vaults /\ alarm' \in Alarms /\ \A u \in Tickets : Steady(u)
  <2>1. CASE UNCHANGED vaultVars
    BY <2>1, Unmoved
  <2>2. CASE Vault!GetMissing(t) \/ Vault!GetExpired(t) \/ Vault!GetFound(t)
    BY <1>2, <2>2, GetCalls DEF IInv, Typed
  <2> QED BY <2>1, <2>2 DEF Resolve
<1>6. /\ inbox' \in Tables /\ \A u \in Tickets : Calm(u)
      /\ ledger' \in Ledgers /\ Outbox!SentWasShown'
      /\ shown \subseteq shown' /\ shown' \subseteq Tickets
  BY <1>1, Unmoved
<1>7. \A u \in Tickets :
        /\ vault[u] = Vault!NoRecord => vault'[u] = Vault!NoRecord
        /\ vault'[u].status = "viewed" => vault[u].status = "viewed"
  BY <1>5 DEF Steady
<1>8. p \notin {"sent", "viewed", "scrub", "idle", "queued", "loop"} /\ "resolved" \in Hopeful
  BY <1>3 DEF Hopeful
<1> HIDE DEF t
<1>9. t = drain[d].ticket
  BY DEF t
<1> QED BY ONLY IInv, <1>1, <1>2, <1>3, <1>4, <1>5, <1>6, <1>7, <1>8, <1>9, JobStep

\* sendViaOutboxDo, whatever becomes of it.
LEMMA SendInv ==
  ASSUME IInv, NEW d \in Drains, SendAnswered(d) \/ SendRetry(d)
  PROVE  IInv' /\ Repeats
<1> DEFINE t == drain[d].ticket
<1>1. /\ inbox' = inbox /\ UNCHANGED vaultVars
      /\ sender' = sender /\ drain[d].pc = "resolved"
  BY DEF SendAnswered, SendRetry, At
<1>2. t \in Tickets /\ t # NoTicket /\ drain \in [Drains -> Job] /\ refused \subseteq Tickets
  BY <1>1, AtWork DEF Holding
<1>3. Outbox!SentWasShown /\ ledger \in Ledgers /\ shown \subseteq Tickets
  BY DEF IInv, Seen, Typed
<1>4. \/ Outbox!Show(t) \/ Outbox!Send(t) \/ Outbox!Refuse(t) \/ UNCHANGED <<ledger, shown>>
  BY DEF SendAnswered, SendRetry
<1>5. /\ ledger' \in Ledgers /\ Outbox!SentWasShown'
      /\ shown \subseteq shown' /\ shown' \subseteq Tickets
      /\ Outbox!Send(t) => t \in shown'
  BY <1>2, <1>3, <1>4, OutboxCalls
<1>6. refused' \in {refused, refused \cup {t}}
  BY DEF SendAnswered, SendRetry
<1>7. PICK p \in {"sent", "orphan", "release"} :
        /\ Goto(d, p)
        /\ p = "sent" => t \in shown'
        /\ p = "orphan" => t \in refused'
  <2>1. CASE SendRetry(d)
    BY <2>1 DEF SendRetry
  <2>2. CASE SendAnswered(d)
    <3>1. ledger[t].state = "sent" => t \in shown'
      BY <1>2, <1>3, <1>5 DEF Outbox!SentWasShown
    <3>2. \/ Goto(d, "sent") /\ (Outbox!Send(t) \/ ledger[t].state = "sent")
          \/ Goto(d, "orphan") /\ t \in refused'
      BY <2>2 DEF SendAnswered
    <3> QED BY <1>5, <3>1, <3>2
  <2> QED BY <2>1, <2>2
<1>8. Moved(d, p, t)
  <2>1. p \in DrainPC
    BY <1>7 DEF DrainPC, Holding
  <2> QED BY <1>2, <1>7, <2>1, JobMoves
<1>9. /\ inbox' \in Tables /\ \A u \in Tickets : Calm(u)
      /\ vault' \in Vaults /\ alarm' \in Alarms /\ \A u \in Tickets : Steady(u)
  BY <1>1, Unmoved
<1>10. \A u \in Tickets :
         /\ vault[u] = Vault!NoRecord => vault'[u] = Vault!NoRecord
         /\ vault'[u].status = "viewed" => vault[u].status = "viewed"
  BY <1>9 DEF Steady
<1>11. p \notin {"viewed", "scrub", "idle", "queued", "loop"}
       /\ refused \subseteq refused' /\ refused' \subseteq Tickets
  BY <1>2, <1>6, <1>7
<1>12. \A u : u = t /\ ~ Settled(u)' => p \in Hopeful
  BY <1>7 DEF Hopeful, Settled
<1> HIDE DEF t
<1>13. t = drain[d].ticket
  BY DEF t
<1> QED BY ONLY IInv, <1>1, <1>2, <1>5, <1>7, <1>8, <1>9, <1>10, <1>11, <1>12, <1>13, JobStep

\* markResolvedTicketViewed and the deletion of an orphan's record.
LEMMA VaultInv ==
  ASSUME IInv, NEW d \in Drains, MarkViewed(d) \/ ScrubVault(d)
  PROVE  IInv' /\ Repeats
<1> DEFINE t == drain[d].ticket
<1>1. /\ inbox' = inbox /\ UNCHANGED <<ledger, shown>> /\ refused' = refused
      /\ sender' = sender /\ drain[d].pc \in {"sent", "scrub"}
  BY DEF MarkViewed, ScrubVault, outboxVars, At
<1>2. t \in Tickets /\ t # NoTicket /\ drain \in [Drains -> Job] /\ refused \subseteq Tickets
  BY <1>1, AtWork DEF Holding
<1>3. /\ inbox' \in Tables /\ \A u \in Tickets : Calm(u)
      /\ ledger' \in Ledgers /\ Outbox!SentWasShown'
      /\ shown \subseteq shown' /\ shown' \subseteq Tickets
  BY <1>1, Unmoved
<1>4. ~ (Wanted(t))
  <2>1. CASE drain[d].pc = "sent"
    <3>1. t \in shown
      BY <2>1 DEF IInv, Seen
    <3> QED BY <1>2, <3>1, WantedAtWork DEF Settled
  <2>2. CASE drain[d].pc = "scrub"
    BY <1>2, <2>2, WantedAtWork DEF Hopeful
  <2> QED BY <1>1, <2>1, <2>2
<1>5. PICK p, k : /\ Moved(d, p, k)
                  /\ \/ p = "viewed" /\ k = t /\ t \in shown'
                     \/ p = "loop" /\ k = NoTicket
                  /\ vault' \in Vaults /\ alarm' \in Alarms
                  /\ vault[t] = Vault!NoRecord => vault'[t] = Vault!NoRecord
                  /\ vault'[t].status = "viewed" => t \in shown'
                  /\ \A u \in Tickets \ {t} : Steady(u)
  <2>1. CASE MarkViewed(d)
    <3>1. drain[d].pc = "sent" /\ Vault!MarkViewed(t) /\ Goto(d, "viewed")
          /\ "viewed" \in DrainPC
      BY <2>1 DEF MarkViewed, At, DrainPC, Holding
    <3>2. t \in shown'
      BY <1>3, <3>1 DEF IInv, Seen
    <3>3. Moved(d, "viewed", t)
      BY <1>2, <3>1, JobMoves
    <3>4. /\ vault' \in Vaults /\ alarm' \in Alarms
          /\ vault[t] = Vault!NoRecord => vault'[t] = Vault!NoRecord
          /\ \A u \in Tickets \ {t} : Steady(u)
      BY <1>2, <3>1, MarkCall DEF IInv, Typed
    <3> QED BY <3>2, <3>3, <3>4
  <2>2. CASE ScrubVault(d)
    <3>1. Vault!DeleteTicket(t) /\ NextItem(d)
      BY <2>2 DEF ScrubVault
    <3>2. Moved(d, "loop", NoTicket)
      BY <1>2, <3>1, JobMoves
    <3>3. /\ vault' \in Vaults /\ alarm' \in Alarms /\ vault'[t] = Vault!NoRecord
          /\ \A u \in Tickets \ {t} : Steady(u)
      BY <1>2, <3>1, DeleteCall DEF IInv, Typed
    <3> QED BY <3>2, <3>3, RecordShapes
  <2> QED BY <2>1, <2>2
<1>6. \A u \in Tickets :
        /\ vault[u] = Vault!NoRecord => vault'[u] = Vault!NoRecord
        /\ vault'[u].status = "viewed" => vault[u].status = "viewed" \/ u \in shown'
  BY <1>5 DEF Steady
<1>7. \A u \in Tickets : Wanted(u) => Calm(u) /\ Steady(u) /\ u # t
  BY <1>3, <1>4, <1>5
<1> HIDE DEF t
<1>8. t = drain[d].ticket
  BY DEF t
<1>9. p \notin {"sent", "scrub", "claimed", "idle", "queued"}
  BY <1>5
<1>10. p \in Holding \cup {"scrub"} => p = "viewed"
  BY <1>5 DEF Holding
<1> QED BY ONLY IInv, <1>1, <1>2, <1>3, <1>5, <1>6, <1>7, <1>8, <1>9, <1>10, JobStep

\* The reports to the inbox.
LEMMA ReportInv ==
  ASSUME IInv, NEW d \in Drains,
         CompleteDelivery(d) \/ CompleteOrphan(d) \/ ReleaseClaim(d)
  PROVE  IInv' /\ Repeats
<1> DEFINE t == drain[d].ticket
<1>1. /\ UNCHANGED vaultVars /\ UNCHANGED <<ledger, shown>> /\ refused' = refused
      /\ sender' = sender /\ drain[d].pc \in {"viewed", "orphan", "orphanSealed", "release"}
  BY DEF CompleteDelivery, CompleteOrphan, ReleaseClaim, outboxVars, At
<1>2. /\ t \in Tickets /\ t # NoTicket /\ drain \in [Drains -> Job] /\ refused \subseteq Tickets
      /\ Attempt(d) \in Drains \X Tickets /\ inbox \in Tables
  BY <1>1, AtWork DEF Holding, IInv, Typed
<1>3. drain[d].pc # "release" => ~ (Wanted(t))
  <2>1. CASE drain[d].pc = "viewed"
    <3>1. t \in shown
      BY <2>1 DEF IInv, Seen
    <3> QED BY <1>2, <3>1, WantedAtWork DEF Settled
  <2>2. CASE drain[d].pc \in {"orphan", "orphanSealed"}
    BY <1>2, <2>2, WantedAtWork DEF Hopeful
  <2> QED BY <1>1, <2>1, <2>2
<1>4. /\ inbox' \in Tables
      /\ \A u \in Tickets : Calm(u) \/ (u = t /\ inbox'[u] = Inbox!NoRow)
      /\ drain[d].pc = "release" => Calm(t)
      /\ drain[d].pc # "release" /\ Inbox!Owns(t, Attempt(d)) => inbox'[t] = Inbox!NoRow
  <2>1. CASE ReleaseClaim(d)
    <3>1. Inbox!ReleaseUnread(t, Attempt(d)) /\ drain[d].pc = "release"
      BY <2>1 DEF ReleaseClaim, At
    <3> QED BY <1>2, <3>1, ReportCalls
  <2>2. CASE CompleteDelivery(d) \/ CompleteOrphan(d)
    <3>1. Inbox!CompleteUnread(t, Attempt(d)) /\ drain[d].pc # "release"
      BY <2>2 DEF CompleteDelivery, CompleteOrphan, At
    <3> QED BY <1>2, <3>1, ReportCalls
  <2> QED BY <2>1, <2>2
<1>5. PICK p, k : /\ Moved(d, p, k)
                  /\ \/ p = "loop" /\ k = NoTicket
                     \/ p = "scrub" /\ k = t /\ inbox'[t] = Inbox!NoRow /\ drain[d].pc # "release"
                     \/ p = "retry" /\ k = t
  <2>1. CASE ReleaseClaim(d)
    <3>1. Goto(d, "retry") /\ "retry" \in DrainPC
      BY <2>1 DEF ReleaseClaim, DrainPC
    <3> QED BY <1>2, <3>1, JobMoves
  <2>2. CASE CompleteDelivery(d)
    BY <1>2, <2>2, JobMoves DEF CompleteDelivery
  <2>3. CASE CompleteOrphan(d) /\ At(d, "orphan") /\ Inbox!Owns(t, Attempt(d))
    <3>1. Goto(d, "scrub") /\ "scrub" \in DrainPC /\ drain[d].pc # "release"
      BY <2>3 DEF CompleteOrphan, DrainPC, At
    <3>2. Moved(d, "scrub", t)
      BY <1>2, <3>1, JobMoves
    <3> QED BY <1>4, <2>3, <3>1, <3>2
  <2>4. CASE CompleteOrphan(d) /\ ~ (At(d, "orphan") /\ Inbox!Owns(t, Attempt(d)))
    BY <1>2, <2>4, JobMoves DEF CompleteOrphan
  <2> QED BY <2>1, <2>2, <2>3, <2>4
<1>6. /\ vault' \in Vaults /\ alarm' \in Alarms /\ \A u \in Tickets : Steady(u)
      /\ ledger' \in Ledgers /\ Outbox!SentWasShown'
      /\ shown \subseteq shown' /\ shown' \subseteq Tickets
  BY <1>1, Unmoved
<1>7. \A u \in Tickets :
        /\ vault[u] = Vault!NoRecord => vault'[u] = Vault!NoRecord
        /\ vault'[u].status = "viewed" => vault[u].status = "viewed"
  BY <1>6 DEF Steady
<1>8. \A u \in Tickets : Wanted(u) => Calm(u) /\ Steady(u) /\ (k = u => p = "retry")
  <2>1. NoTicket \notin Tickets
    BY DeliveryAssumption
  <2> QED BY <1>2, <1>3, <1>4, <1>5, <1>6, <2>1
<1>9. /\ \A u \in Tickets : Calm(u) \/ inbox'[u] = Inbox!NoRow
      /\ "retry" \in Hopeful /\ p \in {"loop", "scrub", "retry"}
  BY <1>4, <1>5 DEF Hopeful
<1> HIDE DEF t
<1>10. t = drain[d].ticket
  BY DEF t
<1>11. p \in Holding \cup {"scrub"} => p = "scrub"
  BY <1>9 DEF Holding
<1> QED BY ONLY IInv, <1>1, <1>2, <1>4, <1>5, <1>6, <1>7, <1>8, <1>9, <1>10, <1>11, JobStep

-----------------------------------------------------------------------------
(* The invariant, and what it says. *)

LEMMA InitInv ==
  ASSUME Init
  PROVE  IInv
<1>1. Inbox!NoRow \in Inbox!Row /\ Vault!NoRecord \in Vault!Record
      /\ Outbox!NoOutcome \in Outbox!Outcome
  BY FixedRows, RecordShapes, DeliveryAssumption DEF Outbox!NoOutcome, Outbox!Outcome
<1>2. /\ inbox = [t \in Tickets |-> Inbox!NoRow] /\ vault = [t \in Tickets |-> Vault!NoRecord]
      /\ alarm = NoAlarm /\ ledger = [t \in Tickets |-> Outbox!NoOutcome] /\ shown = {}
  BY DEF Init, Inbox!Init, Vault!Init, Outbox!Init
<1>3. /\ drain \in [Drains -> Job] /\ sender \in [Tickets -> Call]
      /\ \A d \in Drains : drain[d].pc = "idle" /\ drain[d].ticket = NoTicket
      /\ \A t \in Tickets : sender[t].pc = "idle"
  BY DeliveryAssumption DEF Init, Job, Call, DrainPC, SenderPC
<1>4. Typed
  BY <1>1, <1>2, <1>3 DEF Init, Typed, Tables, Vaults, Alarms, Ledgers
<1>5. Shape /\ Names
  BY <1>2, <1>3, FixedRows DEF Shape, Names, Holding
<1>6. Seen
  BY <1>2, <1>3, RecordShapes DEF Seen, ViewedWasShown, Outbox!SentWasShown, Outbox!NoOutcome
<1>7. ASSUME NEW t \in Tickets
      PROVE  Life(t)
  BY <1>2, <1>3, DeliveryAssumption DEF Life, Unborn, Owed, Due, Scrubbing, At
<1> QED BY <1>4, <1>5, <1>6, <1>7 DEF IInv

LEMMA StepInv ==
  ASSUME IInv, [Next]_vars
  PROVE  IInv'
<1>1. CASE UNCHANGED vars
  BY <1>1
     DEF vars, vaultVars, outboxVars, IInv, Typed, Shape, Names, Seen, ViewedWasShown,
         Outbox!SentWasShown, Life, Unborn, Owed, Due, Settled, Scrubbing, At
<1>2. ASSUME NEW t \in Tickets, SenderWork(t) \/ SenderFails(t)
      PROVE  IInv'
  BY <1>2, BeginInv, StoreInv, AddInv, EndInv DEF SenderWork, SenderFails
<1>3. ASSUME NEW d \in Drains, RequestDelivery(d) \/ DrainWork(d) \/ DrainFails(d)
      PROVE  IInv'
  BY <1>3, LoneInv, RequestInv, ClaimInv, ResolveInv, SendInv, VaultInv, ReportInv
     DEF DrainWork, DrainFails, LoneStep
<1>4. CASE NotificationCount
  BY <1>4, EnvironmentInv DEF NotificationCount, outboxVars
<1>5. ASSUME NEW t \in Tickets, ActOnTicket(t)
      PROVE  IInv'
  BY <1>5, EnvironmentInv DEF ActOnTicket, outboxVars
<1>6. ASSUME NEW t \in Tickets, OutboxForgets(t)
      PROVE  IInv'
  BY <1>6, EnvironmentInv DEF OutboxForgets
<1>7. CASE VaultAlarm
  BY <1>7, EnvironmentInv DEF VaultAlarm, outboxVars
<1>8. CASE Minute
  BY <1>8, EnvironmentInv DEF Minute, outboxVars
<1>9. CASE Day
  BY <1>9, DayInv
<1> QED BY <1>1, <1>2, <1>3, <1>4, <1>5, <1>6, <1>7, <1>8, <1>9
        DEF Next, Working, Failing, Environment

\* Faults are counted up to the bound.
LEMMA FaultsCounted == Spec => [](failures \in 0..MaxFailures)
<1>1. Init => failures \in 0..MaxFailures
  BY DeliveryAssumption DEF Init
<1>2. failures \in 0..MaxFailures /\ [Next]_vars => (failures \in 0..MaxFailures)'
  BY DeliveryAssumption DEF Next, Fault, vars
<1> QED BY <1>1, <1>2, PTL DEF Spec

\* Until a message is settled or expires, the row, the record and the jobs that
\* carry it are as they should be, whatever else is under way.
THEOREM Invariant == Spec => []IInv
<1>1. Init => IInv
  BY InitInv
<1>2. IInv /\ [Next]_vars => IInv'
  BY StepInv
<1> QED BY <1>1, <1>2, PTL DEF Spec

\* No accepted message is lost: while it is neither shown, refused nor expired,
\* its row and its payload are both there (inbox.ts:245-486,
\* create-sealed-ticket.ts:168-259).
THEOREM NothingLostTheorem == Spec => []NothingLost
<1>1. IInv => NothingLost
  <2> SUFFICES ASSUME IInv, NEW t \in Tickets \ Repeatable,
                      SenderAt(t, "ok"), sender[t].ttl > 0, ~ Settled(t)
               PROVE  inbox[t].state # "none" /\ vault[t].payload
    BY DEF NothingLost, Kept
  <2>1. Due(t) /\ Owed(t)
    BY DEF Due, SenderAt, IInv, Life
  <2> QED BY <2>1 DEF Owed, SenderAt
<1> QED BY <1>1, Invariant, PTL

\* A payload goes as viewed only once the message was shown, a record is
\* scrubbed only by the last owner of its row, and every variable keeps its
\* type (inbox.ts:245-297).
THEOREM DropsTheorem == Spec => []DropsAreDue
<1>1. IInv => ViewedWasShown
  BY DEF IInv, Seen
<1>2. IInv => ScrubIsOwned
  <2> SUFFICES ASSUME IInv, NEW d \in Drains, NEW e \in Drains,
                      At(d, "scrub"), drain[d].ticket \notin Repeatable,
                      drain[e].pc \in Holding, drain[e].ticket = drain[d].ticket,
                      Inbox!Owns(drain[d].ticket, Attempt(e))
               PROVE  FALSE
    BY DEF ScrubIsOwned
  <2>1. drain[d].ticket \in Tickets \ Repeatable
    BY AtWork DEF At
  <2>2. inbox[drain[d].ticket] = Inbox!NoRow
    BY <2>1 DEF IInv, Life, Scrubbing
  <2>3. Attempt(e) = NoAttempt
    BY <2>2, FixedRows DEF Inbox!Owns
  <2>4. Attempt(e) \in Drains \X Tickets
    BY AtWork
  <2> QED BY <2>3, <2>4, DeliveryAssumption
<1>3. IInv /\ failures \in 0..MaxFailures => TypeOK
  <2> SUFFICES ASSUME IInv, failures \in 0..MaxFailures
               PROVE  TypeOK
    OBVIOUS
  <2>1. \A d \in Drains : drain[d].pc \in Holding =>
          drain[d].ticket \in Tickets /\ Attempt(d) \in Drains \X Tickets
    BY AtWork
  <2>2. openClaims \subseteq Tickets \X (Drains \X Tickets)
    BY <2>1 DEF openClaims
  <2>3. Inbox!TypeOK
    BY <2>2 DEF Inbox!TypeOK, IInv, Typed, Tables
  <2>4. Vault!TypeOK /\ Outbox!TypeOK
    BY DEF Vault!TypeOK, Outbox!TypeOK, IInv, Typed, Vaults, Alarms, Ledgers
  <2> QED BY <2>3, <2>4 DEF TypeOK, IInv, Typed, Job, Call
<1> QED BY <1>1, <1>2, <1>3, Invariant, FaultsCounted, PTL DEF DropsAreDue

-----------------------------------------------------------------------------
(* The route of a delivered message.                                       *)
(*                                                                         *)
(* While no lease lapses under a worker, a worker with a claim owns the    *)
(* row, so there is one at most; a record is then marked as viewed under   *)
(* the eyes of the worker that also completes the row, and no later claim  *)
(* finds it in that state.                                                 *)

\* A worker at one of these is about to drop the message.
Dropping == {"orphan", "orphanSealed", "scrub"}

\* Nothing stands against delivering the message.
Sound(t) ==
  /\ sender[t].pc \in {"adding", "ok"} /\ sender[t].ttl > 0
  /\ t \notin refused \cup Undeliverable \cup Malformed

\* The record of t lasts as long as the message.
Recorded(t) ==
  /\ vault[t].status \in {"active", "viewed"} /\ vault[t].route
  /\ vault[t].status = "active" => vault[t].payload
  /\ sender[t].ttl <= vault[t].ttl

\* So does its row, until it is completed.
Lasting(t) ==
  inbox[t] = Inbox!NoRow \/ (inbox[t].state # "none" /\ sender[t].ttl <= inbox[t].ttl)

\* Job d, if it is at t, is not about to drop it, and holds the row while it works.
Holds(d, t) ==
  drain[d].ticket = t =>
    /\ drain[d].pc \notin Dropping
    /\ drain[d].pc \in Holding =>
         inbox[t].state = "delivering" /\ inbox[t].attempt = <<d, t>> /\ inbox[t].lease > 0

\* A viewed record has no row any more, or a worker that completes it next.
Completing(t) ==
  vault[t].status = "viewed" =>
    /\ SenderAt(t, "ok")
    /\ inbox[t] = Inbox!NoRow \/ \E d \in Drains : At(d, "viewed") /\ drain[d].ticket = t

Routed(t) ==
  Sound(t) =>
    Recorded(t) /\ Lasting(t) /\ (\A d \in Drains : Holds(d, t)) /\ Completing(t)

RouteInv == \A t \in Tickets \ Repeatable : Routed(t)

\* A call leaves a row alone that is out on a running lease.
Held(u) ==
  inbox[u].state = "delivering" /\ inbox[u].lease > 0 /\ inbox[u].ttl > 0
    => inbox'[u] = inbox[u]

LEMMA PreparedHolds ==
  ASSUME inbox \in Tables, NEW D \in Inbox!CleanupBatches(inbox), NEW u \in Tickets,
         inbox[u].state = "delivering", inbox[u].lease > 0, inbox[u].ttl > 0
  PROVE  Inbox!Prepared(inbox, D)[u] = inbox[u]
<1>1. u \notin D
  BY DEF Inbox!CleanupBatches, Inbox!Expired
<1>2. inbox[u].lease # 0
  OBVIOUS
<1> QED BY <1>1, <1>2 DEF Inbox!Prepared, Inbox!Recovered

\* Adding and claiming touch no such row.
LEMMA AddHolds ==
  ASSUME inbox \in Tables, NEW t \in Tickets, NEW u \in Tickets \ {t},
         Inbox!AddUnreadItem(t) \/ Inbox!AddDuplicate(t) \/ Inbox!AddRefusedFull(t)
  PROVE  Held(u)
<1> SUFFICES ASSUME inbox[u].state = "delivering", inbox[u].lease > 0, inbox[u].ttl > 0
             PROVE  inbox'[u] = inbox[u]
  BY DEF Held
<1>1. PICK D \in Inbox!CleanupBatches(inbox) :
        \/ inbox' = [Inbox!Prepared(inbox, D) EXCEPT ![t] = Inbox!NewRow]
        \/ inbox' = Inbox!Prepared(inbox, D)
  BY DEF Inbox!AddUnreadItem, Inbox!AddDuplicate, Inbox!AddRefusedFull
<1>2. Inbox!Prepared(inbox, D) \in Tables /\ Inbox!Prepared(inbox, D)[u] = inbox[u]
  BY PreparedTidies, PreparedHolds
<1> QED BY <1>1, <1>2 DEF Tables

LEMMA ClaimHolds ==
  ASSUME inbox \in Tables, NEW u \in Tickets
  PROVE  /\ \A t \in Tickets, d \in Drains : Inbox!ClaimUnread(t, <<d, t>>) =>
              /\ Held(u)
              /\ inbox'[t].state = "delivering" /\ inbox'[t].attempt = <<d, t>>
              /\ inbox'[t].lease = LEASE
              /\ ~ (inbox[t].state = "delivering" /\ inbox[t].lease > 0 /\ inbox[t].ttl > 0)
         /\ Inbox!ClaimNothing => Held(u)
<1>1. ASSUME NEW t \in Tickets, NEW d \in Drains, Inbox!ClaimUnread(t, <<d, t>>)
      PROVE  /\ Held(u)
             /\ inbox'[t].state = "delivering" /\ inbox'[t].attempt = <<d, t>>
             /\ inbox'[t].lease = LEASE
             /\ ~ (inbox[t].state = "delivering" /\ inbox[t].lease > 0 /\ inbox[t].ttl > 0)
  <2>1. PICK D \in Inbox!CleanupBatches(inbox) :
          /\ t \in Inbox!Oldest(Inbox!Prepared(inbox, D))
          /\ inbox' = [Inbox!Prepared(inbox, D) EXCEPT ![t].state = "delivering",
                                                       ![t].attempt = <<d, t>>,
                                                       ![t].lease = LEASE]
    BY <1>1 DEF Inbox!ClaimUnread
  <2> DEFINE ib == Inbox!Prepared(inbox, D)
  <2>2. ib \in Tables /\ ib[t] \in Inbox!Row /\ ib[t].state = "active"
    BY <2>1, PreparedTidies DEF Inbox!Oldest, Inbox!Claimable, Tables
  <2>3. ~ (inbox[t].state = "delivering" /\ inbox[t].lease > 0 /\ inbox[t].ttl > 0)
    BY <2>2, PreparedHolds
  <2>4. inbox[u].state = "delivering" /\ inbox[u].lease > 0 /\ inbox[u].ttl > 0
          => ib[u] = inbox[u]
    BY PreparedHolds
  <2> HIDE DEF ib
  <2>5. inbox' = [ib EXCEPT ![t] = [ib[t] EXCEPT !.state = "delivering",
                                                 !.attempt = <<d, t>>, !.lease = LEASE]]
    BY <2>1, <2>2 DEF Tables, ib
  <2>6. Held(u)
    BY <2>2, <2>3, <2>4, <2>5 DEF Held, Tables
  <2>7. inbox'[t] = [ib[t] EXCEPT !.state = "delivering", !.attempt = <<d, t>>,
                                  !.lease = LEASE]
    BY <2>2, <2>5 DEF Tables
  <2>8. /\ inbox'[t].state = "delivering" /\ inbox'[t].attempt = <<d, t>>
        /\ inbox'[t].lease = LEASE
    BY <2>2, <2>7, RowShape
  <2> QED BY <2>3, <2>6, <2>8
<1>2. ASSUME Inbox!ClaimNothing
      PROVE  Held(u)
  BY <1>2, PreparedHolds DEF Inbox!ClaimNothing, Held
<1> QED BY <1>1, <1>2

\* The reports touch the row of their attempt, and rows whose lease has lapsed.
LEMMA ReportHolds ==
  ASSUME inbox \in Tables, NEW t \in Tickets, NEW a, NEW u \in Tickets \ {t},
         Inbox!CompleteUnread(t, a) \/ Inbox!ReleaseUnread(t, a)
  PROVE  Held(u)
<1> SUFFICES ASSUME inbox[u].state = "delivering", inbox[u].lease > 0, inbox[u].ttl > 0
             PROVE  inbox'[u] = inbox[u]
  BY DEF Held
<1>1. inbox[u].lease # 0
  OBVIOUS
<1>2. CASE Inbox!CompleteUnread(t, a)
  <2>1. PICK kb : /\ kb = IF Inbox!Owns(t, a)
                          THEN [inbox EXCEPT ![t] = Inbox!NoRow] ELSE inbox
                  /\ inbox' = Inbox!Recovered(kb)
    BY <1>2 DEF Inbox!CompleteUnread
  <2>2. kb[u] = inbox[u]
    BY <2>1 DEF Tables
  <2> QED BY <1>1, <2>1, <2>2 DEF Inbox!Recovered
<1>3. CASE Inbox!ReleaseUnread(t, a)
  BY <1>3 DEF Inbox!ReleaseUnread, Tables
<1> QED BY <1>2, <1>3

LEMMA QuietHolds ==
  ASSUME inbox \in Tables, NEW u \in Tickets,
         Inbox!GetUnreadSummary \/ Inbox!CleanupExpiredUnreadItems \/ UNCHANGED inbox
  PROVE  Held(u)
<1>1. CASE Inbox!GetUnreadSummary
  BY <1>1 DEF Inbox!GetUnreadSummary, Inbox!Recovered, Held
<1>2. CASE Inbox!CleanupExpiredUnreadItems
  BY <1>2, PreparedHolds DEF Inbox!CleanupExpiredUnreadItems, Held
<1>3. CASE UNCHANGED inbox
  BY <1>3 DEF Held
<1> QED BY <1>1, <1>2, <1>3

-----------------------------------------------------------------------------
(* A step that does not touch the message. *)

\* Job e takes t neither on nor up, and does not stop before it completes it.
JobKeeps(e, t) ==
  /\ drain'[e].ticket = t /\ Sound(t)' /\ (drain[e].ticket = t => drain[e].pc \notin Dropping)
       => drain'[e].pc \notin Dropping
  /\ drain'[e].ticket = t /\ drain'[e].pc \in Holding
       => drain[e].ticket = t /\ drain[e].pc \in Holding
  /\ At(e, "viewed") /\ drain[e].ticket = t
       => drain'[e].pc = "viewed" /\ drain'[e].ticket = t

\* A sound message was sound before, if its call is not at its start.
LEMMA SoundStays ==
  ASSUME NEW t \in Tickets, refused \subseteq refused',
         \/ sender'[t] = sender[t]
         \/ sender'[t].pc \in {"storing", "cleanup", "failed"}
  PROVE  Sound(t)' => Sound(t) /\ sender'[t] = sender[t]
BY DEF Sound

LEMMA RouteStands ==
  ASSUME Typed, NEW t \in Tickets, Routed(t),
         Sound(t)' => Sound(t) /\ sender'[t] = sender[t],
         Calm(t), Held(t), Steady(t), \A e \in Drains : JobKeeps(e, t)
  PROVE  Routed(t)'
<1> SUFFICES ASSUME Sound(t)'
             PROVE  /\ Recorded(t)' /\ Lasting(t)' /\ (\A d \in Drains : Holds(d, t)')
                    /\ Completing(t)'
  BY DEF Routed
<1>1. /\ Sound(t) /\ sender'[t] = sender[t]
      /\ Recorded(t) /\ Lasting(t) /\ (\A d \in Drains : Holds(d, t)) /\ Completing(t)
  BY DEF Routed
<1>2. /\ sender[t].ttl \in Nat /\ sender[t].ttl > 0 /\ inbox[t].ttl \in Nat
      /\ vault[t].ttl \in Int
  BY <1>1, RowShape DEF Typed, Tables, Vaults, Vault!Record, Call, Sound
<1>3. vault'[t] = vault[t]
  BY <1>1, <1>2 DEF Recorded, Steady
<1>4. Recorded(t)'
  BY <1>1, <1>3 DEF Recorded
<1>5. Lasting(t)'
  BY <1>1, <1>2 DEF Lasting, Calm
<1>6. ASSUME NEW d \in Drains
      PROVE  Holds(d, t)'
  <2> SUFFICES ASSUME drain'[d].ticket = t
               PROVE  /\ drain'[d].pc \notin Dropping
                      /\ drain'[d].pc \in Holding =>
                           /\ inbox'[t].state = "delivering" /\ inbox'[t].attempt = <<d, t>>
                           /\ inbox'[t].lease > 0
    BY DEF Holds
  <2>1. drain'[d].pc \notin Dropping
    BY <1>1 DEF JobKeeps, Holds
  <2>2. ASSUME drain'[d].pc \in Holding
        PROVE  /\ inbox'[t].state = "delivering" /\ inbox'[t].attempt = <<d, t>>
               /\ inbox'[t].lease > 0
    <3>1. /\ inbox[t].state = "delivering" /\ inbox[t].attempt = <<d, t>>
          /\ inbox[t].lease > 0
      BY <1>1, <2>2 DEF JobKeeps, Holds
    <3>2. inbox[t].ttl > 0
      BY <1>1, <1>2, <3>1, FixedRows DEF Lasting
    <3> QED BY <3>1, <3>2 DEF Held
  <2> QED BY <2>1, <2>2
<1>7. Completing(t)'
  <2> SUFFICES ASSUME vault'[t].status = "viewed", inbox'[t] # Inbox!NoRow
               PROVE  \E d \in Drains : drain'[d].pc = "viewed" /\ drain'[d].ticket = t
    BY <1>1, <1>3 DEF Completing, At, SenderAt
  <2>1. PICK d \in Drains : At(d, "viewed") /\ drain[d].ticket = t
    BY <1>1, <1>3 DEF Completing, Calm
  <2> QED BY <2>1 DEF JobKeeps
<1> QED BY <1>4, <1>5, <1>6, <1>7

\* Jobs that are not at t, before or after, keep it.
LEMMA OthersKeep ==
  ASSUME NEW t \in Tickets, NEW e \in Drains,
         drain'[e] = drain[e] \/ (drain[e].ticket # t /\ drain'[e].ticket # t)
  PROVE  JobKeeps(e, t)
BY DEF JobKeeps, At

\* One worker at most holds a sound message.
LEMMA OneHolder ==
  ASSUME NEW t \in Tickets, Routed(t), Sound(t), NEW d \in Drains, NEW e \in Drains,
         drain[d].ticket = t, drain[e].ticket = t,
         drain[d].pc \in Holding, drain[e].pc \in Holding
  PROVE  d = e
<1>1. inbox[t].attempt = <<d, t>> /\ inbox[t].attempt = <<e, t>>
  BY DEF Routed, Holds
<1> QED BY <1>1

\* While a worker is at it, but has not marked it, its record is active.
LEMMA StillActive ==
  ASSUME NEW t \in Tickets, Routed(t), Sound(t), NEW d \in Drains,
         drain[d].ticket = t, drain[d].pc \in Holding \ {"viewed"}
  PROVE  vault[t].status = "active" /\ vault[t].payload
<1>1. Recorded(t) /\ Holds(d, t) /\ Completing(t)
  BY DEF Routed
<1>2. inbox[t] # Inbox!NoRow
  BY <1>1, FixedRows DEF Holds
<1>3. \A e \in Drains : At(e, "viewed") => drain[e].ticket # t
  BY OneHolder DEF At, Holding
<1> QED BY <1>1, <1>2, <1>3 DEF Completing, Recorded

-----------------------------------------------------------------------------
(* The steps. *)

\* A step of the calls or of the surroundings: no job moves.
LEMMA SurroundRoute ==
  ASSUME IInv, NEW t \in Tickets \ Repeatable, Routed(t), drain' = drain,
         refused' = refused,
         sender'[t] = sender[t] \/ sender'[t].pc \in {"storing", "cleanup", "failed"},
         Calm(t), Held(t), Steady(t)
  PROVE  Routed(t)'
<1>1. Typed /\ \A e \in Drains : JobKeeps(e, t)
  BY OthersKeep DEF IInv
<1> QED BY <1>1, SoundStays, RouteStands

LEMMA CallRoute ==
  ASSUME IInv, RouteInv, NEW t \in Tickets \ Repeatable, NEW u \in Tickets,
         SenderWork(u) \/ SenderFails(u)
  PROVE  Routed(t)'
<1>1. /\ drain' = drain /\ refused' = refused
      /\ Typed /\ Routed(t) /\ Life(t)
  BY DEF SenderWork, SenderFails, Begin, Store, AddUnread, AddThrows, Cleanup, LoseSender,
         outboxVars, IInv, RouteInv
<1>2. CASE Begin(u) \/ LoseSender(u)
  <2>1. /\ sender'[t] = sender[t] \/ sender'[t].pc \in {"storing", "cleanup", "failed"}
        /\ UNCHANGED inbox /\ UNCHANGED vault
    BY <1>1, <1>2 DEF Begin, LoseSender, SenderGoto, vaultVars, Typed, Call
  <2> QED BY <1>1, <2>1, UnchangedIsCalm, UnchangedIsSteady, QuietHolds, SurroundRoute DEF Typed
<1>3. CASE Store(u)
  <2>1. UNCHANGED inbox /\ sender[u].pc = "storing" /\ Turned(u, "adding")
    <3>1. "adding" \in SenderPC /\ sender[u].pc = "storing"
      BY <1>3 DEF Store, SenderAt, SenderPC
    <3> QED BY <1>1, <1>3, <3>1, CallTurns DEF Store, Typed
  <2>2. CASE t # u
    <3>1. sender'[t] = sender[t] /\ Steady(t)
      BY <1>1, <1>3, <2>1, <2>2, StoreCall, UnchangedIsSteady
         DEF Store, Typed, Turned, Vault!StoreExisting
    <3> QED BY <1>1, <2>1, <3>1, UnchangedIsCalm, QuietHolds, SurroundRoute DEF Typed
  <2>3. CASE t = u
    <3>1. /\ inbox[t] = Inbox!NoRow /\ vault[t] = Vault!NoRecord
          /\ \A d \in Drains : drain[d].ticket # t
      BY <1>1, <2>1, <2>3 DEF Life, Unborn
    <3>2. vault'[t] = Vault!NewRecord
      BY <1>1, <1>3, <2>3, <3>1, StoreCall, RecordShapes
         DEF Store, Typed, Vault!StoreExisting, Vault!Exists
    <3>3. sender'[t].ttl <= TTL
      BY <2>1, DeliveryAssumption DEF Turned, Call
    <3>4. Recorded(t)' /\ Completing(t)'
      BY <3>2, <3>3, RecordShapes DEF Recorded, Completing
    <3>5. Lasting(t)' /\ \A d \in Drains : Holds(d, t)'
      BY <1>1, <2>1, <3>1 DEF Lasting, Holds
    <3> QED BY <3>4, <3>5 DEF Routed
  <2> QED BY <2>2, <2>3
<1>4. CASE AddUnread(u) \/ AddThrows(u)
  <2>1. /\ UNCHANGED vault /\ sender[u].pc = "adding"
        /\ Turned(u, "ok") \/ Turned(u, "cleanup") \/ Turned(u, "failed")
    <3>1. "ok" \in SenderPC /\ UNCHANGED vault /\ sender[u].pc = "adding"
      BY <1>4 DEF AddUnread, AddThrows, SenderAt, SenderPC, vaultVars
    <3> QED BY <1>1, <1>4, <3>1, CallTurns, GivesUp DEF AddUnread, AddThrows, Typed
  <2>2. CASE t # u
    <3>1. sender'[t] = sender[t] /\ Steady(t)
      BY <2>1, <2>2, UnchangedIsSteady DEF Turned
    <3>2. Calm(t) /\ Held(t)
      BY <1>1, <1>4, <2>2, AddCalls, AddHolds, UnchangedIsCalm, QuietHolds
         DEF AddUnread, AddThrows, Typed
    <3> QED BY <1>1, <3>1, <3>2, SurroundRoute
  <2>3. CASE t = u
    <3> SUFFICES ASSUME Sound(t)'
                 PROVE  Recorded(t)' /\ Lasting(t)' /\ (\A d \in Drains : Holds(d, t)')
                        /\ Completing(t)'
      BY DEF Routed
    <3>1. /\ inbox[t] = Inbox!NoRow /\ \A d \in Drains : drain[d].ticket # t
      BY <1>1, <2>1, <2>3 DEF Life, Unborn
    <3>2. sender'[t].pc = "ok" /\ sender'[t].ttl = sender[t].ttl
      BY <2>1, <2>3 DEF Sound, Turned
    <3>3. Sound(t)
      BY <1>1, <2>1, <2>3, <3>2 DEF Sound
    <3>4. Recorded(t)'
      BY <1>1, <2>1, <3>2, <3>3 DEF Routed, Recorded
    <3>5. vault'[t].status # "viewed"
      BY <1>1, <2>1, <2>3, <3>3 DEF Routed, Completing, SenderAt
    <3>6. CASE Calm(t)
      BY <1>1, <3>1, <3>4, <3>5, <3>6 DEF Calm, Lasting, Holds, Completing
    <3>7. CASE inbox'[t] = Inbox!NewRow
      <4>1. Lasting(t)'
        BY <1>1, <3>2, <3>7, FixedRows, DeliveryAssumption DEF Lasting, Typed, Call
      <4> QED BY <1>1, <3>1, <3>4, <3>5, <4>1 DEF Holds, Completing
    <3>8. Calm(t) \/ inbox'[t] = Inbox!NewRow
      BY <1>1, <1>4, <2>3, AddCalls, UnchangedIsCalm DEF AddUnread, AddThrows, Typed
    <3> QED BY <3>6, <3>7, <3>8
  <2> QED BY <2>2, <2>3
<1>5. CASE Cleanup(u)
  <2>1. UNCHANGED inbox /\ sender[u].pc = "cleanup" /\ Turned(u, "failed")
        /\ Vault!DeleteTicket(u)
    <3>1. "failed" \in SenderPC
      BY DEF SenderPC
    <3> QED BY <1>1, <1>5, <3>1, CallTurns DEF Cleanup, SenderAt, Typed
  <2>2. CASE t # u
    <3>1. sender'[t] = sender[t] /\ Steady(t)
      BY <1>1, <2>1, <2>2, DeleteCall DEF Typed, Turned
    <3> QED BY <1>1, <2>1, <3>1, UnchangedIsCalm, QuietHolds, SurroundRoute DEF Typed
  <2>3. CASE t = u
    BY <2>1, <2>3 DEF Routed, Sound, Turned
  <2> QED BY <2>2, <2>3
<1> QED BY <1>2, <1>3, <1>4, <1>5 DEF SenderWork, SenderFails

\* Counts, buttons, alarms; a minute and a day.
LEMMA EnvironmentRoute ==
  ASSUME IInv, RouteInv, NEW t \in Tickets \ Repeatable,
         \/ NotificationCount \/ VaultAlarm
         \/ \E u \in Tickets : ActOnTicket(u) \/ OutboxForgets(u)
  PROVE  Routed(t)'
<1>1. Typed /\ Routed(t)
  BY DEF IInv, RouteInv
<1>2. /\ drain' = drain /\ refused' = refused /\ sender' = sender
      /\ Inbox!GetUnreadSummary \/ UNCHANGED inbox
  BY DEF NotificationCount, VaultAlarm, ActOnTicket, OutboxForgets, outboxVars
<1>3. Calm(t) /\ Held(t)
  BY <1>1, <1>2, QuietCalls, QuietHolds DEF Typed
<1>4. Steady(t)
  <2>1. CASE VaultAlarm
    BY <1>1, <2>1, AlarmCall DEF VaultAlarm, Typed
  <2>2. CASE \E u \in Tickets : ActOnTicket(u)
    BY <1>1, <2>2, GetCalls DEF ActOnTicket, Typed
  <2>3. CASE UNCHANGED vault
    BY <2>3, UnchangedIsSteady
  <2> QED BY <2>1, <2>2, <2>3 DEF NotificationCount, OutboxForgets, vaultVars
<1> QED BY <1>1, <1>2, <1>3, <1>4, SurroundRoute

LEMMA MinuteRoute ==
  ASSUME IInv, RouteInv, NEW t \in Tickets \ Repeatable, Minute, ~ LapsedAtWork
  PROVE  Routed(t)'
<1>1. Typed /\ Routed(t)
  BY DEF IInv, RouteInv
<1>2. /\ drain' = drain /\ refused' = refused /\ sender' = sender /\ vault' = vault
      /\ Inbox!Minute
  BY DEF Minute, vaultVars, outboxVars
<1> SUFFICES ASSUME Sound(t)'
             PROVE  Recorded(t)' /\ Lasting(t)' /\ (\A d \in Drains : Holds(d, t)')
                    /\ Completing(t)'
  BY DEF Routed
<1>3. /\ Sound(t) /\ Recorded(t) /\ Lasting(t) /\ (\A d \in Drains : Holds(d, t))
      /\ Completing(t)
  BY <1>1, <1>2 DEF Routed, Sound
<1>4. Calm(t)
  BY <1>1, <1>2, QuietCalls DEF Typed
<1>5. inbox[t] \in Inbox!Row /\ inbox[t].lease \in Nat /\ inbox[t].ttl \in Nat
      /\ sender[t].ttl \in Nat /\ sender[t].ttl > 0
  BY <1>1, <1>3, RowShape DEF Typed, Tables, Call, Sound
<1>6. inbox'[t] = [inbox[t] EXCEPT !.lease = Inbox!Elapse(@)]
  BY <1>2 DEF Inbox!Minute
<1>7. /\ inbox'[t].state = inbox[t].state /\ inbox'[t].attempt = inbox[t].attempt
      /\ inbox'[t].ttl = inbox[t].ttl /\ inbox'[t].lease = Inbox!Elapse(inbox[t].lease)
  BY <1>5, <1>6, RowShape
<1>8. ASSUME NEW d \in Drains
      PROVE  Holds(d, t)'
  <2>1. drain[d].ticket = t /\ drain[d].pc \in Holding =>
          Inbox!Owns(drain[d].ticket, Attempt(d)) /\ inbox[t].lease # 1
    BY <1>3 DEF Holds, LapsedAtWork, Inbox!Owns, Attempt
  <2> QED BY <1>2, <1>3, <1>5, <1>7, <2>1 DEF Holds, Inbox!Elapse
<1>9. Recorded(t)'
  BY <1>2, <1>3 DEF Recorded
<1>10. Lasting(t)' /\ Completing(t)'
  BY <1>2, <1>3, <1>4, <1>5, <1>7 DEF Lasting, Completing, Calm, At, SenderAt
<1> QED BY <1>8, <1>9, <1>10

LEMMA DayRoute ==
  ASSUME IInv, RouteInv, NEW t \in Tickets \ Repeatable, Day
  PROVE  Routed(t)'
<1>1. Typed /\ Routed(t) /\ drain' = drain /\ refused' = refused
  BY DEF IInv, RouteInv, Day
<1>2. /\ inbox[t] \in Inbox!Row /\ inbox[t].ttl \in Nat
      /\ sender[t] \in Call /\ sender[t].ttl \in Nat
      /\ vault[t] \in Vault!Record /\ vault[t].ttl \in Int
  BY <1>1, RowShape DEF Typed, Tables, Vaults, Vault!Record, Call
<1>3. /\ inbox'[t] = [inbox[t] EXCEPT !.ttl = Inbox!Elapse(@)]
      /\ vault'[t] = [vault[t] EXCEPT !.ttl = IF @ > -1 THEN @ - 1 ELSE @]
      /\ sender'[t] = [sender[t] EXCEPT !.ttl = IF @ > 0 THEN @ - 1 ELSE 0]
  BY DEF Day, Inbox!Day, Vault!Day
<1>4. /\ inbox'[t].state = inbox[t].state /\ inbox'[t].attempt = inbox[t].attempt
      /\ inbox'[t].lease = inbox[t].lease
      /\ inbox'[t].ttl = IF inbox[t].ttl > 0 THEN inbox[t].ttl - 1 ELSE 0
      /\ inbox[t] = Inbox!NoRow => inbox'[t] = Inbox!NoRow
  BY <1>2, <1>3, RowShape DEF Inbox!Elapse, Inbox!NoRow
<1>5. /\ vault'[t].status = vault[t].status /\ vault'[t].payload = vault[t].payload
      /\ vault'[t].route = vault[t].route
      /\ vault'[t].ttl = IF vault[t].ttl > -1 THEN vault[t].ttl - 1 ELSE vault[t].ttl
  BY <1>2, <1>3 DEF Vault!Record
<1>6. /\ sender'[t].pc = sender[t].pc
      /\ sender'[t].ttl = IF sender[t].ttl > 0 THEN sender[t].ttl - 1 ELSE 0
  BY <1>2, <1>3 DEF Call
<1> SUFFICES ASSUME Sound(t)'
             PROVE  Recorded(t)' /\ Lasting(t)' /\ (\A d \in Drains : Holds(d, t)')
                    /\ Completing(t)'
  BY DEF Routed
<1>7. Sound(t) /\ sender'[t].ttl = sender[t].ttl - 1 /\ sender[t].ttl > 0
  BY <1>1, <1>2, <1>6 DEF Sound
<1>8. Recorded(t) /\ Lasting(t) /\ (\A d \in Drains : Holds(d, t)) /\ Completing(t)
  BY <1>1, <1>7 DEF Routed
<1>9. Recorded(t)'
  BY <1>2, <1>5, <1>7, <1>8 DEF Recorded
<1>10. Lasting(t)'
  BY <1>2, <1>4, <1>7, <1>8 DEF Lasting
<1>11. \A d \in Drains : Holds(d, t)'
  BY <1>1, <1>4, <1>8 DEF Holds
<1>12. Completing(t)'
  BY <1>1, <1>4, <1>5, <1>6, <1>8 DEF Completing, At, SenderAt
<1> QED BY <1>9, <1>10, <1>11, <1>12

\* A step of job d, which goes to p with ticket k.
LEMMA JobRoute ==
  ASSUME IInv, NEW t \in Tickets \ Repeatable, Routed(t), NEW d \in Drains, NEW p, NEW k,
         Moved(d, p, k), sender' = sender, refused \subseteq refused',
         Calm(t), Held(t), Steady(t), JobKeeps(d, t)
  PROVE  Routed(t)'
<1>1. Typed /\ \A e \in Drains : JobKeeps(e, t)
  BY OthersKeep DEF IInv, Moved
<1> QED BY <1>1, SoundStays, RouteStands

\* Of a step at another message nothing is noticed here.
LEMMA ElsewhereRoute ==
  ASSUME IInv, NEW t \in Tickets \ Repeatable, Routed(t), NEW d \in Drains, NEW p, NEW k,
         Moved(d, p, k), drain[d].ticket # t, k # t,
         sender' = sender, refused \subseteq refused', Calm(t), Held(t), Steady(t)
  PROVE  Routed(t)'
<1>1. JobKeeps(d, t)
  BY OthersKeep DEF Moved
<1> QED BY <1>1, JobRoute

LEMMA LoneRoute ==
  ASSUME IInv, RouteInv, NEW t \in Tickets \ Repeatable, NEW d \in Drains, LoneStep(d),
         ~ CutOffBeforeComplete
  PROVE  Routed(t)'
<1>1. Typed /\ Routed(t)
  BY DEF IInv, RouteInv
<1>2. UNCHANGED inbox /\ UNCHANGED vault /\ sender' = sender /\ refused' = refused
  BY DEF LoneStep, StartDrain, LimitReached, ResolveThrows, ScrubFails, Throws, Requeue,
         LoseDrain, vaultVars, outboxVars
<1>3. Calm(t) /\ Held(t) /\ Steady(t)
  BY <1>1, <1>2, UnchangedIsCalm, QuietHolds, UnchangedIsSteady DEF Typed
<1>4. PICK p, k : /\ Moved(d, p, k)
                  /\ \/ p \in {"loop", "idle", "queued"} /\ k = NoTicket
                     \/ p \in {"release", "retry"} /\ k = drain[d].ticket
                        /\ (p = "release" => drain[d].pc = "claimed")
  BY LoneMoves
<1>5. drain[d].pc # "viewed"
  BY DEF LoneStep, CutOffBeforeComplete, StartDrain, LimitReached, ResolveThrows, ScrubFails,
         Requeue, At
<1>6. NoTicket # t
  BY DeliveryAssumption
<1>7. JobKeeps(d, t)
  BY <1>4, <1>5, <1>6 DEF JobKeeps, Moved, Dropping, Holding, At
<1> QED BY <1>1, <1>2, <1>3, <1>4, <1>7, JobRoute

LEMMA RequestRoute ==
  ASSUME IInv, RouteInv, NEW t \in Tickets \ Repeatable, NEW d \in Drains, RequestDelivery(d)
  PROVE  Routed(t)'
<1>1. Typed /\ Routed(t)
  BY DEF IInv, RouteInv
<1>2. /\ UNCHANGED vault /\ sender' = sender /\ refused' = refused
      /\ Inbox!CleanupExpiredUnreadItems
  BY DEF RequestDelivery, vaultVars, outboxVars
<1>3. Calm(t) /\ Held(t) /\ Steady(t)
  BY <1>1, <1>2, QuietCalls, QuietHolds, UnchangedIsSteady DEF Typed
<1>4. CASE UNCHANGED drain
  BY <1>1, <1>2, <1>3, <1>4, SurroundRoute
<1>5. CASE Moved(d, "queued", NoTicket)
  <2>1. drain[d].ticket # t /\ NoTicket # t
    BY DeliveryAssumption DEF RequestDelivery, At, IInv, Shape
  <2> QED BY <1>1, <1>2, <1>3, <1>5, <2>1, ElsewhereRoute
<1> QED BY <1>4, <1>5, RequestMoves

LEMMA ClaimRoute ==
  ASSUME IInv, RouteInv, NEW t \in Tickets \ Repeatable, NEW d \in Drains, ClaimNext(d)
  PROVE  Routed(t)'
<1>1. Typed /\ Routed(t) /\ drain \in [Drains -> Job]
  BY DEF IInv, RouteInv, Typed
<1>2. /\ UNCHANGED vault /\ sender' = sender /\ refused' = refused
      /\ drain[d].left > 0 /\ drain[d].ticket = NoTicket /\ NoTicket # t
  BY DeliveryAssumption DEF ClaimNext, vaultVars, outboxVars, At, IInv, Shape
<1>3. Steady(t)
  BY <1>2, UnchangedIsSteady
<1>4. CASE Inbox!ClaimNothing /\ drain' = [drain EXCEPT ![d] = Acked]
  BY <1>1, <1>2, <1>3, <1>4, ClaimCalls, ClaimHolds, JobMoves, ElsewhereRoute DEF Typed
<1>5. ASSUME NEW u \in Tickets, Claims(d, u)
      PROVE  Routed(t)'
  <2>1. /\ Moved(d, "claimed", u) /\ Inbox!ClaimUnread(u, <<d, u>>)
        /\ Calm(t) /\ Held(t) /\ inbox[u] # Inbox!NoRow
    BY <1>1, <1>2, <1>5, ClaimMoves, ClaimCalls, ClaimHolds DEF Typed, Claims
  <2>2. CASE u # t
    BY <1>1, <1>2, <1>3, <2>1, <2>2, ElsewhereRoute
  <2>3. CASE u = t
    <3> SUFFICES ASSUME Sound(t)'
                 PROVE  Recorded(t)' /\ Lasting(t)' /\ (\A e \in Drains : Holds(e, t)')
                        /\ Completing(t)'
      BY DEF Routed
    <3>1. /\ Sound(t) /\ Recorded(t) /\ Lasting(t) /\ (\A e \in Drains : Holds(e, t))
          /\ Completing(t)
      BY <1>1, <1>2 DEF Routed, Sound
    <3>2. inbox[t].ttl \in Nat /\ inbox[t].ttl > 0 /\ inbox[t].state # "none"
      <4>1. sender[t].ttl \in Nat /\ sender[t].ttl > 0 /\ inbox[t].ttl \in Nat
        BY <1>1, <3>1, RowShape DEF Typed, Tables, Call, Sound
      <4> QED BY <2>1, <2>3, <3>1, <4>1 DEF Lasting
    <3>3. /\ inbox'[t].state = "delivering" /\ inbox'[t].attempt = <<d, t>>
          /\ inbox'[t].lease > 0 /\ inbox'[t].ttl = inbox[t].ttl
          /\ ~ (inbox[t].state = "delivering" /\ inbox[t].lease > 0)
      BY <1>1, <2>1, <2>3, <3>2, ClaimHolds, DeliveryAssumption DEF Calm, Typed
    <3>4. \A e \in Drains : drain[e].ticket = t => drain[e].pc \notin Holding
      BY <3>1, <3>3 DEF Holds
    <3>5. ASSUME NEW e \in Drains
          PROVE  Holds(e, t)'
      <4>1. CASE e = d
        BY <2>1, <2>3, <3>3, <4>1 DEF Holds, Moved, Dropping
      <4>2. CASE e # d
        BY <2>1, <3>1, <3>4, <4>2 DEF Holds, Moved
      <4> QED BY <4>1, <4>2
    <3>6. vault[t].status # "viewed"
      BY <2>1, <2>3, <3>1, <3>4 DEF Completing, At, Holding
    <3> QED BY <1>2, <2>1, <2>3, <3>1, <3>3, <3>5, <3>6 DEF Recorded, Lasting, Completing
  <2> QED BY <2>2, <2>3
<1> QED BY <1>4, <1>5 DEF ClaimNext, Claims

\* A worker at a sound message resolves it, and sends it.
LEMMA ResolveRoute ==
  ASSUME IInv, RouteInv, NEW t \in Tickets \ Repeatable, NEW d \in Drains, Resolve(d)
  PROVE  Routed(t)'
<1> DEFINE u == drain[d].ticket
<1>1. Typed /\ Routed(t)
  BY DEF IInv, RouteInv
<1>2. /\ UNCHANGED inbox /\ sender' = sender /\ refused' = refused /\ drain[d].pc = "claimed"
  BY DEF Resolve, outboxVars, At
<1>3. u \in Tickets /\ drain \in [Drains -> Job]
  BY <1>2, AtWork DEF Holding
<1>4. Calm(t) /\ Held(t) /\ Steady(t)
  <2>1. CASE UNCHANGED vault
    BY <1>1, <1>2, <2>1, UnchangedIsCalm, QuietHolds, UnchangedIsSteady DEF Typed
  <2>2. CASE Vault!GetMissing(u) \/ Vault!GetExpired(u) \/ Vault!GetFound(u)
    BY <1>1, <1>2, <1>3, <2>2, UnchangedIsCalm, QuietHolds, GetCalls DEF Typed
  <2> QED BY <2>1, <2>2 DEF Resolve, vaultVars
<1>5. ASSUME u = t, Sound(t)
      PROVE  Goto(d, "resolved")
  <2>1. Recorded(t)
    BY <1>1, <1>5 DEF Routed
  <2>2. vault[t].status = "active" /\ vault[t].payload
    BY <1>1, <1>2, <1>5, StillActive DEF Holding
  <2>3. vault[t].ttl \in Int /\ sender[t].ttl \in Int
    BY <1>1 DEF Typed, Vaults, Vault!Record, Call
  <2>4. /\ vault[t].status = "active" /\ vault[t].payload /\ vault[t].ttl > 0
        /\ t \notin Malformed \cup Undeliverable
    BY <1>5, <2>1, <2>2, <2>3 DEF Recorded, Sound
  <2>5. ~ Vault!GetMissing(t) /\ ~ Vault!GetExpired(t)
    BY <2>3, <2>4 DEF Vault!GetMissing, Vault!GetExpired, Vault!ReadsAsExpired, Vault!Exists
  <2> QED BY <1>5, <2>4, <2>5 DEF Resolve
<1>6. PICK p \in {"orphanSealed", "orphan", "resolved"} :
        /\ Moved(d, p, u)
        /\ u = t /\ Sound(t) => p = "resolved"
  <2>1. \A p \in {"orphanSealed", "orphan", "resolved"} : Goto(d, p) => Moved(d, p, u)
    BY <1>3, JobMoves DEF DrainPC, Holding
  <2>2. \E p \in {"orphanSealed", "orphan", "resolved"} : Goto(d, p)
    BY DEF Resolve
  <2> QED BY <1>5, <2>1, <2>2
<1>7. JobKeeps(d, t)
  <2>1. Sound(t)' => Sound(t)
    BY <1>2 DEF Sound
  <2> QED BY <1>2, <1>6, <2>1 DEF JobKeeps, Moved, Dropping, Holding, At
<1> QED BY <1>1, <1>2, <1>4, <1>6, <1>7, JobRoute

LEMMA SendRoute ==
  ASSUME IInv, RouteInv, NEW t \in Tickets \ Repeatable, NEW d \in Drains,
         SendAnswered(d) \/ SendRetry(d)
  PROVE  Routed(t)'
<1> DEFINE u == drain[d].ticket
<1>1. Typed /\ Routed(t)
  BY DEF IInv, RouteInv
<1>2. /\ UNCHANGED inbox /\ UNCHANGED vault /\ sender' = sender /\ drain[d].pc = "resolved"
      /\ refused \subseteq refused'
  BY DEF SendAnswered, SendRetry, At, vaultVars
<1>3. u \in Tickets /\ drain \in [Drains -> Job]
  BY <1>2, AtWork DEF Holding
<1>4. Calm(t) /\ Held(t) /\ Steady(t)
  BY <1>1, <1>2, UnchangedIsCalm, QuietHolds, UnchangedIsSteady DEF Typed
<1>5. PICK p \in {"sent", "orphan", "release"} :
        Goto(d, p) /\ (p = "orphan" => u \in refused')
  BY DEF SendAnswered, SendRetry
<1>6. Moved(d, p, u)
  <2>1. p \in DrainPC
    BY <1>5 DEF DrainPC, Holding
  <2> QED BY <1>3, <1>5, <2>1, JobMoves
<1>7. JobKeeps(d, t)
  <2>1. u = t /\ Sound(t)' => p # "orphan"
    BY <1>5 DEF Sound
  <2> QED BY <1>2, <1>5, <1>6, <2>1 DEF JobKeeps, Moved, Dropping, Holding, At
<1> QED BY <1>1, <1>2, <1>4, <1>6, <1>7, JobRoute

\* A worker that marks a record has the row, and completes it next.
LEMMA MarkRoute ==
  ASSUME IInv, RouteInv, NEW t \in Tickets \ Repeatable, NEW d \in Drains, MarkViewed(d)
  PROVE  Routed(t)'
<1> DEFINE u == drain[d].ticket
<1>1. Typed /\ Routed(t) /\ Life(t)
  BY DEF IInv, RouteInv
<1>2. /\ UNCHANGED inbox /\ sender' = sender /\ refused' = refused /\ drain[d].pc = "sent"
      /\ Vault!MarkViewed(u) /\ Goto(d, "viewed")
  BY DEF MarkViewed, outboxVars, At
<1>3. u \in Tickets /\ drain \in [Drains -> Job]
  BY <1>2, AtWork DEF Holding
<1>4. Moved(d, "viewed", u)
  <2>1. "viewed" \in DrainPC
    BY DEF DrainPC, Holding
  <2> QED BY <1>2, <1>3, <2>1, JobMoves
<1>5. Calm(t) /\ Held(t)
  BY <1>1, <1>2, UnchangedIsCalm, QuietHolds DEF Typed
<1>6. CASE u # t
  BY <1>1, <1>2, <1>3, <1>4, <1>5, <1>6, MarkCall, ElsewhereRoute DEF Typed
<1>7. CASE u = t
  <2> SUFFICES ASSUME Sound(t)'
               PROVE  Recorded(t)' /\ Lasting(t)' /\ (\A e \in Drains : Holds(e, t)')
                      /\ Completing(t)'
    BY DEF Routed
  <2>1. /\ Sound(t) /\ Recorded(t) /\ Lasting(t) /\ (\A e \in Drains : Holds(e, t))
    BY <1>1, <1>2 DEF Routed, Sound
  <2>2. vault[t] \in Vault!Record /\ vault[t].ttl > 0
    <3>1. /\ vault[t] \in Vault!Record /\ vault[t].ttl \in Int
          /\ sender[t].ttl \in Int /\ sender[t].ttl > 0
      BY <1>1, <2>1 DEF Typed, Vaults, Vault!Record, Call, Sound
    <3> QED BY <2>1, <3>1 DEF Recorded
  <2>3. vault'[t] = [vault[t] EXCEPT !.status = "viewed", !.payload = FALSE]
    <3>1. vault' = [vault EXCEPT ![t].status = "viewed", ![t].payload = FALSE]
      BY <1>2, <1>7, <2>1, <2>2 DEF Vault!MarkViewed, Recorded
    <3> QED BY <1>1, <3>1 DEF Typed, Vaults, Vault!Record
  <2>4. Recorded(t)'
    BY <1>2, <2>1, <2>2, <2>3 DEF Recorded, Vault!Record
  <2>5. Lasting(t)'
    BY <1>2, <2>1 DEF Lasting
  <2>6. \A e \in Drains : Holds(e, t)'
    BY <1>2, <1>4, <1>7, <2>1 DEF Holds, Moved, Dropping, Holding
  <2>7. sender[t].pc = "ok"
    BY <1>1, <1>7, <2>1 DEF Life, Unborn, Sound
  <2>8. Completing(t)'
    BY <1>2, <1>4, <1>7, <2>7 DEF Completing, Moved, At, SenderAt
  <2> QED BY <2>4, <2>5, <2>6, <2>8
<1> QED BY <1>6, <1>7

\* A worker that drops a message is not at a sound one.
LEMMA DropRoute ==
  ASSUME IInv, RouteInv, NEW t \in Tickets \ Repeatable, NEW d \in Drains,
         CompleteOrphan(d) \/ ScrubVault(d)
  PROVE  Routed(t)'
<1> DEFINE u == drain[d].ticket
<1>1. Typed /\ Routed(t)
  BY DEF IInv, RouteInv
<1>2. sender' = sender /\ refused' = refused /\ drain[d].pc \in Dropping
  BY DEF CompleteOrphan, ScrubVault, outboxVars, At, Dropping
<1>3. u \in Tickets /\ drain \in [Drains -> Job] /\ NoTicket # t
  BY <1>2, AtWork, DeliveryAssumption DEF Dropping, Holding
<1>4. CASE u = t
  <2>1. ~ Sound(t)
    BY <1>1, <1>2, <1>4 DEF Routed, Holds
  <2> QED BY <1>2, <2>1 DEF Routed, Sound
<1>5. CASE u # t
  <2>1. PICK p, k : Moved(d, p, k) /\ k \in {u, NoTicket}
    <3>1. Goto(d, "scrub") \/ NextItem(d)
      BY DEF CompleteOrphan, ScrubVault
    <3>2. "scrub" \in DrainPC
      BY DEF DrainPC
    <3> QED BY <1>3, <3>1, <3>2, JobMoves
  <2>2. CASE CompleteOrphan(d)
    <3>1. Inbox!CompleteUnread(u, Attempt(d)) /\ Attempt(d) \in Drains \X Tickets
          /\ UNCHANGED vault
      BY <1>2, <2>2, AtWork DEF CompleteOrphan, Dropping, Holding, vaultVars
    <3>2. Calm(t) /\ Held(t) /\ Steady(t)
      BY <1>1, <1>3, <1>5, <3>1, ReportCalls, ReportHolds, UnchangedIsSteady DEF Typed
    <3> QED BY <1>1, <1>2, <1>3, <1>5, <2>1, <3>2, ElsewhereRoute
  <2>3. CASE ScrubVault(d)
    <3>1. UNCHANGED inbox /\ Vault!DeleteTicket(u)
      BY <2>3 DEF ScrubVault
    <3>2. Calm(t) /\ Held(t) /\ Steady(t)
      BY <1>1, <1>3, <1>5, <3>1, UnchangedIsCalm, QuietHolds, DeleteCall DEF Typed
    <3> QED BY <1>1, <1>2, <1>3, <1>5, <2>1, <3>2, ElsewhereRoute
  <2> QED BY <2>2, <2>3
<1> QED BY <1>4, <1>5

\* The row is completed or put back by the worker that has it.
LEMMA ReportRoute ==
  ASSUME IInv, RouteInv, NEW t \in Tickets \ Repeatable, NEW d \in Drains,
         CompleteDelivery(d) \/ ReleaseClaim(d)
  PROVE  Routed(t)'
<1> DEFINE u == drain[d].ticket
<1>1. Typed /\ Routed(t)
  BY DEF IInv, RouteInv
<1>2. /\ UNCHANGED vault /\ sender' = sender /\ refused' = refused
      /\ drain[d].pc \in {"viewed", "release"}
  BY DEF CompleteDelivery, ReleaseClaim, vaultVars, outboxVars, At
<1>3. /\ u \in Tickets /\ drain \in [Drains -> Job] /\ NoTicket # t
      /\ Attempt(d) \in Drains \X Tickets /\ inbox \in Tables
  BY <1>1, <1>2, AtWork, DeliveryAssumption DEF Holding, Typed
<1>4. \/ /\ CompleteDelivery(d) /\ Inbox!CompleteUnread(u, Attempt(d))
         /\ Moved(d, "loop", NoTicket)
      \/ /\ ReleaseClaim(d) /\ Inbox!ReleaseUnread(u, Attempt(d))
         /\ Moved(d, "retry", u) /\ drain[d].pc = "release"
  <2>1. "retry" \in DrainPC
    BY DEF DrainPC
  <2> QED BY <1>3, <2>1, JobMoves DEF CompleteDelivery, ReleaseClaim, At
<1>5. CASE u # t
  <2>1. Calm(t) /\ Held(t) /\ Steady(t)
    BY <1>2, <1>3, <1>4, <1>5, ReportCalls, ReportHolds, UnchangedIsSteady
  <2> QED BY <1>1, <1>2, <1>3, <1>4, <1>5, <2>1, ElsewhereRoute
<1>6. CASE u = t
  <2> SUFFICES ASSUME Sound(t)'
               PROVE  Recorded(t)' /\ Lasting(t)' /\ (\A e \in Drains : Holds(e, t)')
                      /\ Completing(t)'
    BY DEF Routed
  <2>1. /\ Sound(t) /\ Recorded(t) /\ Lasting(t) /\ (\A e \in Drains : Holds(e, t))
        /\ Completing(t)
    BY <1>1, <1>2 DEF Routed, Sound
  <2>2. Inbox!Owns(t, Attempt(d))
    BY <1>2, <1>6, <2>1 DEF Holds, Holding, Inbox!Owns, Attempt
  <2>3. \A e \in Drains \ {d} : drain[e].ticket = t => drain[e].pc \notin Holding
    BY <1>1, <1>2, <1>6, <2>1, OneHolder DEF Holding
  <2>4. \A e \in Drains : Holds(e, t)'
    BY <1>3, <1>4, <2>1, <2>3 DEF Holds, Moved, Dropping, Holding
  <2>5. Recorded(t)'
    BY <1>2, <2>1 DEF Recorded
  <2>6. CASE CompleteDelivery(d) /\ Inbox!CompleteUnread(u, Attempt(d))
    <3>1. inbox'[t] = Inbox!NoRow
      BY <1>3, <1>6, <2>2, <2>6, ReportCalls
    <3>2. Completing(t)'
      BY <1>2, <2>1, <3>1 DEF Completing, SenderAt
    <3> QED BY <2>4, <2>5, <3>1, <3>2 DEF Lasting
  <2>7. CASE Inbox!ReleaseUnread(u, Attempt(d)) /\ drain[d].pc = "release"
    <3>1. Calm(t)
      BY <1>3, <1>6, <2>7, ReportCalls
    <3>2. sender[t].ttl \in Nat /\ sender[t].ttl > 0 /\ inbox[t].ttl \in Nat
      BY <1>1, <2>1, RowShape DEF Typed, Tables, Call, Sound
    <3>3. Lasting(t)'
      BY <1>2, <2>1, <3>1, <3>2 DEF Lasting, Calm
    <3>4. vault[t].status = "active"
      BY <1>1, <1>6, <2>1, <2>7, StillActive DEF Holding
    <3> QED BY <1>2, <2>4, <2>5, <3>3, <3>4 DEF Completing
  <2> QED BY <1>4, <2>6, <2>7
<1> QED BY <1>5, <1>6

LEMMA RouteStep ==
  ASSUME IInv, RouteInv, [Next]_vars, ~ LapsedAtWork, ~ CutOffBeforeComplete
  PROVE  RouteInv'
<1> SUFFICES ASSUME NEW t \in Tickets \ Repeatable
             PROVE  Routed(t)'
  BY DEF RouteInv
<1>1. CASE UNCHANGED vars
  BY <1>1
     DEF vars, vaultVars, outboxVars, RouteInv, Routed, Sound, Recorded, Lasting, Holds,
         Completing, At, SenderAt
<1>2. ASSUME NEW u \in Tickets, SenderWork(u) \/ SenderFails(u)
      PROVE  Routed(t)'
  BY <1>2, CallRoute
<1>3. ASSUME NEW d \in Drains, RequestDelivery(d) \/ DrainWork(d) \/ DrainFails(d)
      PROVE  Routed(t)'
  BY <1>3, LoneRoute, RequestRoute, ClaimRoute, ResolveRoute, SendRoute, MarkRoute, DropRoute,
     ReportRoute
     DEF DrainWork, DrainFails, LoneStep
<1>4. CASE NotificationCount \/ VaultAlarm
  BY <1>4, EnvironmentRoute
<1>5. ASSUME NEW u \in Tickets, ActOnTicket(u) \/ OutboxForgets(u)
      PROVE  Routed(t)'
  BY <1>5, EnvironmentRoute
<1>6. CASE Minute
  BY <1>6, MinuteRoute
<1>7. CASE Day
  BY <1>7, DayRoute
<1> QED BY <1>1, <1>2, <1>3, <1>4, <1>5, <1>6, <1>7
        DEF Next, Working, Failing, Environment

\* A lease that lapses under a worker and a worker cut off right after it marked
\* the record are all that costs a delivered message its route: without them it
\* keeps it until it expires, whatever else is lost, retried or overtaken, for
\* any number of tickets, jobs and faults (inbox.ts:471-475).  Request accepts
\* are left out: a repetition has a history of its own.
THEOREM RouteTheorem ==
  Spec /\ [][~ LapsedAtWork]_vars /\ [][~ CutOffBeforeComplete]_vars
    => [](\A t \in Tickets \ Repeatable : RouteKept(t))
<1>1. Init => RouteInv
  <2> SUFFICES ASSUME Init, NEW t \in Tickets
               PROVE  ~ Sound(t)
    BY DEF RouteInv, Routed
  <2> QED BY DEF Init, Sound
<1>2. ASSUME IInv, RouteInv, [Next]_vars, [~ LapsedAtWork]_vars, [~ CutOffBeforeComplete]_vars
      PROVE  RouteInv'
  <2>1. CASE UNCHANGED vars
    BY <1>2, <2>1
       DEF vars, vaultVars, outboxVars, RouteInv, Routed, Sound, Recorded, Lasting, Holds,
           Completing, At, SenderAt
  <2> QED BY <1>2, <2>1, RouteStep
<1>3. RouteInv => \A t \in Tickets \ Repeatable : RouteKept(t)
  BY DEF RouteInv, Routed, Sound, Recorded, RouteKept, SenderAt
<1> QED BY <1>1, <1>2, <1>3, Invariant, PTL DEF Spec

-----------------------------------------------------------------------------
(* The message of a request accept that is repeated.                       *)
(*                                                                         *)
(* A record that is found is not deleted by the call that finds it, and    *)
(* the call that stored it has added the row only when it knows so.        *)

\* The place of a call is all that changes of it.
LEMMA PlaceTurns ==
  ASSUME Typed, NEW t \in Tickets, NEW p, SenderGoto(t, p)
  PROVE  /\ sender'[t].pc = p /\ sender'[t].created = sender[t].created
         /\ sender'[t].ttl = sender[t].ttl
         /\ \A u \in Tickets \ {t} : sender'[u] = sender[u]
<1>1. sender[t] \in Call /\ sender' = [sender EXCEPT ![t] = [sender[t] EXCEPT !.pc = p]]
  BY DEF Typed, SenderGoto
<1>2. sender'[t] = [sender[t] EXCEPT !.pc = p]
        /\ \A u \in Tickets \ {t} : sender'[u] = sender[u]
  BY <1>1 DEF Typed
<1> QED BY <1>1, <1>2 DEF Call

\* The call begins, for the first time or again.
LEMMA BeginRepeats ==
  ASSUME IInv, NEW t \in Tickets, Repeated(t), Begin(t)
  PROVE  Repeated(t)'
<1>1. Typed /\ inbox' = inbox /\ vault' = vault /\ drain' = drain
      /\ (Settled(t)' <=> Settled(t)) /\ (Present(t)' <=> Present(t))
  BY DEF Begin, vaultVars, outboxVars, Settled, Present, IInv
<1>2. sender'[t] = [pc |-> "storing", created |-> FALSE,
                    ttl |-> IF sender[t].pc = "idle" THEN TTL ELSE sender[t].ttl]
  BY <1>1 DEF Begin, Typed
<1>3. sender'[t].pc = "storing" /\ sender'[t].created = FALSE
      /\ (sender[t].pc # "idle" => sender'[t].ttl = sender[t].ttl)
  BY <1>2
<1>4. CASE sender[t].pc = "idle"
  <2>1. ~ Present(t) /\ vault[t] = Vault!NoRecord
    BY <1>4 DEF Repeated
  <2> QED BY <1>1, <1>3, <2>1 DEF Repeated, Present
<1>5. CASE sender[t].pc # "idle"
  BY <1>1, <1>3, <1>5 DEF Repeated, Lives, Settled, Begin, SenderAt, Ended
<1> QED BY <1>4, <1>5

\* It stores the ticket, or finds it stored.
LEMMA StoreRepeats ==
  ASSUME IInv, NEW t \in Tickets, Repeated(t), Store(t)
  PROVE  Repeated(t)'
<1>1. Typed /\ inbox' = inbox /\ drain' = drain
      /\ (Settled(t)' <=> Settled(t)) /\ (Present(t)' <=> Present(t))
  BY DEF Store, outboxVars, Settled, Present, IInv
<1>2. sender[t].pc = "storing" /\ ~ sender[t].created
  BY DEF Store, SenderAt, Repeated
<1>3. CASE Vault!StoreTicket(t)
  <2>1. Turned(t, "adding")
    <3>1. "adding" \in SenderPC /\ ~ Vault!StoreExisting(t)
      BY <1>3 DEF SenderPC, Vault!StoreTicket, Vault!StoreExisting, Vault!Exists
    <3> QED BY <1>1, <3>1, CallTurns DEF Store, Typed
  <2>2. vault'[t] = Vault!NewRecord
    BY <1>1, <1>3, StoreCall DEF Typed
  <2>3. sender'[t].pc = "adding" /\ sender'[t].ttl = sender[t].ttl /\ sender'[t].ttl <= TTL
    BY <2>1, DeliveryAssumption DEF Turned, Call
  <2>4. Lives(t)' => Lives(t)
    BY <1>1, <2>3 DEF Lives
  <2>5. Lives(t) => ~ Present(t)
    BY <1>3, RecordShapes DEF Repeated, Vault!StoreTicket, Vault!Exists
  <2> QED BY <1>1, <2>2, <2>3, <2>4, <2>5, RecordShapes DEF Repeated, Present
<1>4. CASE Vault!StoreExisting(t) /\ SenderGoto(t, "adding")
  <2>1. /\ sender'[t].pc = "adding" /\ ~ sender'[t].created
        /\ sender'[t].ttl = sender[t].ttl
    BY <1>1, <1>2, <1>4, PlaceTurns
  <2>2. vault' = vault /\ vault[t] # Vault!NoRecord
    BY <1>4, RecordShapes DEF Vault!StoreExisting, Vault!Exists
  <2> QED BY <1>1, <2>1, <2>2 DEF Repeated, Lives
<1> QED BY <1>3, <1>4 DEF Store

\* It adds the row, finds it there, is refused or hears of a failure.
LEMMA AddRepeats ==
  ASSUME IInv, NEW t \in Repeatable, Repeated(t), AddUnread(t) \/ AddThrows(t), ~ AddedUnheard
  PROVE  Repeated(t)'
<1>1. /\ Typed /\ t \in Tickets /\ inbox \in Tables
      /\ vault' = vault /\ drain' = drain /\ (Settled(t)' <=> Settled(t))
  BY DeliveryAssumption
     DEF AddUnread, AddThrows, vaultVars, outboxVars, Settled, IInv, Typed
<1>2. sender[t].pc = "adding"
  BY DEF AddUnread, AddThrows, SenderAt
<1>3. PICK p \in {"ok", "cleanup", "failed"} :
        /\ SenderGoto(t, p)
        /\ p = "cleanup" => sender[t].created
        /\ p = "ok" => Inbox!AddUnreadItem(t) \/ Inbox!AddDuplicate(t)
  BY DEF AddUnread, AddThrows, GiveUp
<1>4. /\ sender'[t].pc = p /\ sender'[t].created = sender[t].created
      /\ sender'[t].ttl = sender[t].ttl
  BY <1>1, <1>3, PlaceTurns
<1>5. CASE inbox'[t] = Inbox!NewRow /\ (p = "cleanup" => inbox' = inbox)
  <2>1. sender[t].ttl <= TTL
    BY <1>1, DeliveryAssumption DEF Typed, Call
  <2>2. Lives(t)' => Lives(t)
    BY <1>1, <1>4 DEF Lives
  <2>3. p = "cleanup" => (Present(t)' <=> Present(t))
    BY <1>1, <1>5 DEF Present
  <2>4. Lives(t)' =>
          /\ vault'[t] # Vault!NoRecord /\ vault'[t].status = "active" /\ vault'[t].payload
          /\ sender'[t].ttl <= vault'[t].ttl
          /\ \A d \in Drains : drain'[d].ticket = t => drain'[d].pc \in Hopeful
          /\ p = "cleanup" => ~ Present(t)'
    BY <1>1, <1>2, <1>3, <1>4, <2>2, <2>3 DEF Repeated
  <2> QED BY <1>3, <1>4, <1>5, <2>1, <2>4, FixedRows DEF Repeated
<1>6. CASE Calm(t)
  <2>1. Lives(t)' => Lives(t) /\ sender[t].ttl \in Nat /\ sender[t].ttl > 0
                      /\ inbox[t].ttl \in Nat
    BY <1>1, <1>4, RowShape DEF Lives, Typed, Call, Tables
  <2>2. Lives(t)' =>
          /\ vault'[t] # Vault!NoRecord /\ vault'[t].status = "active" /\ vault'[t].payload
          /\ sender'[t].ttl <= vault'[t].ttl
          /\ \A d \in Drains : drain'[d].ticket = t => drain'[d].pc \in Hopeful
    BY <1>1, <1>2, <1>4, <2>1 DEF Repeated
  <2>3. Lives(t)' /\ inbox[t] # Inbox!NoRow =>
          inbox'[t].state # "none" /\ sender'[t].ttl <= inbox'[t].ttl
    BY <1>4, <1>6, <2>1 DEF Repeated, Calm
  <2>4. inbox[t] = Inbox!NoRow => inbox'[t] = Inbox!NoRow
    BY <1>6 DEF Calm
  <2>5. Lives(t)' /\ p = "cleanup" => ~ Present(t)'
    BY <1>1, <1>2, <1>3, <2>1, <2>4 DEF Repeated, Present
  <2>6. Lives(t)' /\ p = "ok" => inbox'[t] # Inbox!NoRow
    <3>1. Inbox!AddUnreadItem(t) => inbox'[t] = Inbox!NewRow
      BY <1>1, AddCalls
    <3>2. Inbox!AddDuplicate(t) => inbox[t] # Inbox!NoRow
      BY <1>1, AddCalls
    <3> QED BY <1>3, <2>3, <3>1, <3>2, FixedRows
  <2> QED BY <1>3, <1>4, <2>2, <2>3, <2>4, <2>5, <2>6 DEF Repeated
<1>7. \/ Calm(t)
      \/ inbox'[t] = Inbox!NewRow /\ (p = "cleanup" => inbox' = inbox)
  <2>1. CASE AddUnread(t)
    <3>1. p = "cleanup" \/ p = "failed" => Inbox!AddRefusedFull(t)
      BY <1>3, <1>4, <2>1, <1>1, PlaceTurns DEF AddUnread
    <3> QED BY <1>1, <1>3, <2>1, <3>1, AddCalls
  <2>2. CASE AddThrows(t)
    <3>1. CASE inbox' = inbox
      BY <1>1, <3>1, UnchangedIsCalm
    <3>2. CASE inbox' # inbox /\ Inbox!AddUnreadItem(t)
      BY <1>1, <1>3, <2>2, <3>2, AddCalls DEF AddedUnheard
    <3> QED BY <2>2, <3>1, <3>2 DEF AddThrows
  <2> QED BY <2>1, <2>2
<1> QED BY <1>5, <1>6, <1>7

\* It deletes the ticket it stored, or is lost.
LEMMA EndRepeats ==
  ASSUME IInv, NEW t \in Tickets, Repeated(t), Cleanup(t) \/ LoseSender(t)
  PROVE  Repeated(t)'
<1>1. Typed /\ inbox' = inbox /\ drain' = drain
      /\ (Settled(t)' <=> Settled(t)) /\ (Present(t)' <=> Present(t))
  BY DEF Cleanup, LoseSender, outboxVars, Settled, Present, IInv
<1>2. sender'[t].pc = "failed" /\ sender'[t].ttl = sender[t].ttl
  BY <1>1, PlaceTurns DEF Cleanup, LoseSender
<1>3. Lives(t)' => Lives(t)
  BY <1>1, <1>2 DEF Lives
<1>4. CASE Cleanup(t)
  <2>1. sender[t].pc = "cleanup" /\ sender[t].created /\ vault'[t] = Vault!NoRecord
    BY <1>1, <1>4, DeleteCall DEF Cleanup, SenderAt, Repeated, Typed
  <2>2. Lives(t) => ~ Present(t)
    BY <2>1 DEF Repeated
  <2> QED BY <1>1, <1>2, <1>3, <2>1, <2>2 DEF Repeated, Present
<1>5. CASE LoseSender(t)
  <2>1. vault' = vault
    BY <1>5 DEF LoseSender, vaultVars
  <2> QED BY <1>1, <1>2, <1>3, <2>1 DEF Repeated
<1> QED BY <1>4, <1>5

\* A call of another message goes unnoticed.
LEMMA CallRepeats ==
  ASSUME IInv, NEW u \in Tickets, SenderWork(u) \/ SenderFails(u), ~ AddedUnheard
  PROVE  Repeats
<1> SUFFICES ASSUME NEW t \in Repeatable, Repeated(t)
             PROVE  Repeated(t)'
  BY DEF Repeats
<1>1. Typed /\ t \in Tickets /\ drain' = drain /\ refused' = refused /\ shown' = shown
  BY DeliveryAssumption
     DEF SenderWork, SenderFails, Begin, Store, AddUnread, AddThrows, Cleanup, LoseSender,
         outboxVars, IInv
<1>2. CASE t = u
  BY <1>1, <1>2, BeginRepeats, StoreRepeats, AddRepeats, EndRepeats
     DEF SenderWork, SenderFails
<1>3. CASE t # u
  <2>1. sender'[t] = sender[t]
    <3>1. CASE Begin(u) \/ Store(u)
      BY <1>1, <1>3, <3>1 DEF Begin, Store, SenderGoto, Typed
    <3>2. CASE \E p : SenderGoto(u, p)
      BY <1>1, <1>3, <3>2, PlaceTurns
    <3> QED BY <3>1, <3>2
            DEF SenderWork, SenderFails, AddUnread, AddThrows, GiveUp, Cleanup, LoseSender
  <2>2. Calm(t)
    BY <1>1, <1>3, AddCalls, UnchangedIsCalm
       DEF SenderWork, SenderFails, Begin, Store, AddUnread, AddThrows, Cleanup, LoseSender,
           Typed
  <2>3. Steady(t)
    BY <1>1, <1>3, StoreCall, DeleteCall, UnchangedIsSteady
       DEF SenderWork, SenderFails, Begin, Store, AddUnread, AddThrows, Cleanup, LoseSender,
           Typed, vaultVars, Vault!StoreExisting
  <2> QED BY <1>1, <2>1, <2>2, <2>3, RepeatRests
<1> QED BY <1>2, <1>3

LEMMA DayRepeats ==
  ASSUME IInv, Day
  PROVE  Repeats
<1> SUFFICES ASSUME NEW t \in Repeatable, Repeated(t)
             PROVE  Repeated(t)'
  BY DEF Repeats
<1>1. Typed /\ t \in Tickets /\ drain' = drain /\ refused' = refused /\ shown' = shown
  BY DeliveryAssumption DEF IInv, Day, Outbox!Day
<1>2. /\ inbox[t] \in Inbox!Row /\ inbox[t].ttl \in Nat
      /\ sender[t] \in Call /\ sender[t].ttl \in Nat
      /\ vault[t] \in Vault!Record /\ vault[t].ttl \in Int
  BY <1>1, RowShape DEF Typed, Tables, Vaults, Vault!Record, Call
<1>3. /\ inbox'[t] = [inbox[t] EXCEPT !.ttl = Inbox!Elapse(@)]
      /\ vault'[t] = [vault[t] EXCEPT !.ttl = IF @ > -1 THEN @ - 1 ELSE @]
      /\ sender'[t] = [sender[t] EXCEPT !.ttl = IF @ > 0 THEN @ - 1 ELSE 0]
  BY <1>1 DEF Day, Inbox!Day, Vault!Day
<1>4. /\ inbox'[t].state = inbox[t].state
      /\ inbox'[t].ttl = IF inbox[t].ttl > 0 THEN inbox[t].ttl - 1 ELSE 0
      /\ inbox[t] = Inbox!NoRow => inbox'[t] = Inbox!NoRow
  BY <1>2, <1>3, RowShape DEF Inbox!Elapse, Inbox!NoRow
<1>5. /\ vault'[t].status = vault[t].status /\ vault'[t].payload = vault[t].payload
      /\ vault'[t].ttl = IF vault[t].ttl > -1 THEN vault[t].ttl - 1 ELSE vault[t].ttl
      /\ vault[t] = Vault!NoRecord => vault'[t] = Vault!NoRecord
  BY <1>2, <1>3 DEF Vault!Record, Vault!NoRecord
<1>6. /\ sender'[t].pc = sender[t].pc /\ sender'[t].created = sender[t].created
      /\ sender'[t].ttl = IF sender[t].ttl > 0 THEN sender[t].ttl - 1 ELSE 0
  BY <1>2, <1>3 DEF Call
<1>7. Present(t)' => Present(t)
  BY <1>1, <1>4 DEF Present
<1>8. ASSUME Lives(t)'
      PROVE  /\ Lives(t) /\ sender'[t].ttl = sender[t].ttl - 1 /\ sender[t].ttl > 0
             /\ inbox[t] # Inbox!NoRow =>
                  inbox'[t].state # "none" /\ sender'[t].ttl <= inbox'[t].ttl
             /\ vault[t] # Vault!NoRecord =>
                  /\ vault'[t] # Vault!NoRecord
                  /\ vault'[t].status = "active" /\ vault'[t].payload
                  /\ sender'[t].ttl <= vault'[t].ttl
  <2>1. Lives(t) /\ sender'[t].ttl = sender[t].ttl - 1 /\ sender[t].ttl > 0
    BY <1>1, <1>2, <1>6, <1>8 DEF Lives, Settled
  <2>2. inbox[t] # Inbox!NoRow =>
          inbox'[t].state # "none" /\ sender'[t].ttl <= inbox'[t].ttl
    BY <1>2, <1>4, <2>1 DEF Repeated
  <2>3. vault[t] # Vault!NoRecord =>
          /\ vault'[t].status = "active" /\ vault'[t].payload
          /\ sender'[t].ttl <= vault'[t].ttl
    BY <1>2, <1>5, <2>1 DEF Repeated
  <2> QED BY <2>1, <2>2, <2>3, RecordShapes
<1>9. Lives(t)' =>
        /\ sender'[t].pc = "ok" => inbox'[t] # Inbox!NoRow
        /\ \A d \in Drains : drain'[d].ticket = t => drain'[d].pc \in Hopeful
        /\ sender'[t].created /\ sender'[t].pc \in {"adding", "cleanup"} => ~ Present(t)'
        /\ Present(t)' \/ sender'[t].pc \in {"adding", "ok"} => vault[t] # Vault!NoRecord
  BY <1>1, <1>6, <1>7, <1>8, FixedRows DEF Repeated
<1> QED BY <1>4, <1>5, <1>6, <1>7, <1>8, <1>9 DEF Repeated

LEMMA RepeatStep ==
  ASSUME IInv, RepeatInv, [Next]_vars, ~ AddedUnheard
  PROVE  RepeatInv'
<1> SUFFICES Repeats \/ UNCHANGED vars
  BY DEF Repeats, RepeatInv, Repeated, Lives, Present, Settled, vars, vaultVars, outboxVars
<1>1. ASSUME NEW u \in Tickets, SenderWork(u) \/ SenderFails(u)
      PROVE  Repeats
  BY <1>1, CallRepeats
<1>2. ASSUME NEW d \in Drains, RequestDelivery(d) \/ DrainWork(d) \/ DrainFails(d)
      PROVE  Repeats
  BY <1>2, LoneInv, RequestInv, ClaimInv, ResolveInv, SendInv, VaultInv, ReportInv
     DEF DrainWork, DrainFails, LoneStep
<1>3. CASE NotificationCount
  BY <1>3, EnvironmentInv DEF NotificationCount, outboxVars
<1>4. ASSUME NEW u \in Tickets, ActOnTicket(u) \/ OutboxForgets(u)
      PROVE  Repeats
  BY <1>4, EnvironmentInv DEF ActOnTicket, OutboxForgets, outboxVars
<1>5. CASE VaultAlarm
  BY <1>5, EnvironmentInv DEF VaultAlarm, outboxVars
<1>6. CASE Minute
  BY <1>6, EnvironmentInv DEF Minute, outboxVars
<1>7. CASE Day
  BY <1>7, DayRepeats
<1> QED BY <1>1, <1>2, <1>3, <1>4, <1>5, <1>6, <1>7
        DEF Next, Working, Failing, Environment

\* The message of a request accept is kept through all repetitions, unless a call
\* that stored the ticket adds its row without hearing of it and then deletes the
\* ticket under the row: for any number of tickets, repetitions, jobs and faults
\* (create-sealed-ticket.ts:168-259).
THEOREM RepeatTheorem == Spec /\ [][~ AddedUnheard]_vars => []RepeatedIsKept
<1>1. Init => RepeatInv
  <2> SUFFICES ASSUME Init, NEW t \in Tickets
               PROVE  Repeated(t)
    BY DeliveryAssumption DEF RepeatInv
  <2>1. inbox[t] = Inbox!NoRow /\ vault[t] = Vault!NoRecord
    BY DEF Init, Inbox!Init, Vault!Init
  <2>2. \A d \in Drains : drain[d].ticket # t
    BY DeliveryAssumption DEF Init
  <2>3. sender[t].pc = "idle" /\ ~ sender[t].created /\ sender[t].ttl = 0
    BY DEF Init
  <2> QED BY <2>1, <2>2, <2>3 DEF Repeated, Present, Lives
<1>2. ASSUME IInv, RepeatInv, [Next]_vars, [~ AddedUnheard]_vars
      PROVE  RepeatInv'
  <2>1. CASE UNCHANGED vars
    BY <1>2, <2>1
       DEF RepeatInv, Repeated, Lives, Present, Settled, vars, vaultVars, outboxVars
  <2> QED BY <1>2, <2>1, RepeatStep
<1>3. RepeatInv => RepeatedIsKept
  BY FixedRows DEF RepeatInv, Repeated, Lives, RepeatedIsKept, Kept, SenderAt
<1> QED BY <1>1, <1>2, <1>3, Invariant, PTL DEF Spec

-----------------------------------------------------------------------------
(* The inbox of the composition is the inbox of UnreadInbox. *)

\* The claim job e has open, if any.
Open(e, c) == drain[e].pc \in Holding /\ c = <<drain[e].ticket, <<e, drain[e].ticket>>>>

LEMMA OpenedClaims ==
  /\ \A c : c \in openClaims <=> \E e \in Drains : Open(e, c)
  /\ \A c : c \in openClaims' <=> \E e \in Drains : Open(e, c)'
BY DEF openClaims, Attempt, Open

\* A job opens a claim, closes its own, or neither.
LEMMA ClaimsMove ==
  ASSUME NEW d \in Drains, NEW p, NEW k, Moved(d, p, k)
  PROVE  /\ drain[d].pc \notin Holding /\ p \notin Holding => openClaims' = openClaims
         /\ drain[d].pc \in Holding /\ p \in Holding /\ k = drain[d].ticket
              => openClaims' = openClaims
         /\ drain[d].pc \in Holding /\ p \notin Holding
              => /\ <<drain[d].ticket, Attempt(d)>> \in openClaims
                 /\ openClaims' = openClaims \ {<<drain[d].ticket, Attempt(d)>>}
         /\ drain[d].pc \notin Holding /\ p \in Holding
              => openClaims' = openClaims \cup {<<k, <<d, k>>>>}
<1>1. \A e \in Drains \ {d} : \A c : Open(e, c)' <=> Open(e, c)
  BY DEF Moved, Open
<1>2. \A c : Open(d, c)' <=> p \in Holding /\ c = <<k, <<d, k>>>>
  BY DEF Moved, Open
<1>3. \A e \in Drains \ {d} : \A c, b : Open(e, c) /\ Open(d, b) => c # b
  BY DEF Open
<1>4. ASSUME drain[d].pc \notin Holding, p \notin Holding
      PROVE  openClaims' = openClaims
  <2>1. \A c : ~ Open(d, c) /\ ~ Open(d, c)'
    BY <1>2, <1>4 DEF Open
  <2>2. \A c : c \in openClaims' <=> c \in openClaims
    BY <1>1, <2>1, OpenedClaims
  <2> QED BY <2>2
<1>5. ASSUME drain[d].pc \in Holding, p \in Holding, k = drain[d].ticket
      PROVE  openClaims' = openClaims
  <2>1. \A c : Open(d, c)' <=> Open(d, c)
    BY <1>2, <1>5 DEF Open
  <2>2. \A c : c \in openClaims' <=> c \in openClaims
    BY <1>1, <2>1, OpenedClaims
  <2> QED BY <2>2
<1>6. ASSUME drain[d].pc \in Holding, p \notin Holding
      PROVE  /\ <<drain[d].ticket, Attempt(d)>> \in openClaims
             /\ openClaims' = openClaims \ {<<drain[d].ticket, Attempt(d)>>}
  <2>1. \A c : Open(d, c) <=> c = <<drain[d].ticket, Attempt(d)>>
    BY <1>6 DEF Open, Attempt
  <2>2. \A c : ~ Open(d, c)'
    BY <1>2, <1>6
  <2>3. \A c : c \in openClaims' <=> c \in openClaims /\ ~ Open(d, c)
    BY <1>1, <1>3, <2>2, OpenedClaims
  <2>4. <<drain[d].ticket, Attempt(d)>> \in openClaims
    BY <2>1, OpenedClaims
  <2> QED BY <2>1, <2>3, <2>4
<1>7. ASSUME drain[d].pc \notin Holding, p \in Holding
      PROVE  openClaims' = openClaims \cup {<<k, <<d, k>>>>}
  <2>1. \A c : ~ Open(d, c)
    BY <1>7 DEF Open
  <2>2. \A c : Open(d, c)' <=> c = <<k, <<d, k>>>>
    BY <1>2, <1>7
  <2>3. \A c : c \in openClaims' <=> c \in openClaims \/ c = <<k, <<d, k>>>>
    BY <1>1, <2>1, <2>2, OpenedClaims
  <2> QED BY <2>3
<1> QED BY <1>4, <1>5, <1>6, <1>7

\* No attempt at t by a job that has not claimed it is named anywhere.
LEMMA ClaimsAreFresh ==
  ASSUME IInv, NEW d \in Drains, NEW t \in Tickets, drain[d].pc \notin Holding
  PROVE  Inbox!Fresh(t, <<d, t>>)
<1>1. ASSUME NEW u \in Tickets \ {t}
      PROVE  inbox[u].attempt # <<d, t>>
  <2>1. <<d, t>> # NoAttempt
    BY DeliveryAssumption
  <2>2. inbox[u].attempt # NoAttempt => \E e \in Drains : inbox[u].attempt = <<e, u>>
    BY DEF IInv, Names
  <2> QED BY <2>1, <2>2
<1>2. ASSUME NEW c \in openClaims
      PROVE  c[2] # <<d, t>>
  <2>1. PICK e \in Drains : Open(e, c)
    BY OpenedClaims
  <2> QED BY <2>1 DEF Open
<1> QED BY <1>1, <1>2 DEF Inbox!Fresh

LEMMA StepInbox ==
  ASSUME IInv, [Next]_vars
  PROVE  [Inbox!Next]_(Inbox!inboxVars)
<1>1. drain' = drain => openClaims' = openClaims
  BY DEF openClaims, Attempt
<1>2. inbox' = inbox /\ openClaims' = openClaims => UNCHANGED Inbox!inboxVars
  BY DEF Inbox!inboxVars
<1>3. drain \in [Drains -> Job]
  BY DEF IInv, Typed
<1>4. CASE UNCHANGED vars
  BY <1>1, <1>2, <1>4 DEF vars
<1>5. ASSUME NEW t \in Tickets, SenderWork(t) \/ SenderFails(t)
      PROVE  [Inbox!Next]_(Inbox!inboxVars)
  <2>1. drain' = drain
    BY <1>5 DEF SenderWork, SenderFails, Begin, Store, AddUnread, Cleanup, AddThrows,
                LoseSender
  <2>2. \/ inbox' = inbox
        \/ Inbox!AddUnreadItem(t) \/ Inbox!AddDuplicate(t) \/ Inbox!AddRefusedFull(t)
    BY <1>5 DEF SenderWork, SenderFails, Begin, Store, AddUnread, Cleanup, AddThrows,
                LoseSender
  <2>3. inbox' # inbox => Inbox!Add
    BY <1>1, <2>1, <2>2 DEF Inbox!Add
  <2> QED BY <1>1, <1>2, <2>1, <2>3 DEF Inbox!Next
<1>6. ASSUME NEW d \in Drains, LoneStep(d)
      PROVE  [Inbox!Next]_(Inbox!inboxVars)
  <2>1. inbox' = inbox
    BY <1>6 DEF LoneStep, StartDrain, LimitReached, ResolveThrows, ScrubFails, Throws,
                Requeue, LoseDrain
  <2>2. PICK p, k : /\ Moved(d, p, k)
                    /\ \/ p \in {"loop", "idle", "queued"} /\ k = NoTicket
                       \/ p \in {"release", "retry"} /\ k = drain[d].ticket
                          /\ (p = "release" => drain[d].pc = "claimed")
    BY <1>6, LoneMoves
  <2>3. p = "release" => p \in Holding /\ drain[d].pc \in Holding /\ k = drain[d].ticket
    BY <2>2 DEF Holding
  <2>4. p # "release" => p \notin Holding
    BY <2>2 DEF Holding
  <2>5. CASE openClaims' = openClaims
    BY <1>2, <2>1, <2>5
  <2>6. CASE openClaims' # openClaims
    <3>1. Inbox!LoseWorker
      BY <2>1, <2>2, <2>3, <2>4, <2>6, ClaimsMove DEF Inbox!LoseWorker
    <3> QED BY <3>1 DEF Inbox!Next
  <2> QED BY <2>5, <2>6
<1>7. ASSUME NEW d \in Drains, RequestDelivery(d)
      PROVE  [Inbox!Next]_(Inbox!inboxVars)
  <2>1. drain[d].pc \notin Holding /\ "queued" \notin Holding
    BY <1>7 DEF RequestDelivery, At, Holding
  <2>2. openClaims' = openClaims
    BY <1>1, <1>7, <2>1, RequestMoves, ClaimsMove
  <2>3. Inbox!Housekeeping
    BY <1>7, <2>2 DEF RequestDelivery, Inbox!Housekeeping
  <2> QED BY <2>3 DEF Inbox!Next
<1>8. ASSUME NEW d \in Drains, ClaimNext(d)
      PROVE  [Inbox!Next]_(Inbox!inboxVars)
  <2>1. drain[d].pc = "loop" /\ drain[d].left > 0 /\ drain[d].pc \notin Holding
        /\ "idle" \notin Holding /\ "claimed" \in Holding
    BY <1>8 DEF ClaimNext, At, Holding
  <2>2. ASSUME NEW t \in Tickets, Claims(d, t)
        PROVE  Inbox!Claim
    <3>1. openClaims' = openClaims \cup {<<t, <<d, t>>>>}
      BY <1>3, <2>1, <2>2, ClaimMoves, ClaimsMove
    <3>2. Inbox!Fresh(t, <<d, t>>) /\ Inbox!ClaimUnread(t, <<d, t>>)
      BY <2>1, <2>2, ClaimsAreFresh DEF Claims
    <3>3. <<d, t>> \in Drains \X Tickets
      OBVIOUS
    <3> QED BY <3>1, <3>2, <3>3 DEF Inbox!Claim
  <2>3. ASSUME Inbox!ClaimNothing, drain' = [drain EXCEPT ![d] = Acked]
        PROVE  Inbox!Housekeeping
    <3>1. openClaims' = openClaims
      BY <1>3, <2>1, <2>3, JobMoves, ClaimsMove
    <3> QED BY <2>3, <3>1 DEF Inbox!Housekeeping
  <2> QED BY <1>8, <2>2, <2>3 DEF ClaimNext, Claims, Inbox!Next
<1>9. ASSUME NEW d \in Drains,
             Resolve(d) \/ SendAnswered(d) \/ SendRetry(d) \/ MarkViewed(d) \/ ScrubVault(d)
      PROVE  [Inbox!Next]_(Inbox!inboxVars)
  <2>1. inbox' = inbox
    BY <1>9 DEF Resolve, SendAnswered, SendRetry, MarkViewed, ScrubVault
  <2>2. CASE ScrubVault(d)
    <3>1. drain[d].pc \notin Holding /\ "loop" \notin Holding
      BY <2>2 DEF ScrubVault, At, Holding
    <3>2. openClaims' = openClaims
      BY <1>3, <2>2, <3>1, JobMoves, ClaimsMove DEF ScrubVault
    <3> QED BY <1>2, <2>1, <3>2
  <2>3. CASE ~ ScrubVault(d)
    <3>1. PICK p \in Holding : Goto(d, p) /\ drain[d].pc \in Holding
      BY <1>9, <2>3 DEF Resolve, SendAnswered, SendRetry, MarkViewed, At, Holding
    <3>2. Moved(d, p, drain[d].ticket)
      BY <1>3, <3>1, JobMoves DEF DrainPC
    <3>3. openClaims' = openClaims
      BY <3>1, <3>2, ClaimsMove
    <3> QED BY <1>2, <2>1, <3>3
  <2> QED BY <2>2, <2>3
<1>10. ASSUME NEW d \in Drains, CompleteDelivery(d) \/ CompleteOrphan(d)
       PROVE  [Inbox!Next]_(Inbox!inboxVars)
  <2> DEFINE c == <<drain[d].ticket, Attempt(d)>>
  <2>1. Inbox!CompleteUnread(drain[d].ticket, Attempt(d)) /\ drain[d].pc \in Holding
    BY <1>10 DEF CompleteDelivery, CompleteOrphan, At, Holding
  <2>2. PICK p, k : Moved(d, p, k) /\ p \notin Holding
    <3>1. Goto(d, "scrub") \/ NextItem(d)
      BY <1>10 DEF CompleteDelivery, CompleteOrphan
    <3>2. {"scrub", "loop"} \cap Holding = {} /\ "scrub" \in DrainPC
      BY DEF Holding, DrainPC
    <3> QED BY <1>3, <3>1, <3>2, JobMoves
  <2>3. c \in openClaims /\ openClaims' = openClaims \ {c}
    BY <2>1, <2>2, ClaimsMove
  <2>4. c[1] = drain[d].ticket /\ c[2] = Attempt(d)
    OBVIOUS
  <2>5. Inbox!Complete
    BY <2>1, <2>3, <2>4 DEF Inbox!Complete
  <2> QED BY <2>5 DEF Inbox!Next
<1>11. ASSUME NEW d \in Drains, ReleaseClaim(d)
       PROVE  [Inbox!Next]_(Inbox!inboxVars)
  <2> DEFINE c == <<drain[d].ticket, Attempt(d)>>
  <2>1. Inbox!ReleaseUnread(drain[d].ticket, Attempt(d)) /\ drain[d].pc \in Holding
    BY <1>11 DEF ReleaseClaim, At, Holding
  <2>2. PICK p, k : Moved(d, p, k) /\ p \notin Holding
    <3>1. Goto(d, "retry") /\ "retry" \in DrainPC /\ "retry" \notin Holding
      BY <1>11 DEF ReleaseClaim, Holding, DrainPC
    <3> QED BY <1>3, <3>1, JobMoves
  <2>3. c \in openClaims /\ openClaims' = openClaims \ {c}
    BY <2>1, <2>2, ClaimsMove
  <2>4. c[1] = drain[d].ticket /\ c[2] = Attempt(d)
    OBVIOUS
  <2>5. Inbox!Release
    BY <2>1, <2>3, <2>4 DEF Inbox!Release
  <2> QED BY <2>5 DEF Inbox!Next
<1>12. CASE NotificationCount
  BY <1>1, <1>12 DEF NotificationCount, Inbox!Next, Inbox!Housekeeping
<1>13. CASE Minute \/ Day
  BY <1>1, <1>13 DEF Minute, Day, Inbox!Next, Inbox!Time
<1>14. CASE VaultAlarm \/ \E t \in Tickets : ActOnTicket(t) \/ OutboxForgets(t)
  BY <1>1, <1>2, <1>14 DEF VaultAlarm, ActOnTicket, OutboxForgets
<1> QED BY <1>4, <1>5, <1>6, <1>7, <1>8, <1>9, <1>10, <1>11, <1>12, <1>13, <1>14
        DEF Next, Working, Failing, Environment, DrainWork, DrainFails, LoneStep

\* Delivery uses the inbox as UnreadInbox allows: every claim is of a fresh
\* attempt and reported, given up or lost once (inbox.ts:245-486).
THEOREM InboxTheorem == Spec => ImplementsUnreadInbox
<1>1. Init => Inbox!Init
  <2> SUFFICES ASSUME Init
               PROVE  openClaims = {}
    BY DEF Init, Inbox!Init
  <2>1. \A d \in Drains : drain[d].pc \notin Holding
    BY DEF Init, Holding
  <2> QED BY <2>1 DEF openClaims
<1>2. IInv /\ [Next]_vars => [Inbox!Next]_(Inbox!inboxVars)
  BY StepInbox
<1> QED BY <1>1, <1>2, Invariant, PTL DEF Spec, ImplementsUnreadInbox, Inbox!Spec

-----------------------------------------------------------------------------
(* What is proved of the inbox holds in the composition. *)

InboxP == INSTANCE UnreadInboxProofs
            WITH Attempts <- Drains \X Tickets, claims <- openClaims

\* The constants of the composition meet what UnreadInbox assumes of its own.
LEMMA InboxAssumed ==
  /\ InboxP!IsFiniteSet(Tickets)
  /\ NoAttempt \notin Drains \X Tickets
  /\ INBOX_MAX_UNREAD \in Nat \ {0} /\ INBOX_CLEANUP_LIMIT \in Nat \ {0}
  /\ LEASE \in Nat \ {0} /\ TTL \in Nat \ {0}
BY DeliveryAssumption DEF IsFiniteSet, InboxP!IsFiniteSet

LEMMA OneCardinality == \A S : Inbox!Cardinality(S) = InboxP!Cardinality(S)
BY DEF Inbox!Cardinality, InboxP!Cardinality

\* Both instances of UnreadInbox are one specification.
LEMMA OneInbox == Inbox!Spec => InboxP!Spec
<1>1. Inbox!Init => InboxP!Init
  BY DEF Inbox!Init, InboxP!Init, Inbox!NoRow, InboxP!NoRow
<1>2. [Inbox!Next]_(Inbox!inboxVars) => [InboxP!Next]_(InboxP!inboxVars)
  <2>1. UNCHANGED Inbox!inboxVars => UNCHANGED InboxP!inboxVars
    BY DEF Inbox!inboxVars, InboxP!inboxVars
  <2>2. \A ib : /\ Inbox!Recovered(ib) = InboxP!Recovered(ib)
                /\ Inbox!CleanupBatches(ib) = InboxP!CleanupBatches(ib)
                /\ Inbox!Claimable(ib) = InboxP!Claimable(ib)
                /\ Inbox!Oldest(ib) = InboxP!Oldest(ib)
                /\ Inbox!CountedUnread(ib) = InboxP!CountedUnread(ib)
                /\ \A t : Inbox!Stored(ib, t) = InboxP!Stored(ib, t)
                /\ \A D : Inbox!Prepared(ib, D) = InboxP!Prepared(ib, D)
    <3> TAKE ib
    <3>1. \A t : Inbox!Stored(ib, t) = InboxP!Stored(ib, t)
      BY DEF Inbox!Stored, InboxP!Stored
    <3>2. \A jb : Inbox!Recovered(jb) = InboxP!Recovered(jb)
      BY DEF Inbox!Recovered, InboxP!Recovered, Inbox!Released, InboxP!Released
    <3>3. Inbox!Expired(ib) = InboxP!Expired(ib)
      BY <3>1 DEF Inbox!Expired, InboxP!Expired
    <3>4. Inbox!CleanupBatches(ib) = InboxP!CleanupBatches(ib)
      BY <3>3, OneCardinality DEF Inbox!CleanupBatches, InboxP!CleanupBatches
    <3>5. Inbox!Claimable(ib) = InboxP!Claimable(ib)
      BY DEF Inbox!Claimable, InboxP!Claimable
    <3>6. Inbox!Oldest(ib) = InboxP!Oldest(ib)
      BY <3>5 DEF Inbox!Oldest, InboxP!Oldest
    <3>7. Inbox!CountedUnread(ib) = InboxP!CountedUnread(ib)
      BY <3>1 DEF Inbox!CountedUnread, InboxP!CountedUnread
    <3>8. ASSUME NEW D
          PROVE  Inbox!Prepared(ib, D) = InboxP!Prepared(ib, D)
      BY <3>2 DEF Inbox!Prepared, InboxP!Prepared, Inbox!NoRow, InboxP!NoRow
    <3> QED BY <3>1, <3>2, <3>4, <3>5, <3>6, <3>7, <3>8
  <2>3. ASSUME NEW t \in Tickets
        PROVE  /\ Inbox!AddUnreadItem(t) => InboxP!AddUnreadItem(t)
               /\ Inbox!AddDuplicate(t) => InboxP!AddDuplicate(t)
               /\ Inbox!AddRefusedFull(t) => InboxP!AddRefusedFull(t)
    <3>1. Inbox!AddUnreadItem(t) => InboxP!AddUnreadItem(t)
      BY <2>2, OneCardinality DEF Inbox!AddUnreadItem, InboxP!AddUnreadItem, Inbox!NewRow, InboxP!NewRow
    <3>2. Inbox!AddDuplicate(t) => InboxP!AddDuplicate(t)
      BY <2>2 DEF Inbox!AddDuplicate, InboxP!AddDuplicate
    <3>3. Inbox!AddRefusedFull(t) => InboxP!AddRefusedFull(t)
      BY <2>2, OneCardinality DEF Inbox!AddRefusedFull, InboxP!AddRefusedFull
    <3> QED BY <3>1, <3>2, <3>3
  <2>4. ASSUME NEW t \in Tickets, NEW a \in Drains \X Tickets
        PROVE  /\ Inbox!ClaimUnread(t, a) => InboxP!ClaimUnread(t, a)
               /\ Inbox!Fresh(t, a) => InboxP!Fresh(t, a)
    BY <2>2 DEF Inbox!ClaimUnread, InboxP!ClaimUnread, Inbox!Fresh, InboxP!Fresh
  <2>5. ASSUME NEW t, NEW a
        PROVE  /\ Inbox!CompleteUnread(t, a) => InboxP!CompleteUnread(t, a)
               /\ Inbox!ReleaseUnread(t, a) => InboxP!ReleaseUnread(t, a)
    BY <2>2 DEF Inbox!CompleteUnread, InboxP!CompleteUnread, Inbox!ReleaseUnread,
       InboxP!ReleaseUnread, Inbox!Owns, InboxP!Owns, Inbox!NoRow, InboxP!NoRow,
       Inbox!Released, InboxP!Released
  <2>6. /\ Inbox!ClaimNothing => InboxP!ClaimNothing
        /\ Inbox!GetUnreadSummary => InboxP!GetUnreadSummary
        /\ Inbox!CleanupExpiredUnreadItems => InboxP!CleanupExpiredUnreadItems
        /\ Inbox!Purge => InboxP!Purge
        /\ (Inbox!Minute => InboxP!Minute) /\ (Inbox!Day => InboxP!Day)
    BY <2>2 DEF Inbox!ClaimNothing, InboxP!ClaimNothing, Inbox!GetUnreadSummary,
       InboxP!GetUnreadSummary, Inbox!CleanupExpiredUnreadItems,
       InboxP!CleanupExpiredUnreadItems, Inbox!Purge, InboxP!Purge, Inbox!NoRow,
       InboxP!NoRow, Inbox!Minute, InboxP!Minute, Inbox!Day, InboxP!Day,
       Inbox!Elapse, InboxP!Elapse
  <2>7. CASE Inbox!Add
    BY <2>3, <2>7 DEF Inbox!Add, InboxP!Add, InboxP!Next
  <2>8. CASE Inbox!Claim
    BY <2>4, <2>8 DEF Inbox!Claim, InboxP!Claim, InboxP!Next
  <2>9. CASE Inbox!Complete
    BY <2>5, <2>9 DEF Inbox!Complete, InboxP!Complete, InboxP!Next
  <2>10. CASE Inbox!Release
    BY <2>5, <2>10 DEF Inbox!Release, InboxP!Release, InboxP!Next
  <2>11. CASE Inbox!LoseWorker
    BY <2>11 DEF Inbox!LoseWorker, InboxP!LoseWorker, InboxP!Next
  <2>12. CASE Inbox!Housekeeping
    BY <2>6, <2>12 DEF Inbox!Housekeeping, InboxP!Housekeeping, InboxP!Next
  <2>13. CASE Inbox!Time
    BY <2>6, <2>13 DEF Inbox!Time, InboxP!Time, InboxP!Next
  <2> QED BY <2>1, <2>7, <2>8, <2>9, <2>10, <2>11, <2>12, <2>13 DEF Inbox!Next
<1> QED BY <1>1, <1>2, PTL DEF Inbox!Spec, InboxP!Spec

\* However calls, jobs and losses interleave, the recipient never has more than
\* INBOX_MAX_UNREAD live messages, a row names an attempt exactly while it is
\* out for delivery, and a running lease is taken by nobody but its holder
\* (user-state.do.ts:736-1010).
THEOREM InboxCarries ==
  Spec => /\ []Inbox!CapHolds /\ []Inbox!AttemptDiscipline
          /\ Inbox!LeaseIsExclusive /\ Inbox!OldestFirst
<1>1. InboxP!CapHolds => Inbox!CapHolds
  <2>1. InboxP!CountedUnread(inbox) = Inbox!CountedUnread(inbox)
    BY DEF InboxP!CountedUnread, Inbox!CountedUnread, InboxP!Stored, Inbox!Stored
  <2> QED BY <2>1, OneCardinality DEF InboxP!CapHolds, Inbox!CapHolds
<1>2. InboxP!AttemptDiscipline => Inbox!AttemptDiscipline
  BY DEF InboxP!AttemptDiscipline, Inbox!AttemptDiscipline, InboxP!Disciplined, Inbox!Disciplined
<1>3. InboxP!LeaseIsExclusive => Inbox!LeaseIsExclusive
  BY PTL DEF InboxP!LeaseIsExclusive, Inbox!LeaseIsExclusive, InboxP!Live, Inbox!Live,
     InboxP!NoRow, Inbox!NoRow, InboxP!inboxVars, Inbox!inboxVars
<1>4. InboxP!OldestFirst => Inbox!OldestFirst
  BY PTL DEF InboxP!OldestFirst, Inbox!OldestFirst, InboxP!Live, Inbox!Live,
     InboxP!inboxVars, Inbox!inboxVars, InboxP!CountedUnread, Inbox!CountedUnread,
     InboxP!Stored, Inbox!Stored
<1>5. Spec => InboxP!Spec
  BY InboxTheorem, OneInbox DEF ImplementsUnreadInbox
<1>6. InboxP!Spec => []InboxP!CapHolds
  BY InboxAssumed, InboxP!CapTheorem, PTL
<1>7. InboxP!Spec => []InboxP!AttemptDiscipline
  BY InboxAssumed, InboxP!AttemptTheorem, PTL
<1>8. InboxP!Spec => InboxP!LeaseIsExclusive
  BY InboxAssumed, InboxP!LeaseTheorem, PTL
<1>9. InboxP!Spec => InboxP!OldestFirst
  BY InboxAssumed, InboxP!OrderTheorem, PTL
<1> QED BY <1>1, <1>2, <1>3, <1>4, <1>5, <1>6, <1>7, <1>8, <1>9, PTL

-----------------------------------------------------------------------------
(* So does what is proved of the vault and what the outbox promises. *)

VaultP == INSTANCE TicketVaultProofs WITH stores <- 0, MaxStores <- 0

\* The steps of the vault that change something.
VaultCall ==
  \/ \E t \in Tickets : \/ VaultP!StoreTicket(t) \/ VaultP!GetExpired(t)
                        \/ VaultP!MarkViewed(t) \/ VaultP!DeleteTicket(t)
  \/ VaultP!Alarm \/ VaultP!Day

LEMMA VaultAssumed ==
  /\ TTL \in Nat \ {0} /\ EXPIRY_SWEEP_LIMIT \in Nat \ {0} /\ NoAlarm \notin Int /\ 0 \in Nat
BY DeliveryAssumption

\* Both instances of TicketVault have the same steps.
LEMMA OneVault ==
  /\ \A t \in Tickets : /\ Vault!StoreTicket(t) => VaultP!StoreTicket(t)
                        /\ Vault!GetExpired(t) => VaultP!GetExpired(t)
                        /\ Vault!MarkViewed(t) => VaultP!MarkViewed(t)
                        /\ Vault!DeleteTicket(t) => VaultP!DeleteTicket(t)
  /\ Vault!Alarm => VaultP!Alarm
  /\ Vault!Day => VaultP!Day
<1>1. \A v : Vault!Pending(v) = VaultP!Pending(v) /\ Vault!Due(v) = VaultP!Due(v)
  BY DEF Vault!Pending, VaultP!Pending, Vault!Due, VaultP!Due
<1>2. \A v, t : Vault!DueIn(v, t) = VaultP!DueIn(v, t)
  BY DEF Vault!DueIn, VaultP!DueIn
<1>3. \A v, a : Vault!NextAlarm(v, a) <=> VaultP!NextAlarm(v, a)
  BY <1>1, <1>2 DEF Vault!NextAlarm, VaultP!NextAlarm
<1>4. Vault!ScheduleNextExpiryAlarm => VaultP!ScheduleNextExpiryAlarm
  BY <1>1, <1>2, <1>3 DEF Vault!ScheduleNextExpiryAlarm, VaultP!ScheduleNextExpiryAlarm
<1>5. \A S : Vault!Cardinality(S) = VaultP!Cardinality(S)
  BY DEF Vault!Cardinality, VaultP!Cardinality
<1>6. \A v : Vault!SweepBatches(v) = VaultP!SweepBatches(v)
  BY <1>1, <1>5 DEF Vault!SweepBatches, VaultP!SweepBatches
<1>7. Vault!Alarm => VaultP!Alarm
  BY <1>4, <1>6 DEF Vault!Alarm, VaultP!Alarm, Vault!Scrubbed, VaultP!Scrubbed
<1>8. Vault!Day => VaultP!Day
  BY DEF Vault!Day, VaultP!Day
<1> QED BY <1>4, <1>7, <1>8
        DEF Vault!StoreTicket, VaultP!StoreTicket, Vault!GetExpired, VaultP!GetExpired,
            Vault!MarkViewed, VaultP!MarkViewed, Vault!DeleteTicket, VaultP!DeleteTicket,
            Vault!Exists, VaultP!Exists, Vault!ReadsAsExpired, VaultP!ReadsAsExpired,
            Vault!NewRecord, VaultP!NewRecord, Vault!NoRecord, VaultP!NoRecord,
            Vault!Scrubbed, VaultP!Scrubbed

LEMMA StepVault ==
  ASSUME IInv, [Next]_vars
  PROVE  UNCHANGED vaultVars \/ VaultCall
<1>1. CASE UNCHANGED vars
  BY <1>1 DEF vars, vaultVars
<1>2. ASSUME NEW t \in Tickets, SenderWork(t) \/ SenderFails(t)
      PROVE  UNCHANGED vaultVars \/ VaultCall
  BY <1>2, OneVault DEF SenderWork, SenderFails, Begin, Store, AddUnread, Cleanup, AddThrows,
     LoseSender, VaultCall, vaultVars, Vault!StoreExisting
<1>3. ASSUME NEW d \in Drains, Resolve(d) \/ MarkViewed(d) \/ ScrubVault(d)
      PROVE  UNCHANGED vaultVars \/ VaultCall
  <2>1. drain[d].ticket \in Tickets
    BY <1>3 DEF IInv, Shape, Resolve, MarkViewed, ScrubVault, At, Holding
  <2> QED BY <1>3, <2>1, OneVault DEF Resolve, MarkViewed, ScrubVault, VaultCall, vaultVars,
         Vault!GetMissing, Vault!GetFound
<1>4. ASSUME NEW d \in Drains, ~ (Resolve(d) \/ MarkViewed(d) \/ ScrubVault(d)),
             RequestDelivery(d) \/ DrainWork(d) \/ DrainFails(d)
      PROVE  UNCHANGED vaultVars
  BY <1>4 DEF DrainWork, DrainFails, RequestDelivery, StartDrain, ClaimNext, LimitReached,
     SendAnswered, CompleteDelivery, CompleteOrphan, ReleaseClaim, Requeue, ResolveThrows,
     SendRetry, ScrubFails, Throws, LoseDrain
<1>5. CASE Environment
  BY <1>5, OneVault DEF Environment, NotificationCount, ActOnTicket, OutboxForgets, VaultAlarm,
     Minute, Day, VaultCall, vaultVars, Vault!GetMissing, Vault!GetFound
<1> QED BY <1>1, <1>2, <1>3, <1>4, <1>5 DEF Next, Working, Failing

\* However calls, jobs and losses interleave, the material left of a ticket fits
\* its status, its alarm comes in time, and a dropped payload never returns
\* (ticket-vault.do.ts:135-305).
THEOREM VaultCarries ==
  Spec => /\ []Vault!MaterialMatchesStatus /\ []Vault!AlarmCovers
          /\ Vault!NoRevival
<1>1. Init => VaultP!IInv
  <2>1. Init => VaultP!Init
    BY DEF Init, Vault!Init, VaultP!Init, Vault!NoRecord, VaultP!NoRecord
  <2> QED BY <2>1, VaultAssumed, VaultP!InitInv
<1>2. VaultP!IInv /\ VaultCall => VaultP!IInv'
  BY VaultAssumed, VaultP!StoreStep, VaultP!ExpiredStep, VaultP!ViewedStep, VaultP!DeleteStep,
     VaultP!AlarmStep, VaultP!DayStep DEF VaultCall
<1>3. VaultP!IInv /\ UNCHANGED vaultVars => VaultP!IInv'
  BY VaultAssumed, VaultP!IdleStep DEF vaultVars, VaultP!vaultVars
<1>4. IInv /\ VaultP!IInv /\ [Next]_vars => VaultP!IInv'
  BY <1>2, <1>3, StepVault
<1>5. VaultP!IInv => Vault!MaterialMatchesStatus /\ Vault!AlarmCovers
  BY DEF VaultP!IInv, VaultP!MaterialMatchesStatus, Vault!MaterialMatchesStatus,
     VaultP!AlarmCovers, Vault!AlarmCovers, VaultP!Pending, Vault!Pending, VaultP!DueIn, Vault!DueIn
<1>6. VaultP!IInv /\ VaultCall => VaultP!Unrevived
  BY VaultAssumed, VaultP!UnrevivedStep DEF VaultCall
<1>7. IInv /\ VaultP!IInv /\ [Next]_vars =>
        [\A t \in Tickets : Vault!Exists(t) /\ ~ vault[t].payload => ~ vault'[t].payload]_(Vault!vaultVars)
  BY <1>6, StepVault DEF VaultP!Unrevived, VaultP!Exists, Vault!Exists, vaultVars, Vault!vaultVars
<1> QED BY <1>1, <1>4, <1>5, <1>7, Invariant, PTL DEF Spec, Vault!NoRevival

LEMMA StepOutbox ==
  ASSUME IInv, [Next]_vars
  PROVE  [Outbox!Next]_(Outbox!promiseVars)
<1> USE DEF Outbox!promiseVars, Outbox!Next
<1>1. CASE UNCHANGED vars
  BY <1>1 DEF vars
<1>2. ASSUME NEW t \in Tickets, SenderWork(t) \/ SenderFails(t)
      PROVE  UNCHANGED Outbox!promiseVars
  BY <1>2 DEF SenderWork, SenderFails, Begin, Store, AddUnread, Cleanup, AddThrows, LoseSender,
     outboxVars
<1>3. ASSUME NEW d \in Drains, SendAnswered(d) \/ SendRetry(d)
      PROVE  [Outbox!Next]_(Outbox!promiseVars)
  <2>1. drain[d].ticket \in Tickets
    BY <1>3 DEF IInv, Shape, SendAnswered, SendRetry, At, Holding
  <2> QED BY <1>3, <2>1 DEF SendAnswered, SendRetry
<1>4. ASSUME NEW d \in Drains, ~ (SendAnswered(d) \/ SendRetry(d)),
             RequestDelivery(d) \/ DrainWork(d) \/ DrainFails(d)
      PROVE  UNCHANGED Outbox!promiseVars
  BY <1>4 DEF DrainWork, DrainFails, RequestDelivery, StartDrain, ClaimNext, LimitReached,
     Resolve, MarkViewed, ScrubVault, CompleteDelivery, CompleteOrphan, ReleaseClaim, Requeue,
     ResolveThrows, ScrubFails, Throws, LoseDrain, outboxVars
<1>5. CASE Environment
  BY <1>5 DEF Environment, NotificationCount, ActOnTicket, OutboxForgets, VaultAlarm,
     Minute, Day, outboxVars
<1> QED BY <1>1, <1>2, <1>3, <1>4, <1>5 DEF Next, Working, Failing

\* Delivery uses the outbox as it promises: a recorded outcome stands while it is
\* kept, and what counts as sent was shown (telegram-outbox.do.ts:179-284).
THEOREM OutboxCarries ==
  Spec => Outbox!Spec /\ Outbox!OutcomeStands /\ []Outbox!SentWasShown
<1>1. Init => Outbox!Init
  BY DEF Init
<1>2. IInv /\ [Next]_vars => [Outbox!Next]_(Outbox!promiseVars)
  BY StepOutbox
<1>3. IInv => Outbox!SentWasShown
  BY DEF IInv, Seen
<1>4. IInv /\ [Next]_vars =>
        [\A k \in Tickets : ~ Outbox!Open(k) /\ ledger[k].keep > 0
                              => ledger'[k].state = ledger[k].state]_<<ledger, shown>>
  <2> SUFFICES ASSUME IInv, Outbox!Next, NEW t \in Tickets, ~ Outbox!Open(t), ledger[t].keep > 0
               PROVE  ledger'[t].state = ledger[t].state
    BY <1>2 DEF Outbox!promiseVars
  <2>1. ledger \in Ledgers /\ ~ (ledger[t].keep = 0)
    BY DEF IInv, Typed, Ledgers, Outbox!Outcome
  <2> QED BY <2>1 DEF Outbox!Next, Outbox!Show, Outbox!RecordSent, Outbox!Send, Outbox!Refuse,
         Outbox!Write, Outbox!Open, Outbox!Forget, Outbox!Old, Outbox!Day, Ledgers, Outbox!Outcome
<1>5. Spec => Outbox!Spec
  BY <1>1, <1>2, Invariant, PTL DEF Spec, Outbox!Spec
<1>6. Spec => []Outbox!SentWasShown
  BY <1>3, Invariant, PTL
<1>7. Spec => Outbox!OutcomeStands
  BY <1>4, Invariant, PTL DEF Spec, Outbox!OutcomeStands, Outbox!promiseVars
<1> QED BY <1>5, <1>6, <1>7
=============================================================================
