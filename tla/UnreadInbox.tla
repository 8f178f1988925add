----------------------------- MODULE UnreadInbox -----------------------------
(***************************************************************************)
(* The unread inbox of one account: table unread_inbox_items of the        *)
(* UserState Durable Object (src/storage/user-state.do.ts).  Every RPC     *)
(* method is free of awaits, so it is one atomic action here.              *)
(*                                                                         *)
(* A row is keyed by its ticket: dedupe_tag is a function of the ticket    *)
(* and carries a UNIQUE index, so a ticket has at most one row.  Deadlines *)
(* are kept as the time that is left: lease counts minutes and ttl counts  *)
(* days, each down to 0, which stands for "deadline <= now".  The two      *)
(* clocks tick independently, which allows every real schedule.  A fresh   *)
(* attempt UUID is any attempt that no other row and no open claim names.  *)
(***************************************************************************)
EXTENDS Integers, FiniteSets

CONSTANTS
  Tickets,              \* ticket hashes; one dedupe tag each
  Attempts,             \* delivery attempt ids
  NoAttempt,            \* delivery_attempt_id = NULL
  INBOX_MAX_UNREAD,     \* live rows an account may hold
  INBOX_CLEANUP_LIMIT,  \* expired rows removed per call
  LEASE,                \* delivery lease, in minutes
  TTL                   \* ticket lifetime, in days

ASSUME InboxAssumption ==
  /\ IsFiniteSet(Tickets)
  /\ NoAttempt \notin Attempts
  /\ INBOX_MAX_UNREAD \in Nat \ {0}
  /\ INBOX_CLEANUP_LIMIT \in Nat \ {0}
  /\ LEASE \in Nat \ {0}
  /\ TTL \in Nat \ {0}

VARIABLES
  inbox,   \* the table, one row or NoRow for each ticket
  claims   \* claims handed out to delivery workers and not yet given up

inboxVars == <<inbox, claims>>

Row == [state : {"none", "active", "delivering"},
        attempt : Attempts \cup {NoAttempt},
        lease : 0..LEASE,
        ttl : 0..TTL]

NoRow == [state |-> "none", attempt |-> NoAttempt, lease |-> 0, ttl |-> 0]

\* Mutant of NewRow: a row outlives its ticket by a day.
NewRowTooLong ==
  [state |-> "active", attempt |-> NoAttempt, lease |-> 0, ttl |-> TTL + 1]

NewRow == [state |-> "active", attempt |-> NoAttempt, lease |-> 0, ttl |-> TTL]

TypeOK ==
  /\ inbox \in [Tickets -> Row]
  /\ claims \subseteq Tickets \X Attempts

Elapse(n) == IF n > 0 THEN n - 1 ELSE 0

-----------------------------------------------------------------------------
(* Queries and updates the methods share; ib is a table. *)

Stored(ib, t) == ib[t].state # "none"

Expired(ib) == {t \in Tickets : Stored(ib, t) /\ ib[t].ttl = 0}

\* countActiveUnread: rows still to be delivered, leased or not.
CountedUnread(ib) == {t \in Tickets : Stored(ib, t) /\ ib[t].ttl > 0}

Released(row) ==
  [row EXCEPT !.state = "active", !.attempt = NoAttempt, !.lease = 0]

\* recoverExpiredUnreadLeases: a lapsed lease puts the row back.
Recovered(ib) ==
  [t \in Tickets |->
     IF ib[t].state = "delivering" /\ ib[t].lease = 0
     THEN Released(ib[t]) ELSE ib[t]]

\* The expired rows one call removes: all of them, or INBOX_CLEANUP_LIMIT.
CleanupBatches(ib) ==
  {D \in SUBSET Expired(ib) :
     /\ Cardinality(D) <= INBOX_CLEANUP_LIMIT
     /\ D = Expired(ib) \/ Cardinality(D) = INBOX_CLEANUP_LIMIT}

\* Mutant of Prepared: lapsed leases are not recovered.
PreparedUnrecovered(ib, D) ==
  [t \in Tickets |-> IF t \in D THEN NoRow ELSE ib[t]]

\* prepareUnreadInbox: bounded cleanup, then lease recovery.
Prepared(ib, D) ==
  Recovered([t \in Tickets |-> IF t \in D THEN NoRow ELSE ib[t]])

\* Rows a claim may take, and the oldest of them: all tickets live TTL days,
\* so the smallest ttl is the smallest created_at.
Claimable(ib) == {t \in Tickets : ib[t].state = "active" /\ ib[t].ttl > 0}

Oldest(ib) ==
  {t \in Claimable(ib) : \A u \in Claimable(ib) : ib[t].ttl <= ib[u].ttl}

-----------------------------------------------------------------------------
Init ==
  /\ inbox = [t \in Tickets |-> NoRow]
  /\ claims = {}

\* Mutant of AddUnreadItem: leased rows do not count.
AddUncounted(t) ==
  \E D \in CleanupBatches(inbox) :
    LET ib == Prepared(inbox, D) IN
    /\ ~ Stored(ib, t)
    /\ Cardinality(Claimable(ib)) < INBOX_MAX_UNREAD
    /\ inbox' = [ib EXCEPT ![t] = NewRow]

\* addUnreadItem, by its outcome.  The row is inserted unless the ticket has
\* one already or the inbox is full; the preparation is kept in every case.
\* The caller computes created_at and expires_at just before, so a new row has
\* its whole lifetime ahead of it.
AddUnreadItem(t) ==
  \E D \in CleanupBatches(inbox) :
    LET ib == Prepared(inbox, D) IN
    /\ ~ Stored(ib, t)
    /\ Cardinality(CountedUnread(ib)) < INBOX_MAX_UNREAD
    /\ inbox' = [ib EXCEPT ![t] = NewRow]

AddDuplicate(t) ==
  \E D \in CleanupBatches(inbox) :
    /\ Stored(Prepared(inbox, D), t)
    /\ inbox' = Prepared(inbox, D)

AddRefusedFull(t) ==
  \E D \in CleanupBatches(inbox) :
    LET ib == Prepared(inbox, D) IN
    /\ ~ Stored(ib, t)
    /\ Cardinality(CountedUnread(ib)) >= INBOX_MAX_UNREAD
    /\ inbox' = ib

\* claimNextUnreadItem: lease the oldest claimable row to a fresh attempt.
ClaimUnread(t, a) ==
  \E D \in CleanupBatches(inbox) :
    LET ib == Prepared(inbox, D) IN
    /\ t \in Oldest(ib)
    /\ inbox' = [ib EXCEPT ![t].state = "delivering",
                           ![t].attempt = a,
                           ![t].lease = LEASE]

ClaimNothing ==
  \E D \in CleanupBatches(inbox) :
    /\ Claimable(Prepared(inbox, D)) = {}
    /\ inbox' = Prepared(inbox, D)

Owns(t, a) == inbox[t].attempt = a

\* Mutant of CompleteUnread: any attempt completes the row.
CompleteUnowned(t, a) == inbox' = Recovered([inbox EXCEPT ![t] = NoRow])

\* completeUnreadDelivery: delete the row if the attempt still owns it, then
\* count, which recovers lapsed leases.
CompleteUnread(t, a) ==
  inbox' = Recovered(IF Owns(t, a) THEN [inbox EXCEPT ![t] = NoRow]
                                   ELSE inbox)

\* releaseUnreadDelivery: put the row back if the attempt still owns it.
ReleaseUnread(t, a) ==
  inbox' = IF Owns(t, a) THEN [inbox EXCEPT ![t] = Released(inbox[t])]
                         ELSE inbox

\* getUnreadSummary.
GetUnreadSummary == inbox' = Recovered(inbox)

\* cleanupExpiredUnreadItems.
CleanupExpiredUnreadItems ==
  \E D \in CleanupBatches(inbox) : inbox' = Prepared(inbox, D)

\* purge, on account reset.
Purge == inbox' = [t \in Tickets |-> NoRow]

\* Time.  A minute uses up leases, a day uses up lifetimes.
Minute == inbox' = [t \in Tickets |-> [inbox[t] EXCEPT !.lease = Elapse(@)]]
Day == inbox' = [t \in Tickets |-> [inbox[t] EXCEPT !.ttl = Elapse(@)]]

-----------------------------------------------------------------------------
(* The object with its clients: a worker that was given a claim may report *)
(* back once, at any later time, or be lost.                               *)

Fresh(t, a) ==
  /\ \A u \in Tickets \ {t} : inbox[u].attempt # a
  /\ \A c \in claims : c[2] # a

Add ==
  /\ \E t \in Tickets :
       AddUnreadItem(t) \/ AddDuplicate(t) \/ AddRefusedFull(t)
  /\ UNCHANGED claims

Claim ==
  \E t \in Tickets, a \in Attempts :
    /\ Fresh(t, a)
    /\ ClaimUnread(t, a)
    /\ claims' = claims \cup {<<t, a>>}

Complete ==
  \E c \in claims : CompleteUnread(c[1], c[2]) /\ claims' = claims \ {c}

Release ==
  \E c \in claims : ReleaseUnread(c[1], c[2]) /\ claims' = claims \ {c}

LoseWorker == \E c \in claims : claims' = claims \ {c} /\ UNCHANGED inbox

Housekeeping ==
  /\ ClaimNothing \/ GetUnreadSummary \/ CleanupExpiredUnreadItems \/ Purge
  /\ UNCHANGED claims

Time == (Minute \/ Day) /\ UNCHANGED claims

Next ==
  Add \/ Claim \/ Complete \/ Release \/ LoseWorker \/ Housekeeping \/ Time

Spec == Init /\ [][Next]_inboxVars

-----------------------------------------------------------------------------
(* Correctness. *)

\* The inbox never holds more than INBOX_MAX_UNREAD live rows: a row that is
\* out for delivery still counts, and neither a lapsed lease nor a row whose
\* cleanup is overdue makes room twice (user-state.do.ts:755, 839).
CapHolds == Cardinality(CountedUnread(inbox)) <= INBOX_MAX_UNREAD

\* A row is leased exactly while it names an attempt, and an attempt is named
\* by one row only, so a report from a worker can touch one row at most.
Disciplined(ib) ==
  /\ \A t \in Tickets :
       /\ ib[t].state = "delivering" <=> ib[t].attempt # NoAttempt
       /\ ib[t].lease > 0 => ib[t].state = "delivering"
  /\ \A t, u \in Tickets :
       ib[t].attempt = ib[u].attempt /\ ib[t].attempt # NoAttempt => t = u

AttemptDiscipline == Disciplined(inbox)

Live(t) ==
  inbox[t].state = "delivering" /\ inbox[t].lease > 0 /\ inbox[t].ttl > 0

\* While a lease runs, nobody but its holder takes the row away: if the row
\* changes hands or disappears, the holder's claim was closed by that step,
\* or the account was purged.  A stale worker's late report changes nothing.
LeaseIsExclusive ==
  [][\A t \in Tickets :
       Live(t) /\ inbox'[t].attempt # inbox[t].attempt
         => \/ <<t, inbox[t].attempt>> \in claims \ claims'
            \/ \A u \in Tickets : inbox'[u] = NoRow]_inboxVars

\* Delivery order: a claim takes a row that is at least as old as every live
\* row that nobody holds, those whose lease has lapsed included.
OldestFirst ==
  [][\A c \in claims' \ claims : \A u \in CountedUnread(inbox) :
       ~ Live(u) => inbox[c[1]].ttl <= inbox[u].ttl]_inboxVars
=============================================================================
