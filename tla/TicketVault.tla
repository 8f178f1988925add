----------------------------- MODULE TicketVault -----------------------------
(***************************************************************************)
(* One shard of the TicketVault Durable Object                             *)
(* (src/storage/ticket-vault.do.ts): the encrypted route and payload of    *)
(* each sealed ticket, their expiry and the alarm that scrubs them.        *)
(*                                                                         *)
(* ttl is the time left before expires_at in days: 0 stands for the        *)
(* instant expires_at = now and -1 for expires_at < now, because the code  *)
(* compares with <= in some places and with < in others.  route stands for *)
(* route_enc and meta_enc, which are always written together.  The only    *)
(* transition the client ever requests of markStatus is "viewed".          *)
(***************************************************************************)
EXTENDS Integers, FiniteSets

CONSTANTS
  Tickets,             \* ticket hashes of this shard
  TTL,                 \* ticket lifetime, in days
  EXPIRY_SWEEP_LIMIT,  \* records one alarm scrubs
  NoAlarm,             \* no alarm is set
  MaxStores            \* bound: insertions explored

ASSUME VaultAssumption ==
  /\ TTL \in Nat \ {0}
  /\ EXPIRY_SWEEP_LIMIT \in Nat \ {0}
  /\ NoAlarm \notin Int
  /\ MaxStores \in Nat

VARIABLES
  vault,   \* the tickets table, one record or NoRecord for each ticket
  alarm,   \* days until the alarm fires, or NoAlarm
  stores   \* insertions so far (bound)

vaultVars == <<vault, alarm, stores>>

Record == [status : {"none", "active", "viewed", "expired"},
           route : BOOLEAN, payload : BOOLEAN, ttl : -1..TTL]

NoRecord ==
  [status |-> "none", route |-> FALSE, payload |-> FALSE, ttl |-> -1]

\* Mutant of NewRecord: a record outlives its ticket by a day.
NewRecordTooLong ==
  [status |-> "active", route |-> TRUE, payload |-> TRUE, ttl |-> TTL + 1]

NewRecord ==
  [status |-> "active", route |-> TRUE, payload |-> TRUE, ttl |-> TTL]

TypeOK ==
  /\ vault \in [Tickets -> Record]
  /\ alarm \in 0..TTL \cup {NoAlarm}
  /\ stores \in 0..MaxStores

-----------------------------------------------------------------------------
Scrubbed(r) ==
  [r EXCEPT !.status = "expired", !.route = FALSE, !.payload = FALSE]

\* Records the expiry sweep still has to visit.
Pending(v) == {t \in Tickets : v[t].status \in {"active", "viewed"}}

DueIn(v, t) == IF v[t].ttl > 0 THEN v[t].ttl ELSE 0

\* scheduleNextExpiryAlarm: the earliest expiry of a pending record, at once
\* if it has passed; no alarm if nothing is pending.
NextAlarm(v, a) ==
  IF Pending(v) = {} THEN a = NoAlarm
  ELSE /\ \E t \in Pending(v) : a = DueIn(v, t)
       /\ \A t \in Pending(v) : a <= DueIn(v, t)

ScheduleNextExpiryAlarm ==
  \E a \in {DueIn(vault', t) : t \in Pending(vault')} \cup {NoAlarm} :
    NextAlarm(vault', a) /\ alarm' = a

\* Mutant of Due: a record is due only after its last instant.
DueLate(v) == {t \in Pending(v) : v[t].ttl < 0}

\* expireDueTickets: the due records, earliest first, up to the limit.
Due(v) == {t \in Pending(v) : v[t].ttl <= 0}

SweepBatches(v) ==
  {D \in SUBSET Due(v) :
     /\ Cardinality(D) <= EXPIRY_SWEEP_LIMIT
     /\ D = Due(v) \/ Cardinality(D) = EXPIRY_SWEEP_LIMIT
     /\ \A t \in D, u \in Due(v) \ D : v[t].ttl <= v[u].ttl}

-----------------------------------------------------------------------------
Init ==
  /\ vault = [t \in Tickets |-> NoRecord]
  /\ alarm = NoAlarm
  /\ stores = 0

Exists(t) == vault[t].status # "none"

\* Mutant of StoreTicket: INSERT OR REPLACE.
StoreReplacing(t) ==
  /\ vault' = [vault EXCEPT ![t] = NewRecord]
  /\ ScheduleNextExpiryAlarm

\* storeTicket: a plain INSERT, so a record that exists is left as it is.
StoreTicket(t) ==
  /\ ~ Exists(t)
  /\ vault' = [vault EXCEPT ![t] = NewRecord]
  /\ ScheduleNextExpiryAlarm

StoreExisting(t) == Exists(t) /\ UNCHANGED <<vault, alarm>>

\* getTicket, by its answer; an expired record is scrubbed on the way.
ReadsAsExpired(t) ==
  vault[t].status = "expired" \/ (Exists(t) /\ vault[t].ttl < 0)

GetExpired(t) ==
  /\ ReadsAsExpired(t)
  /\ vault' = [vault EXCEPT ![t] = Scrubbed(vault[t])]
  /\ ScheduleNextExpiryAlarm

Found(t) == Exists(t) /\ ~ ReadsAsExpired(t) /\ vault[t].route

GetFound(t) == Found(t) /\ UNCHANGED <<vault, alarm>>

GetMissing(t) == ~ Exists(t) /\ UNCHANGED <<vault, alarm>>

\* markStatus(viewed): drops the payload of a live record, otherwise nothing.
MarkViewed(t) ==
  /\ vault' = IF vault[t].status \in {"active", "viewed"} /\ vault[t].ttl > 0
              THEN [vault EXCEPT ![t].status = "viewed", ![t].payload = FALSE]
              ELSE vault
  /\ UNCHANGED alarm

\* deleteTicket.
DeleteTicket(t) ==
  /\ vault' = [vault EXCEPT ![t] = NoRecord]
  /\ ScheduleNextExpiryAlarm

\* Mutant of Alarm: the next alarm is not set.
AlarmOnce ==
  /\ alarm = 0
  /\ \E D \in SweepBatches(vault) :
       vault' = [t \in Tickets |->
                   IF t \in D THEN Scrubbed(vault[t]) ELSE vault[t]]
  /\ alarm' = NoAlarm

\* alarm: one sweep, then the next alarm.
Alarm ==
  /\ alarm = 0
  /\ \E D \in SweepBatches(vault) :
       vault' = [t \in Tickets |->
                   IF t \in D THEN Scrubbed(vault[t]) ELSE vault[t]]
  /\ ScheduleNextExpiryAlarm

\* A day passes.
Day ==
  /\ vault' = [t \in Tickets |->
                 [vault[t] EXCEPT !.ttl = IF @ > -1 THEN @ - 1 ELSE @]]
  /\ alarm' = IF alarm # NoAlarm /\ alarm > 0 THEN alarm - 1 ELSE alarm

-----------------------------------------------------------------------------
Store ==
  /\ stores < MaxStores
  /\ \E t \in Tickets : StoreTicket(t)
  /\ stores' = stores + 1

Use ==
  /\ \E t \in Tickets :
       \/ StoreExisting(t)
       \/ GetExpired(t) \/ GetFound(t) \/ GetMissing(t)
       \/ MarkViewed(t) \/ DeleteTicket(t)
  /\ UNCHANGED stores

Sweep == Alarm /\ UNCHANGED stores

Time == Day /\ UNCHANGED stores

Next == Store \/ Use \/ Sweep \/ Time

Spec == Init /\ [][Next]_vaultVars

\* The platform delivers alarms at least once; nobody has to call the shard.
FairSpec == Spec /\ WF_vaultVars(Sweep)

-----------------------------------------------------------------------------
(* Correctness. *)

\* Material follows the status: a live record has its route, only an
\* undelivered one has its payload, an expired one has nothing left.
MaterialMatchesStatus ==
  \A t \in Tickets :
    /\ vault[t].route <=> vault[t].status \in {"active", "viewed"}
    /\ vault[t].payload <=> vault[t].status = "active"

\* An alarm is always set early enough for every record that still holds
\* material, through every store, lazy expiry, deletion and bounded sweep.
AlarmCovers ==
  \A t \in Pending(vault) : alarm # NoAlarm /\ alarm <= DueIn(vault, t)

\* A payload that was dropped never comes back while its record exists: a
\* retried storeTicket cannot resurrect a delivered message.
NoRevival ==
  [][\A t \in Tickets :
       Exists(t) /\ ~ vault[t].payload => ~ vault'[t].payload]_vaultVars

\* Material of an expired ticket is scrubbed even if nobody reads it again.
ExpiryScrubs ==
  \A t \in Tickets :
    (vault[t].route /\ vault[t].ttl <= 0) ~> ~ vault[t].route
=============================================================================
