--------------------------- MODULE TicketVaultProofs ---------------------------
(***************************************************************************)
(* Proofs about one shard of the ticket vault, for every set of tickets,   *)
(* every lifetime and every sweep limit.  Every path that changes a record *)
(* either resets the alarm to the earliest pending expiry (lemma Schedule) *)
(* or leaves the set of pending records and their expiries alone.          *)
(***************************************************************************)
EXTENDS TicketVault, TLAPS

Vaults == [Tickets -> Record]

\* MaterialMatchesStatus of a given table.
Matching(v) ==
  \A t \in Tickets :
    /\ v[t].route <=> v[t].status \in {"active", "viewed"}
    /\ v[t].payload <=> v[t].status = "active"

IInv == TypeOK /\ MaterialMatchesStatus /\ AlarmCovers

\* The records the methods write are records whose material fits.
LEMMA RecordTypes ==
  /\ NoRecord \in Record /\ NewRecord \in Record
  /\ \A r \in Record :
       /\ Scrubbed(r) \in Record
       /\ Scrubbed(r).status = "expired"
       /\ ~ Scrubbed(r).route /\ ~ Scrubbed(r).payload
<1>1. -1 \in -1..TTL /\ TTL \in -1..TTL
  BY VaultAssumption
<1>2. NoRecord \in Record /\ NewRecord \in Record
  BY <1>1 DEF Record, NoRecord, NewRecord
<1>3. ASSUME NEW r \in Record
      PROVE  /\ Scrubbed(r) \in Record
             /\ Scrubbed(r).status = "expired"
             /\ ~ Scrubbed(r).route /\ ~ Scrubbed(r).payload
  BY DEF Record, Scrubbed
<1> QED BY <1>2, <1>3

\* A record that is due at once or in the days it has left.
LEMMA DueInRange ==
  ASSUME NEW v \in Vaults, NEW t \in Tickets
  PROVE  DueIn(v, t) \in 0..TTL
BY VaultAssumption DEF Vaults, Record, DueIn

\* scheduleNextExpiryAlarm covers every pending record.
LEMMA Schedule ==
  ASSUME vault' \in Vaults, ScheduleNextExpiryAlarm
  PROVE  alarm' \in 0..TTL \cup {NoAlarm} /\ AlarmCovers'
<1> PICK a : NextAlarm(vault', a) /\ alarm' = a
  BY DEF ScheduleNextExpiryAlarm
<1>1. CASE Pending(vault') = {}
  BY <1>1 DEF NextAlarm, AlarmCovers
<1>2. CASE Pending(vault') # {}
  <2>1. PICK t \in Pending(vault') : a = DueIn(vault', t)
    BY <1>2 DEF NextAlarm
  <2>2. a \in 0..TTL
    BY <2>1, DueInRange DEF Pending
  <2>3. a # NoAlarm
    BY <2>2, VaultAssumption
  <2>4. \A u \in Pending(vault') : a <= DueIn(vault', u)
    BY <1>2 DEF NextAlarm
  <2> QED BY <2>2, <2>3, <2>4 DEF AlarmCovers
<1> QED BY <1>1, <1>2

\* Writing one record that fits keeps a fitting table.
LEMMA PutRecord ==
  ASSUME NEW v \in Vaults, Matching(v), NEW t \in Tickets, NEW r \in Record,
         r.route <=> r.status \in {"active", "viewed"},
         r.payload <=> r.status = "active"
  PROVE  /\ [v EXCEPT ![t] = r] \in Vaults
         /\ Matching([v EXCEPT ![t] = r])
BY DEF Vaults, Matching

\* A step that writes fitting records and sets the alarm keeps the invariant.
LEMMA ScheduledStep ==
  ASSUME vault' \in Vaults, Matching(vault'), ScheduleNextExpiryAlarm,
         stores' \in 0..MaxStores
  PROVE  IInv'
<1>1. alarm' \in 0..TTL \cup {NoAlarm} /\ AlarmCovers'
  BY Schedule
<1> QED BY <1>1 DEF IInv, TypeOK, MaterialMatchesStatus, Matching, Vaults

LEMMA StoreStep ==
  ASSUME IInv, NEW t \in Tickets, StoreTicket(t), stores' \in 0..MaxStores
  PROVE  IInv'
<1>1. vault \in Vaults /\ Matching(vault)
  BY DEF IInv, TypeOK, MaterialMatchesStatus, Matching, Vaults
<1>2. /\ NewRecord \in Record
      /\ NewRecord.status = "active" /\ NewRecord.route /\ NewRecord.payload
  BY RecordTypes DEF NewRecord
<1>3. vault' \in Vaults /\ Matching(vault')
  BY <1>1, <1>2, PutRecord DEF StoreTicket
<1> QED BY <1>3, ScheduledStep DEF StoreTicket

LEMMA ExpiredStep ==
  ASSUME IInv, NEW t \in Tickets, GetExpired(t), UNCHANGED stores
  PROVE  IInv'
<1>1. vault \in Vaults /\ Matching(vault) /\ stores \in 0..MaxStores
  BY DEF IInv, TypeOK, MaterialMatchesStatus, Matching, Vaults
<1>2. vault[t] \in Record
  BY <1>1 DEF Vaults
<1>3. vault' \in Vaults /\ Matching(vault')
  BY <1>1, <1>2, RecordTypes, PutRecord DEF GetExpired
<1> QED BY <1>1, <1>3, ScheduledStep DEF GetExpired

LEMMA DeleteStep ==
  ASSUME IInv, NEW t \in Tickets, DeleteTicket(t), UNCHANGED stores
  PROVE  IInv'
<1>1. vault \in Vaults /\ Matching(vault) /\ stores \in 0..MaxStores
  BY DEF IInv, TypeOK, MaterialMatchesStatus, Matching, Vaults
<1>2. /\ NoRecord \in Record
      /\ NoRecord.status = "none" /\ ~ NoRecord.route /\ ~ NoRecord.payload
  BY RecordTypes DEF NoRecord
<1>3. vault' \in Vaults /\ Matching(vault')
  BY <1>1, <1>2, PutRecord DEF DeleteTicket
<1> QED BY <1>1, <1>3, ScheduledStep DEF DeleteTicket

LEMMA AlarmStep ==
  ASSUME IInv, Alarm, UNCHANGED stores
  PROVE  IInv'
<1>1. vault \in Vaults /\ Matching(vault) /\ stores \in 0..MaxStores
  BY DEF IInv, TypeOK, MaterialMatchesStatus, Matching, Vaults
<1> PICK D \in SweepBatches(vault) :
      vault' = [t \in Tickets |->
                  IF t \in D THEN Scrubbed(vault[t]) ELSE vault[t]]
  BY DEF Alarm
<1>2. \A t \in Tickets : vault[t] \in Record
  BY <1>1 DEF Vaults
<1>3. vault' \in Vaults
  BY <1>2, RecordTypes DEF Vaults
<1>4. Matching(vault')
  BY <1>1, <1>2, RecordTypes DEF Matching
<1> QED BY <1>1, <1>3, <1>4, ScheduledStep DEF Alarm

\* Marking a ticket viewed changes no expiry and nothing that is pending.
LEMMA ViewedStep ==
  ASSUME IInv, NEW t \in Tickets, MarkViewed(t), UNCHANGED stores
  PROVE  IInv'
<1>1. vault \in Vaults /\ Matching(vault) /\ stores \in 0..MaxStores
  BY DEF IInv, TypeOK, MaterialMatchesStatus, Matching, Vaults
<1>2. CASE vault' = vault
  BY <1>2 DEF IInv, TypeOK, MaterialMatchesStatus, AlarmCovers, MarkViewed,
              Pending, DueIn
<1>3. CASE /\ vault[t].status \in {"active", "viewed"}
           /\ vault' = [vault EXCEPT ![t].status = "viewed", ![t].payload = FALSE]
  <2>1. vault' \in Vaults
    BY <1>1, <1>3 DEF Vaults, Record
  <2>2. /\ vault'[t].status = "viewed" /\ ~ vault'[t].payload
        /\ vault'[t].route = vault[t].route /\ vault'[t].ttl = vault[t].ttl
        /\ \A u \in Tickets \ {t} : vault'[u] = vault[u]
    BY <1>1, <1>3 DEF Vaults, Record
  <2>3. Matching(vault')
    BY <1>1, <1>3, <2>2 DEF Matching
  <2>4. Pending(vault') = Pending(vault)
    BY <1>3, <2>2 DEF Pending
  <2>5. \A u \in Tickets : DueIn(vault', u) = DueIn(vault, u)
    BY <2>2 DEF DueIn
  <2>6. AlarmCovers'
    BY <2>4, <2>5 DEF IInv, AlarmCovers, MarkViewed, Pending
  <2> QED BY <1>1, <2>1, <2>3, <2>6
          DEF IInv, TypeOK, MaterialMatchesStatus, Matching, Vaults, MarkViewed
<1> QED BY <1>2, <1>3 DEF MarkViewed

\* Expiries and the alarm come closer together.
LEMMA DayStep ==
  ASSUME IInv, Day, UNCHANGED stores
  PROVE  IInv'
<1>1. /\ vault \in Vaults /\ Matching(vault) /\ stores \in 0..MaxStores
      /\ alarm \in 0..TTL \cup {NoAlarm}
  BY DEF IInv, TypeOK, MaterialMatchesStatus, Matching, Vaults
<1>2. \A t \in Tickets :
        /\ vault'[t] \in Record
        /\ vault'[t].status = vault[t].status
        /\ vault'[t].route = vault[t].route
        /\ vault'[t].payload = vault[t].payload
        /\ vault'[t].ttl = IF vault[t].ttl > -1 THEN vault[t].ttl - 1
                                                ELSE vault[t].ttl
  BY <1>1, VaultAssumption DEF Day, Vaults, Record
<1>3. vault' \in Vaults /\ Matching(vault')
  BY <1>1, <1>2 DEF Day, Vaults, Matching
<1>4. alarm' \in 0..TTL \cup {NoAlarm}
  BY <1>1, VaultAssumption DEF Day
<1>5. AlarmCovers'
  <2> SUFFICES ASSUME NEW t \in Pending(vault')
               PROVE  alarm' # NoAlarm /\ alarm' <= DueIn(vault', t)
    BY DEF AlarmCovers
  <2>1. t \in Pending(vault)
    BY <1>2 DEF Pending
  <2>2. alarm # NoAlarm /\ alarm <= DueIn(vault, t)
    BY <2>1 DEF IInv, AlarmCovers
  <2>3. vault[t].ttl \in -1..TTL /\ t \in Tickets
    BY <1>1, <2>1 DEF Vaults, Record, Pending
  <2>4. vault'[t].ttl = IF vault[t].ttl > -1 THEN vault[t].ttl - 1
                                             ELSE vault[t].ttl
    BY <1>2, <2>3
  <2>5. alarm' = IF alarm > 0 THEN alarm - 1 ELSE alarm
    BY <2>2 DEF Day
  <2>6. alarm \in 0..TTL
    BY <1>1, <2>2
  <2>7. alarm' \in 0..TTL
    BY <2>5, <2>6, VaultAssumption
  <2>8. alarm' # NoAlarm
    BY <2>7, VaultAssumption
  <2>9. alarm' <= DueIn(vault', t)
    BY <2>2, <2>3, <2>4, <2>5, <2>6, VaultAssumption DEF DueIn
  <2> QED BY <2>8, <2>9
<1> QED BY <1>1, <1>3, <1>4, <1>5
        DEF IInv, TypeOK, MaterialMatchesStatus, Matching, Vaults

\* Reading changes nothing.
LEMMA IdleStep ==
  ASSUME IInv, UNCHANGED vaultVars
  PROVE  IInv'
BY DEF IInv, TypeOK, MaterialMatchesStatus, AlarmCovers, vaultVars, Pending, DueIn

LEMMA InitInv == Init => IInv
<1> SUFFICES ASSUME Init PROVE IInv
  OBVIOUS
<1>1. TypeOK
  BY RecordTypes, VaultAssumption DEF Init, TypeOK
<1>2. \A t \in Tickets : vault[t] = NoRecord
  BY DEF Init
<1>3. MaterialMatchesStatus /\ AlarmCovers
  BY <1>2 DEF MaterialMatchesStatus, AlarmCovers, Pending, NoRecord
<1> QED BY <1>1, <1>3 DEF IInv

LEMMA Inductive == IInv /\ [Next]_vaultVars => IInv'
<1> SUFFICES ASSUME IInv, [Next]_vaultVars PROVE IInv'
  OBVIOUS
<1>1. CASE Store
  <2>1. PICK t \in Tickets : StoreTicket(t)
    BY <1>1 DEF Store
  <2>2. stores' \in 0..MaxStores
    BY <1>1, VaultAssumption DEF Store, IInv, TypeOK
  <2> QED BY <2>1, <2>2, StoreStep
<1>2. CASE Use
  <2> PICK t \in Tickets :
        \/ StoreExisting(t)
        \/ GetExpired(t) \/ GetFound(t) \/ GetMissing(t)
        \/ MarkViewed(t) \/ DeleteTicket(t)
    BY <1>2 DEF Use
  <2>0. UNCHANGED stores
    BY <1>2 DEF Use
  <2>1. CASE StoreExisting(t) \/ GetFound(t) \/ GetMissing(t)
    BY <2>0, <2>1, IdleStep DEF StoreExisting, GetFound, GetMissing, vaultVars
  <2>2. CASE GetExpired(t)
    BY <2>0, <2>2, ExpiredStep
  <2>3. CASE MarkViewed(t)
    BY <2>0, <2>3, ViewedStep
  <2>4. CASE DeleteTicket(t)
    BY <2>0, <2>4, DeleteStep
  <2> QED BY <2>1, <2>2, <2>3, <2>4
<1>3. CASE Sweep
  BY <1>3, AlarmStep DEF Sweep
<1>4. CASE Time
  BY <1>4, DayStep DEF Time
<1>5. CASE UNCHANGED vaultVars
  BY <1>5, IdleStep
<1> QED BY <1>1, <1>2, <1>3, <1>4, <1>5 DEF Next

THEOREM Invariant == Spec => []IInv
BY InitInv, Inductive, PTL DEF Spec

\* Type correctness of the shard.
THEOREM TypeTheorem == Spec => []TypeOK
<1>1. IInv => TypeOK
  BY DEF IInv
<1> QED BY <1>1, Invariant, PTL

\* A live record has its route, only an undelivered one its payload, and an
\* expired one nothing (ticket-vault.do.ts:185-305).
THEOREM MaterialTheorem == Spec => []MaterialMatchesStatus
<1>1. IInv => MaterialMatchesStatus
  BY DEF IInv
<1> QED BY <1>1, Invariant, PTL

\* The alarm is always set for the earliest record that still holds material
\* (ticket-vault.do.ts:135-183).
THEOREM AlarmTheorem == Spec => []AlarmCovers
<1>1. IInv => AlarmCovers
  BY DEF IInv
<1> QED BY <1>1, Invariant, PTL

\* NoRevival, of one step.
Unrevived ==
  \A t \in Tickets : Exists(t) /\ ~ vault[t].payload => ~ vault'[t].payload

\* No method gives a record its payload back.
LEMMA UnrevivedStep ==
  ASSUME IInv,
         \/ \E t \in Tickets : \/ StoreTicket(t) \/ GetExpired(t)
                               \/ MarkViewed(t) \/ DeleteTicket(t)
         \/ Alarm \/ Day \/ vault' = vault
  PROVE  Unrevived
<1> SUFFICES ASSUME NEW u \in Tickets, Exists(u), ~ vault[u].payload
             PROVE  ~ vault'[u].payload
  BY DEF Unrevived
<1>0. vault \in Vaults /\ \A t \in Tickets : vault[t] \in Record
  BY DEF IInv, TypeOK, Vaults
<1>1. ASSUME NEW t \in Tickets, StoreTicket(t) PROVE ~ vault'[u].payload
  BY <1>0, <1>1 DEF StoreTicket, Vaults
<1>2. ASSUME NEW t \in Tickets, GetExpired(t) PROVE ~ vault'[u].payload
  BY <1>0, <1>2, RecordTypes DEF GetExpired, Vaults
<1>3. ASSUME NEW t \in Tickets, MarkViewed(t) PROVE ~ vault'[u].payload
  BY <1>0, <1>3 DEF MarkViewed, Vaults, Record
<1>4. ASSUME NEW t \in Tickets, DeleteTicket(t) PROVE ~ vault'[u].payload
  BY <1>0, <1>4 DEF DeleteTicket, NoRecord, Vaults
<1>5. ASSUME Alarm PROVE ~ vault'[u].payload
  BY <1>0, <1>5, RecordTypes DEF Alarm
<1>6. ASSUME Day PROVE ~ vault'[u].payload
  BY <1>0, <1>6 DEF Day, Record
<1> QED BY <1>1, <1>2, <1>3, <1>4, <1>5, <1>6

\* A payload that was dropped never comes back while its record exists
\* (ticket-vault.do.ts:199-222).
THEOREM NoRevivalTheorem == Spec => NoRevival
<1>1. IInv /\ [Next]_vaultVars => [Unrevived]_vaultVars
  BY UnrevivedStep
     DEF Next, Store, Use, Sweep, Time, StoreExisting, GetFound, GetMissing
<1> QED BY <1>1, Invariant, PTL DEF Spec, NoRevival, Unrevived
=============================================================================
