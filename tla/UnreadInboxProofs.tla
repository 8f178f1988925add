-------------------------- MODULE UnreadInboxProofs --------------------------
(***************************************************************************)
(* Proofs about the unread inbox, for every set of tickets and attempts,   *)
(* every capacity and every lease.  The argument: apart from inserting and *)
(* claiming a row, every method only weakens rows - it removes them or     *)
(* takes their lease away - and weakening keeps the inductive invariant.   *)
(***************************************************************************)
EXTENDS UnreadInbox, FiniteSetTheorems, TLAPS

Inboxes == [Tickets -> Row]

\* jb comes from ib by removing rows and by taking leases back.
Weaker(ib, jb) ==
  \A t \in Tickets :
    \/ jb[t] = ib[t]
    \/ jb[t] = NoRow
    \/ ib[t].state = "delivering" /\ jb[t] = Released(ib[t])

IInv == TypeOK /\ AttemptDiscipline /\ CapHolds

\* The rows the methods write are rows.
LEMMA RowTypes ==
  /\ NoRow \in Row /\ NewRow \in Row
  /\ \A r \in Row : Released(r) \in Row
  /\ \A r \in Row, a \in Attempts :
       [r EXCEPT !.state = "delivering", !.attempt = a, !.lease = LEASE] \in Row
<1>1. 0 \in 0..LEASE /\ LEASE \in 0..LEASE /\ 0 \in 0..TTL /\ TTL \in 0..TTL
  BY InboxAssumption
<1>2. NoRow \in Row /\ NewRow \in Row
  BY <1>1 DEF Row, NoRow, NewRow
<1>3. \A r \in Row : Released(r) \in Row
  BY <1>1 DEF Row, Released
<1>4. \A r \in Row, a \in Attempts :
        [r EXCEPT !.state = "delivering", !.attempt = a, !.lease = LEASE] \in Row
  BY <1>1 DEF Row
<1> QED BY <1>2, <1>3, <1>4

\* Removing rows and leases types, keeps the attempt discipline and frees room.
LEMMA WeakerKeeps ==
  ASSUME NEW ib \in Inboxes, NEW jb \in Inboxes,
         Disciplined(ib), Weaker(ib, jb)
  PROVE  Disciplined(jb) /\ CountedUnread(jb) \subseteq CountedUnread(ib)
<1>1. \A t \in Tickets :
        /\ jb[t].attempt \in {ib[t].attempt, NoAttempt}
        /\ jb[t].state = "delivering" <=> jb[t].attempt # NoAttempt
        /\ jb[t].lease > 0 => jb[t].state = "delivering"
        /\ jb[t].state # "none" => ib[t].state # "none" /\ jb[t].ttl = ib[t].ttl
  <2> SUFFICES ASSUME NEW t \in Tickets
               PROVE  /\ jb[t].attempt \in {ib[t].attempt, NoAttempt}
                      /\ jb[t].state = "delivering" <=> jb[t].attempt # NoAttempt
                      /\ jb[t].lease > 0 => jb[t].state = "delivering"
                      /\ jb[t].state # "none"
                           => ib[t].state # "none" /\ jb[t].ttl = ib[t].ttl
    OBVIOUS
  <2>0. ib[t] \in Row
    BY DEF Inboxes
  <2>1. CASE jb[t] = ib[t]
    BY <2>1 DEF Disciplined
  <2>2. CASE jb[t] = NoRow
    BY <2>2 DEF NoRow
  <2>3. CASE ib[t].state = "delivering" /\ jb[t] = Released(ib[t])
    BY <2>0, <2>3 DEF Released, Row
  <2> QED BY <2>1, <2>2, <2>3 DEF Weaker
<1>2. Disciplined(jb)
  BY <1>1 DEF Disciplined
<1>3. CountedUnread(jb) \subseteq CountedUnread(ib)
  BY <1>1 DEF CountedUnread, Stored
<1> QED BY <1>2, <1>3

\* recoverExpiredUnreadLeases only takes leases back.
LEMMA RecoveredWeaker ==
  ASSUME NEW ib \in Inboxes
  PROVE  Recovered(ib) \in Inboxes /\ Weaker(ib, Recovered(ib))
BY InboxAssumption DEF Recovered, Weaker, Inboxes, Row, Released

\* prepareUnreadInbox only removes rows and takes leases back.
LEMMA PreparedWeaker ==
  ASSUME NEW ib \in Inboxes, NEW D
  PROVE  Prepared(ib, D) \in Inboxes /\ Weaker(ib, Prepared(ib, D))
<1> DEFINE kb == [t \in Tickets |-> IF t \in D THEN NoRow ELSE ib[t]]
<1>1. kb \in Inboxes
  BY InboxAssumption DEF Inboxes, Row, NoRow
<1>2. Prepared(ib, D) = Recovered(kb)
  BY DEF Prepared
<1>3. Recovered(kb) \in Inboxes /\ Weaker(kb, Recovered(kb))
  BY <1>1, RecoveredWeaker
<1>4. \A t \in Tickets : kb[t] = NoRow \/ kb[t] = ib[t]
  OBVIOUS
<1>5. Weaker(ib, Recovered(kb))
  <2> SUFFICES ASSUME NEW t \in Tickets
               PROVE  \/ Recovered(kb)[t] = ib[t]
                      \/ Recovered(kb)[t] = NoRow
                      \/ /\ ib[t].state = "delivering"
                         /\ Recovered(kb)[t] = Released(ib[t])
    BY DEF Weaker
  <2>1. CASE kb[t] = NoRow
    <3>1. kb[t].state = "none"
      BY <2>1 DEF NoRow
    <3> QED BY <2>1, <3>1, <1>3 DEF Weaker
  <2>2. CASE kb[t] = ib[t]
    BY <2>2, <1>3 DEF Weaker
  <2> QED BY <2>1, <2>2, <1>4
<1> HIDE DEF kb
<1> QED BY <1>2, <1>3, <1>5

\* A table with no more live rows than the inbox is within the capacity.
LEMMA CapKept ==
  ASSUME CapHolds, CountedUnread(inbox') \subseteq CountedUnread(inbox)
  PROVE  CapHolds'
<1>1. IsFiniteSet(CountedUnread(inbox)) /\ IsFiniteSet(CountedUnread(inbox'))
  BY FS_Subset, InboxAssumption DEF CountedUnread
<1>2. Cardinality(CountedUnread(inbox')) <= Cardinality(CountedUnread(inbox))
  BY <1>1, FS_Subset
<1>3. /\ Cardinality(CountedUnread(inbox)) \in Nat
      /\ Cardinality(CountedUnread(inbox')) \in Nat
  BY <1>1, FS_CardinalityType
<1> QED BY <1>2, <1>3, InboxAssumption DEF CapHolds

\* A step that only weakens rows keeps the invariant.
LEMMA WeakeningStep ==
  ASSUME IInv, inbox' \in Inboxes, Weaker(inbox, inbox'), claims' \subseteq claims
  PROVE  IInv'
<1>1. inbox \in Inboxes /\ Disciplined(inbox)
  BY DEF IInv, TypeOK, AttemptDiscipline, Inboxes
<1>2. Disciplined(inbox') /\ CountedUnread(inbox') \subseteq CountedUnread(inbox)
  BY <1>1, WeakerKeeps
<1>3. CapHolds'
  BY <1>2, CapKept DEF IInv
<1> QED BY <1>2, <1>3 DEF IInv, TypeOK, AttemptDiscipline, Inboxes

\* Inserting a row into a table with room for one more.
LEMMA AddStep ==
  ASSUME IInv, NEW t \in Tickets, AddUnreadItem(t), UNCHANGED claims
  PROVE  IInv'
<1> PICK D \in CleanupBatches(inbox) :
      LET ib == Prepared(inbox, D) IN
      /\ ~ Stored(ib, t)
      /\ Cardinality(CountedUnread(ib)) < INBOX_MAX_UNREAD
      /\ inbox' = [ib EXCEPT ![t] = NewRow]
  BY DEF AddUnreadItem
<1> DEFINE ib == Prepared(inbox, D)
<1>1. inbox \in Inboxes /\ Disciplined(inbox)
  BY DEF IInv, TypeOK, AttemptDiscipline, Inboxes
<1>2. ib \in Inboxes /\ Disciplined(ib)
  BY <1>1, PreparedWeaker, WeakerKeeps
<1> HIDE DEF ib
<1>3. inbox' = [ib EXCEPT ![t] = NewRow]
  BY DEF ib
<1>4. inbox' \in Inboxes
  BY <1>2, <1>3, RowTypes DEF Inboxes
<1>5. \A u \in Tickets : inbox'[u] = IF u = t THEN NewRow ELSE ib[u]
  BY <1>2, <1>3 DEF Inboxes
<1>6. Disciplined(inbox')
  BY <1>2, <1>5 DEF Disciplined, NewRow
<1>7. CountedUnread(inbox') = CountedUnread(ib) \cup {t}
  BY <1>5, InboxAssumption DEF CountedUnread, Stored, NewRow
<1>8. IsFiniteSet(CountedUnread(ib))
  BY FS_Subset, InboxAssumption DEF CountedUnread
<1>9. /\ Cardinality(CountedUnread(ib)) \in Nat
      /\ Cardinality(CountedUnread(inbox')) <= Cardinality(CountedUnread(ib)) + 1
  <2>1. Cardinality(CountedUnread(ib)) \in Nat
    BY <1>8, FS_CardinalityType
  <2>2. Cardinality(CountedUnread(ib) \cup {t}) =
          IF t \in CountedUnread(ib) THEN Cardinality(CountedUnread(ib))
          ELSE Cardinality(CountedUnread(ib)) + 1
    BY <1>8, FS_AddElement
  <2> DEFINE n == Cardinality(CountedUnread(ib))
             m == Cardinality(CountedUnread(ib) \cup {t})
  <2>3. Cardinality(CountedUnread(inbox')) = m
    BY <1>7, Zenon
  <2>4. m = n \/ m = n + 1
    BY <2>2, Zenon
  <2>5. n \in Nat
    BY <2>1
  <2> HIDE DEF n, m
  <2>6. m <= n + 1
    BY <2>4, <2>5
  <2> QED BY <2>3, <2>5, <2>6 DEF n
<1>10. Cardinality(CountedUnread(inbox')) \in Nat
  BY <1>7, <1>8, FS_CardinalityType, FS_AddElement
<1>11. CapHolds'
  <2>1. Cardinality(CountedUnread(ib)) < INBOX_MAX_UNREAD
    BY DEF ib
  <2> QED BY <2>1, <1>9, <1>10, InboxAssumption DEF CapHolds
<1> QED BY <1>4, <1>6, <1>11 DEF IInv, TypeOK, AttemptDiscipline, Inboxes

\* Leasing a row to an attempt that no other row names.
LEMMA ClaimStep ==
  ASSUME IInv, NEW t \in Tickets, NEW a \in Attempts, Fresh(t, a),
         ClaimUnread(t, a), claims' = claims \cup {<<t, a>>}
  PROVE  IInv'
<1> PICK D \in CleanupBatches(inbox) :
      LET ib == Prepared(inbox, D) IN
      /\ t \in Oldest(ib)
      /\ inbox' = [ib EXCEPT ![t].state = "delivering",
                             ![t].attempt = a,
                             ![t].lease = LEASE]
  BY DEF ClaimUnread
<1> DEFINE ib == Prepared(inbox, D)
<1>1. inbox \in Inboxes /\ Disciplined(inbox)
  BY DEF IInv, TypeOK, AttemptDiscipline, Inboxes
<1>2. /\ ib \in Inboxes /\ Weaker(inbox, ib)
      /\ Disciplined(ib) /\ CountedUnread(ib) \subseteq CountedUnread(inbox)
  BY <1>1, PreparedWeaker, WeakerKeeps
<1> HIDE DEF ib
<1>3. ib[t].state = "active"
  BY DEF ib, Oldest, Claimable
<1>4. inbox' = [ib EXCEPT ![t].state = "delivering",
                          ![t].attempt = a,
                          ![t].lease = LEASE]
  BY DEF ib
<1>5. inbox' \in Inboxes
  <2>1. ib[t] \in Row
    BY <1>2 DEF Inboxes
  <2> DEFINE r == [ib[t] EXCEPT !.state = "delivering",
                                !.attempt = a,
                                !.lease = LEASE]
  <2>2. inbox' = [ib EXCEPT ![t] = r]
    BY <1>2, <1>4 DEF Inboxes
  <2>3. r \in Row
    BY <2>1, RowTypes, Zenon
  <2> HIDE DEF r
  <2> QED BY <1>2, <2>2, <2>3 DEF Inboxes
<1>6. /\ inbox'[t].state = "delivering" /\ inbox'[t].attempt = a
      /\ inbox'[t].ttl = ib[t].ttl
  BY <1>2, <1>4 DEF Inboxes, Row
<1>7. \A u \in Tickets : u # t => inbox'[u] = ib[u]
  BY <1>2, <1>4 DEF Inboxes
<1>8. \A u \in Tickets \ {t} : ib[u].attempt # a
  <2> SUFFICES ASSUME NEW u \in Tickets \ {t} PROVE ib[u].attempt # a
    OBVIOUS
  <2>1. inbox[u] \in Row /\ inbox[u].attempt # a /\ NoAttempt # a
    BY <1>1, InboxAssumption DEF Fresh, Inboxes
  <2>2. CASE ib[u] = inbox[u]
    BY <2>1, <2>2
  <2>3. CASE ib[u] = NoRow
    BY <2>1, <2>3 DEF NoRow
  <2>4. CASE ib[u] = Released(inbox[u])
    BY <2>1, <2>4 DEF Released, Row
  <2> QED BY <1>2, <2>2, <2>3, <2>4 DEF Weaker
<1>9. Disciplined(inbox')
  <2>1. a # NoAttempt
    BY InboxAssumption
  <2>2. \A u \in Tickets :
          /\ inbox'[u].state = "delivering" <=> inbox'[u].attempt # NoAttempt
          /\ inbox'[u].lease > 0 => inbox'[u].state = "delivering"
    BY <1>2, <1>6, <1>7, <2>1 DEF Disciplined
  <2>3. ASSUME NEW u \in Tickets, NEW v \in Tickets,
               inbox'[u].attempt = inbox'[v].attempt,
               inbox'[u].attempt # NoAttempt
        PROVE  u = v
    BY <1>2, <1>6, <1>7, <1>8, <2>3 DEF Disciplined
  <2> QED BY <2>2, <2>3 DEF Disciplined
<1>10. CountedUnread(inbox') \subseteq CountedUnread(inbox)
  BY <1>2, <1>3, <1>6, <1>7 DEF CountedUnread, Stored
<1>11. CapHolds'
  BY <1>10, CapKept DEF IInv
<1>12. claims' \subseteq Tickets \X Attempts
  BY DEF IInv, TypeOK
<1> QED BY <1>5, <1>9, <1>11, <1>12 DEF IInv, TypeOK, AttemptDiscipline, Inboxes

\* A clock step keeps every row's owner and lets lifetimes run out.
LEMMA TimeStep ==
  ASSUME IInv, Time
  PROVE  IInv'
<1>1. inbox \in Inboxes /\ Disciplined(inbox) /\ UNCHANGED claims
  BY DEF IInv, TypeOK, AttemptDiscipline, Inboxes, Time
<1>2. \A n \in Nat : Elapse(n) \in Nat /\ Elapse(n) <= n
  BY DEF Elapse
<1>3. /\ inbox' \in Inboxes
      /\ \A t \in Tickets :
           /\ inbox'[t].state = inbox[t].state
           /\ inbox'[t].attempt = inbox[t].attempt
           /\ inbox'[t].lease > 0 => inbox[t].lease > 0
           /\ inbox'[t].ttl > 0 => inbox[t].ttl > 0
  <2>1. CASE Minute
    BY <1>1, <1>2, <2>1, InboxAssumption DEF Minute, Inboxes, Row
  <2>2. CASE Day
    BY <1>1, <1>2, <2>2, InboxAssumption DEF Day, Inboxes, Row
  <2> QED BY <2>1, <2>2 DEF Time
<1>4. Disciplined(inbox')
  BY <1>1, <1>3 DEF Disciplined
<1>5. CountedUnread(inbox') \subseteq CountedUnread(inbox)
  BY <1>3 DEF CountedUnread, Stored
<1>6. CapHolds'
  BY <1>5, CapKept DEF IInv
<1> QED BY <1>1, <1>3, <1>4, <1>6 DEF IInv, TypeOK, AttemptDiscipline, Inboxes

\* Every other step only weakens rows.
LEMMA OtherStepsWeaken ==
  ASSUME IInv,
         \/ \E t \in Tickets : AddDuplicate(t) \/ AddRefusedFull(t)
         \/ ClaimNothing \/ GetUnreadSummary \/ CleanupExpiredUnreadItems
         \/ \E t \in Tickets, a \in Attempts :
              CompleteUnread(t, a) \/ ReleaseUnread(t, a)
         \/ Purge \/ UNCHANGED inbox
  PROVE  inbox' \in Inboxes /\ Weaker(inbox, inbox')
<1>1. inbox \in Inboxes /\ Disciplined(inbox)
  BY DEF IInv, TypeOK, AttemptDiscipline, Inboxes
<1>2. CASE \E t \in Tickets : AddDuplicate(t) \/ AddRefusedFull(t)
  BY <1>1, <1>2, PreparedWeaker DEF AddDuplicate, AddRefusedFull
<1>3. CASE ClaimNothing \/ CleanupExpiredUnreadItems
  BY <1>1, <1>3, PreparedWeaker DEF ClaimNothing, CleanupExpiredUnreadItems
<1>4. CASE GetUnreadSummary
  BY <1>1, <1>4, RecoveredWeaker DEF GetUnreadSummary
<1>5. ASSUME NEW t \in Tickets, NEW a \in Attempts, CompleteUnread(t, a)
      PROVE  inbox' \in Inboxes /\ Weaker(inbox, inbox')
  <2>1. CASE Owns(t, a)
    <3>1. inbox' = Recovered([inbox EXCEPT ![t] = NoRow])
      BY <1>5, <2>1 DEF CompleteUnread
    <3>2. [inbox EXCEPT ![t] = NoRow]
             = [u \in Tickets |-> IF u \in {t} THEN NoRow ELSE inbox[u]]
      BY <1>1 DEF Inboxes
    <3>3. inbox' = Prepared(inbox, {t})
      BY <3>1, <3>2 DEF Prepared
    <3> QED BY <3>3, <1>1, PreparedWeaker
  <2>2. CASE ~ Owns(t, a)
    BY <1>1, <1>5, <2>2, RecoveredWeaker DEF CompleteUnread
  <2> QED BY <2>1, <2>2
<1>6. ASSUME NEW t \in Tickets, NEW a \in Attempts, ReleaseUnread(t, a)
      PROVE  inbox' \in Inboxes /\ Weaker(inbox, inbox')
  <2>1. CASE Owns(t, a)
    <3>1. inbox[t].state = "delivering"
      BY <2>1, <1>1, InboxAssumption DEF Owns, Disciplined
    <3>2. inbox' = [inbox EXCEPT ![t] = Released(inbox[t])]
      BY <1>6, <2>1 DEF ReleaseUnread
    <3>3. inbox[t] \in Row /\ Released(inbox[t]) \in Row
      BY <1>1, RowTypes DEF Inboxes
    <3> QED BY <1>1, <3>1, <3>2, <3>3 DEF Weaker, Inboxes
  <2>2. CASE ~ Owns(t, a)
    BY <1>1, <1>6, <2>2 DEF ReleaseUnread, Weaker
  <2> QED BY <2>1, <2>2
<1>7. CASE Purge
  BY <1>7, InboxAssumption DEF Purge, Weaker, Inboxes, Row, NoRow
<1>8. CASE UNCHANGED inbox
  BY <1>1, <1>8 DEF Weaker
<1> QED BY <1>2, <1>3, <1>4, <1>5, <1>6, <1>7, <1>8

\* The inductive invariant.
LEMMA Inductive == IInv /\ [Next]_inboxVars => IInv'
<1> SUFFICES ASSUME IInv, [Next]_inboxVars PROVE IInv'
  OBVIOUS
<1>1. CASE Add
  <2>1. PICK t \in Tickets :
          AddUnreadItem(t) \/ AddDuplicate(t) \/ AddRefusedFull(t)
    BY <1>1 DEF Add
  <2>2. UNCHANGED claims
    BY <1>1 DEF Add
  <2> QED BY <2>1, <2>2, AddStep, OtherStepsWeaken, WeakeningStep
<1>2. CASE Claim
  BY <1>2, ClaimStep DEF Claim
<1>3. CASE Complete \/ Release \/ LoseWorker
  <2>1. claims \subseteq Tickets \X Attempts
    BY DEF IInv, TypeOK
  <2>2. \A c \in claims : c[1] \in Tickets /\ c[2] \in Attempts
    BY <2>1
  <2>3. claims' \subseteq claims
    BY <1>3 DEF Complete, Release, LoseWorker
  <2>4. inbox' \in Inboxes /\ Weaker(inbox, inbox')
    BY <1>3, <2>2, OtherStepsWeaken DEF Complete, Release, LoseWorker
  <2> QED BY <2>3, <2>4, WeakeningStep
<1>4. CASE Housekeeping
  BY <1>4, OtherStepsWeaken, WeakeningStep DEF Housekeeping
<1>5. CASE Time
  BY <1>5, TimeStep
<1>6. CASE UNCHANGED inboxVars
  BY <1>6, OtherStepsWeaken, WeakeningStep DEF inboxVars
<1> QED BY <1>1, <1>2, <1>3, <1>4, <1>5, <1>6 DEF Next

LEMMA InitIInv == Init => IInv
<1> SUFFICES ASSUME Init PROVE IInv
  OBVIOUS
<1>1. TypeOK
  BY InboxAssumption DEF Init, TypeOK, Row, NoRow
<1>2. AttemptDiscipline
  BY DEF Init, AttemptDiscipline, Disciplined, NoRow
<1>3. CountedUnread(inbox) = {}
  BY DEF Init, CountedUnread, Stored, NoRow
<1>4. CapHolds
  BY <1>3, FS_EmptySet, InboxAssumption DEF CapHolds
<1> QED BY <1>1, <1>2, <1>4 DEF IInv

THEOREM Invariant == Spec => []IInv
BY InitIInv, Inductive, PTL DEF Spec

\* Every row keeps its type: no lease or lifetime leaves its range.
THEOREM TypeTheorem == Spec => []TypeOK
<1>1. IInv => TypeOK
  BY DEF IInv
<1> QED BY <1>1, Invariant, PTL

\* The inbox never exceeds its capacity, whatever the interleaving of senders,
\* claims, lapsed leases, late reports and cleanup.
THEOREM CapTheorem == Spec => []CapHolds
<1>1. IInv => CapHolds
  BY DEF IInv
<1> QED BY <1>1, Invariant, PTL

\* An attempt is named by one row at most, so a worker's report can delete or
\* release one row only.
THEOREM AttemptTheorem == Spec => []AttemptDiscipline
<1>1. IInv => AttemptDiscipline
  BY DEF IInv
<1> QED BY <1>1, Invariant, PTL

-----------------------------------------------------------------------------
(* The action properties. *)

\* The cleanup spares what has not expired, and a running lease stands.
LEMMA PreparedAlive ==
  ASSUME NEW ib \in Inboxes, NEW D \in CleanupBatches(ib),
         NEW t \in Tickets, Stored(ib, t), ib[t].ttl > 0
  PROVE  Prepared(ib, D)[t] = IF ib[t].state = "delivering" /\ ib[t].lease = 0
                              THEN Released(ib[t]) ELSE ib[t]
<1>1. t \notin D
  BY DEF CleanupBatches, Expired
<1> QED BY <1>1 DEF Prepared, Recovered

\* A row that a call removes or claims is a row without a running lease.
LEMMA LeaseStep ==
  ASSUME IInv, [Next]_inboxVars, NEW t \in Tickets,
         Live(t), inbox'[t].attempt # inbox[t].attempt
  PROVE  \/ <<t, inbox[t].attempt>> \in claims \ claims'
         \/ \A u \in Tickets : inbox'[u] = NoRow
<1>1. inbox \in Inboxes /\ claims \subseteq Tickets \X Attempts
  BY DEF IInv, TypeOK, Inboxes
<1>2. inbox[t] \in Row /\ Stored(inbox, t) /\ inbox[t].ttl > 0
      /\ inbox[t].state = "delivering" /\ inbox[t].lease > 0
  BY <1>1 DEF Live, Stored, Inboxes
<1>3. \A D \in CleanupBatches(inbox) : Prepared(inbox, D)[t] = inbox[t]
  BY <1>1, <1>2, PreparedAlive
<1>4. \A D \in CleanupBatches(inbox) : Prepared(inbox, D) \in Inboxes
  BY <1>1, PreparedWeaker
<1>5. \A ib \in Inboxes : ib[t] = inbox[t] => Recovered(ib)[t] = inbox[t]
  BY <1>2 DEF Recovered
<1>6. ~ Add
  <2> SUFFICES ASSUME Add PROVE FALSE
    OBVIOUS
  <2>1. PICK u \in Tickets : AddUnreadItem(u) \/ AddDuplicate(u) \/ AddRefusedFull(u)
    BY DEF Add
  <2>2. CASE AddUnreadItem(u)
    <3>1. PICK D \in CleanupBatches(inbox) :
            /\ ~ Stored(Prepared(inbox, D), u)
            /\ inbox' = [Prepared(inbox, D) EXCEPT ![u] = NewRow]
      BY <2>2 DEF AddUnreadItem
    <3>2. u # t
      BY <3>1, <1>2, <1>3 DEF Stored
    <3> QED BY <3>1, <3>2, <1>3, <1>4 DEF Inboxes
  <2>3. CASE AddDuplicate(u) \/ AddRefusedFull(u)
    BY <2>3, <1>3 DEF AddDuplicate, AddRefusedFull
  <2> QED BY <2>1, <2>2, <2>3
<1>7. ~ Claim
  <2> SUFFICES ASSUME Claim PROVE FALSE
    OBVIOUS
  <2>1. PICK u \in Tickets, a \in Attempts : ClaimUnread(u, a)
    BY DEF Claim
  <2>2. PICK D \in CleanupBatches(inbox) :
          /\ u \in Oldest(Prepared(inbox, D))
          /\ inbox' = [Prepared(inbox, D) EXCEPT ![u].state = "delivering",
                                                 ![u].attempt = a,
                                                 ![u].lease = LEASE]
    BY <2>1 DEF ClaimUnread
  <2>3. u # t
    BY <2>2, <1>2, <1>3 DEF Oldest, Claimable
  <2> QED BY <2>2, <2>3, <1>3, <1>4 DEF Inboxes
<1>8. CASE Complete \/ Release
  <2>1. PICK c \in claims :
          /\ CompleteUnread(c[1], c[2]) \/ ReleaseUnread(c[1], c[2])
          /\ claims' = claims \ {c}
    BY <1>8 DEF Complete, Release
  <2>2. c[1] \in Tickets /\ c = <<c[1], c[2]>>
    BY <1>1
  <2>3. CASE c[1] = t /\ Owns(c[1], c[2])
    BY <2>1, <2>2, <2>3 DEF Owns
  <2>4. CASE c[1] # t \/ ~ Owns(c[1], c[2])
    <3>1. CASE CompleteUnread(c[1], c[2])
      <4>1. [inbox EXCEPT ![c[1]] = NoRow] \in Inboxes
        BY <1>1, <2>2, RowTypes DEF Inboxes
      <4>2. c[1] # t => [inbox EXCEPT ![c[1]] = NoRow][t] = inbox[t]
        BY <1>1 DEF Inboxes
      <4>3. inbox'[t] = inbox[t]
        BY <3>1, <2>4, <4>1, <4>2, <1>1, <1>5 DEF CompleteUnread
      <4> QED BY <4>3
    <3>2. CASE ReleaseUnread(c[1], c[2])
      <4>1. inbox'[t] = inbox[t]
        BY <3>2, <2>4, <1>1 DEF ReleaseUnread, Inboxes
      <4> QED BY <4>1
    <3> QED BY <2>1, <3>1, <3>2
  <2> QED BY <2>3, <2>4
<1>9. CASE Housekeeping
  <2>1. ~ (ClaimNothing \/ CleanupExpiredUnreadItems)
    BY <1>3 DEF ClaimNothing, CleanupExpiredUnreadItems
  <2>2. ~ GetUnreadSummary
    BY <1>1, <1>5 DEF GetUnreadSummary
  <2>3. CASE Purge
    BY <2>3 DEF Purge
  <2> QED BY <1>9, <2>1, <2>2, <2>3 DEF Housekeeping
<1>10. ~ Time
  BY <1>1 DEF Time, Minute, Day, Inboxes, Row
<1>11. ~ LoseWorker /\ ~ UNCHANGED inboxVars
  BY DEF LoseWorker, inboxVars
<1> QED BY <1>6, <1>7, <1>8, <1>9, <1>10, <1>11 DEF Next

\* A claim takes the oldest row of those that nobody holds, and the call that
\* claims has put back the rows whose lease has lapsed.
LEMMA OrderStep ==
  ASSUME IInv, [Next]_inboxVars, NEW c \in claims' \ claims,
         NEW u \in CountedUnread(inbox), ~ Live(u)
  PROVE  inbox[c[1]].ttl <= inbox[u].ttl
<1>1. inbox \in Inboxes /\ u \in Tickets
  BY DEF IInv, TypeOK, Inboxes, CountedUnread
<1>2. Stored(inbox, u) /\ inbox[u].ttl > 0 /\ inbox[u] \in Row
  BY <1>1 DEF CountedUnread, Inboxes
<1>3. Claim
  BY DEF Next, Add, Complete, Release, LoseWorker, Housekeeping, Time, inboxVars
<1>4. PICK t \in Tickets, a \in Attempts :
        ClaimUnread(t, a) /\ claims' = claims \cup {<<t, a>>}
  BY <1>3 DEF Claim
<1>5. c = <<t, a>> /\ c[1] = t
  BY <1>4
<1>6. PICK D \in CleanupBatches(inbox) : t \in Oldest(Prepared(inbox, D))
  BY <1>4 DEF ClaimUnread
<1>7. Prepared(inbox, D)[u] = inbox[u] \/ Prepared(inbox, D)[u] = Released(inbox[u])
  BY <1>1, <1>2, PreparedAlive
<1>8. Prepared(inbox, D)[u].state = "active" /\ Prepared(inbox, D)[u].ttl = inbox[u].ttl
  <2>1. CASE inbox[u].state = "delivering"
    <3>1. inbox[u].lease = 0
      BY <2>1, <1>2 DEF Live, Row
    <3>2. Prepared(inbox, D)[u] = Released(inbox[u])
      BY <2>1, <3>1, <1>1, <1>2, PreparedAlive
    <3> QED BY <3>2, <1>2 DEF Released, Row
  <2>2. CASE inbox[u].state # "delivering"
    <3>1. Prepared(inbox, D)[u] = inbox[u]
      BY <2>2, <1>1, <1>2, PreparedAlive
    <3> QED BY <3>1, <2>2, <1>2 DEF Stored, Row
  <2> QED BY <2>1, <2>2
<1>9. u \in Claimable(Prepared(inbox, D))
  BY <1>1, <1>2, <1>8 DEF Claimable
<1>10. Prepared(inbox, D)[t].ttl <= inbox[u].ttl
  BY <1>6, <1>8, <1>9 DEF Oldest
<1>11. Prepared(inbox, D)[t].ttl = inbox[t].ttl
  <2>1. Weaker(inbox, Prepared(inbox, D)) /\ inbox[t] \in Row
    BY <1>1, PreparedWeaker DEF Inboxes
  <2>2. Prepared(inbox, D)[t].state = "active"
    BY <1>6 DEF Oldest, Claimable
  <2>3. Prepared(inbox, D)[t] # NoRow
    BY <2>2 DEF NoRow
  <2> QED BY <2>1, <2>3 DEF Weaker, Released, Row
<1> QED BY <1>5, <1>10, <1>11

\* Nobody but its holder takes a row away while its lease runs, whatever
\* workers are late or lost and whatever is cleaned up.
THEOREM LeaseTheorem == Spec => LeaseIsExclusive
<1>1. IInv /\ [Next]_inboxVars =>
        [\A t \in Tickets :
           Live(t) /\ inbox'[t].attempt # inbox[t].attempt
             => \/ <<t, inbox[t].attempt>> \in claims \ claims'
                \/ \A u \in Tickets : inbox'[u] = NoRow]_inboxVars
  BY LeaseStep
<1> QED BY <1>1, Invariant, PTL DEF Spec, LeaseIsExclusive

\* Messages are handed out in the order in which they came, those whose worker
\* was too slow included.
THEOREM OrderTheorem == Spec => OldestFirst
<1>1. IInv /\ [Next]_inboxVars =>
        [\A c \in claims' \ claims : \A u \in CountedUnread(inbox) :
           ~ Live(u) => inbox[c[1]].ttl <= inbox[u].ttl]_inboxVars
  BY OrderStep
<1> QED BY <1>1, Invariant, PTL DEF Spec, OldestFirst
=============================================================================
