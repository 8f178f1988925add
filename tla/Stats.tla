--------------------------------- MODULE Stats ---------------------------------
(***************************************************************************)
(* The product statistics: events sent to a queue (src/stats/emit-stat.ts, *)
(* product-events.ts, emit-user-active.ts), the consumer that folds them   *)
(* into the daily tables of D1 in one transaction a batch                  *)
(* (stats-consumer.ts).  The queue delivers at least once: a batch may     *)
(* hold a message twice, two batches may hold the same one, and a batch    *)
(* whose end is not seen is delivered again.                               *)
(* A malformed message is acknowledged and changes nothing: it is left     *)
(* out.  All events here have one name; the unit of time is a day.         *)
(***************************************************************************)
EXTENDS Integers, FiniteSets, Sequences

CONSTANTS
  Events,           \* event ids
  Body,             \* count, stat key and unique hash of each event
  NoKey, NoHash,    \* no stat key, no unique hash
  STATS_RECEIPT_RETENTION, STATS_RECEIPT_CLEANUP_LIMIT,
  STATS_MAX_BATCH, QUEUE_RETENTION,
  Batches,          \* invocations of the consumer at a time
  LastDay           \* bound: days

ASSUME StatsAssumption ==
  /\ Body \in [Events -> [count : Nat \ {0}, key : Nat \cup {NoKey}, hash : Nat \cup {NoHash}]]
  /\ QUEUE_RETENTION \in Nat /\ QUEUE_RETENTION < STATS_RECEIPT_RETENTION
  /\ {STATS_RECEIPT_CLEANUP_LIMIT, STATS_MAX_BATCH, LastDay} \subseteq Nat \ {0}
  /\ STATS_RECEIPT_RETENTION \in Nat

Days == 1..LastDay
Keys == {Body[e].key : e \in Events} \ {NoKey}
Hashes == {Body[e].hash : e \in Events} \ {NoHash}

VARIABLES
  day,      \* the clock
  message,  \* the message of each event, and the day it was sent
  db,       \* the tables of D1
  tx,       \* the tables as the transaction at work sees them
  batch,    \* the invocations of the consumer
  counted   \* history: events applied by a transaction

statsVars == <<day, message, db, tx, batch, counted>>

\* done: how many of its events the transaction has applied.
NoBatch == [pc |-> "idle", events |-> <<>>, done |-> 0]

\* receipts: the age of a receipt, -1 when there is none.  changes: SQLite's
\* changes(), whether the statement before has changed a row.
Tables == [receipts : [Events -> -1..STATS_RECEIPT_RETENTION], daily : [Days -> Nat],
           keyed : [Days \X Keys -> Nat], unique : SUBSET (Days \X Hashes), changes : {0, 1}]

StatsTypeOK ==
  /\ day \in Days
  /\ message \in [Events -> [status : {"new", "queued", "acked", "gone"}, day : 0..LastDay]]
  /\ db \in Tables /\ tx \in Tables /\ counted \subseteq Events
  /\ batch \in [Batches -> [pc : {"idle", "loaded", "applying", "acking", "retrying"},
                            events : Seq(Events), done : 0..STATS_MAX_BATCH]]

StatsInit ==
  /\ day = 1
  /\ message = [e \in Events |-> [status |-> "new", day |-> 0]]
  /\ db = [receipts |-> [e \in Events |-> -1], daily |-> [d \in Days |-> 0],
           keyed |-> [k \in Days \X Keys |-> 0], unique |-> {}, changes |-> 0]
  /\ tx = db
  /\ batch = [b \in Batches |-> NoBatch] /\ counted = {}

-----------------------------------------------------------------------------
(* The statements of a transaction. *)

\* The oldest of those past the retention, as many as the limit allows.
CleanReceipts ==
  LET old == {e \in Events : db.receipts[e] >= STATS_RECEIPT_RETENTION} IN
  \E D \in SUBSET old :
    /\ Cardinality(D) = IF Cardinality(old) < STATS_RECEIPT_CLEANUP_LIMIT
                        THEN Cardinality(old) ELSE STATS_RECEIPT_CLEANUP_LIMIT
    /\ tx' = [db EXCEPT !.receipts = [e \in Events |-> IF e \in D THEN -1 ELSE db.receipts[e]]]

\* Mutant of InsertReceipt: a receipt that is there is written again.
ReplaceReceipt(tables, e) == [tables EXCEPT !.receipts[e] = 0, !.changes = 1]

InsertReceipt(tables, e) ==
  IF tables.receipts[e] >= 0 THEN [tables EXCEPT !.changes = 0]
  ELSE [tables EXCEPT !.receipts[e] = 0, !.changes = 1]

CountDaily(tables, e) ==
  IF tables.changes = 0 THEN tables
  ELSE [tables EXCEPT !.daily[message[e].day] = @ + Body[e].count]

CountByKey(tables, e) ==
  IF Body[e].key = NoKey \/ tables.changes = 0 THEN tables
  ELSE [tables EXCEPT !.keyed[<<message[e].day, Body[e].key>>] = @ + Body[e].count]

InsertUnique(tables, e) ==
  LET row == <<message[e].day, Body[e].hash>> IN
  IF Body[e].hash = NoHash \/ tables.changes = 0 THEN tables
  ELSE [tables EXCEPT !.unique = @ \cup {row},
                      !.changes = IF row \in tables.unique THEN 0 ELSE 1]

ApplyEvent(tables, e) ==
  InsertUnique(CountByKey(CountDaily(InsertReceipt(tables, e), e), e), e)

-----------------------------------------------------------------------------
(* The queue and its consumer. *)

\* emitStat; a message that the queue does not take is lost like one never sent.
EmitStat ==
  /\ \E e \in Events :
       /\ message[e].status = "new"
       /\ message' = [message EXCEPT ![e].status = "queued", ![e].day = day]
  /\ UNCHANGED <<day, db, tx, batch, counted>>

Queued == {e \in Events : message[e].status = "queued"}

At(b, pc) == batch[b].pc = pc
Goes(b, pc) == batch' = [batch EXCEPT ![b].pc = pc]
Within(b) == {batch[b].events[i] : i \in DOMAIN batch[b].events}

TakeBatch(b) ==
  /\ At(b, "idle")
  /\ \E n \in 1..STATS_MAX_BATCH : \E events \in [1..n -> Queued] :
       batch' = [batch EXCEPT ![b] = [pc |-> "loaded", events |-> events, done |-> 0]]
  /\ UNCHANGED <<day, message, db, tx, counted>>

\* handleStatsBatch: the transaction.  D1 works on one at a time.
Begin(b) ==
  /\ At(b, "loaded") /\ \A c \in Batches : ~ At(c, "applying")
  /\ CleanReceipts
  /\ Goes(b, "applying")
  /\ UNCHANGED <<day, message, db, counted>>

Apply(b) ==
  /\ At(b, "applying") /\ batch[b].done < Len(batch[b].events)
  /\ tx' = ApplyEvent(tx, batch[b].events[batch[b].done + 1])
  /\ batch' = [batch EXCEPT ![b].done = @ + 1]
  /\ UNCHANGED <<day, message, db, counted>>

\* It may be committed although its answer is an error.
Commit(b) ==
  /\ At(b, "applying") /\ batch[b].done = Len(batch[b].events)
  /\ db' = [tx EXCEPT !.changes = 0] /\ tx' = db'
  /\ counted' = counted \cup Within(b)
  /\ Goes(b, "acking") \/ Goes(b, "retrying")
  /\ UNCHANGED <<day, message>>

\* It fails, and D1 rolls it back.
Abort(b) ==
  /\ At(b, "applying")
  /\ tx' = db
  /\ Goes(b, "retrying")
  /\ UNCHANGED <<day, message, db, counted>>

\* The messages are delivered again, except those for which it was the last
\* retry: they are moved to the dead letters.
Redelivered(events) ==
  \E dead \in SUBSET events : message' = [e \in Events |->
    IF e \in dead \cap Queued THEN [message[e] EXCEPT !.status = "gone"] ELSE message[e]]

\* The end of the handler: ackAll, or a retry of each message.
AckAll(b) ==
  /\ At(b, "acking")
  /\ message' = [e \in Events |-> IF e \in Within(b) \cap Queued
                                 THEN [message[e] EXCEPT !.status = "acked"] ELSE message[e]]
  /\ batch' = [batch EXCEPT ![b] = NoBatch]
  /\ UNCHANGED <<day, db, tx, counted>>

\* A retry asked for, or the invocation is lost at any point.
Retry(b) ==
  /\ ~ At(b, "idle")
  /\ Redelivered(Within(b))
  /\ tx' = IF At(b, "applying") THEN db ELSE tx
  /\ batch' = [batch EXCEPT ![b] = NoBatch]
  /\ UNCHANGED <<day, db, counted>>

\* A day passes: no invocation of the consumer lasts that long.  The
\* queue drops what is too old.
NextDay ==
  /\ day < LastDay /\ day' = day + 1
  /\ \A b \in Batches : At(b, "idle")
  /\ db' = [db EXCEPT !.receipts = [e \in Events |->
       IF db.receipts[e] \in {-1, STATS_RECEIPT_RETENTION} THEN db.receipts[e]
       ELSE db.receipts[e] + 1]]
  /\ tx' = db'
  /\ message' = [e \in Events |->
       IF e \in Queued /\ day' - message[e].day > QUEUE_RETENTION
       THEN [message[e] EXCEPT !.status = "gone"] ELSE message[e]]
  /\ UNCHANGED <<batch, counted>>

StatsNext ==
  \/ EmitStat \/ NextDay
  \/ \E b \in Batches : \/ TakeBatch(b) \/ Begin(b) \/ Apply(b) \/ Commit(b) \/ Abort(b)
                        \/ AckAll(b) \/ Retry(b)

StatsSpec == StatsInit /\ [][StatsNext]_statsVars

-----------------------------------------------------------------------------
(* Correctness. *)

\* The sum of the counts of events.
Units(events) == UNION {{e} \X (1..Body[e].count) : e \in events}
CountOf(events) == Cardinality(Units(events))
OfDay(d) == {e \in counted : message[e].day = d}

\* However often its message is delivered, in one batch, in two at a time or
\* long after its transaction, each event is counted once in the daily table,
\* the table by key and the table of unique hashes, and no event is
\* acknowledged uncounted (docs/architecture.md:272, docs/development.md:223).
EventsCountedOnce ==
  /\ \A d \in Days :
       /\ db.daily[d] = CountOf(OfDay(d))
       /\ \A k \in Keys : db.keyed[<<d, k>>] = CountOf({e \in OfDay(d) : Body[e].key = k})
       /\ {row[2] : row \in {r \in db.unique : r[1] = d}}
            = {Body[e].hash : e \in OfDay(d)} \ {NoHash}
  /\ \A e \in Events : message[e].status = "acked" => e \in counted
=============================================================================
