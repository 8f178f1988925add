---------------------------- MODULE OutboxProofs ----------------------------
(***************************************************************************)
(* Proofs about the outbox of one chat, for every set of jobs and attempts *)
(* and all leases, delays and limits.  One sender at a time: an attempt    *)
(* within its lease holds the lock for at least as long (Held), and a new  *)
(* attempt needs a lapsed lock.  The refinement of OutboxPromise rests on  *)
(* two more facts: a row names an attempt only while it has no outcome,    *)
(* and an attempt that Telegram has answered has shown its job (Known).    *)
(***************************************************************************)
EXTENDS TelegramOutbox, TLAPS

Lock == [attempt : Attempts \cup {NoAttempt}, lease : 0..MaxDelay]
Call == [pc : {"idle", "sending", "shown"},
         key : Keys \cup {NoKey}, left : 0..SEND_LEASE]

Running(a) == calls[a].pc # "idle"

\* Who is within a lease, as an attempt or in a row, has the lock as long.
Held ==
  /\ \A a \in Attempts : calls[a].left > 0 =>
       Running(a) /\ lock.attempt = a /\ calls[a].left <= lock.lease
  /\ \A k \in Keys : rows[k].lease > 0 =>
       lock.attempt = rows[k].attempt /\ rows[k].lease <= lock.lease

\* An attempt is named by its own row only, and by one without an outcome.
Named ==
  /\ \A k \in Keys : rows[k].attempt # NoAttempt => rows[k].status = "pending"
  /\ \A k \in Keys : rows[k].lease > 0 => rows[k].attempt # NoAttempt
  /\ \A a \in Attempts : Running(a) =>
       /\ calls[a].key \in Keys
       /\ \A k \in Keys : rows[k].attempt = a => k = calls[a].key

\* Who knows of a message shown is right.
Known == \A a \in Attempts : calls[a].pc = "shown" => calls[a].key \in shown

IInv == TypeOK /\ Held /\ Named /\ Known

-----------------------------------------------------------------------------
(* Types of what the steps write. *)

LEMMA Bounds ==
  /\ SEND_LEASE \in 0..MaxDelay /\ MIN_SEND_INTERVAL \in 0..MaxDelay
  /\ SEND_LEASE \in 0..SEND_LEASE /\ SEND_LEASE > 0 /\ 0 \in 0..SEND_LEASE
  /\ RETENTION \in 0..RETENTION /\ 0 \in 0..RETENTION /\ 0 \in 0..MaxDelay
  /\ \A d \in RetryDelays : d \in 0..MaxDelay
BY OutboxAssumption

LEMMA Empty ==
  /\ NoRow \in EventRow /\ NoRow.status = "none" /\ NoRow.attempt = NoAttempt
  /\ NoRow.lease = 0
  /\ NoLock \in Lock /\ NoLock.attempt = NoAttempt /\ NoLock.lease = 0
  /\ NoCall \in Call /\ NoCall.pc = "idle" /\ NoCall.left = 0
BY Bounds DEF NoRow, EventRow, NoLock, Lock, NoCall, Call

LEMMA LargerType ==
  ASSUME NEW m \in 0..MaxDelay, NEW n \in 0..MaxDelay
  PROVE  Larger(m, n) \in 0..MaxDelay
BY DEF Larger

LEMMA ElapseType ==
  ASSUME NEW max \in Nat, NEW n \in 0..max
  PROVE  Elapse(n) \in 0..max /\ Elapse(n) <= n
BY DEF Elapse

AlarmType ==
  {NoAlarm} \cup ({"ticks"} \X (0..MaxDelay)) \cup ({"days"} \X (0..RETENTION))

LEMMA ScheduleType ==
  ASSUME rows' \in [Keys -> EventRow], lock' \in Lock, ScheduleCleanupAlarm
  PROVE  alarm' \in AlarmType
<1>1. CASE alarm' = NoAlarm
  BY <1>1 DEF AlarmType
<1>2. CASE alarm' = <<"days", 0>>
  BY <1>2, Bounds DEF AlarmType
<1>3. CASE alarm' = <<"ticks", lock'.lease>>
  BY <1>3 DEF AlarmType, Lock
<1>4. CASE \E n \in {rows'[k].keep : k \in Outcomes(rows')} : alarm' = <<"days", n>>
  <2>1. PICK k \in Keys : alarm' = <<"days", rows'[k].keep>>
    BY <1>4 DEF Outcomes
  <2>2. rows'[k].keep \in 0..RETENTION
    BY DEF EventRow
  <2> QED BY <2>1, <2>2 DEF AlarmType
<1> QED BY <1>1, <1>2, <1>3, <1>4 DEF ScheduleCleanupAlarm

LEMMA AlarmElapsedType ==
  ASSUME alarm \in AlarmType, NEW clock \in {"ticks", "days"}
  PROVE  AlarmElapsed(clock) \in AlarmType
<1>1. CASE alarm = NoAlarm
  BY <1>1 DEF AlarmElapsed, AlarmType
<1>2. CASE alarm # NoAlarm /\ alarm[1] # clock
  BY <1>2 DEF AlarmElapsed
<1>3. CASE alarm # NoAlarm /\ alarm[1] = clock
  <2>1. AlarmElapsed(clock) = <<clock, Elapse(alarm[2])>>
    BY <1>3 DEF AlarmElapsed
  <2>2. CASE clock = "ticks"
    <3>1. alarm[2] \in 0..MaxDelay
      BY <1>3, <2>2 DEF AlarmType
    <3>2. Elapse(alarm[2]) \in 0..MaxDelay
      BY <3>1, ElapseType, OutboxAssumption
    <3> QED BY <2>1, <2>2, <3>2 DEF AlarmType
  <2>3. CASE clock = "days"
    <3>1. alarm[2] \in 0..RETENTION
      BY <1>3, <2>3 DEF AlarmType
    <3>2. Elapse(alarm[2]) \in 0..RETENTION
      BY <3>1, ElapseType, OutboxAssumption
    <3> QED BY <2>1, <2>3, <3>2 DEF AlarmType
  <2> QED BY <2>2, <2>3
<1> QED BY <1>1, <1>2, <1>3

-----------------------------------------------------------------------------
(* The cleanup that most calls begin with. *)

\* A cleanup removes outcomes past their retention, and a lapsed lock.
LEMMA Cleanup ==
  ASSUME IInv, NEW D \in CleanupBatches
  PROVE  /\ RowsWithout(D) \in [Keys -> EventRow]
         /\ \A k \in Keys :
              \/ k \notin D /\ RowsWithout(D)[k] = rows[k]
              \/ /\ k \in D /\ RowsWithout(D)[k] = NoRow
                 /\ rows[k].status \in {"sent", "failed"} /\ rows[k].keep = 0
         /\ LockKept \in Lock
         /\ \/ LockKept = lock
            \/ LockKept = NoLock /\ lock.lease = 0
         /\ Forgotten(D) \subseteq Keys
<1>1. D \subseteq Keys /\ \A k \in D : rows[k].status \in {"sent", "failed"} /\ rows[k].keep = 0
  BY DEF CleanupBatches, Overdue, Outcomes
<1>2. rows \in [Keys -> EventRow] /\ lock \in Lock
  BY DEF IInv, TypeOK, Lock
<1>3. RowsWithout(D) \in [Keys -> EventRow]
  BY <1>2, Empty DEF RowsWithout
<1>4. \A k \in Keys : RowsWithout(D)[k] = IF k \in D THEN NoRow ELSE rows[k]
  BY DEF RowsWithout
<1>5. LockKept \in Lock /\ (LockKept = lock \/ (LockKept = NoLock /\ lock.lease = 0))
  BY <1>2, Empty DEF LockKept
<1> QED BY <1>1, <1>3, <1>4, <1>5 DEF Forgotten

\* After the cleanup the rest of the invariant still holds.
LEMMA CleanupKeeps ==
  ASSUME IInv, NEW D \in CleanupBatches,
         rows' = RowsWithout(D), lock' = LockKept, calls' = calls, shown' = shown
  PROVE  Held' /\ Named' /\ Known'
<1>0. /\ rows \in [Keys -> EventRow] /\ lock \in Lock /\ calls \in [Attempts -> Call]
      /\ Held /\ Named /\ Known
  BY DEF IInv, TypeOK, Lock, Call
<1>1. \A k \in Keys : rows'[k] = rows[k] \/ rows'[k] = NoRow
  BY Cleanup
<1>2. lock' = lock \/ (lock' = NoLock /\ lock.lease = 0)
  BY Cleanup
<1>3. Held'
  <2>1. \A a \in Attempts : calls[a].left > 0 => lock.lease > 0
    BY <1>0, OutboxAssumption DEF Held, Lock, Call
  <2>2. \A k \in Keys : rows[k].lease > 0 => lock.lease > 0
    BY <1>0, OutboxAssumption DEF Held, Lock, EventRow
  <2>3. \A k \in Keys : rows'[k].lease > 0 => rows'[k] = rows[k]
    BY <1>1, Empty
  <2>4. (\E a \in Attempts : calls[a].left > 0) \/ (\E k \in Keys : rows[k].lease > 0)
          => lock' = lock
    <3>1. lock.lease > 0 => lock' = lock
      BY <1>2
    <3> QED BY <2>1, <2>2, <3>1
  <2>5. \A a \in Attempts : calls'[a].left > 0 =>
          calls'[a].pc # "idle" /\ lock'.attempt = a /\ calls'[a].left <= lock'.lease
    BY <1>0, <2>4 DEF Held, Running
  <2>6. \A k \in Keys : rows'[k].lease > 0 =>
          lock'.attempt = rows'[k].attempt /\ rows'[k].lease <= lock'.lease
    BY <1>0, <2>3, <2>4 DEF Held
  <2> QED BY <2>5, <2>6 DEF Held, Running
<1>4. Named'
  <2>1. \A k \in Keys : rows'[k].attempt # NoAttempt \/ rows'[k].lease > 0
                        => rows'[k] = rows[k]
    BY <1>1, Empty
  <2>2. \A b \in Attempts : b # NoAttempt
    BY OutboxAssumption
  <2> QED BY <1>0, <2>1, <2>2 DEF Named, Running
<1>5. Known'
  BY <1>0 DEF Known
<1> QED BY <1>3, <1>4, <1>5

-----------------------------------------------------------------------------
(* The report of an attempt. *)

\* What a report leaves in the rows: an outcome, if the attempt owns its row.
LEMMA RecordedCases ==
  ASSUME IInv, NEW a \in Attempts, Running(a),
         NEW status \in {"sent", "failed"}, NEW permanent \in BOOLEAN
  PROVE  LET rs == Recorded(a, status, permanent) IN
         /\ rs \in [Keys -> EventRow]
         /\ \A k \in Keys :
              \/ rs[k] = rows[k] /\ rs[k].attempt # a
              \/ /\ k = calls[a].key /\ rows[k].attempt = a /\ rows[k].status = "pending"
                 /\ rs[k].status = status /\ rs[k].permanent = permanent
                 /\ rs[k].attempt = NoAttempt /\ rs[k].lease = 0
                 /\ rs[k].keep = RETENTION
<1> DEFINE key == calls[a].key
           row == [status |-> status, permanent |-> permanent, attempt |-> NoAttempt,
                   lease |-> 0, keep |-> RETENTION]
<1>0. /\ rows \in [Keys -> EventRow] /\ Named /\ key \in Keys
      /\ \A k \in Keys : rows[k].attempt = a => k = key
      /\ a # NoAttempt
  BY OutboxAssumption DEF IInv, TypeOK, Named
<1>1. row \in EventRow
  BY Bounds DEF EventRow
<1>2. CASE rows[key].attempt = a
  <2>1. Recorded(a, status, permanent) = [rows EXCEPT ![key] = row]
    BY <1>2 DEF Recorded
  <2>2. rows[key].status = "pending"
    BY <1>0, <1>2 DEF Named
  <2> QED BY <1>0, <1>1, <1>2, <2>1, <2>2
<1>3. CASE rows[key].attempt # a
  BY <1>0, <1>3 DEF Recorded
<1> QED BY <1>2, <1>3

\* An attempt ends: its row has an outcome or is no longer its own, and the
\* lock is as it was, or was its own or nobody's.
LEMMA EndKeeps ==
  ASSUME IInv, NEW a \in Attempts, Running(a),
         NEW status \in {"sent", "failed"}, NEW permanent \in BOOLEAN,
         rows' = Recorded(a, status, permanent),
         lock' = lock \/ lock.attempt \in {a, NoAttempt},
         EndCall(a), shown' = shown
  PROVE  Held' /\ Named' /\ Known'
<1>0. /\ rows \in [Keys -> EventRow] /\ lock \in Lock /\ calls \in [Attempts -> Call]
      /\ Held /\ Named /\ Known
  BY DEF IInv, TypeOK, Lock, Call
<1>1. \A k \in Keys : \/ rows'[k] = rows[k] /\ rows'[k].attempt # a
                      \/ /\ k = calls[a].key /\ rows[k].attempt = a
                         /\ rows'[k].attempt = NoAttempt /\ rows'[k].lease = 0
  BY RecordedCases
<1>2. calls'[a] = NoCall /\ \A b \in Attempts \ {a} : calls'[b] = calls[b]
  BY <1>0 DEF EndCall
<1>3. Held'
  <2>1. ASSUME NEW b \in Attempts, calls'[b].left > 0
        PROVE  calls'[b].pc # "idle" /\ lock'.attempt = b /\ calls'[b].left <= lock'.lease
    <3>1. b # a /\ calls'[b] = calls[b]
      BY <1>2, <2>1, Empty
    <3>2. calls[b].pc # "idle" /\ lock.attempt = b /\ calls[b].left <= lock.lease
      BY <1>0, <2>1, <3>1 DEF Held, Running
    <3>3. lock' = lock
      BY <3>1, <3>2, OutboxAssumption
    <3> QED BY <3>1, <3>2, <3>3
  <2>2. ASSUME NEW k \in Keys, rows'[k].lease > 0
        PROVE  lock'.attempt = rows'[k].attempt /\ rows'[k].lease <= lock'.lease
    <3>1. rows'[k] = rows[k] /\ rows[k].attempt # a
      BY <1>1, <2>2
    <3>2. lock.attempt = rows[k].attempt /\ rows[k].lease <= lock.lease
          /\ rows[k].attempt # NoAttempt
      BY <1>0, <2>2, <3>1 DEF Held, Named
    <3>3. lock' = lock
      BY <3>1, <3>2
    <3> QED BY <3>1, <3>2, <3>3
  <2> QED BY <2>1, <2>2 DEF Held, Running
<1>4. Named'
  <2>1. \A k \in Keys : rows'[k].attempt # NoAttempt => rows'[k] = rows[k]
    BY <1>1
  <2>2. \A k \in Keys : rows'[k].lease > 0 => rows'[k] = rows[k]
    BY <1>1
  <2>3. \A b \in Attempts : calls'[b].pc # "idle" => b # a /\ calls'[b] = calls[b]
    BY <1>2, Empty
  <2>4. \A b \in Attempts : b # NoAttempt
    BY OutboxAssumption
  <2> QED BY <1>0, <2>1, <2>2, <2>3, <2>4 DEF Named, Running
<1>5. Known'
  BY <1>0, <1>2, Empty DEF Known
<1> QED BY <1>3, <1>4, <1>5

-----------------------------------------------------------------------------
LEMMA Initially == Init => IInv
<1> SUFFICES ASSUME Init PROVE IInv
  OBVIOUS
<1>1. TypeOK
  BY Empty, Bounds, OutboxAssumption DEF Init, TypeOK, Lock, Call
<1>2. Held /\ Named /\ Known
  BY Empty DEF Init, Held, Named, Known, Running
<1> QED BY <1>1, <1>2 DEF IInv

LEMMA Types ==
  ASSUME IInv
  PROVE  /\ rows \in [Keys -> EventRow] /\ lock \in Lock /\ calls \in [Attempts -> Call]
         /\ pace \in 0..MaxDelay /\ alarm \in AlarmType
         /\ shown \subseteq Keys /\ repeated \subseteq Keys /\ doubtful \subseteq Keys
         /\ failures \in 0..MaxFailures
         /\ Held /\ Named /\ Known
BY DEF IInv, TypeOK, Lock, Call, AlarmType

LEMMA TypesOK ==
  ASSUME rows' \in [Keys -> EventRow], lock' \in Lock, calls' \in [Attempts -> Call],
         pace' \in 0..MaxDelay, alarm' \in AlarmType,
         shown' \subseteq Keys, repeated' \subseteq Keys, doubtful' \subseteq Keys,
         failures' \in 0..MaxFailures
  PROVE  TypeOK'
BY DEF TypeOK, Lock, Call, AlarmType

LEMMA AnswerKeeps ==
  ASSUME IInv, NEW k \in Keys, Answer(k)
  PROVE  IInv'
<1>1. PICK D \in CleanupBatches :
        /\ rows' = RowsWithout(D) /\ lock' = LockKept
        /\ doubtful' = doubtful \cup Forgotten(D)
        /\ UNCHANGED <<pace, alarm, calls, shown, repeated, failures>>
  BY DEF Answer
<1>2. Held' /\ Named' /\ Known'
  BY <1>1, CleanupKeeps
<1>3. rows' \in [Keys -> EventRow] /\ lock' \in Lock /\ doubtful' \subseteq Keys
  BY <1>1, Cleanup, Types
<1>4. TypeOK'
  BY <1>1, <1>3, Types, TypesOK
<1> QED BY <1>2, <1>4 DEF IInv

LEMMA AlarmKeeps ==
  ASSUME IInv, Alarm
  PROVE  IInv'
<1>1. PICK D \in CleanupBatches :
        rows' = RowsWithout(D) /\ doubtful' = doubtful \cup Forgotten(D)
  BY DEF Alarm
<1>2. /\ lock' = LockKept /\ ScheduleCleanupAlarm
      /\ UNCHANGED <<pace, calls, shown, repeated, failures>>
  BY DEF Alarm
<1>3. Held' /\ Named' /\ Known'
  BY <1>1, <1>2, CleanupKeeps
<1>4. rows' \in [Keys -> EventRow] /\ lock' \in Lock /\ doubtful' \subseteq Keys
  BY <1>1, <1>2, Cleanup, Types
<1>5. alarm' \in AlarmType
  BY <1>2, <1>4, ScheduleType
<1>6. TypeOK'
  BY <1>2, <1>4, <1>5, Types, TypesOK
<1> QED BY <1>3, <1>6 DEF IInv

\* Who may send finds the lock lapsed, hence nobody within a lease.
LEMMA BeginKeeps ==
  ASSUME IInv, NEW a \in Attempts, NEW k \in Keys, BeginSend(a, k)
  PROVE  IInv'
<1>1. PICK D \in CleanupBatches :
        LET rs == RowsWithout(D)
            keep == IF rs[k].status = "none" THEN RETENTION ELSE rs[k].keep IN
        /\ Fresh(a, k)
        /\ ~ MayNotSend(rs[k])
        /\ rows' = [rs EXCEPT ![k] = [status |-> "pending", permanent |-> FALSE,
                                      attempt |-> a, lease |-> SEND_LEASE,
                                      keep |-> keep]]
        /\ lock' = [attempt |-> a, lease |-> SEND_LEASE]
        /\ calls' = [calls EXCEPT ![a] = [pc |-> "sending", key |-> k,
                                          left |-> SEND_LEASE]]
        /\ doubtful' = doubtful \cup Forgotten(D)
        /\ UNCHANGED <<pace, alarm, shown, repeated, failures>>
  BY DEF BeginSend
<1> DEFINE rs == RowsWithout(D)
           keep == IF rs[k].status = "none" THEN RETENTION ELSE rs[k].keep
           row == [status |-> "pending", permanent |-> FALSE, attempt |-> a,
                   lease |-> SEND_LEASE, keep |-> keep]
           call == [pc |-> "sending", key |-> k, left |-> SEND_LEASE]
<1>2. /\ rs \in [Keys -> EventRow]
      /\ \A j \in Keys : rs[j] = rows[j] \/ rs[j] = NoRow
      /\ LockKept = lock \/ lock.lease = 0
      /\ Forgotten(D) \subseteq Keys
  BY Cleanup
<1>3. row \in EventRow /\ call \in Call /\ lock' \in Lock
  <2>1. keep \in 0..RETENTION
    BY <1>2, Bounds DEF EventRow
  <2> QED BY <1>1, <2>1, Bounds DEF EventRow, Call, Lock
<1>4. rows' = [rs EXCEPT ![k] = row] /\ calls' = [calls EXCEPT ![a] = call]
  BY <1>1
<1>5. rows' \in [Keys -> EventRow] /\ calls' \in [Attempts -> Call]
  BY <1>2, <1>3, <1>4, Types
<1>6. TypeOK'
  BY <1>1, <1>2, <1>3, <1>5, Types, TypesOK
<1>7. /\ rows'[k] = row /\ \A j \in Keys \ {k} : rows'[j] = rs[j]
      /\ calls'[a] = call /\ \A b \in Attempts \ {a} : calls'[b] = calls[b]
  BY <1>2, <1>4, Types
<1>8. lock.lease = 0
  <2>1. ~ (LockKept.lease > 0)
    BY <1>1 DEF MayNotSend
  <2> QED BY <1>2, <2>1, Types DEF Lock
<1>9. /\ \A b \in Attempts : ~ (calls[b].left > 0)
      /\ \A j \in Keys : ~ (rows[j].lease > 0)
  BY <1>8, Types DEF Held, Call, EventRow
<1>10. \A j \in Keys \ {k} : ~ (rows'[j].lease > 0)
  BY <1>2, <1>7, <1>9, Empty
<1>11. Held'
  <2>1. \A b \in Attempts : calls'[b].left > 0 => b = a
    BY <1>7, <1>9
  <2>2. \A j \in Keys : rows'[j].lease > 0 => j = k
    BY <1>10
  <2>3. lock'.attempt = a /\ lock'.lease = SEND_LEASE
    BY <1>1
  <2> QED BY <1>7, <2>1, <2>2, <2>3, OutboxAssumption DEF Held, Running
<1>12. Named'
  <2>1. \A b \in Attempts : b # NoAttempt
    BY OutboxAssumption
  <2>2. \A j \in Keys \ {k} : rows[j].attempt # a
    BY <1>1 DEF Fresh
  <2>3. \A j \in Keys \ {k} : rows'[j].attempt # NoAttempt => rows'[j] = rows[j]
    BY <1>2, <1>7, Empty
  <2>4. \A j \in Keys : rows'[j].attempt # NoAttempt => rows'[j].status = "pending"
    BY <1>7, <2>3, Types DEF Named
  <2>5. \A j \in Keys : rows'[j].lease > 0 => rows'[j].attempt # NoAttempt
    BY <1>7, <1>10, <2>1
  <2>6. ASSUME NEW b \in Attempts, calls'[b].pc # "idle"
        PROVE  /\ calls'[b].key \in Keys
               /\ \A j \in Keys : rows'[j].attempt = b => j = calls'[b].key
    <3>1. CASE b = a
      BY <1>7, <2>1, <2>2, <2>3, <3>1
    <3>2. CASE b # a
      <4>1. calls'[b] = calls[b] /\ Running(b)
        BY <1>7, <2>6, <3>2 DEF Running
      <4> QED BY <1>7, <2>1, <2>3, <3>2, <4>1, Types DEF Named
    <3> QED BY <3>1, <3>2
  <2> QED BY <2>4, <2>5, <2>6 DEF Named, Running
<1>13. Known'
  <2>1. \A b \in Attempts : calls'[b].pc = "shown" => calls'[b] = calls[b]
    BY <1>7
  <2> QED BY <1>1, <2>1, Types DEF Known
<1> QED BY <1>6, <1>11, <1>12, <1>13 DEF IInv

LEMMA ShowsKeeps ==
  ASSUME IInv, NEW a \in Attempts, TelegramShows(a)
  PROVE  IInv'
<1> DEFINE k == calls[a].key
<1>1. /\ calls[a].pc = "sending" /\ calls' = [calls EXCEPT ![a].pc = "shown"]
      /\ shown' = shown \cup {k}
      /\ repeated' = repeated \cup ({k} \cap (shown \ doubtful))
      /\ UNCHANGED <<rows, lock, pace, alarm, doubtful, failures>>
  BY DEF TelegramShows
<1>2. Running(a) /\ k \in Keys
  BY <1>1, Types DEF Running, Named
<1>3. /\ calls' \in [Attempts -> Call]
      /\ \A b \in Attempts : /\ calls'[b].key = calls[b].key
                             /\ calls'[b].left = calls[b].left
                             /\ calls'[b].pc = IF b = a THEN "shown" ELSE calls[b].pc
  BY <1>1, Types DEF Call
<1>4. TypeOK'
  BY <1>1, <1>2, <1>3, Types, TypesOK
<1>5. \A b \in Attempts : calls'[b].pc # "idle" <=> calls[b].pc # "idle"
  BY <1>1, <1>3
<1>6. Held'
  <2>1. \A b \in Attempts : calls'[b].left > 0 =>
          calls'[b].pc # "idle" /\ lock'.attempt = b /\ calls'[b].left <= lock'.lease
    BY <1>1, <1>3, <1>5, Types DEF Held, Running
  <2>2. \A j \in Keys : rows'[j].lease > 0 =>
          lock'.attempt = rows'[j].attempt /\ rows'[j].lease <= lock'.lease
    BY <1>1, Types DEF Held
  <2> QED BY <2>1, <2>2 DEF Held, Running
<1>7. Named'
  BY <1>1, <1>3, <1>5, Types DEF Named, Running
<1>8. Known'
  BY <1>1, <1>3, Types DEF Known
<1> QED BY <1>4, <1>6, <1>7, <1>8 DEF IInv

\* What the three reports have in common.
LEMMA ReportKeeps ==
  ASSUME IInv, NEW a \in Attempts, Running(a),
         NEW status \in {"sent", "failed"}, NEW permanent \in BOOLEAN,
         rows' = Recorded(a, status, permanent),
         lock' = lock \/ lock.attempt \in {a, NoAttempt}, lock' \in Lock,
         EndCall(a), shown' = shown, repeated' = repeated,
         pace' \in 0..MaxDelay, ScheduleCleanupAlarm,
         doubtful' \subseteq Keys, failures' \in 0..MaxFailures
  PROVE  IInv'
<1>1. Held' /\ Named' /\ Known'
  BY EndKeeps
<1>2. rows' \in [Keys -> EventRow]
  BY RecordedCases
<1>3. calls' \in [Attempts -> Call]
  BY Types, Empty DEF EndCall
<1>4. alarm' \in AlarmType
  BY <1>2, ScheduleType
<1>5. TypeOK'
  BY <1>2, <1>3, <1>4, Types, TypesOK
<1> QED BY <1>1, <1>5 DEF IInv

LEMMA ReportSentKeeps ==
  ASSUME IInv, NEW a \in Attempts, ReportSent(a)
  PROVE  IInv'
<1>1. Running(a) /\ rows' = Recorded(a, "sent", FALSE) /\ EndCall(a)
      /\ shown' = shown /\ repeated' = repeated /\ ScheduleCleanupAlarm
  BY DEF ReportSent, Running, history
<1>2. lock' \in Lock /\ (lock' = lock \/ lock.attempt \in {a, NoAttempt})
  BY Types, Empty DEF ReportSent, LockWithout
<1>3. pace' \in 0..MaxDelay
  BY Types, Bounds, LargerType DEF ReportSent
<1>4. doubtful' \subseteq Keys /\ failures' \in 0..MaxFailures
  BY Types DEF ReportSent, history
<1> QED BY <1>1, <1>2, <1>3, <1>4, ReportKeeps

LEMMA ReportRejectedKeeps ==
  ASSUME IInv, NEW a \in Attempts, ReportRejected(a)
  PROVE  IInv'
<1>1. Running(a) /\ rows' = Recorded(a, "failed", TRUE) /\ EndCall(a)
      /\ shown' = shown /\ repeated' = repeated /\ ScheduleCleanupAlarm
  BY DEF ReportRejected, Running, history
<1>2. lock' \in Lock /\ (lock' = lock \/ lock.attempt \in {a, NoAttempt})
  BY Types, Empty DEF ReportRejected, LockWithout
<1>3. pace' \in 0..MaxDelay /\ doubtful' \subseteq Keys /\ failures' \in 0..MaxFailures
  BY Types DEF ReportRejected, history
<1> QED BY <1>1, <1>2, <1>3, ReportKeeps

LEMMA FaultType ==
  ASSUME IInv, Fault
  PROVE  failures' \in 0..MaxFailures
BY Types, OutboxAssumption DEF Fault

LEMMA InDoubtType ==
  ASSUME IInv, NEW a \in Attempts, Running(a)
  PROVE  InDoubt(a) \subseteq Keys
BY Types DEF InDoubt, Named

LEMMA ReportTransientKeeps ==
  ASSUME IInv, NEW a \in Attempts, NEW d \in RetryDelays, ReportTransient(a, d), Fault
  PROVE  IInv'
<1>1. Running(a) /\ rows' = Recorded(a, "failed", FALSE) /\ EndCall(a)
      /\ shown' = shown /\ repeated' = repeated /\ ScheduleCleanupAlarm
  BY DEF ReportTransient, Running
<1>2. [attempt |-> a, lease |-> d] \in Lock
  BY Bounds DEF Lock
<1>3. lock' \in Lock /\ (lock' = lock \/ lock.attempt \in {a, NoAttempt})
  BY <1>2, Types DEF ReportTransient
<1>4. Larger(MIN_SEND_INTERVAL, d) \in 0..MaxDelay
  BY Bounds, LargerType
<1>5. pace' \in 0..MaxDelay
  BY <1>4, Types, LargerType DEF ReportTransient
<1>6. doubtful' \subseteq Keys /\ failures' \in 0..MaxFailures
  BY <1>1, InDoubtType, FaultType DEF ReportTransient
<1> QED BY <1>1, <1>3, <1>5, <1>6, ReportKeeps

LEMMA EvictKeeps ==
  ASSUME IInv, NEW a \in Attempts, Evict(a), Fault
  PROVE  IInv'
<1>1. /\ Running(a) /\ calls' = [calls EXCEPT ![a] = NoCall]
      /\ UNCHANGED <<rows, lock, pace, alarm, shown, repeated>>
  BY DEF Evict, Running, EndCall
<1>2. doubtful' \subseteq Keys /\ failures' \in 0..MaxFailures
  BY <1>1, InDoubtType, FaultType DEF Evict
<1>3. /\ calls' \in [Attempts -> Call]
      /\ \A b \in Attempts : calls'[b] = calls[b] \/ calls'[b] = NoCall
  BY <1>1, Types, Empty
<1>4. TypeOK'
  BY <1>1, <1>2, <1>3, Types, TypesOK
<1>5. \A b \in Attempts : calls'[b].left > 0 \/ calls'[b].pc # "idle"
                          => calls'[b] = calls[b]
  BY <1>3, Empty
<1>6. Held'
  <2>1. \A b \in Attempts : calls'[b].left > 0 =>
          calls'[b].pc # "idle" /\ lock'.attempt = b /\ calls'[b].left <= lock'.lease
    BY <1>1, <1>5, Types DEF Held, Running
  <2>2. \A j \in Keys : rows'[j].lease > 0 =>
          lock'.attempt = rows'[j].attempt /\ rows'[j].lease <= lock'.lease
    BY <1>1, Types DEF Held
  <2> QED BY <2>1, <2>2 DEF Held, Running
<1>7. Named'
  BY <1>1, <1>5, Types DEF Named, Running
<1>8. Known'
  <2>1. \A b \in Attempts : calls'[b].pc = "shown" => calls'[b] = calls[b]
    BY <1>5
  <2> QED BY <1>1, <2>1, Types DEF Known
<1> QED BY <1>4, <1>6, <1>7, <1>8 DEF IInv

\* Leases and the lock run down together.
LEMMA TickKeeps ==
  ASSUME IInv, Tick
  PROVE  IInv'
<1>1. /\ rows' = [k \in Keys |-> [rows[k] EXCEPT !.lease = Elapse(@)]]
      /\ lock' = [lock EXCEPT !.lease = Elapse(@)]
      /\ pace' = Elapse(pace) /\ alarm' = AlarmElapsed("ticks")
      /\ calls' = [a \in Attempts |-> [calls[a] EXCEPT !.left = Elapse(@)]]
      /\ doubtful' = doubtful \cup {calls[a].key : a \in Overrunning}
      /\ UNCHANGED <<shown, repeated, failures>>
  BY DEF Tick
<1>2. \A k \in Keys : /\ rows'[k] = [rows[k] EXCEPT !.lease = Elapse(rows[k].lease)]
                      /\ Elapse(rows[k].lease) \in 0..SEND_LEASE
  BY <1>1, Types, ElapseType, OutboxAssumption DEF EventRow
<1>3. \A a \in Attempts : /\ calls'[a] = [calls[a] EXCEPT !.left = Elapse(calls[a].left)]
                          /\ Elapse(calls[a].left) \in 0..SEND_LEASE
  BY <1>1, Types, ElapseType, OutboxAssumption DEF Call
<1>4. Elapse(lock.lease) \in 0..MaxDelay /\ Elapse(pace) \in 0..MaxDelay
  BY Types, ElapseType, OutboxAssumption DEF Lock
<1>5. rows' \in [Keys -> EventRow]
  BY <1>1, <1>2, Types DEF EventRow
<1>6. calls' \in [Attempts -> Call]
  <2>1. ASSUME NEW a \in Attempts
        PROVE  [calls[a] EXCEPT !.left = Elapse(calls[a].left)] \in Call
    <3>1. calls[a] \in Call /\ Elapse(calls[a].left) \in 0..SEND_LEASE
      BY <1>3, Types
    <3> QED BY <3>1 DEF Call
  <2> QED BY <1>1, <2>1
<1>7. lock' \in Lock /\ lock'.attempt = lock.attempt /\ lock'.lease = Elapse(lock.lease)
  BY <1>1, <1>4, Types DEF Lock
<1>8. doubtful' \subseteq Keys
  <2>1. \A a \in Overrunning : calls[a].key \in Keys
    BY Types DEF Overrunning, Named, Running
  <2> QED BY <1>1, <2>1, Types
<1>9. TypeOK'
  BY <1>1, <1>4, <1>5, <1>6, <1>7, <1>8, Types, TypesOK, AlarmElapsedType
<1>10. \A k \in Keys : /\ rows'[k].attempt = rows[k].attempt
                       /\ rows'[k].status = rows[k].status
                       /\ rows'[k].lease = Elapse(rows[k].lease)
  BY <1>2, Types DEF EventRow
<1>11. \A a \in Attempts : /\ calls'[a].pc = calls[a].pc /\ calls'[a].key = calls[a].key
                           /\ calls'[a].left = Elapse(calls[a].left)
  BY <1>3, Types DEF Call
<1>12. Held'
  <2>1. \A a \in Attempts : calls'[a].left > 0 =>
          calls'[a].pc # "idle" /\ lock'.attempt = a /\ calls'[a].left <= lock'.lease
    BY <1>7, <1>11, Types DEF Held, Running, Elapse, Call, Lock
  <2>2. \A k \in Keys : rows'[k].lease > 0 =>
          lock'.attempt = rows'[k].attempt /\ rows'[k].lease <= lock'.lease
    BY <1>7, <1>10, Types DEF Held, Elapse, EventRow, Lock
  <2> QED BY <2>1, <2>2 DEF Held, Running
<1>13. Named'
  <2>1. \A k \in Keys : rows'[k].lease > 0 => rows[k].lease > 0
    BY <1>10, Types DEF Elapse, EventRow
  <2>2. \A k \in Keys : /\ rows'[k].attempt # NoAttempt => rows'[k].status = "pending"
                        /\ rows'[k].lease > 0 => rows'[k].attempt # NoAttempt
    BY <1>10, <2>1, Types DEF Named
  <2>3. \A a \in Attempts : calls'[a].pc # "idle" =>
          /\ calls'[a].key \in Keys
          /\ \A k \in Keys : rows'[k].attempt = a => k = calls'[a].key
    BY <1>10, <1>11, Types DEF Named, Running
  <2> QED BY <2>2, <2>3 DEF Named, Running
<1>14. Known'
  <2>1. shown' = shown /\ Known
    BY <1>1, Types
  <2> QED BY <1>11, <2>1 DEF Known
<1> QED BY <1>9, <1>12, <1>13, <1>14 DEF IInv

LEMMA DayKeeps ==
  ASSUME IInv, Day
  PROVE  IInv'
<1>1. /\ rows' = [k \in Keys |-> [rows[k] EXCEPT !.keep = Elapse(@)]]
      /\ alarm' = AlarmElapsed("days")
      /\ UNCHANGED <<lock, pace, calls, shown, repeated, doubtful, failures>>
  BY DEF Day, history
<1>2. \A k \in Keys : /\ rows'[k] = [rows[k] EXCEPT !.keep = Elapse(rows[k].keep)]
                      /\ Elapse(rows[k].keep) \in 0..RETENTION
  BY <1>1, Types, ElapseType, OutboxAssumption DEF EventRow
<1>3. rows' \in [Keys -> EventRow]
  BY <1>1, <1>2, Types DEF EventRow
<1>4. \A k \in Keys : /\ rows'[k].attempt = rows[k].attempt
                      /\ rows'[k].status = rows[k].status
                      /\ rows'[k].lease = rows[k].lease
  BY <1>2, Types DEF EventRow
<1>5. TypeOK'
  BY <1>1, <1>3, Types, TypesOK, AlarmElapsedType
<1>6. Held' /\ Known'
  BY <1>1, <1>4, Types DEF Held, Known, Running
<1>7. Named'
  BY <1>1, <1>4, Types DEF Named, Running
<1> QED BY <1>5, <1>6, <1>7 DEF IInv

LEMMA Stutter == IInv /\ UNCHANGED outboxVars => IInv'
BY DEF IInv, outboxVars, history, TypeOK, Held, Named, Known, Running

LEMMA Step == IInv /\ [Next]_outboxVars => IInv'
<1> SUFFICES ASSUME IInv, [Next]_outboxVars PROVE IInv'
  OBVIOUS
<1>1. CASE \E k \in Keys : Answer(k) \/ Begin(k)
  BY <1>1, AnswerKeeps, BeginKeeps DEF Begin
<1>2. CASE \E a \in Attempts : Finish(a)
  BY <1>2, ShowsKeeps, ReportSentKeeps, ReportRejectedKeeps DEF Finish
<1>3. CASE \E a \in Attempts : Fail(a)
  BY <1>3, EvictKeeps, ReportTransientKeeps DEF Fail
<1>4. CASE Alarm \/ Tick \/ Day
  BY <1>4, AlarmKeeps, TickKeeps, DayKeeps
<1>5. CASE UNCHANGED outboxVars
  BY <1>5, Stutter
<1> QED BY <1>1, <1>2, <1>3, <1>4, <1>5 DEF Next

THEOREM Invariance == Spec => []IInv
BY Initially, Step, PTL DEF Spec

\* One sender at a time, and the type of every variable (ChatIsHeld): whatever
\* locks late attempts release, extend or sweep, two attempts within their
\* leases would hold the same lock.
THEOREM ChatTheorem == Spec => []ChatIsHeld
<1>1. IInv => ChatIsHeld
  BY DEF IInv, ChatIsHeld, ExclusiveSend, OwnerHoldsLock, Held
<1> QED BY <1>1, Invariance, PTL

-----------------------------------------------------------------------------
(* Nothing is shown again. *)

\* Of a job without a doubt, an attempt at work is within its lease and owns the
\* row; and once Telegram has shown the job, either this is recorded, or the
\* attempt that showed it is about to, and no other is at work on it.
Certain ==
  /\ \A a \in Attempts : Running(a) /\ calls[a].key \notin doubtful =>
       calls[a].left > 0 /\ rows[calls[a].key].attempt = a
  /\ \A a \in Attempts : calls[a].pc = "sending" => calls[a].key \notin shown \ doubtful
  /\ \A k \in shown \ doubtful :
       Sent(rows[k]) \/ \E a \in Attempts : calls[a].pc = "shown" /\ calls[a].key = k
  /\ repeated = {}

\* Rows are cleaned up and nothing else: an outcome that is forgotten is in doubt.
LEMMA CleanupCertain ==
  ASSUME IInv, Certain, NEW D \in CleanupBatches, rows' = RowsWithout(D),
         doubtful' = doubtful \cup Forgotten(D),
         UNCHANGED <<calls, shown, repeated>>
  PROVE  Certain'
<1>1. /\ rows \in [Keys -> EventRow] /\ shown \subseteq Keys /\ Named
      /\ \A a \in Attempts : a # NoAttempt
  BY Types, OutboxAssumption
<1>2. \A k \in Keys :
        \/ rows'[k] = rows[k]
        \/ k \in D /\ rows[k].status \in {"sent", "failed"}
  BY Cleanup
<1>3. \A a \in Attempts : Running(a) /\ calls[a].key \notin doubtful' =>
        calls[a].left > 0 /\ rows'[calls[a].key].attempt = a
  BY <1>1, <1>2 DEF Certain, Named
<1>4. ASSUME NEW k \in shown \ doubtful', Sent(rows[k]) PROVE Sent(rows'[k])
  BY <1>1, <1>2, <1>4 DEF Forgotten, Sent
<1> QED BY <1>3, <1>4 DEF Certain, Running

\* An attempt begins on a job that is in doubt or was never shown.
LEMMA BeginCertain ==
  ASSUME IInv, Certain, NEW a \in Attempts, NEW k \in Keys, BeginSend(a, k)
  PROVE  Certain'
<1>1. PICK D \in CleanupBatches :
        LET rs == RowsWithout(D)
            keep == IF rs[k].status = "none" THEN RETENTION ELSE rs[k].keep IN
        /\ Fresh(a, k)
        /\ ~ MayNotSend(rs[k])
        /\ rows' = [rs EXCEPT ![k] = [status |-> "pending", permanent |-> FALSE,
                                      attempt |-> a, lease |-> SEND_LEASE,
                                      keep |-> keep]]
        /\ lock' = [attempt |-> a, lease |-> SEND_LEASE]
        /\ calls' = [calls EXCEPT ![a] = [pc |-> "sending", key |-> k,
                                          left |-> SEND_LEASE]]
        /\ doubtful' = doubtful \cup Forgotten(D)
        /\ UNCHANGED <<pace, alarm, shown, repeated, failures>>
  BY DEF BeginSend
<1> DEFINE rs == RowsWithout(D)
<1>2. /\ rs \in [Keys -> EventRow]
      /\ \A j \in Keys : rs[j] = rows[j] \/ (j \in D /\ rows[j].status \in {"sent", "failed"})
      /\ LockKept = lock \/ lock.lease = 0
  BY Cleanup
<1>3. /\ rows'[k].attempt = a /\ \A j \in Keys \ {k} : rows'[j] = rs[j]
      /\ calls'[a].pc = "sending" /\ calls'[a].key = k /\ calls'[a].left > 0
      /\ \A b \in Attempts \ {a} : calls'[b] = calls[b]
      /\ calls[a] = NoCall /\ shown' = shown /\ repeated' = repeated
      /\ doubtful \subseteq doubtful'
  BY <1>1, <1>2, Types, Bounds DEF Fresh
<1>4. \A b \in Attempts : ~ (calls[b].left > 0)
  <2>1. ~ (LockKept.lease > 0)
    BY <1>1 DEF MayNotSend
  <2>2. lock.lease = 0
    BY <1>2, <2>1, Types DEF Lock
  <2> QED BY <2>2, Types DEF Held, Call
<1>5. \A b \in Attempts : Running(b) => calls[b].key \in doubtful
  BY <1>4 DEF Certain
<1>6. \A j \in shown \ doubtful : Sent(rows[j])
  BY <1>5, Empty DEF Certain, Running
<1>7. ASSUME NEW j \in shown \ doubtful' PROVE rs[j] = rows[j] /\ Sent(rs[j])
  <2>1. j \in Keys /\ Sent(rows[j])
    BY <1>3, <1>6, Types
  <2>2. j \notin D
    BY <1>1, <2>1 DEF Forgotten
  <2> QED BY <2>1, <2>2, Cleanup
<1>8. k \notin shown \ doubtful'
  BY <1>1, <1>7 DEF MayNotSend
<1>9. \A j \in shown \ doubtful' : Sent(rows'[j])
  BY <1>3, <1>7, <1>8, Types
<1>10. \A b \in Attempts : calls'[b].pc # "idle" /\ calls'[b].key \notin doubtful' =>
         calls'[b].left > 0 /\ rows'[calls'[b].key].attempt = b
  BY <1>3, <1>5 DEF Running
<1>11. \A b \in Attempts : calls'[b].pc = "sending" => calls'[b].key \notin shown' \ doubtful'
  BY <1>3, <1>5, <1>8 DEF Running
<1> QED BY <1>3, <1>9, <1>10, <1>11 DEF Certain, Running

\* Two attempts on a job without a doubt would both be within their leases.
LEMMA ShowsCertain ==
  ASSUME IInv, Certain, NEW a \in Attempts, TelegramShows(a)
  PROVE  Certain'
<1> DEFINE k == calls[a].key
<1>1. /\ calls[a].pc = "sending" /\ shown' = shown \cup {k}
      /\ repeated' = repeated \cup ({k} \cap (shown \ doubtful))
      /\ rows' = rows /\ doubtful' = doubtful
      /\ calls' = [calls EXCEPT ![a].pc = "shown"]
  BY DEF TelegramShows
<1>2. \A b \in Attempts : /\ calls'[b].key = calls[b].key
                          /\ calls'[b].left = calls[b].left
                          /\ calls'[b].pc = IF b = a THEN "shown" ELSE calls[b].pc
  BY <1>1, Types DEF Call
<1>3. k \notin shown \ doubtful
  BY <1>1 DEF Certain
<1>4. repeated' = {}
  BY <1>1, <1>3 DEF Certain
<1>5. \A b \in Attempts : Running(b)' = Running(b)
  BY <1>1, <1>2 DEF Running
<1>6. ASSUME NEW b \in Attempts, b # a, Running(b), k \notin doubtful PROVE calls[b].key # k
  <2>1. Running(a)
    BY <1>1 DEF Running
  <2> QED BY <1>6, <2>1 DEF Certain
<1>7. \A b \in Attempts : calls'[b].pc = "sending" => calls'[b].key \notin shown' \ doubtful'
  BY <1>1, <1>2, <1>6 DEF Certain, Running
<1>8. \A b \in Attempts : Running(b)' /\ calls'[b].key \notin doubtful' =>
         calls'[b].left > 0 /\ rows'[calls'[b].key].attempt = b
  BY <1>1, <1>2, <1>5 DEF Certain
<1>9. \A j \in shown' \ doubtful' :
        Sent(rows'[j]) \/ \E b \in Attempts : calls'[b].pc = "shown" /\ calls'[b].key = j
  BY <1>1, <1>2 DEF Certain
<1> QED BY <1>4, <1>7, <1>8, <1>9 DEF Certain

\* An attempt ends: what it has shown is recorded, or in doubt.
LEMMA EndCertain ==
  ASSUME IInv, Certain, NEW a \in Attempts, Running(a), EndCall(a),
         UNCHANGED <<shown, repeated>>, doubtful \subseteq doubtful',
         \A k \in Keys : rows'[k] = rows[k] \/ (k = calls[a].key /\ rows[k].attempt = a),
         calls[a].pc = "shown" => calls[a].key \in doubtful' \/ Sent(rows'[calls[a].key])
  PROVE  Certain'
<1>1. calls'[a] = NoCall /\ \A b \in Attempts \ {a} : calls'[b] = calls[b]
  BY Types DEF EndCall
<1>2. ASSUME NEW b \in Attempts, calls'[b].pc # "idle"
      PROVE  b # a /\ calls'[b] = calls[b] /\ Running(b) /\ calls[b].key \in Keys
  BY <1>1, <1>2, Empty, Types DEF Running, Named
<1>3. ASSUME NEW b \in Attempts, calls'[b].pc # "idle", calls'[b].key \notin doubtful'
      PROVE  calls'[b].left > 0 /\ rows'[calls'[b].key].attempt = b
  <2>1. calls[b].left > 0 /\ rows[calls[b].key].attempt = b
    BY <1>2, <1>3 DEF Certain
  <2> QED BY <1>2, <1>3, <2>1
<1>4. ASSUME NEW k \in shown \ doubtful'
      PROVE  Sent(rows'[k]) \/ \E b \in Attempts : calls'[b].pc = "shown" /\ calls'[b].key = k
  <2>1. k \in Keys /\ k \notin doubtful
    BY Types
  <2>2. CASE Sent(rows[k])
    <3>1. rows[k].attempt = NoAttempt
      BY <2>1, <2>2, Types DEF Named, Sent, EventRow
    <3> QED BY <2>1, <2>2, <3>1, OutboxAssumption
  <2>3. ASSUME NEW b \in Attempts, calls[b].pc = "shown", calls[b].key = k
        PROVE  Sent(rows'[k]) \/ \E c \in Attempts : calls'[c].pc = "shown" /\ calls'[c].key = k
    BY <1>1, <2>3
  <2> QED BY <2>1, <2>2, <2>3 DEF Certain
<1>5. \A b \in Attempts : calls'[b].pc = "sending" => calls'[b].key \notin shown' \ doubtful'
  BY <1>2 DEF Certain
<1> QED BY <1>3, <1>4, <1>5 DEF Certain, Running

LEMMA ReportsCertain ==
  ASSUME IInv, Certain, NEW a \in Attempts,
         ReportSent(a) \/ ReportRejected(a) \/ Evict(a)
           \/ \E d \in RetryDelays : ReportTransient(a, d)
  PROVE  Certain'
<1>1. Running(a) /\ EndCall(a) /\ UNCHANGED <<shown, repeated>> /\ doubtful \subseteq doubtful'
  BY DEF ReportSent, ReportRejected, Evict, ReportTransient, Running, history, InDoubt
<1>2. \/ rows' = rows
      \/ \E status \in {"sent", "failed"}, permanent \in BOOLEAN :
           rows' = Recorded(a, status, permanent)
  BY DEF ReportSent, ReportRejected, Evict, ReportTransient
<1>3. \A k \in Keys : rows'[k] = rows[k] \/ (k = calls[a].key /\ rows[k].attempt = a)
  BY <1>1, <1>2, RecordedCases
<1>4. ASSUME calls[a].pc = "shown", calls[a].key \notin doubtful'
      PROVE  Sent(rows'[calls[a].key])
  <2>1. ReportSent(a)
    BY <1>4 DEF ReportRejected, Evict, ReportTransient, InDoubt
  <2>2. calls[a].key \in Keys /\ rows[calls[a].key].attempt = a /\ a # NoAttempt
    BY <1>1, <1>4, Types, OutboxAssumption DEF Certain, Named
  <2> QED BY <2>1, <2>2, Types DEF ReportSent, Recorded, Sent
<1> QED BY <1>1, <1>3, <1>4, EndCertain

\* A lease that runs out in this tick leaves its job in doubt.
LEMMA TickCertain ==
  ASSUME IInv, Certain, Tick
  PROVE  Certain'
<1>1. /\ \A k \in Keys : /\ rows'[k].attempt = rows[k].attempt
                         /\ rows'[k].status = rows[k].status
      /\ \A a \in Attempts : /\ calls'[a].pc = calls[a].pc /\ calls'[a].key = calls[a].key
                             /\ calls'[a].left = Elapse(calls[a].left)
      /\ doubtful' = doubtful \cup {calls[a].key : a \in Overrunning}
      /\ shown' = shown /\ repeated' = repeated
  BY Types DEF Tick, EventRow, Call
<1>2. \A a \in Attempts : Running(a) /\ calls[a].key \notin doubtful' => calls'[a].left > 0
  BY <1>1, Types DEF Certain, Overrunning, Running, Elapse, Call
<1>3. \A a \in Attempts : Running(a) => calls[a].key \in Keys
  BY Types DEF Named
<1>4. shown \subseteq Keys
  BY Types
<1> QED BY <1>1, <1>2, <1>3, <1>4 DEF Certain, Running, Sent

LEMMA DayCertain ==
  ASSUME IInv, Certain, Day
  PROVE  Certain'
<1>1. /\ \A k \in Keys : /\ rows'[k].attempt = rows[k].attempt
                         /\ rows'[k].status = rows[k].status
      /\ UNCHANGED <<calls, shown, repeated, doubtful>>
  BY Types DEF Day, EventRow, history
<1>2. \A a \in Attempts : Running(a) => calls[a].key \in Keys
  BY Types DEF Named
<1>3. shown \subseteq Keys
  BY Types
<1> QED BY <1>1, <1>2, <1>3 DEF Certain, Running, Sent

LEMMA CertainStep == IInv /\ Certain /\ [Next]_outboxVars => Certain'
<1> SUFFICES ASSUME IInv, Certain, [Next]_outboxVars PROVE Certain'
  OBVIOUS
<1>1. ASSUME NEW k \in Keys, Answer(k) PROVE Certain'
  BY <1>1, CleanupCertain DEF Answer
<1>2. ASSUME NEW k \in Keys, Begin(k) PROVE Certain'
  BY <1>2, BeginCertain DEF Begin
<1>3. CASE \E a \in Attempts : Finish(a)
  BY <1>3, ShowsCertain, ReportsCertain DEF Finish
<1>4. CASE \E a \in Attempts : Fail(a)
  BY <1>4, ReportsCertain DEF Fail
<1>5. CASE Alarm
  BY <1>5, CleanupCertain DEF Alarm
<1>6. CASE Tick \/ Day
  BY <1>6, TickCertain, DayCertain
<1>7. CASE UNCHANGED outboxVars
  BY <1>7 DEF Certain, Running, outboxVars, history
<1> QED BY <1>1, <1>2, <1>3, <1>4, <1>5, <1>6, <1>7 DEF Next

\* Telegram shows a message again only after an attempt on it that was evicted,
\* failed or overran its lease once it was shown, or after its outcome was
\* forgotten (ShownOnce): whatever other attempts are late and however often the
\* job comes.
THEOREM ShownTheorem == Spec => []ShownOnce
<1>1. Init => Certain
  BY Empty DEF Init, Certain, Running
<1>2. Certain => ShownOnce
  BY DEF Certain, ShownOnce
<1> QED BY <1>1, <1>2, CertainStep, Invariance, PTL DEF Spec

-----------------------------------------------------------------------------
(* The object keeps its promise. *)

\* The promise's entry of a key, from its row.
Entry(r) ==
  [state |-> IF Sent(r) THEN "sent" ELSE IF Rejected(r) THEN "rejected" ELSE "none",
   keep |-> IF Sent(r) \/ Rejected(r) THEN r.keep ELSE 0]

LEMMA EntryCases ==
  ASSUME NEW r \in EventRow
  PROVE  /\ ~ Sent(r) /\ ~ Rejected(r) => Entry(r) = Promise!NoOutcome
         /\ Sent(r) => Entry(r) = [state |-> "sent", keep |-> r.keep]
         /\ Rejected(r) => Entry(r) = [state |-> "rejected", keep |-> r.keep]
BY DEF Entry, Sent, Rejected, Promise!NoOutcome

LEMMA LedgerIs ==
  /\ Ledger = [k \in Keys |-> Entry(rows[k])]
  /\ Ledger' = [k \in Keys |-> Entry(rows'[k])]
BY DEF Ledger, Entry, Sent, Rejected

LEMMA NoRowHasNoEntry == Entry(NoRow) = Promise!NoOutcome
BY Empty, EntryCases DEF NoRow, Sent, Rejected

\* Rows of which the promise sees nothing change.
LEMMA SameLedger ==
  ASSUME \A k \in Keys : Entry(rows'[k]) = Entry(rows[k])
  PROVE  Ledger' = Ledger
BY LedgerIs

\* What a cleanup forgets is old; the rest of the ledger stands.
LEMMA CleanupForgets ==
  ASSUME IInv, NEW D \in CleanupBatches, shown' = shown,
         \A k \in Keys : Entry(rows'[k]) = Entry(RowsWithout(D)[k])
  PROVE  Promise!Next
<1> DEFINE K == {k \in D : Sent(rows[k]) \/ Rejected(rows[k])}
<1>1. \A k \in Keys :
        \/ k \notin D /\ RowsWithout(D)[k] = rows[k]
        \/ k \in D /\ RowsWithout(D)[k] = NoRow /\ rows[k].keep = 0
  BY Cleanup
<1>2. D \subseteq Keys /\ rows \in [Keys -> EventRow]
  BY Types DEF CleanupBatches, Overdue, Outcomes
<1>3. \A k \in K : Promise!Old(k)
  <2> SUFFICES ASSUME NEW k \in K PROVE Promise!Old(k)
    OBVIOUS
  <2>1. k \in Keys /\ rows[k] \in EventRow /\ rows[k].keep = 0
    BY <1>1, <1>2
  <2>2. Entry(rows[k]).state # "none" /\ Entry(rows[k]).keep = 0
    BY <2>1, EntryCases
  <2> QED BY <2>1, <2>2, LedgerIs DEF Promise!Old, Promise!Open
<1>4. ASSUME NEW k \in Keys
      PROVE  Entry(rows'[k]) = IF k \in K THEN Promise!NoOutcome ELSE Entry(rows[k])
  <2>1. CASE k \notin D
    BY <1>1, <2>1
  <2>2. CASE k \in D
    <3>1. Entry(rows'[k]) = Promise!NoOutcome
      BY <1>1, <2>2, NoRowHasNoEntry
    <3>2. k \notin K => Entry(rows[k]) = Promise!NoOutcome
      BY <1>2, <2>2, EntryCases
    <3> QED BY <3>1, <3>2
  <2> QED BY <2>1, <2>2
<1>5. Ledger' = [k \in Keys |-> IF k \in K THEN Promise!NoOutcome ELSE Ledger[k]]
  BY <1>4, LedgerIs
<1>6. Promise!Forget(K) /\ K \in SUBSET Keys
  BY <1>2, <1>3, <1>5 DEF Promise!Forget
<1> QED BY <1>6 DEF Promise!Next

\* What a report changes of the ledger: the open entry of its own job.
LEMMA ReportWrites ==
  ASSUME IInv, NEW a \in Attempts, Running(a),
         NEW status \in {"sent", "failed"}, NEW permanent \in BOOLEAN,
         rows' = Recorded(a, status, permanent)
  PROVE  LET key == calls[a].key
             row == [status |-> status, permanent |-> permanent,
                     attempt |-> NoAttempt, lease |-> 0, keep |-> RETENTION] IN
         /\ key \in Keys
         /\ \/ Ledger' = Ledger
            \/ /\ Promise!Open(key)
               /\ Ledger' = [Ledger EXCEPT ![key] = Entry(row)]
<1> DEFINE key == calls[a].key
           row == [status |-> status, permanent |-> permanent, attempt |-> NoAttempt,
                   lease |-> 0, keep |-> RETENTION]
<1>1. rows \in [Keys -> EventRow] /\ key \in Keys /\ Named
  BY Types DEF Named
<1>2. CASE rows[key].attempt # a
  <2>1. rows' = rows
    BY <1>2 DEF Recorded
  <2> QED BY <1>1, <2>1, SameLedger
<1>3. CASE rows[key].attempt = a
  <2>1. rows' = [rows EXCEPT ![key] = row]
    BY <1>3 DEF Recorded
  <2>2. rows[key].status = "pending"
    BY <1>1, <1>3, OutboxAssumption DEF Named
  <2>3. Entry(rows[key]) = Promise!NoOutcome
    BY <1>1, <2>2, EntryCases DEF Sent, Rejected
  <2>4. Promise!Open(key)
    BY <1>1, <2>3, LedgerIs DEF Promise!Open, Promise!NoOutcome
  <2>5. \A k \in Keys : rows'[k] = IF k = key THEN row ELSE rows[k]
    BY <1>1, <2>1
  <2>6. Ledger' = [Ledger EXCEPT ![key] = Entry(row)]
    BY <1>1, <2>5, LedgerIs
  <2> QED BY <1>1, <2>4, <2>6
<1> QED BY <1>2, <1>3

LEMMA AnswerImplements ==
  ASSUME IInv, NEW k \in Keys, Answer(k)
  PROVE  Promise!Next
<1>1. PICK D \in CleanupBatches : rows' = RowsWithout(D) /\ shown' = shown
  BY DEF Answer
<1> QED BY <1>1, CleanupForgets

LEMMA AlarmImplements ==
  ASSUME IInv, Alarm
  PROVE  Promise!Next
<1>1. PICK D \in CleanupBatches : rows' = RowsWithout(D) /\ shown' = shown
  BY DEF Alarm
<1> QED BY <1>1, CleanupForgets

\* A new attempt starts on a job without an outcome, and writes none.
LEMMA BeginImplements ==
  ASSUME IInv, NEW a \in Attempts, NEW k \in Keys, BeginSend(a, k)
  PROVE  Promise!Next
<1>1. PICK D \in CleanupBatches :
        /\ ~ MayNotSend(RowsWithout(D)[k])
        /\ \E keep : rows' = [RowsWithout(D) EXCEPT ![k] =
             [status |-> "pending", permanent |-> FALSE, attempt |-> a,
              lease |-> SEND_LEASE, keep |-> keep]]
        /\ shown' = shown
  BY DEF BeginSend
<1> DEFINE rs == RowsWithout(D)
<1>2. rs \in [Keys -> EventRow]
  BY Cleanup
<1>3. Entry(rs[k]) = Promise!NoOutcome
  BY <1>1, <1>2, EntryCases DEF MayNotSend
<1>4. rows'[k].status = "pending" /\ \A j \in Keys \ {k} : rows'[j] = rs[j]
  BY <1>1, <1>2
<1>5. Entry(rows'[k]) = Promise!NoOutcome
  BY <1>4 DEF Entry, Sent, Rejected, Promise!NoOutcome
<1>6. \A j \in Keys : Entry(rows'[j]) = Entry(rs[j])
  BY <1>3, <1>4, <1>5
<1> QED BY <1>1, <1>6, CleanupForgets

LEMMA ShowsImplements ==
  ASSUME IInv, NEW a \in Attempts, TelegramShows(a)
  PROVE  Promise!Next
<1>1. calls[a].key \in Keys /\ shown' = shown \cup {calls[a].key} /\ rows' = rows
  BY Types DEF TelegramShows, Named, Running
<1>2. Ledger' = Ledger
  BY <1>1, SameLedger
<1> QED BY <1>1, <1>2 DEF Promise!Next, Promise!Show

LEMMA ReportSentImplements ==
  ASSUME IInv, NEW a \in Attempts, ReportSent(a)
  PROVE  Promise!Next \/ UNCHANGED <<Ledger, shown>>
<1> DEFINE key == calls[a].key
           row == [status |-> "sent", permanent |-> FALSE, attempt |-> NoAttempt,
                   lease |-> 0, keep |-> RETENTION]
<1>1. /\ Running(a) /\ rows' = Recorded(a, "sent", FALSE) /\ shown' = shown
      /\ key \in shown
  BY Types DEF ReportSent, Running, history, Known
<1>2. /\ key \in Keys
      /\ \/ Ledger' = Ledger
         \/ Promise!Open(key) /\ Ledger' = [Ledger EXCEPT ![key] = Entry(row)]
  BY <1>1, ReportWrites
<1>3. Entry(row) = [state |-> "sent", keep |-> RETENTION]
  BY DEF Entry, Sent, Rejected
<1>4. CASE Ledger' = Ledger
  BY <1>1, <1>4
<1>5. CASE Promise!Open(key) /\ Ledger' = [Ledger EXCEPT ![key] = Entry(row)]
  <2>1. Promise!RecordSent(key)
    BY <1>1, <1>3, <1>5 DEF Promise!RecordSent, Promise!Write
  <2> QED BY <1>2, <2>1 DEF Promise!Next
<1> QED BY <1>2, <1>4, <1>5

LEMMA ReportRejectedImplements ==
  ASSUME IInv, NEW a \in Attempts, ReportRejected(a)
  PROVE  Promise!Next \/ UNCHANGED <<Ledger, shown>>
<1> DEFINE key == calls[a].key
           row == [status |-> "failed", permanent |-> TRUE, attempt |-> NoAttempt,
                   lease |-> 0, keep |-> RETENTION]
<1>1. Running(a) /\ rows' = Recorded(a, "failed", TRUE) /\ shown' = shown
  BY DEF ReportRejected, Running, history
<1>2. /\ key \in Keys
      /\ \/ Ledger' = Ledger
         \/ Promise!Open(key) /\ Ledger' = [Ledger EXCEPT ![key] = Entry(row)]
  BY <1>1, ReportWrites
<1>3. Entry(row) = [state |-> "rejected", keep |-> RETENTION]
  BY DEF Entry, Sent, Rejected
<1>4. CASE Ledger' = Ledger
  BY <1>1, <1>4
<1>5. CASE Promise!Open(key) /\ Ledger' = [Ledger EXCEPT ![key] = Entry(row)]
  <2>1. Promise!Refuse(key)
    BY <1>1, <1>3, <1>5 DEF Promise!Refuse, Promise!Write
  <2> QED BY <1>2, <2>1 DEF Promise!Next
<1> QED BY <1>2, <1>4, <1>5

\* A failure that may pass leaves the job open, whatever it writes in the row.
LEMMA ReportTransientImplements ==
  ASSUME IInv, NEW a \in Attempts, NEW d \in RetryDelays, ReportTransient(a, d)
  PROVE  UNCHANGED <<Ledger, shown>>
<1> DEFINE key == calls[a].key
           row == [status |-> "failed", permanent |-> FALSE, attempt |-> NoAttempt,
                   lease |-> 0, keep |-> RETENTION]
<1>1. Running(a) /\ rows' = Recorded(a, "failed", FALSE) /\ shown' = shown
  BY DEF ReportTransient, Running
<1>2. /\ key \in Keys
      /\ \/ Ledger' = Ledger
         \/ Promise!Open(key) /\ Ledger' = [Ledger EXCEPT ![key] = Entry(row)]
  BY <1>1, ReportWrites
<1>3. Entry(row) = Promise!NoOutcome
  BY DEF Entry, Sent, Rejected, Promise!NoOutcome
<1>4. CASE Promise!Open(key) /\ Ledger' = [Ledger EXCEPT ![key] = Entry(row)]
  <2>1. rows[key] \in EventRow /\ Entry(rows[key]).state = "none"
    BY <1>2, <1>4, Types, LedgerIs DEF Promise!Open
  <2>2. Entry(rows[key]) = Promise!NoOutcome
    BY <2>1, EntryCases
  <2>3. Ledger[key] = Entry(row)
    BY <1>2, <1>3, <2>2, LedgerIs
  <2>4. Ledger' = Ledger
    BY <1>2, <1>4, <2>3, LedgerIs
  <2> QED BY <1>1, <2>4
<1> QED BY <1>1, <1>2, <1>4

LEMMA TickImplements ==
  ASSUME IInv, Tick
  PROVE  UNCHANGED <<Ledger, shown>>
<1>1. ASSUME NEW k \in Keys PROVE Entry(rows'[k]) = Entry(rows[k])
  <2>1. /\ rows'[k].status = rows[k].status /\ rows'[k].permanent = rows[k].permanent
        /\ rows'[k].keep = rows[k].keep
    BY Types DEF Tick, EventRow
  <2> QED BY <2>1 DEF Entry, Sent, Rejected
<1> QED BY <1>1, SameLedger DEF Tick

LEMMA DayImplements ==
  ASSUME IInv, Day
  PROVE  Promise!Next
<1>1. ASSUME NEW k \in Keys
      PROVE  Entry(rows'[k]) =
               [Entry(rows[k]) EXCEPT !.keep = IF @ > 0 THEN @ - 1 ELSE 0]
  <2>1. /\ rows'[k].status = rows[k].status /\ rows'[k].permanent = rows[k].permanent
        /\ rows'[k].keep = Elapse(rows[k].keep)
    BY Types DEF Day, EventRow
  <2> QED BY <2>1 DEF Entry, Sent, Rejected, Elapse
<1>2. Ledger' = [k \in Keys |->
                   [Ledger[k] EXCEPT !.keep = IF @ > 0 THEN @ - 1 ELSE 0]]
  BY <1>1, LedgerIs
<1>3. shown' = shown
  BY DEF Day, history
<1> QED BY <1>2, <1>3 DEF Promise!Next, Promise!Day

LEMMA StepImplements ==
  IInv /\ [Next]_outboxVars => [Promise!Next]_<<Ledger, shown>>
<1> SUFFICES ASSUME IInv, [Next]_outboxVars
             PROVE  Promise!Next \/ UNCHANGED <<Ledger, shown>>
  OBVIOUS
<1>1. CASE \E k \in Keys : Answer(k) \/ Begin(k)
  BY <1>1, AnswerImplements, BeginImplements DEF Begin
<1>2. CASE \E a \in Attempts : Finish(a)
  BY <1>2, ShowsImplements, ReportSentImplements, ReportRejectedImplements DEF Finish
<1>3. CASE \E a \in Attempts : Fail(a)
  <2>1. ASSUME NEW a \in Attempts, Evict(a) PROVE UNCHANGED <<Ledger, shown>>
    BY <2>1, SameLedger DEF Evict
  <2> QED BY <1>3, <2>1, ReportTransientImplements DEF Fail
<1>4. CASE Alarm \/ Tick \/ Day
  BY <1>4, AlarmImplements, TickImplements, DayImplements
<1>5. CASE UNCHANGED outboxVars
  BY <1>5, SameLedger DEF outboxVars, history
<1> QED BY <1>1, <1>2, <1>3, <1>4, <1>5 DEF Next

LEMMA InitImplements == Init => Promise!Init
<1> SUFFICES ASSUME Init PROVE Promise!Init
  OBVIOUS
<1>1. \A k \in Keys : Entry(rows[k]) = Promise!NoOutcome
  BY NoRowHasNoEntry DEF Init
<1> QED BY <1>1, LedgerIs DEF Init, Promise!Init

\* The outbox object implements the promise the delivery of tickets builds on
\* (ImplementsPromise): an outcome is recorded once, of a message that was shown
\* or refused, and stands until it is past its retention.
THEOREM PromiseTheorem == Spec => ImplementsPromise
BY InitImplements, StepImplements, Invariance, PTL
   DEF Spec, ImplementsPromise, Promise!Spec, Promise!promiseVars

LEMMA PromiseStep ==
  ASSUME Ledger \in [Keys -> Promise!Outcome], Promise!Next
  PROVE  /\ \A k \in Keys : ~ Promise!Open(k) /\ Ledger[k].keep > 0
                            => Ledger'[k].state = Ledger[k].state
         /\ Promise!SentWasShown => Promise!SentWasShown'
<1>1. ASSUME NEW j \in Keys, Promise!Show(j) \/ Promise!RecordSent(j)
                             \/ Promise!Send(j) \/ Promise!Refuse(j)
      PROVE  /\ \A k \in Keys : ~ Promise!Open(k) => Ledger'[k].state = Ledger[k].state
             /\ Promise!SentWasShown => Promise!SentWasShown'
  BY <1>1 DEF Promise!Show, Promise!RecordSent, Promise!Send, Promise!Refuse,
              Promise!Write, Promise!Open, Promise!SentWasShown
<1>2. ASSUME NEW K \in SUBSET Keys, Promise!Forget(K)
      PROVE  /\ \A k \in Keys : ~ Promise!Open(k) /\ Ledger[k].keep > 0
                                => Ledger'[k].state = Ledger[k].state
             /\ Promise!SentWasShown => Promise!SentWasShown'
  BY <1>2 DEF Promise!Forget, Promise!Old, Promise!NoOutcome, Promise!SentWasShown
<1>3. CASE Promise!Day
  BY <1>3 DEF Promise!Day, Promise!SentWasShown, Promise!Outcome
<1> QED BY <1>1, <1>2, <1>3 DEF Promise!Next

LEMMA LedgerType == IInv => Ledger \in [Keys -> Promise!Outcome]
<1> SUFFICES ASSUME IInv PROVE Ledger \in [Keys -> Promise!Outcome]
  OBVIOUS
<1>1. \A k \in Keys : Entry(rows[k]) \in Promise!Outcome
  BY Types, Bounds DEF Entry, EventRow, Promise!Outcome
<1> QED BY <1>1, LedgerIs

\* Hence callers that ask again with the same key are told the same for as long
\* as its outcome is retained, and "sent" is only ever said of a message the
\* user can see.
THEOREM OutcomeStandsTheorem ==
  Spec => Promise!OutcomeStands /\ []Promise!SentWasShown
<1>1. Init => Promise!SentWasShown
  BY InitImplements DEF Promise!Init, Promise!NoOutcome, Promise!SentWasShown
<1>2. IInv /\ [Next]_outboxVars /\ Promise!SentWasShown => Promise!SentWasShown'
  BY StepImplements, LedgerType, PromiseStep DEF Promise!SentWasShown
<1>3. IInv /\ [Next]_outboxVars =>
        [\A k \in Keys : ~ Promise!Open(k) /\ Ledger[k].keep > 0
                         => Ledger'[k].state = Ledger[k].state]_<<Ledger, shown>>
  BY StepImplements, LedgerType, PromiseStep
<1> QED BY <1>1, <1>2, <1>3, Invariance, PTL
        DEF Spec, Promise!OutcomeStands, Promise!promiseVars

-----------------------------------------------------------------------------
(* The alarm of the cleanup. *)

\* What scheduleCleanupAlarm leaves behind.
LEMMA ScheduleSets ==
  ASSUME rows' \in [Keys -> EventRow], lock' \in Lock, ScheduleCleanupAlarm
  PROVE  CleanupIsSet'
<1>1. \A k \in Keys : rows'[k].keep \in 0..RETENTION
  BY DEF EventRow
<1>2. \A n \in Nat : <<"days", n>> # NoAlarm /\ <<"ticks", n>> # NoAlarm
  BY OutboxAssumption
<1>3. SUFFICES ASSUME Outcomes(rows') # {}
               PROVE  /\ alarm' # NoAlarm
                      /\ \/ alarm'[1] = "ticks"
                         \/ \A k \in Outcomes(rows') : alarm'[2] <= rows'[k].keep
  BY DEF CleanupIsSet
<1>4. CASE alarm' = <<"days", 0>>
  BY <1>1, <1>2, <1>4, OutboxAssumption DEF Outcomes
<1>5. CASE lock' # NoLock /\ alarm' = <<"ticks", lock'.lease>>
  <2>1. lock'.lease \in Nat
    BY <1>5, OutboxAssumption DEF Lock
  <2> QED BY <1>2, <1>5, <2>1
<1>6. CASE \E n \in {rows'[k].keep : k \in Outcomes(rows')} :
             /\ \A k \in Outcomes(rows') : n <= rows'[k].keep
             /\ alarm' = <<"days", n>>
  <2>1. PICK n \in {rows'[k].keep : k \in Outcomes(rows')} :
             /\ \A k \in Outcomes(rows') : n <= rows'[k].keep
             /\ alarm' = <<"days", n>>
    BY <1>6
  <2>2. n \in Nat
    BY <1>1, OutboxAssumption DEF Outcomes
  <2> QED BY <1>2, <2>1, <2>2
<1> QED BY <1>3, <1>4, <1>5, <1>6 DEF ScheduleCleanupAlarm

\* A step that adds no outcome and leaves the alarm alone.
LEMMA AlarmStands ==
  ASSUME IInv, CleanupIsSet, alarm' = alarm,
         \A k \in Keys : k \in Outcomes(rows') =>
           k \in Outcomes(rows) /\ rows'[k].keep = rows[k].keep
  PROVE  CleanupIsSet'
BY DEF CleanupIsSet, Outcomes

LEMMA CleanupStep == IInv /\ IInv' /\ CleanupIsSet /\ [Next]_outboxVars => CleanupIsSet'
<1> SUFFICES ASSUME IInv, IInv', CleanupIsSet, [Next]_outboxVars
             PROVE  CleanupIsSet'
  OBVIOUS
<1>1. rows' \in [Keys -> EventRow] /\ rows \in [Keys -> EventRow] /\ alarm \in AlarmType
  BY DEF IInv, TypeOK, AlarmType
<1>2. CASE UNCHANGED outboxVars
  BY <1>2, AlarmStands DEF outboxVars
<1>3. ASSUME ScheduleCleanupAlarm PROVE CleanupIsSet'
  <2>1. lock' \in Lock
    BY DEF IInv, TypeOK, Lock
  <2> QED BY <1>1, <1>3, <2>1, ScheduleSets
<1>4. ASSUME NEW D \in CleanupBatches, NEW k \in Keys,
             RowsWithout(D)[k].status \in {"sent", "failed"}
      PROVE  k \in Outcomes(rows) /\ RowsWithout(D)[k] = rows[k]
  <2>1. RowsWithout(D)[k] = rows[k] \/ RowsWithout(D)[k] = NoRow
    BY Cleanup
  <2>2. NoRow.status = "none"
    BY Empty
  <2> QED BY <1>4, <2>1, <2>2 DEF Outcomes
<1>5. ASSUME NEW k \in Keys, Answer(k) PROVE CleanupIsSet'
  <2>1. PICK D \in CleanupBatches : rows' = RowsWithout(D) /\ alarm' = alarm
    BY <1>5 DEF Answer
  <2> QED BY <1>4, <2>1, AlarmStands DEF Outcomes
<1>6. ASSUME NEW k \in Keys, NEW a \in Attempts, BeginSend(a, k) PROVE CleanupIsSet'
  <2> DEFINE New(D) ==
        [status |-> "pending", permanent |-> FALSE, attempt |-> a, lease |-> SEND_LEASE,
         keep |-> IF RowsWithout(D)[k].status = "none" THEN RETENTION
                  ELSE RowsWithout(D)[k].keep]
  <2>1. PICK D \in CleanupBatches :
          alarm' = alarm /\ rows' = [RowsWithout(D) EXCEPT ![k] = New(D)]
    BY <1>6 DEF BeginSend
  <2>2. RowsWithout(D) \in [Keys -> EventRow]
    BY Cleanup
  <2>3. \A j \in Keys : j \in Outcomes(rows') =>
          RowsWithout(D)[j].status \in {"sent", "failed"} /\ rows'[j] = RowsWithout(D)[j]
    BY <2>1, <2>2 DEF Outcomes
  <2> QED BY <1>4, <2>1, <2>3, AlarmStands DEF Outcomes
<1>7. ASSUME NEW a \in Attempts, TelegramShows(a) \/ Evict(a) PROVE CleanupIsSet'
  BY <1>7, AlarmStands DEF TelegramShows, Evict
<1>8. ASSUME NEW a \in Attempts, ReportSent(a) \/ ReportRejected(a) PROVE CleanupIsSet'
  BY <1>3, <1>8 DEF ReportSent, ReportRejected
<1>9. ASSUME NEW a \in Attempts, NEW d \in RetryDelays, ReportTransient(a, d)
      PROVE  CleanupIsSet'
  BY <1>3, <1>9 DEF ReportTransient
<1>10. CASE Alarm
  BY <1>3, <1>10 DEF Alarm
<1>11. CASE Tick
  <2>1. \A k \in Keys : rows'[k].status = rows[k].status /\ rows'[k].keep = rows[k].keep
    BY <1>1, <1>11 DEF Tick, EventRow
  <2>2. Outcomes(rows') = Outcomes(rows)
    BY <2>1 DEF Outcomes
  <2>3. CASE alarm' = alarm
    BY <2>1, <2>3, AlarmStands DEF Outcomes
  <2>4. CASE alarm # NoAlarm /\ alarm[1] = "ticks"
             /\ alarm' = <<"ticks", Elapse(alarm[2])>>
    <3>1. Elapse(alarm[2]) \in Nat
      BY <1>1, <2>4, OutboxAssumption DEF AlarmType, Elapse
    <3> QED BY <2>4, <3>1, OutboxAssumption DEF CleanupIsSet
  <2> QED BY <1>11, <2>3, <2>4 DEF Tick, AlarmElapsed
<1>12. CASE Day
  <2>1. \A k \in Keys : /\ rows'[k].status = rows[k].status
                        /\ rows'[k].keep = Elapse(rows[k].keep)
                        /\ rows[k].keep \in Nat
    BY <1>1, <1>12, OutboxAssumption DEF Day, EventRow
  <2>2. Outcomes(rows') = Outcomes(rows)
    BY <2>1 DEF Outcomes
  <2>3. CASE alarm' = alarm /\ ~ (alarm # NoAlarm /\ alarm[1] = "days")
    <3>1. Outcomes(rows) # {} => alarm # NoAlarm /\ alarm[1] = "ticks"
      BY <1>1, <2>3 DEF CleanupIsSet, AlarmType
    <3> QED BY <2>2, <2>3, <3>1 DEF CleanupIsSet
  <2>4. CASE alarm # NoAlarm /\ alarm[1] = "days" /\ alarm' = <<"days", Elapse(alarm[2])>>
    <3>1. alarm[2] \in Nat /\ Elapse(alarm[2]) \in Nat
      BY <1>1, <2>4, OutboxAssumption DEF AlarmType, Elapse
    <3>2. alarm' # NoAlarm /\ alarm'[2] = Elapse(alarm[2])
      BY <2>4, <3>1, OutboxAssumption
    <3>3. \A k \in Outcomes(rows) : alarm[2] <= rows[k].keep
      BY <2>4 DEF CleanupIsSet
    <3>4. \A k \in Outcomes(rows') : alarm'[2] <= rows'[k].keep
      BY <2>1, <2>2, <3>1, <3>2, <3>3 DEF Elapse, Outcomes
    <3> QED BY <3>2, <3>4 DEF CleanupIsSet
  <2> QED BY <1>12, <2>3, <2>4 DEF Day, AlarmElapsed
<1> QED BY <1>2, <1>5, <1>6, <1>7, <1>8, <1>9, <1>10, <1>11, <1>12
        DEF Next, Begin, Finish, Fail

\* An outcome is never left without an alarm that removes it or is set anew,
\* for any number of jobs and attempts, every lease, delay and retention: what
\* keeps an event for ever is only that it has no outcome (pending_kept).
THEOREM CleanupTheorem == Spec => []CleanupIsSet
<1>1. Init => CleanupIsSet
  BY DEF Init, CleanupIsSet, Outcomes, NoRow
<1> QED BY <1>1, CleanupStep, Invariance, PTL DEF Spec
=============================================================================
