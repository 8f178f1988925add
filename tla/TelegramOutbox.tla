---------------------------- MODULE TelegramOutbox ----------------------------
(***************************************************************************)
(* The TelegramOutbox Durable Object of one chat                           *)
(* (src/storage/telegram-outbox.do.ts).  sendJob is atomic up to its first *)
(* await, which decrypts the chat id; the call to Telegram follows, and a  *)
(* second atomic part records what came of it.  Between the two parts      *)
(* other calls run, the alarm fires, or the object is evicted.             *)
(*                                                                         *)
(* Two clocks tick independently: ticks of some seconds use up leases, the *)
(* chat lock, the pacing delay; days use up retention.  A deadline is kept *)
(* as the time left, 0 standing for "deadline <= now".                     *)
(***************************************************************************)
EXTENDS Integers, FiniteSets

CONSTANTS
  Keys,                  \* idempotency keys of the jobs for this chat
  Attempts,              \* lease attempt ids
  NoAttempt,             \* lease_attempt_id = NULL
  NoKey,                 \* the key of an attempt that is not running
  NoAlarm,               \* no alarm is set
  SEND_LEASE,            \* lease of an attempt, in ticks
  MIN_SEND_INTERVAL,     \* pacing after a send, in ticks
  RetryDelays,           \* backoffs: retry_after, or the generic delay
  MaxDelay,              \* the longest of these three
  RETENTION,             \* days an outcome is kept
  OUTBOX_CLEANUP_LIMIT,  \* outcomes one cleanup removes
  MaxFailures            \* bound: transient failures and evictions explored

ASSUME OutboxAssumption ==
  /\ NoAttempt \notin Attempts
  /\ NoKey \notin Keys
  /\ NoAlarm \notin {"ticks", "days"} \X Nat
  /\ SEND_LEASE \in Nat \ {0}
  /\ MIN_SEND_INTERVAL \in Nat \ {0}
  /\ MaxDelay \in Nat
  /\ RetryDelays \subseteq 1..MaxDelay
  /\ SEND_LEASE <= MaxDelay /\ MIN_SEND_INTERVAL <= MaxDelay
  /\ RETENTION \in Nat \ {0}
  /\ OUTBOX_CLEANUP_LIMIT \in Nat \ {0}
  /\ MaxFailures \in Nat

VARIABLES
  rows,      \* sent_events, one row or NoRow for each key
  lock,      \* the chat row of send_locks, or NoLock
  pace,      \* ticks until rate_buckets allows the next send
  alarm,     \* the alarm: a clock and the time left on it
  calls,     \* the second part of sendJob still to run, for each attempt
  shown,     \* history: keys Telegram has shown
  repeated,  \* history: keys shown again although nothing was in doubt
  doubtful,  \* history: keys whose outcome was lost, late or forgotten
  failures   \* faults so far (bound)

history == <<shown, repeated, doubtful>>
outboxVars == <<rows, lock, pace, alarm, calls, history, failures>>

EventRow == [status : {"none", "pending", "sent", "failed"},
             permanent : BOOLEAN,
             attempt : Attempts \cup {NoAttempt},
             lease : 0..SEND_LEASE,
             keep : 0..RETENTION]

NoRow == [status |-> "none", permanent |-> FALSE, attempt |-> NoAttempt,
          lease |-> 0, keep |-> 0]

NoLock == [attempt |-> NoAttempt, lease |-> 0]

NoCall == [pc |-> "idle", key |-> NoKey, left |-> 0]

TypeOK ==
  /\ rows \in [Keys -> EventRow]
  /\ lock \in [attempt : Attempts \cup {NoAttempt}, lease : 0..MaxDelay]
  /\ pace \in 0..MaxDelay
  /\ alarm \in {NoAlarm} \cup ({"ticks"} \X (0..MaxDelay))
                         \cup ({"days"} \X (0..RETENTION))
  /\ calls \in [Attempts -> [pc : {"idle", "sending", "shown"},
                             key : Keys \cup {NoKey}, left : 0..SEND_LEASE]]
  /\ shown \subseteq Keys /\ repeated \subseteq Keys /\ doubtful \subseteq Keys
  /\ failures \in 0..MaxFailures

-----------------------------------------------------------------------------
Larger(m, n) == IF m > n THEN m ELSE n

Elapse(n) == IF n > 0 THEN n - 1 ELSE 0

Sent(r) == r.status = "sent"
Rejected(r) == r.status = "failed" /\ r.permanent

\* Rows that carry an outcome, of an attempt that went well or not.
Outcomes(rs) == {k \in Keys : rs[k].status \in {"sent", "failed"}}

Overdue(rs) == {k \in Outcomes(rs) : rs[k].keep = 0}

\* cleanupRetainedRows: outcomes past their retention, up to the limit, and
\* lapsed locks.
CleanupBatches ==
  {D \in SUBSET Overdue(rows) :
     /\ Cardinality(D) <= OUTBOX_CLEANUP_LIMIT
     /\ D = Overdue(rows) \/ Cardinality(D) = OUTBOX_CLEANUP_LIMIT}

RowsWithout(D) == [k \in Keys |-> IF k \in D THEN NoRow ELSE rows[k]]

LockKept == IF lock.lease = 0 THEN NoLock ELSE lock

Forgotten(D) == {k \in D : Sent(rows[k])}

\* scheduleCleanupAlarm: the earliest of the outcomes' retention and the lock.
ScheduleCleanupAlarm ==
  IF Overdue(rows') # {} THEN alarm' = <<"days", 0>>
  ELSE IF lock' # NoLock THEN alarm' = <<"ticks", lock'.lease>>
  ELSE IF Outcomes(rows') # {}
  THEN \E n \in {rows'[k].keep : k \in Outcomes(rows')} :
         /\ \A k \in Outcomes(rows') : n <= rows'[k].keep
         /\ alarm' = <<"days", n>>
  ELSE alarm' = NoAlarm

-----------------------------------------------------------------------------
Init ==
  /\ rows = [k \in Keys |-> NoRow]
  /\ lock = NoLock
  /\ pace = 0
  /\ alarm = NoAlarm
  /\ calls = [a \in Attempts |-> NoCall]
  /\ shown = {} /\ repeated = {} /\ doubtful = {}
  /\ failures = 0

\* Mutants of MayNotSend: no dedupe; no leases; an attempt id counts as running.
MaySendAgain(r) == Rejected(r) \/ r.lease > 0 \/ pace > 0 \/ LockKept.lease > 0
MaySendAtOnce(r) == Sent(r) \/ Rejected(r) \/ pace > 0
MayNotTakeOver(r) ==
  \/ Sent(r) \/ Rejected(r) \/ r.attempt # NoAttempt
  \/ pace > 0 \/ LockKept.lease > 0

\* What makes sendJob answer at once: a recorded outcome, a running attempt on
\* the key, the pacing delay, or the chat lock.
MayNotSend(r) ==
  Sent(r) \/ Rejected(r) \/ r.lease > 0 \/ pace > 0 \/ LockKept.lease > 0

\* sendJob, answered without an attempt.
Answer(k) ==
  \E D \in CleanupBatches :
    /\ MayNotSend(RowsWithout(D)[k])
    /\ rows' = RowsWithout(D)
    /\ lock' = LockKept
    /\ doubtful' = doubtful \cup Forgotten(D)
    /\ UNCHANGED <<pace, alarm, calls, shown, repeated, failures>>

\* A new UUID: neither running nor named in the row of another key.
Fresh(a, k) ==
  calls[a] = NoCall /\ \A j \in Keys \ {k} : rows[j].attempt # a

\* sendJob up to its first await: take the chat lock and lease the row.
BeginSend(a, k) ==
  \E D \in CleanupBatches :
    LET rs == RowsWithout(D)
        keep == IF rs[k].status = "none" THEN RETENTION ELSE rs[k].keep IN
    /\ Fresh(a, k)
    /\ ~ MayNotSend(rs[k])
    /\ rows' = [rs EXCEPT ![k] = [status |-> "pending", permanent |-> FALSE,
                                  attempt |-> a, lease |-> SEND_LEASE,
                                  keep |-> keep]]
    /\ lock' = [attempt |-> a, lease |-> SEND_LEASE]
    /\ calls' = [calls EXCEPT ![a] = [pc |-> "sending", key |-> k,
                                      left |-> SEND_LEASE]]
    /\ doubtful' = doubtful \cup Forgotten(D)
    /\ UNCHANGED <<pace, alarm, shown, repeated, failures>>

\* Telegram shows the message; sendJob does not know yet.
TelegramShows(a) ==
  LET k == calls[a].key IN
  /\ calls[a].pc = "sending"
  /\ calls' = [calls EXCEPT ![a].pc = "shown"]
  /\ shown' = shown \cup {k}
  /\ repeated' = repeated \cup ({k} \cap (shown \ doubtful))
  /\ UNCHANGED <<rows, lock, pace, alarm, doubtful, failures>>

\* Mutant of Recorded: an attempt that lost its lease writes all the same.
RecordedUnowned(a, status, permanent) ==
  [rows EXCEPT ![calls[a].key] =
     [status |-> status, permanent |-> permanent, attempt |-> NoAttempt,
      lease |-> 0, keep |-> RETENTION]]

\* The row after the attempt wrote its outcome, if the attempt still owns it.
Recorded(a, status, permanent) ==
  LET k == calls[a].key IN
  IF rows[k].attempt = a
  THEN [rows EXCEPT ![k] = [status |-> status, permanent |-> permanent,
                            attempt |-> NoAttempt, lease |-> 0,
                            keep |-> RETENTION]]
  ELSE rows

\* releaseChatLock.
LockWithout(a) == IF lock.attempt = a THEN NoLock ELSE lock

EndCall(a) == calls' = [calls EXCEPT ![a] = NoCall]

\* Telegram has answered with success.
ReportSent(a) ==
  /\ calls[a].pc = "shown"
  /\ rows' = Recorded(a, "sent", FALSE)
  /\ lock' = LockWithout(a)
  /\ pace' = Larger(pace, MIN_SEND_INTERVAL)
  /\ ScheduleCleanupAlarm
  /\ EndCall(a)
  /\ UNCHANGED <<history, failures>>

\* Telegram has answered with an error that retrying cannot help.
ReportRejected(a) ==
  /\ calls[a].pc = "sending"
  /\ rows' = Recorded(a, "failed", TRUE)
  /\ lock' = LockWithout(a)
  /\ ScheduleCleanupAlarm
  /\ EndCall(a)
  /\ UNCHANGED <<pace, history, failures>>

InDoubt(a) ==
  IF calls[a].pc = "shown" THEN doubtful \cup {calls[a].key} ELSE doubtful

\* Any other failure, after delay d: 429, 5xx, a lost answer.  The chat stays
\* locked for the delay, unless another attempt holds the lock.
ReportTransient(a, d) ==
  /\ calls[a].pc # "idle"
  /\ rows' = Recorded(a, "failed", FALSE)
  /\ lock' = IF lock.attempt \in {a, NoAttempt}
             THEN [attempt |-> a, lease |-> d] ELSE lock
  /\ pace' = Larger(pace, Larger(MIN_SEND_INTERVAL, d))
  /\ ScheduleCleanupAlarm
  /\ EndCall(a)
  /\ doubtful' = InDoubt(a)
  /\ UNCHANGED <<shown, repeated>>

\* The object is evicted while the attempt waits.
Evict(a) ==
  /\ calls[a].pc # "idle"
  /\ EndCall(a)
  /\ doubtful' = InDoubt(a)
  /\ UNCHANGED <<rows, lock, pace, alarm, shown, repeated>>

\* Mutant of Alarm: the next alarm is not set.
AlarmOnce ==
  /\ alarm # NoAlarm /\ alarm[2] = 0
  /\ \E D \in CleanupBatches :
       rows' = RowsWithout(D) /\ doubtful' = doubtful \cup Forgotten(D)
  /\ lock' = LockKept
  /\ alarm' = NoAlarm
  /\ UNCHANGED <<pace, calls, shown, repeated, failures>>

\* alarm: one cleanup, then the next alarm.
Alarm ==
  /\ alarm # NoAlarm /\ alarm[2] = 0
  /\ \E D \in CleanupBatches :
       rows' = RowsWithout(D) /\ doubtful' = doubtful \cup Forgotten(D)
  /\ lock' = LockKept
  /\ ScheduleCleanupAlarm
  /\ UNCHANGED <<pace, calls, shown, repeated, failures>>

AlarmElapsed(clock) ==
  IF alarm # NoAlarm /\ alarm[1] = clock
  THEN <<clock, Elapse(alarm[2])>> ELSE alarm

\* Attempts that overrun their lease in this tick.
Overrunning == {a \in Attempts : calls[a].pc # "idle" /\ calls[a].left = 1}

Tick ==
  /\ rows' = [k \in Keys |-> [rows[k] EXCEPT !.lease = Elapse(@)]]
  /\ lock' = [lock EXCEPT !.lease = Elapse(@)]
  /\ pace' = Elapse(pace)
  /\ alarm' = AlarmElapsed("ticks")
  /\ calls' = [a \in Attempts |-> [calls[a] EXCEPT !.left = Elapse(@)]]
  /\ doubtful' = doubtful \cup {calls[a].key : a \in Overrunning}
  /\ UNCHANGED <<shown, repeated, failures>>

Day ==
  /\ rows' = [k \in Keys |-> [rows[k] EXCEPT !.keep = Elapse(@)]]
  /\ alarm' = AlarmElapsed("days")
  /\ UNCHANGED <<lock, pace, calls, history, failures>>

Fault == failures < MaxFailures /\ failures' = failures + 1

Begin(k) == \E a \in Attempts : BeginSend(a, k)

Finish(a) == TelegramShows(a) \/ ReportSent(a) \/ ReportRejected(a)

Fail(a) == (Evict(a) \/ \E d \in RetryDelays : ReportTransient(a, d)) /\ Fault

Next ==
  \/ \E k \in Keys : Answer(k) \/ Begin(k)
  \/ \E a \in Attempts : Finish(a) \/ Fail(a)
  \/ Alarm \/ Tick \/ Day

Spec == Init /\ [][Next]_outboxVars

\* Calls return, alarms fire and seconds pass; days need not, and no job need
\* ever come: the queue gives a job up after its retries.
SilentSpec ==
  /\ Spec
  /\ \A a \in Attempts : WF_outboxVars(Finish(a))
  /\ WF_outboxVars(Alarm) /\ WF_outboxVars(Tick)

\* The callers of a job do not give up when they are answered with a retry, and
\* from some time on no attempt overruns its lease.
JobsComeAgain ==
  /\ \A k \in Keys : SF_outboxVars(Begin(k))
  /\ <>[][~ (Tick /\ Overrunning # {})]_outboxVars

-----------------------------------------------------------------------------
(* Correctness. *)

\* At most one attempt within its lease talks to Telegram, whatever locks were
\* extended, released or swept by attempts that came back late.
ExclusiveSend ==
  \A a, b \in Attempts : calls[a].left > 0 /\ calls[b].left > 0 => a = b

\* Telegram shows a message again only if an earlier attempt on it was evicted,
\* failed or overran its lease after it was shown, or if its outcome is past
\* its retention (docs/threat-model.md:168 names the first cases).
ShownOnce == repeated = {}

\* An attempt that still owns its row within the lease also holds the chat.
OwnerHoldsLock ==
  \A k \in Keys : rows[k].lease > 0 => lock.attempt = rows[k].attempt

\* The lock and the leases together keep the chat for one sender; and every
\* variable keeps its type.
ChatIsHeld == TypeOK /\ ExclusiveSend /\ OwnerHoldsLock

\* The object keeps the promise that InboxDelivery builds on.
Ledger ==
  [k \in Keys |->
     [state |-> IF Sent(rows[k]) THEN "sent"
                ELSE IF Rejected(rows[k]) THEN "rejected" ELSE "none",
      keep |-> IF Sent(rows[k]) \/ Rejected(rows[k]) THEN rows[k].keep ELSE 0]]

Promise == INSTANCE OutboxPromise WITH ledger <- Ledger

ImplementsPromise == Promise!Spec

\* A job whose callers do not give up gets its outcome: neither the lock, the
\* lease nor the pacing of attempts that were lost blocks the chat for ever.
EveryJobSettles ==
  JobsComeAgain => \A k \in Keys : <>(Sent(rows[k]) \/ Rejected(rows[k]))

\* Outcomes are removed after their retention even if the chat falls silent.
OutcomesExpire ==
  \A k \in Keys :
    (k \in Overdue(rows)) ~> (k \notin Overdue(rows))

\* An outcome is never without an alarm: one that falls no later than the
\* outcome is due, or that of the chat lock, after which it is set anew
\* (telegram-outbox.do.ts:549-584).
CleanupIsSet ==
  Outcomes(rows) # {} =>
    /\ alarm # NoAlarm
    /\ \/ alarm[1] = "ticks"
       \/ \A k \in Outcomes(rows) : alarm[2] <= rows[k].keep

\* Nothing in the object waits for ever: jobs settle and outcomes expire,
\* whatever attempts are lost.
NothingWaits == EveryJobSettles /\ OutcomesExpire

\* Every event row older than the retention is removed, unless an attempt takes
\* it up again (docs/sealed-ticketing.md:326, :398).
EventsExpire ==
  \A k \in Keys :
    (rows[k].status # "none" /\ rows[k].keep = 0)
      ~> (rows[k].status = "none" \/ rows[k].keep > 0 \/ rows[k].lease > 0)
=============================================================================
