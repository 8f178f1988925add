-------------------------------- MODULE Intake --------------------------------
(***************************************************************************)
(* Telegram's updates at the webhook (src/bot/webhook.ts) and the table    *)
(* processed_events of the UserState shard that remembers them             *)
(* (src/storage/user-state.do.ts:591).  Telegram repeats an update until   *)
(* it is answered with a 2xx status, also while an earlier request for it  *)
(* is still at work; a claim with a lease keeps the repetitions apart.     *)
(*                                                                         *)
(* A run is one webhook request.  Its RPCs carry the update's key and      *)
(* nothing that names the run, so a run whose lease has lapsed reports to  *)
(* a row that may be another's.  expires_at is 24 hours away, as long as   *)
(* Telegram keeps an update, so a row is old only once its update is       *)
(* acknowledged.                                                           *)
(***************************************************************************)
EXTENDS Naturals, FiniteSets

CONSTANTS
  Updates,                        \* update ids of one shard
  Runs,                           \* webhook requests at work at a time
  NoUpdate,                       \* an idle run's update
  UPDATE_CLAIM_LEASE,             \* lease of a claim, in ticks
  PROCESSED_EVENT_CLEANUP_LIMIT,  \* old rows one claim deletes
  MaxMishaps                      \* bound: failures explored

ASSUME IntakeAssumption ==
  /\ NoUpdate \notin Updates
  /\ UPDATE_CLAIM_LEASE \in Nat \ {0}
  /\ PROCESSED_EVENT_CLEANUP_LIMIT \in Nat \ {0}
  /\ MaxMishaps \in Nat

VARIABLES
  events,    \* the processed_events table, one record for each update
  runs,      \* the webhook requests at work
  acked,     \* updates Telegram has seen answered with 2xx
  handled,   \* history: runs of the handler that came to their end, 0..2
  excused,   \* history: updates one of whose runs failed or was too slow
  disowned,  \* history: updates whose row a run without a lease deleted
  mishaps    \* failures so far (bound)

intakeHistory == <<handled, excused, disowned>>
intakeVars == <<events, runs, acked, intakeHistory, mishaps>>

NoEvent == [status |-> "none", lease |-> 0, old |-> FALSE]
Claimed == [status |-> "processing", lease |-> UPDATE_CLAIM_LEASE, old |-> FALSE]
Done == [status |-> "done", lease |-> 0, old |-> FALSE]

IdleRun == [pc |-> "idle", update |-> NoUpdate, lease |-> 0]

IntakeTypeOK ==
  /\ events \in [Updates -> [status : {"none", "processing", "done"},
                             lease : 0..UPDATE_CLAIM_LEASE, old : BOOLEAN]]
  /\ runs \in [Runs -> [pc : {"idle", "handling", "completing", "failing"},
                        update : Updates \cup {NoUpdate},
                        lease : 0..UPDATE_CLAIM_LEASE]]
  /\ acked \in SUBSET Updates
  /\ handled \in [Updates -> 0..2]
  /\ excused \in SUBSET Updates
  /\ disowned \in SUBSET Updates
  /\ mishaps \in 0..MaxMishaps

IntakeInit ==
  /\ events = [u \in Updates |-> NoEvent]
  /\ runs = [r \in Runs |-> IdleRun]
  /\ acked = {}
  /\ handled = [u \in Updates |-> 0]
  /\ excused = {} /\ disowned = {}
  /\ mishaps = 0

-----------------------------------------------------------------------------
(* The table. *)

\* cleanupProcessedEvents: the rows left when it has deleted up to the limit
\* of the old ones.
CleanedUp ==
  LET old == {u \in Updates : events[u].old} IN
  {[u \in Updates |-> IF u \in D THEN NoEvent ELSE events[u]] :
     D \in {D \in SUBSET old :
              \/ D = old /\ Cardinality(D) <= PROCESSED_EVENT_CLEANUP_LIMIT
              \/ /\ Cardinality(old) > PROCESSED_EVENT_CLEANUP_LIMIT
                 /\ Cardinality(D) = PROCESSED_EVENT_CLEANUP_LIMIT}}

\* Mutant of ClaimState: the lease of a claim is not looked at.
ClaimStateUnleased(e) ==
  IF e.status = "done" /\ ~ e.old THEN "done" ELSE "acquired"

\* Mutant of ClaimState: whatever is known counts as done.
ClaimStateKnown(e) == IF e.status = "none" THEN "acquired" ELSE "done"

\* Mutant of ClaimState: a lapsed claim is never given to another run.
ClaimStateForever(e) ==
  IF e.status = "none" \/ e.old THEN "acquired" ELSE e.status

\* resolveProcessedEventClaim
ClaimState(e) ==
  IF e.status = "done" /\ ~ e.old THEN "done"
  ELSE IF e.status = "processing" /\ e.lease > 0 THEN "processing"
  ELSE "acquired"

\* completeProcessedEvent: an UPDATE by key, without effect if the row is gone.
Completed(u) ==
  [events EXCEPT ![u] = IF @.status = "none" THEN @ ELSE Done]

\* failProcessedEvent: a DELETE by key.
Failed(u) == [events EXCEPT ![u] = NoEvent]

-----------------------------------------------------------------------------
(* The webhook. *)

Mishap == mishaps < MaxMishaps /\ mishaps' = mishaps + 1

RunAt(r, pc) == runs[r].pc = pc
RunGoto(r, pc) == runs' = [runs EXCEPT ![r].pc = pc]
RunEnds(r) == runs' = [runs EXCEPT ![r] = IdleRun]

\* Telegram posts an update that it has not seen acknowledged and the shard
\* answers the claim: "done" is acknowledged, "processing" answered 503, and
\* "acquired" starts the handler.
Deliver(r, u) ==
  /\ RunAt(r, "idle") /\ u \notin acked
  /\ \E es \in CleanedUp :
       CASE ClaimState(es[u]) = "done" ->
              /\ events' = es
              /\ acked' = acked \cup {u}
              /\ UNCHANGED runs
         [] ClaimState(es[u]) = "processing" ->
              events' = es /\ UNCHANGED <<acked, runs>>
         [] OTHER ->
              /\ events' = [es EXCEPT ![u] = Claimed]
              /\ runs' = [runs EXCEPT ![r] =
                   [pc |-> "handling", update |-> u,
                    lease |-> UPDATE_CLAIM_LEASE]]
              /\ UNCHANGED acked
  /\ UNCHANGED <<intakeHistory, mishaps>>

\* The claim is stored but its answer is lost: 503, and nobody handles it.
ClaimLost(u) ==
  /\ Mishap
  /\ u \notin acked
  /\ ClaimState(events[u]) = "acquired"
  /\ \E es \in CleanedUp : events' = [es EXCEPT ![u] = Claimed]
  /\ UNCHANGED <<runs, acked, intakeHistory>>

\* The bot's handler comes to its end with a status below 500.
HandlerEnds(r) ==
  LET u == runs[r].update IN
  /\ RunAt(r, "handling")
  /\ handled' = [handled EXCEPT ![u] = IF @ = 2 THEN 2 ELSE @ + 1]
  /\ RunGoto(r, "completing")
  /\ UNCHANGED <<events, acked, excused, disowned, mishaps>>

\* The handler throws or answers 5xx, before or after what it had to do.
HandlerFails(r) ==
  LET u == runs[r].update IN
  /\ Mishap
  /\ RunAt(r, "handling")
  /\ \E n \in {0, 1} :
       handled' = [handled EXCEPT ![u] = IF @ = 2 THEN 2 ELSE @ + n]
  /\ excused' = excused \cup {u}
  /\ RunGoto(r, "failing")
  /\ UNCHANGED <<events, acked, disowned>>

\* completeProcessedEvent returns and the update is answered 200.
CompleteRun(r) ==
  /\ RunAt(r, "completing")
  /\ events' = Completed(runs[r].update)
  /\ acked' = acked \cup {runs[r].update}
  /\ RunEnds(r)
  /\ UNCHANGED <<intakeHistory, mishaps>>

\* The 200 does not reach Telegram, or completeProcessedEvent was stored and
\* threw (503): Telegram repeats an update that is done.
AnswerLost(r) ==
  /\ Mishap
  /\ RunAt(r, "completing")
  /\ events' = Completed(runs[r].update)
  /\ RunEnds(r)
  /\ UNCHANGED <<acked, intakeHistory>>

\* completeProcessedEvent throws and is not stored: 503.
CompletionFails(r) ==
  /\ Mishap
  /\ RunAt(r, "completing")
  /\ excused' = excused \cup {runs[r].update}
  /\ RunEnds(r)
  /\ UNCHANGED <<events, acked, handled, disowned>>

\* The row is not the run's own: it is done, or under a lease that runs while
\* the run's has lapsed.
Disowns(r) ==
  LET e == events[runs[r].update] IN
  runs[r].lease = 0 /\ (e.lease > 0 \/ e.status = "done")

\* failEventWithLog, and the answer 5xx.
FailRun(r) ==
  /\ RunAt(r, "failing")
  /\ events' = Failed(runs[r].update)
  /\ disowned' = IF Disowns(r) THEN disowned \cup {runs[r].update} ELSE disowned
  /\ RunEnds(r)
  /\ UNCHANGED <<acked, handled, excused, mishaps>>

\* failProcessedEvent throws, which is logged only.
FailureUnmarked(r) ==
  /\ Mishap
  /\ RunAt(r, "failing")
  /\ RunEnds(r)
  /\ UNCHANGED <<events, acked, intakeHistory>>

\* The invocation is lost: no answer, and the row stays as it is.
LoseRun(r) ==
  /\ Mishap
  /\ ~ RunAt(r, "idle")
  /\ excused' = excused \cup {runs[r].update}
  /\ RunEnds(r)
  /\ UNCHANGED <<events, acked, handled, disowned>>

\* Time passes; a run that is still at work when its lease lapses is slow.
LeaseTick ==
  /\ \E u \in Updates : events[u].lease > 0
  /\ events' = [u \in Updates |-> [events[u] EXCEPT
                  !.lease = IF @ > 0 THEN @ - 1 ELSE 0]]
  /\ runs' = [r \in Runs |-> [runs[r] EXCEPT
                !.lease = IF @ > 0 THEN @ - 1 ELSE 0]]
  /\ excused' = excused \cup
       {runs[r].update : r \in {r \in Runs : runs[r].lease = 1}}
  /\ UNCHANGED <<acked, handled, disowned, mishaps>>

\* A day later the row of an acknowledged update is old.
RowAges(u) ==
  /\ u \in acked
  /\ events[u].status # "none" /\ events[u].lease = 0 /\ ~ events[u].old
  /\ events' = [events EXCEPT ![u].old = TRUE]
  /\ UNCHANGED <<runs, acked, intakeHistory, mishaps>>

Repeat == \E r \in Runs, u \in Updates : Deliver(r, u)

Proceed(r) == HandlerEnds(r) \/ CompleteRun(r) \/ FailRun(r)

GoWrong ==
  \/ \E u \in Updates : ClaimLost(u)
  \/ \E r \in Runs : \/ HandlerFails(r) \/ AnswerLost(r) \/ CompletionFails(r)
                     \/ FailureUnmarked(r) \/ LoseRun(r)

IntakeNext ==
  \/ Repeat
  \/ \E r \in Runs : Proceed(r)
  \/ GoWrong
  \/ LeaseTick
  \/ \E u \in Updates : RowAges(u)

IntakeSpec == IntakeInit /\ [][IntakeNext]_intakeVars

\* Telegram repeats what is not acknowledged, workers go on, time passes.
IntakeFairness ==
  /\ \A u \in Updates : WF_intakeVars(\E r \in Runs : Deliver(r, u))
  /\ \A r \in Runs : WF_intakeVars(Proceed(r))
  /\ WF_intakeVars(LeaseTick)

-----------------------------------------------------------------------------
(* Correctness. *)

\* Every update is handled, and handled once.  Telegram is told to forget an
\* update only when its handler came to its end, never because a repetition
\* meets the claim of a run at work or the row that a failed or lost run left
\* behind; and without a failing, lost or slow run the handler comes to its
\* end once, however often the update is repeated, however its requests
\* overlap and whichever answer is lost (webhook.ts:150-200).
HandledOnce ==
  \A u \in Updates :
    /\ u \in acked => handled[u] > 0
    /\ handled[u] > 1 => u \in excused

\* Two runs are under a lease for the same update only if a slow run that
\* failed late, its own lease over, deleted the row of another run, at work or
\* done: failProcessedEvent (user-state.do.ts:717) does not ask who holds the
\* lease.  The deleted row is the only way to two runs at once.
LeaseKeepsApart ==
  \A q, r \in Runs :
    /\ q # r /\ runs[q].update = runs[r].update
    /\ runs[q].lease > 0 /\ runs[r].lease > 0
    => runs[q].update \in disowned

\* With finitely many failures every update is acknowledged in the end.
UpdatesSettle == \A u \in Updates : <>(u \in acked)
=============================================================================
