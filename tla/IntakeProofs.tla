---------------------------- MODULE IntakeProofs ----------------------------
(***************************************************************************)
(* Proofs about the way in: the claims of the webhook on its updates, the  *)
(* account a person comes to, the statistics both leave behind, and the    *)
(* three of them beside the unread inboxes.                                *)
(***************************************************************************)
EXTENDS MCUnreadInbox, UnreadInboxProofs, SequenceTheorems

(***************************************************************************)
(* Proofs about the webhook's claims, for any number of updates and of     *)
(* requests at work, any lease and any number of failures.  A request      *)
(* within its lease finds its row "processing" under a lease at least as   *)
(* long, or done (Covered), so that nobody else is given the update; for   *)
(* an update none of whose requests failed or was slow, the row, the       *)
(* request at work and the count of handlers agree (Once).                 *)
(***************************************************************************)

Event == [status : {"none", "processing", "done"},
          lease : 0..UPDATE_CLAIM_LEASE, old : BOOLEAN]
Run == [pc : {"idle", "handling", "completing", "failing"},
        update : Updates \cup {NoUpdate}, lease : 0..UPDATE_CLAIM_LEASE]

Works(r) == runs[r].pc # "idle"

\* An idle request has no update; a row is old only of an acknowledged update.
Sound ==
  /\ \A r \in Runs : Works(r) => runs[r].update \in Updates
  /\ \A r \in Runs : ~ Works(r) => runs[r].update = NoUpdate /\ runs[r].lease = 0
  /\ \A u \in Updates : events[u].old => u \in acked

\* Whoever says that an update is handled is right.
Handled ==
  /\ \A r \in Runs : runs[r].pc = "completing" => handled[runs[r].update] > 0
  /\ \A u \in Updates : events[u].status = "done" \/ u \in acked => handled[u] > 0

\* A request within its lease is alone with its update, and the row says so.
Covered ==
  \A r \in Runs : runs[r].lease > 0 =>
    LET u == runs[r].update IN
    u \notin disowned =>
      /\ \/ u \in acked
         \/ events[u].status = "processing" /\ runs[r].lease <= events[u].lease
         \/ events[u].status = "done"
      /\ \A q \in Runs : runs[q].update = u /\ runs[q].lease > 0 => q = r

\* The one request at work on update u, and what is left when it has ended.
AtWorkOn(r, u) ==
  /\ runs[r].pc = (IF handled[u] = 0 THEN "handling" ELSE "completing")
  /\ runs[r].lease > 0
  /\ events[u].status = "processing" /\ runs[r].lease <= events[u].lease
  /\ u \notin acked
  /\ \A q \in Runs : runs[q].update = u => q = r

Once ==
  \A u \in Updates \ excused :
    /\ handled[u] <= 1
    /\ \A r \in Runs : runs[r].update = u => AtWorkOn(r, u)
    /\ handled[u] = 1 => \/ u \in acked \/ events[u].status = "done"
                         \/ \E r \in Runs : runs[r].update = u

IntakeInv == IntakeTypeOK /\ Sound /\ Handled /\ Covered /\ Once

-----------------------------------------------------------------------------
LEMMA Types ==
  ASSUME IntakeInv
  PROVE  /\ events \in [Updates -> Event] /\ runs \in [Runs -> Run]
         /\ acked \subseteq Updates /\ handled \in [Updates -> 0..2]
         /\ excused \subseteq Updates /\ disowned \subseteq Updates
         /\ mishaps \in 0..MaxMishaps
         /\ Sound /\ Handled /\ Covered /\ Once
BY DEF IntakeInv, IntakeTypeOK, Event, Run

LEMMA IntakeTypes ==
  ASSUME events' \in [Updates -> Event], runs' \in [Runs -> Run],
         acked' \subseteq Updates, handled' \in [Updates -> 0..2],
         excused' \subseteq Updates, disowned' \subseteq Updates,
         mishaps' \in 0..MaxMishaps
  PROVE  IntakeTypeOK'
BY DEF IntakeTypeOK, Event, Run

LEMMA Constants ==
  /\ NoEvent \in Event /\ NoEvent.status = "none" /\ NoEvent.lease = 0 /\ ~ NoEvent.old
  /\ Claimed \in Event /\ Claimed.status = "processing"
  /\ Claimed.lease = UPDATE_CLAIM_LEASE /\ ~ Claimed.old
  /\ Done \in Event /\ Done.status = "done" /\ Done.lease = 0 /\ ~ Done.old
  /\ IdleRun \in Run /\ IdleRun.pc = "idle" /\ IdleRun.update = NoUpdate
  /\ IdleRun.lease = 0
  /\ NoUpdate \notin Updates /\ UPDATE_CLAIM_LEASE \in Nat /\ UPDATE_CLAIM_LEASE > 0
BY IntakeAssumption DEF NoEvent, Claimed, Done, IdleRun, Event, Run

LEMMA MishapType ==
  ASSUME IntakeInv, Mishap
  PROVE  mishaps' \in 0..MaxMishaps
BY Types, IntakeAssumption DEF Mishap

\* The cleanup of a claim removes rows of acknowledged updates only.
LEMMA CleanedUpKeeps ==
  ASSUME IntakeInv, NEW es \in CleanedUp
  PROVE  /\ es \in [Updates -> Event]
         /\ \A u \in Updates : es[u] = events[u] \/ (es[u] = NoEvent /\ u \in acked)
<1>1. PICK D \in SUBSET {u \in Updates : events[u].old} :
        es = [u \in Updates |-> IF u \in D THEN NoEvent ELSE events[u]]
  BY DEF CleanedUp
<1> QED BY <1>1, Types, Constants DEF Sound

\* A row that may be claimed belongs to no request within its lease, and to an
\* update that was not handled, unless one of its requests failed or was slow.
LEMMA AcquiredIsFree ==
  ASSUME IntakeInv, NEW u \in Updates, u \notin acked, ClaimState(events[u]) = "acquired"
  PROVE  /\ \A r \in Runs : runs[r].update = u /\ runs[r].lease > 0 => u \in disowned
         /\ u \notin excused => /\ handled[u] = 0
                                /\ \A r \in Runs : runs[r].update # u
<1>1. /\ events[u].status # "done"
      /\ ~ (events[u].status = "processing" /\ events[u].lease > 0)
  BY Types DEF Sound, ClaimState
<1>2. ASSUME NEW r \in Runs, runs[r].update = u, runs[r].lease > 0
      PROVE  u \in disowned
  BY <1>1, <1>2, Types DEF Covered, Run, Event
<1>3. ASSUME u \notin excused
      PROVE  handled[u] = 0 /\ \A r \in Runs : runs[r].update # u
  <2>1. \A r \in Runs : runs[r].update # u
    BY <1>1, <1>3, Types DEF Once, AtWorkOn, Run, Event
  <2> QED BY <1>1, <1>3, <2>1, Types DEF Once
<1> QED BY <1>2, <1>3

-----------------------------------------------------------------------------
(* Steps that only end a request, or move it on. *)

\* A request ends; rows and acknowledgements change as its end says.
LEMMA EndKeeps ==
  ASSUME IntakeInv, NEW r \in Runs, RunEnds(r), Works(r),
         acked \subseteq acked', acked' \subseteq acked \cup {runs[r].update},
         handled' = handled, excused \subseteq excused', disowned \subseteq disowned',
         \A u \in Updates \ {runs[r].update} : events'[u] = events[u],
         \/ /\ events' = events
            /\ acked' = acked
            /\ runs[r].update \in excused'
         \/ /\ events' = Completed(runs[r].update)
            /\ runs[r].pc = "completing"
         \/ /\ events' = Failed(runs[r].update)
            /\ acked' = acked
            /\ runs[r].pc = "failing"
            /\ Disowns(r) => runs[r].update \in disowned',
         excused' \subseteq Updates, disowned' \subseteq Updates,
         mishaps' \in 0..MaxMishaps
  PROVE  IntakeInv'
<1> DEFINE v == runs[r].update
<1>1. /\ v \in Updates /\ runs' = [runs EXCEPT ![r] = IdleRun]
      /\ runs'[r] = IdleRun /\ \A q \in Runs \ {r} : runs'[q] = runs[q]
  BY Types DEF RunEnds, Sound
<1>2. /\ events' \in [Updates -> Event]
      /\ events'[v] \in {events[v], Done, NoEvent}
  BY <1>1, Types, Constants DEF Completed, Failed
<1>3. IntakeTypeOK'
  BY <1>1, <1>2, Types, Constants, IntakeTypes
<1>4. \A q \in Runs : runs'[q].pc # "idle" \/ runs'[q].lease > 0 \/ runs'[q].update # NoUpdate
                      => q # r /\ runs'[q] = runs[q]
  BY <1>1, Constants
<1>5. Sound'
  <2>1. \A q \in Runs : /\ runs'[q].pc # "idle" => runs'[q].update \in Updates
                        /\ ~ (runs'[q].pc # "idle") =>
                             runs'[q].update = NoUpdate /\ runs'[q].lease = 0
    BY <1>1, Types, Constants DEF Sound, Works
  <2>2. \A u \in Updates : events'[u].old => events[u].old
    BY <1>2, Constants
  <2> QED BY <2>1, <2>2, Types DEF Sound, Works
<1>6. Handled'
  <2>1. runs[r].pc = "completing" => handled[v] > 0
    BY Types DEF Handled
  <2>2. v \in acked' => handled[v] > 0
    <3>1. acked' = acked \/ runs[r].pc = "completing"
      OBVIOUS
    <3> QED BY <1>1, <2>1, <3>1, Types DEF Handled
  <2>3. events'[v].status = "done" => handled[v] > 0
    BY <1>1, <2>1, Types, Constants DEF Handled, Completed, Failed
  <2>4. \A u \in Updates : events'[u].status = "done" \/ u \in acked' => handled[u] > 0
    BY <2>2, <2>3, Types DEF Handled
  <2>5. \A q \in Runs : runs'[q].pc = "completing" => handled[runs'[q].update] > 0
    BY <1>4, Types DEF Handled
  <2> QED BY <2>4, <2>5 DEF Handled
<1>7. Covered'
  <2> SUFFICES ASSUME NEW q \in Runs, runs'[q].lease > 0, runs'[q].update \notin disowned'
               PROVE  LET u == runs'[q].update IN
                      /\ \/ u \in acked'
                         \/ /\ events'[u].status = "processing"
                            /\ runs'[q].lease <= events'[u].lease
                         \/ events'[u].status = "done"
                      /\ \A p \in Runs : runs'[p].update = u /\ runs'[p].lease > 0 => p = q
    BY DEF Covered
  <2> DEFINE u == runs[q].update
  <2>1. q # r /\ runs'[q] = runs[q] /\ runs[q].lease > 0 /\ u \notin disowned
    BY <1>4
  <2>2. /\ \/ u \in acked
           \/ events[u].status = "processing" /\ runs[q].lease <= events[u].lease
           \/ events[u].status = "done"
        /\ \A p \in Runs : runs[p].update = u /\ runs[p].lease > 0 => p = q
    BY <2>1, Types DEF Covered
  <2>3. u \in Updates
    BY <2>1, Types DEF Sound, Run
  <2>4. \A p \in Runs : runs'[p].update = u /\ runs'[p].lease > 0 => p = q
    BY <1>4, <2>2
  <2>5. CASE u # v
    BY <2>1, <2>2, <2>3, <2>4, <2>5
  <2>6. CASE u = v
    <3>1. ~ (runs[r].lease > 0) /\ runs[r].lease = 0
      BY <2>1, <2>2, <2>6, Types DEF Run
    <3>2. CASE events' = events
      BY <2>1, <2>2, <2>4, <3>2
    <3>3. CASE events' = Completed(v)
      BY <1>1, <2>1, <2>2, <2>4, <2>6, <3>3, Types, Constants DEF Completed
    <3>4. CASE events' = Failed(v) /\ (Disowns(r) => v \in disowned')
      <4>1. ~ Disowns(r)
        BY <2>1, <2>6, <3>4
      <4>2. u \in acked
        BY <1>1, <2>1, <2>2, <2>3, <2>6, <3>1, <4>1, Types DEF Disowns, Event, Run
      <4> QED BY <2>1, <2>4, <4>2
    <3> QED BY <3>2, <3>3, <3>4
  <2> QED BY <2>1, <2>5, <2>6
<1>8. Once'
  <2> SUFFICES ASSUME NEW u \in Updates, u \notin excused'
               PROVE  /\ handled'[u] <= 1
                      /\ \A q \in Runs : runs'[q].update = u => AtWorkOn(q, u)'
                      /\ handled'[u] = 1 =>
                           \/ u \in acked' \/ events'[u].status = "done"
                           \/ \E q \in Runs : runs'[q].update = u
    BY DEF Once
  <2>1. /\ handled[u] <= 1
        /\ \A q \in Runs : runs[q].update = u => AtWorkOn(q, u)
        /\ handled[u] = 1 => \/ u \in acked \/ events[u].status = "done"
                             \/ \E q \in Runs : runs[q].update = u
    BY Types DEF Once
  <2>2. CASE u # v
    <3>1. \A q \in Runs : runs'[q].update = u <=> runs[q].update = u
      BY <1>1, <2>2, Constants
    <3>2. events'[u] = events[u] /\ (u \in acked' <=> u \in acked)
      BY <2>2
    <3>3. \A q \in Runs : runs[q].update = u => q # r
      BY <2>2
    <3> QED BY <1>1, <2>1, <3>1, <3>2, <3>3 DEF AtWorkOn
  <2>3. CASE u = v
    <3>1. AtWorkOn(r, u) /\ \A q \in Runs : runs'[q].update # u
      BY <1>1, <2>1, <2>3, Constants DEF AtWorkOn
    <3>2. events' = Completed(v) /\ events[u].status = "processing"
      BY <2>3, <3>1 DEF AtWorkOn
    <3>3. events'[u].status = "done"
      BY <1>1, <2>3, <3>2, Types, Constants DEF Completed
    <3> QED BY <2>1, <3>1, <3>3
  <2> QED BY <2>2, <2>3
<1> QED BY <1>3, <1>5, <1>6, <1>7, <1>8 DEF IntakeInv

LEMMA EndsKeep ==
  ASSUME IntakeInv, NEW r \in Runs,
         \/ CompleteRun(r) \/ AnswerLost(r) \/ CompletionFails(r)
         \/ FailRun(r) \/ FailureUnmarked(r) \/ LoseRun(r)
  PROVE  IntakeInv'
<1>1. CASE CompleteRun(r)
  <2>1. Works(r) /\ runs[r].update \in Updates
    BY <1>1, Types DEF CompleteRun, RunAt, Works, Sound
  <2>2. \A u \in Updates \ {runs[r].update} : events'[u] = events[u]
    BY <1>1, Types DEF CompleteRun, Completed
  <2> QED BY <1>1, <2>1, <2>2, EndKeeps, Types DEF CompleteRun, RunAt, intakeHistory
<1>2. CASE AnswerLost(r)
  <2>1. Works(r)
    BY <1>2 DEF AnswerLost, RunAt, Works
  <2>2. mishaps' \in 0..MaxMishaps
    BY <1>2, MishapType DEF AnswerLost
  <2>3. \A u \in Updates \ {runs[r].update} : events'[u] = events[u]
    BY <1>2, Types DEF AnswerLost, Completed
  <2> QED BY <1>2, <2>1, <2>2, <2>3, EndKeeps, Types DEF AnswerLost, RunAt, intakeHistory
<1>3. CASE CompletionFails(r)
  <2>1. Works(r) /\ runs[r].update \in Updates
    BY <1>3, Types DEF CompletionFails, RunAt, Works, Sound
  <2>2. mishaps' \in 0..MaxMishaps
    BY <1>3, MishapType DEF CompletionFails
  <2> QED BY <1>3, <2>1, <2>2, EndKeeps, Types DEF CompletionFails, RunAt
<1>4. CASE FailRun(r)
  <2>1. Works(r) /\ runs[r].update \in Updates /\ runs[r].pc = "failing"
    BY <1>4, Types DEF FailRun, RunAt, Works, Sound
  <2>2. /\ disowned' \subseteq Updates /\ disowned \subseteq disowned'
        /\ Disowns(r) => runs[r].update \in disowned'
    BY <1>4, <2>1, Types DEF FailRun
  <2>3. \A u \in Updates \ {runs[r].update} : events'[u] = events[u]
    BY <1>4, Types DEF FailRun, Failed
  <2> QED BY <1>4, <2>1, <2>2, <2>3, EndKeeps, Types DEF FailRun
<1>5. CASE FailureUnmarked(r)
  <2>1. Works(r) /\ runs[r].update \in Updates
    BY <1>5, Types DEF FailureUnmarked, RunAt, Works, Sound
  <2>2. runs[r].update \in excused
    BY <1>5, <2>1, Types DEF FailureUnmarked, RunAt, Once, AtWorkOn
  <2>3. mishaps' \in 0..MaxMishaps
    BY <1>5, MishapType DEF FailureUnmarked
  <2> QED BY <1>5, <2>1, <2>2, <2>3, EndKeeps, Types DEF FailureUnmarked, intakeHistory
<1>6. CASE LoseRun(r)
  <2>1. Works(r) /\ runs[r].update \in Updates
    BY <1>6, Types DEF LoseRun, RunAt, Works, Sound
  <2>2. mishaps' \in 0..MaxMishaps
    BY <1>6, MishapType DEF LoseRun
  <2> QED BY <1>6, <2>1, <2>2, EndKeeps, Types DEF LoseRun
<1> QED BY <1>1, <1>2, <1>3, <1>4, <1>5, <1>6

\* The handler comes to its end, well or not.
LEMMA HandlerKeeps ==
  ASSUME IntakeInv, NEW r \in Runs, HandlerEnds(r) \/ HandlerFails(r)
  PROVE  IntakeInv'
<1> DEFINE v == runs[r].update
<1>1. /\ runs[r].pc = "handling" /\ v \in Updates
      /\ \E pc \in {"completing", "failing"} : runs' = [runs EXCEPT ![r].pc = pc]
      /\ events' = events /\ acked' = acked /\ disowned' = disowned
      /\ excused \subseteq excused' /\ excused' \subseteq Updates
      /\ mishaps' \in 0..MaxMishaps
  BY Types, MishapType DEF HandlerEnds, HandlerFails, RunAt, RunGoto, Sound, Works
<1>2. /\ runs' \in [Runs -> Run]
      /\ \A q \in Runs : /\ runs'[q].update = runs[q].update
                         /\ runs'[q].lease = runs[q].lease
                         /\ (runs'[q].pc # "idle") <=> (runs[q].pc # "idle")
                         /\ q # r => runs'[q] = runs[q]
      /\ runs'[r].pc \in {"completing", "failing"}
  <2>1. PICK pc \in {"completing", "failing"} : runs' = [runs EXCEPT ![r].pc = pc]
    BY <1>1
  <2> QED BY <1>1, <2>1, Types DEF Run
<1>3. /\ handled' \in [Updates -> 0..2]
      /\ \A u \in Updates : handled'[u] >= handled[u] /\ (u # v => handled'[u] = handled[u])
      /\ runs'[r].pc = "completing" =>
           handled'[v] > 0 /\ (handled[v] = 0 => handled'[v] = 1)
  <2>1. CASE HandlerEnds(r)
    BY <1>1, <2>1, Types DEF HandlerEnds
  <2>2. CASE HandlerFails(r)
    <3>1. runs'[r].pc = "failing"
      BY <2>2, Types DEF HandlerFails, RunGoto, Run
    <3>2. PICK n \in {0, 1} :
            handled' = [handled EXCEPT ![v] = IF @ = 2 THEN 2 ELSE @ + n]
      BY <2>2 DEF HandlerFails
    <3> QED BY <1>1, <3>1, <3>2, Types
  <2> QED BY <2>1, <2>2
<1>4. runs'[r].pc = "failing" => v \in excused'
  <2>1. CASE HandlerEnds(r)
    BY <2>1, Types DEF HandlerEnds, RunGoto, Run
  <2>2. CASE HandlerFails(r)
    BY <2>2 DEF HandlerFails
  <2> QED BY <2>1, <2>2
<1>5. IntakeTypeOK'
  BY <1>1, <1>2, <1>3, Types, IntakeTypes
<1>6. Sound'
  BY <1>1, <1>2, Types DEF Sound, Works
<1>7. Handled'
  <2>1. \A u \in Updates : events'[u].status = "done" \/ u \in acked' => handled'[u] > 0
    BY <1>1, <1>3, Types DEF Handled
  <2>2. ASSUME NEW q \in Runs, runs'[q].pc = "completing"
        PROVE  handled'[runs'[q].update] > 0
    <3>1. CASE q = r
      BY <1>2, <1>3, <2>2, <3>1
    <3>2. CASE q # r
      <4>1. runs[q].pc = "completing" /\ runs'[q].update = runs[q].update
        BY <1>2, <2>2, <3>2
      <4>2. runs[q].update \in Updates
        BY <4>1, Types DEF Sound, Works
      <4>3. handled[runs[q].update] > 0
        BY <4>1, Types DEF Handled
      <4> QED BY <1>3, <4>1, <4>2, <4>3, Types
    <3> QED BY <3>1, <3>2
  <2> QED BY <2>1, <2>2 DEF Handled
<1>8. Covered'
  BY <1>1, <1>2, Types DEF Covered
<1>9. Once'
  <2> SUFFICES ASSUME NEW u \in Updates, u \notin excused'
               PROVE  /\ handled'[u] <= 1
                      /\ \A q \in Runs : runs'[q].update = u => AtWorkOn(q, u)'
                      /\ handled'[u] = 1 =>
                           \/ u \in acked' \/ events'[u].status = "done"
                           \/ \E q \in Runs : runs'[q].update = u
    BY DEF Once
  <2>1. /\ handled[u] <= 1
        /\ \A q \in Runs : runs[q].update = u => AtWorkOn(q, u)
        /\ handled[u] = 1 => \/ u \in acked \/ events[u].status = "done"
                             \/ \E q \in Runs : runs[q].update = u
    BY <1>1, Types DEF Once
  <2>2. CASE u # v
    <3>1. \A q \in Runs : runs[q].update = u => runs'[q] = runs[q]
      BY <1>2, <2>2
    <3> QED BY <1>1, <1>2, <1>3, <2>1, <2>2, <3>1 DEF AtWorkOn
  <2>3. CASE u = v
    <3>1. AtWorkOn(r, u) /\ handled[u] = 0 /\ handled[u] \in 0..2
      BY <1>1, <2>1, <2>3, Types DEF AtWorkOn
    <3>2. runs'[r].pc = "completing" /\ handled'[u] = 1
      BY <1>2, <1>3, <1>4, <2>3, <3>1
    <3>3. \A q \in Runs : runs'[q].update = u => q = r
      BY <1>2, <3>1 DEF AtWorkOn
    <3>4. AtWorkOn(r, u)'
      BY <1>1, <1>2, <3>1, <3>2, <3>3 DEF AtWorkOn
    <3> QED BY <1>2, <2>3, <3>2, <3>3, <3>4
  <2> QED BY <2>2, <2>3
<1> QED BY <1>5, <1>6, <1>7, <1>8, <1>9 DEF IntakeInv

-----------------------------------------------------------------------------
(* Claims. *)

\* A claim that starts no request: done, still at work, or lost.
LEMMA ClaimedKeeps ==
  ASSUME IntakeInv, NEW u \in Updates, u \notin acked, NEW es \in CleanedUp,
         \/ events' = es /\ (acked' = acked \/ (acked' = acked \cup {u} /\ es[u].status = "done"))
         \/ /\ ClaimState(events[u]) = "acquired"
            /\ events' = [es EXCEPT ![u] = Claimed] /\ acked' = acked,
         runs' = runs, handled' = handled, excused' = excused, disowned' = disowned,
         mishaps' \in 0..MaxMishaps
  PROVE  IntakeInv'
<1>1. /\ es \in [Updates -> Event]
      /\ \A w \in Updates : es[w] = events[w] \/ (es[w] = NoEvent /\ w \in acked)
      /\ es[u] = events[u]
  BY CleanedUpKeeps
<1>2. /\ events' \in [Updates -> Event] /\ acked' \subseteq Updates /\ acked \subseteq acked'
      /\ \A w \in Updates \ {u} : /\ events'[w] = events[w] \/ (events'[w] = NoEvent /\ w \in acked)
                                  /\ w \in acked' <=> w \in acked
      /\ \/ events'[u] = events[u]
         \/ events'[u] = Claimed /\ ClaimState(events[u]) = "acquired" /\ acked' = acked
      /\ u \in acked' => events'[u].status = "done" /\ events[u].status = "done"
  BY <1>1, Types, Constants
<1>3. IntakeTypeOK'
  BY <1>2, Types, IntakeTypes
<1>4. Sound'
  BY <1>2, Types, Constants DEF Sound, Works
<1>5. Handled'
  <2>1. \A w \in Updates : events'[w].status = "done" \/ w \in acked' => handled[w] > 0
    BY <1>2, Types, Constants DEF Handled
  <2> QED BY <2>1, Types DEF Handled
<1>6. Covered'
  <2> SUFFICES ASSUME NEW q \in Runs, runs[q].lease > 0, runs[q].update \notin disowned
               PROVE  LET w == runs[q].update IN
                      /\ \/ w \in acked'
                         \/ events'[w].status = "processing" /\ runs[q].lease <= events'[w].lease
                         \/ events'[w].status = "done"
                      /\ \A p \in Runs : runs[p].update = w /\ runs[p].lease > 0 => p = q
    BY DEF Covered
  <2> DEFINE w == runs[q].update
  <2>1. /\ \/ w \in acked
           \/ events[w].status = "processing" /\ runs[q].lease <= events[w].lease
           \/ events[w].status = "done"
        /\ \A p \in Runs : runs[p].update = w /\ runs[p].lease > 0 => p = q
    BY Types DEF Covered
  <2>2. w \in Updates
    BY Types DEF Sound, Run
  <2>3. w = u => events'[w] = events[w]
    BY <1>2, AcquiredIsFree
  <2>4. w \in acked' \/ events'[w] = events[w]
    BY <1>2, <2>2, <2>3
  <2> QED BY <1>2, <2>1, <2>4
<1>7. Once'
  <2> SUFFICES ASSUME NEW w \in Updates, w \notin excused
               PROVE  /\ handled[w] <= 1
                      /\ \A q \in Runs : runs[q].update = w => AtWorkOn(q, w)'
                      /\ handled[w] = 1 =>
                           \/ w \in acked' \/ events'[w].status = "done"
                           \/ \E q \in Runs : runs[q].update = w
    BY DEF Once
  <2>1. /\ handled[w] <= 1
        /\ \A q \in Runs : runs[q].update = w => AtWorkOn(q, w)
        /\ handled[w] = 1 => \/ w \in acked \/ events[w].status = "done"
                             \/ \E q \in Runs : runs[q].update = w
    BY Types DEF Once
  <2>2. ASSUME NEW q \in Runs, runs[q].update = w
        PROVE  AtWorkOn(q, w)'
    <3>1. AtWorkOn(q, w)
      BY <2>1, <2>2
    <3>2. events'[w] = events[w] /\ w \notin acked'
      <4>1. CASE w # u
        BY <1>2, <3>1, <4>1 DEF AtWorkOn
      <4>2. CASE w = u
        <5>1. ClaimState(events[u]) # "acquired"
          BY <2>2, <4>2, AcquiredIsFree
        <5> QED BY <1>2, <3>1, <4>2, <5>1 DEF AtWorkOn
      <4> QED BY <4>1, <4>2
    <3> QED BY <3>1, <3>2 DEF AtWorkOn
  <2>3. ASSUME handled[w] = 1
        PROVE  \/ w \in acked' \/ events'[w].status = "done"
               \/ \E q \in Runs : runs[q].update = w
    <3>1. CASE w # u
      BY <1>2, <2>1, <2>3, <3>1, Constants
    <3>2. CASE w = u
      <4>1. ClaimState(events[u]) # "acquired"
        BY <2>3, <3>2, AcquiredIsFree
      <4> QED BY <1>2, <2>1, <2>3, <3>2, <4>1
    <3> QED BY <3>1, <3>2
  <2> QED BY <2>1, <2>2, <2>3
<1> QED BY <1>3, <1>4, <1>5, <1>6, <1>7 DEF IntakeInv

\* A claim that starts a request.
LEMMA StartKeeps ==
  ASSUME IntakeInv, NEW r \in Runs, NEW u \in Updates, NEW es \in CleanedUp,
         u \notin acked, ~ Works(r), ClaimState(es[u]) = "acquired",
         events' = [es EXCEPT ![u] = Claimed],
         runs' = [runs EXCEPT ![r] = [pc |-> "handling", update |-> u,
                                      lease |-> UPDATE_CLAIM_LEASE]],
         UNCHANGED <<acked, intakeHistory, mishaps>>
  PROVE  IntakeInv'
<1>1. /\ es \in [Updates -> Event]
      /\ \A w \in Updates : es[w] = events[w] \/ (es[w] = NoEvent /\ w \in acked)
      /\ es[u] = events[u]
  BY CleanedUpKeeps
<1>2. /\ events' \in [Updates -> Event] /\ events'[u] = Claimed
      /\ \A w \in Updates \ {u} : events'[w] = events[w] \/ (events'[w] = NoEvent /\ w \in acked)
  BY <1>1, Types, Constants
<1> DEFINE run == [pc |-> "handling", update |-> u, lease |-> UPDATE_CLAIM_LEASE]
<1>3. /\ runs' \in [Runs -> Run] /\ runs'[r] = run
      /\ \A q \in Runs \ {r} : runs'[q] = runs[q]
  <2>1. run \in Run
    BY Constants DEF Run
  <2> QED BY <2>1, Types
<1>4. acked' = acked /\ handled' = handled /\ excused' = excused /\ disowned' = disowned
      /\ mishaps' = mishaps
  BY DEF intakeHistory
<1>5. /\ \A q \in Runs : runs[q].update = u /\ runs[q].lease > 0 => u \in disowned
      /\ u \notin excused => handled[u] = 0 /\ \A q \in Runs : runs[q].update # u
  BY <1>1, AcquiredIsFree
<1>6. runs[r].update = NoUpdate /\ runs[r].lease = 0
  BY Types DEF Sound
<1>7. IntakeTypeOK'
  BY <1>2, <1>3, <1>4, Types, IntakeTypes
<1>8. Sound'
  <2>1. \A q \in Runs : /\ runs'[q].pc # "idle" => runs'[q].update \in Updates
                        /\ ~ (runs'[q].pc # "idle") =>
                             runs'[q].update = NoUpdate /\ runs'[q].lease = 0
    BY <1>3, Types DEF Sound, Works
  <2>2. \A w \in Updates : events'[w].old => events[w].old
    BY <1>2, Constants
  <2> QED BY <1>4, <2>1, <2>2, Types DEF Sound, Works
<1>9. Handled'
  <2>1. \A q \in Runs : runs'[q].pc = "completing" => runs'[q] = runs[q]
    BY <1>3
  <2>2. \A w \in Updates : events'[w].status = "done" => events'[w] = events[w]
    BY <1>2, Constants
  <2> QED BY <1>4, <2>1, <2>2, Types DEF Handled
<1>10. Covered'
  <2> SUFFICES ASSUME NEW q \in Runs, runs'[q].lease > 0, runs'[q].update \notin disowned
               PROVE  LET w == runs'[q].update IN
                      /\ \/ w \in acked
                         \/ events'[w].status = "processing" /\ runs'[q].lease <= events'[w].lease
                         \/ events'[w].status = "done"
                      /\ \A p \in Runs : runs'[p].update = w /\ runs'[p].lease > 0 => p = q
    BY <1>4 DEF Covered
  <2>1. CASE q = r
    <3>1. runs'[q] = run
      BY <1>3, <2>1
    <3>2. runs'[q].update = u /\ runs'[q].lease = UPDATE_CLAIM_LEASE
      BY <3>1
    <3>3. events'[u].status = "processing" /\ runs'[q].lease <= events'[u].lease
      BY <1>2, <3>2, Constants
    <3>4. \A p \in Runs : runs'[p].update = u /\ runs'[p].lease > 0 => p = q
      BY <1>3, <1>5, <2>1, <3>2
    <3> QED BY <3>2, <3>3, <3>4
  <2>2. CASE q # r
    <3>1. runs'[q] = runs[q]
      BY <1>3, <2>2
    <3>2. runs[q].update # u /\ runs[q].update \in Updates
      BY <1>5, <3>1, Types DEF Sound, Run
    <3>3. /\ \/ runs[q].update \in acked
             \/ /\ events[runs[q].update].status = "processing"
                /\ runs[q].lease <= events[runs[q].update].lease
             \/ events[runs[q].update].status = "done"
          /\ \A p \in Runs : runs[p].update = runs[q].update /\ runs[p].lease > 0 => p = q
      BY <3>1, Types DEF Covered
    <3>4. runs[q].update \in acked \/ events'[runs[q].update] = events[runs[q].update]
      BY <1>2, <3>2
    <3>5. \A p \in Runs : runs'[p].update = runs[q].update /\ runs'[p].lease > 0 => p = q
      BY <1>3, <3>2, <3>3
    <3> QED BY <3>1, <3>3, <3>4, <3>5
  <2> QED BY <2>1, <2>2
<1>11. Once'
  <2> SUFFICES ASSUME NEW w \in Updates, w \notin excused
               PROVE  /\ handled[w] <= 1
                      /\ \A q \in Runs : runs'[q].update = w => AtWorkOn(q, w)'
                      /\ handled[w] = 1 =>
                           \/ w \in acked \/ events'[w].status = "done"
                           \/ \E q \in Runs : runs'[q].update = w
    BY <1>4 DEF Once
  <2>1. /\ handled[w] <= 1
        /\ \A q \in Runs : runs[q].update = w => AtWorkOn(q, w)
        /\ handled[w] = 1 => \/ w \in acked \/ events[w].status = "done"
                             \/ \E q \in Runs : runs[q].update = w
    BY Types DEF Once
  <2>2. CASE w = u
    <3>1. handled[u] = 0 /\ \A q \in Runs : runs'[q].update = u => q = r
      BY <1>3, <1>5, <2>2
    <3>2. runs'[r].pc = "handling" /\ runs'[r].lease = UPDATE_CLAIM_LEASE
      BY <1>3
    <3>3. AtWorkOn(r, u)'
      BY <1>2, <1>4, <3>1, <3>2, Constants DEF AtWorkOn
    <3> QED BY <2>2, <3>1, <3>3
  <2>3. CASE w # u
    <3>1. \A q \in Runs : runs'[q].update = w <=> runs[q].update = w
      BY <1>3, <1>6, <2>3, Constants
    <3>2. \A q \in Runs : runs[q].update = w => q # r
      BY <1>6, Constants
    <3>3. events'[w] = events[w] \/ w \in acked
      BY <1>2, <2>3
    <3> QED BY <1>3, <1>4, <2>1, <3>1, <3>2, <3>3 DEF AtWorkOn
  <2> QED BY <2>2, <2>3
<1> QED BY <1>7, <1>8, <1>9, <1>10, <1>11 DEF IntakeInv

LEMMA DeliverKeeps ==
  ASSUME IntakeInv, NEW r \in Runs, NEW u \in Updates, Deliver(r, u)
  PROVE  IntakeInv'
<1>1. PICK es \in CleanedUp :
        CASE ClaimState(es[u]) = "done" ->
               /\ events' = es
               /\ acked' = acked \cup {u}
               /\ UNCHANGED runs
          [] ClaimState(es[u]) = "processing" ->
               events' = es /\ UNCHANGED <<acked, runs>>
          [] OTHER ->
               /\ events' = [es EXCEPT ![u] = Claimed]
               /\ runs' = [runs EXCEPT ![r] =
                    [pc |-> "handling", update |-> u, lease |-> UPDATE_CLAIM_LEASE]]
               /\ UNCHANGED acked
  BY DEF Deliver
<1>2. /\ ~ Works(r) /\ u \notin acked
      /\ handled' = handled /\ excused' = excused /\ disowned' = disowned
      /\ mishaps' = mishaps /\ mishaps' \in 0..MaxMishaps
  BY Types DEF Deliver, RunAt, Works, intakeHistory
<1>3. ClaimState(es[u]) \in {"done", "processing", "acquired"}
  BY DEF ClaimState
<1>4. CASE ClaimState(es[u]) = "done"
  <2>1. es[u].status = "done"
    BY <1>4 DEF ClaimState
  <2> QED BY <1>1, <1>2, <1>4, <2>1, ClaimedKeeps
<1>5. CASE ClaimState(es[u]) = "processing"
  BY <1>1, <1>2, <1>5, ClaimedKeeps
<1>6. CASE ClaimState(es[u]) = "acquired"
  BY <1>1, <1>2, <1>6, StartKeeps DEF intakeHistory
<1> QED BY <1>3, <1>4, <1>5, <1>6

LEMMA ClaimLostKeeps ==
  ASSUME IntakeInv, NEW u \in Updates, ClaimLost(u)
  PROVE  IntakeInv'
<1>1. PICK es \in CleanedUp : events' = [es EXCEPT ![u] = Claimed]
  BY DEF ClaimLost
<1>2. mishaps' \in 0..MaxMishaps
  BY MishapType DEF ClaimLost
<1> QED BY <1>1, <1>2, ClaimedKeeps DEF ClaimLost, intakeHistory

-----------------------------------------------------------------------------
(* Time. *)

Less(n) == IF n > 0 THEN n - 1 ELSE 0

LEMMA LessType ==
  ASSUME NEW n \in 0..UPDATE_CLAIM_LEASE
  PROVE  /\ Less(n) \in 0..UPDATE_CLAIM_LEASE
         /\ Less(n) > 0 => n > 0
         /\ n > 0 /\ n # 1 => Less(n) > 0
         /\ \A m \in 0..UPDATE_CLAIM_LEASE : n <= m => Less(n) <= Less(m)
BY Constants DEF Less

\* Leases run down together; who loses the lease at work is slow.
LEMMA LeaseTickKeeps ==
  ASSUME IntakeInv, LeaseTick
  PROVE  IntakeInv'
<1>1. /\ events' = [u \in Updates |-> [events[u] EXCEPT !.lease = Less(@)]]
      /\ runs' = [r \in Runs |-> [runs[r] EXCEPT !.lease = Less(@)]]
      /\ excused' = excused \cup {runs[r].update : r \in {r \in Runs : runs[r].lease = 1}}
      /\ acked' = acked /\ handled' = handled /\ disowned' = disowned /\ mishaps' = mishaps
  BY DEF LeaseTick, Less
<1>2. /\ \A u \in Updates : /\ events'[u] = [events[u] EXCEPT !.lease = Less(events[u].lease)]
                            /\ events[u].lease \in 0..UPDATE_CLAIM_LEASE
                            /\ events[u] \in Event
      /\ \A r \in Runs : /\ runs'[r] = [runs[r] EXCEPT !.lease = Less(runs[r].lease)]
                         /\ runs[r].lease \in 0..UPDATE_CLAIM_LEASE
                         /\ runs[r] \in Run
  BY <1>1, Types DEF Event, Run
<1>4. /\ \A u \in Updates : /\ events'[u] \in Event
                            /\ events'[u].status = events[u].status
                            /\ events'[u].old = events[u].old
                            /\ events'[u].lease = Less(events[u].lease)
      /\ \A r \in Runs : /\ runs'[r] \in Run
                         /\ runs'[r].pc = runs[r].pc
                         /\ runs'[r].update = runs[r].update
                         /\ runs'[r].lease = Less(runs[r].lease)
  <2>1. ASSUME NEW u \in Updates
        PROVE  /\ events'[u] \in Event
               /\ events'[u].status = events[u].status
               /\ events'[u].old = events[u].old
               /\ events'[u].lease = Less(events[u].lease)
    <3>1. events[u] \in Event /\ Less(events[u].lease) \in 0..UPDATE_CLAIM_LEASE
      BY <1>2, LessType
    <3>2. events'[u] = [events[u] EXCEPT !.lease = Less(events[u].lease)]
      BY <1>2
    <3> QED BY <3>1, <3>2 DEF Event
  <2>2. ASSUME NEW r \in Runs
        PROVE  /\ runs'[r] \in Run
               /\ runs'[r].pc = runs[r].pc
               /\ runs'[r].update = runs[r].update
               /\ runs'[r].lease = Less(runs[r].lease)
    <3>1. runs[r] \in Run /\ Less(runs[r].lease) \in 0..UPDATE_CLAIM_LEASE
      BY <1>2, LessType
    <3>2. runs'[r] = [runs[r] EXCEPT !.lease = Less(runs[r].lease)]
      BY <1>2
    <3> QED BY <3>1, <3>2 DEF Run
  <2> QED BY <2>1, <2>2
<1>5. events' \in [Updates -> Event] /\ runs' \in [Runs -> Run]
  BY <1>1, <1>4
<1>6. excused' \subseteq Updates
  BY <1>1, Types DEF Sound, Run
<1>7. IntakeTypeOK'
  BY <1>1, <1>5, <1>6, Types, IntakeTypes
<1>8. Sound' /\ Handled'
  <2>1. \A r \in Runs : ~ (runs[r].pc # "idle") => runs'[r].lease = 0
    <3>1. Less(0) = 0
      BY DEF Less
    <3> QED BY <1>4, <3>1, Types DEF Sound, Works
  <2>2. Sound'
    BY <1>1, <1>4, <2>1, Types DEF Sound, Works
  <2>3. Handled'
    BY <1>1, <1>4, Types DEF Handled
  <2> QED BY <2>2, <2>3
<1>9. Covered'
  <2> SUFFICES ASSUME NEW q \in Runs, runs'[q].lease > 0, runs'[q].update \notin disowned
               PROVE  LET w == runs'[q].update IN
                      /\ \/ w \in acked
                         \/ events'[w].status = "processing" /\ runs'[q].lease <= events'[w].lease
                         \/ events'[w].status = "done"
                      /\ \A p \in Runs : runs'[p].update = w /\ runs'[p].lease > 0 => p = q
    BY <1>1 DEF Covered
  <2> DEFINE w == runs[q].update
  <2>1. runs'[q].update = w /\ runs'[q].lease = Less(runs[q].lease)
    BY <1>4
  <2>2. \A p \in Runs : runs'[p].lease > 0 => runs[p].lease > 0
    <3>1. \A p \in Runs : Less(runs[p].lease) > 0 => runs[p].lease > 0
      BY <1>2, LessType
    <3> QED BY <1>4, <3>1
  <2>3. runs[q].lease > 0 /\ w \notin disowned /\ w \in Updates
    BY <2>1, <2>2, Types DEF Sound, Run
  <2>4. /\ \/ w \in acked
           \/ events[w].status = "processing" /\ runs[q].lease <= events[w].lease
           \/ events[w].status = "done"
        /\ \A p \in Runs : runs[p].update = w /\ runs[p].lease > 0 => p = q
    BY <2>3, Types DEF Covered
  <2>5. \A p \in Runs : runs'[p].update = w /\ runs'[p].lease > 0 => p = q
    BY <1>4, <2>2, <2>4
  <2>6. runs[q].lease <= events[w].lease => runs'[q].lease <= events'[w].lease
    <3>1. runs[q].lease \in 0..UPDATE_CLAIM_LEASE /\ events[w].lease \in 0..UPDATE_CLAIM_LEASE
      BY <1>2, <2>3
    <3>2. runs[q].lease <= events[w].lease => Less(runs[q].lease) <= Less(events[w].lease)
      BY <3>1, LessType
    <3> QED BY <1>4, <2>3, <3>2
  <2>7. events'[w].status = events[w].status
    BY <1>4, <2>3
  <2> QED BY <2>1, <2>4, <2>5, <2>6, <2>7
<1>10. Once'
  <2> SUFFICES ASSUME NEW u \in Updates, u \notin excused'
               PROVE  /\ handled[u] <= 1
                      /\ \A q \in Runs : runs'[q].update = u => AtWorkOn(q, u)'
                      /\ handled[u] = 1 =>
                           \/ u \in acked \/ events'[u].status = "done"
                           \/ \E q \in Runs : runs'[q].update = u
    BY <1>1 DEF Once
  <2>1. /\ handled[u] <= 1
        /\ \A q \in Runs : runs[q].update = u => AtWorkOn(q, u)
        /\ handled[u] = 1 => \/ u \in acked \/ events[u].status = "done"
                             \/ \E q \in Runs : runs[q].update = u
    BY <1>1, Types DEF Once
  <2>2. ASSUME NEW q \in Runs, runs'[q].update = u
        PROVE  AtWorkOn(q, u)'
    <3>1. AtWorkOn(q, u)
      BY <1>4, <2>1, <2>2
    <3>2. runs[q].lease # 1
      BY <1>1, <1>4, <2>2
    <3>3. runs'[q].lease > 0 /\ runs'[q].lease <= events'[u].lease
      <4>1. runs[q].lease \in 0..UPDATE_CLAIM_LEASE /\ events[u].lease \in 0..UPDATE_CLAIM_LEASE
            /\ runs[q].lease > 0 /\ runs[q].lease <= events[u].lease
        BY <1>2, <3>1 DEF AtWorkOn
      <4>2. Less(runs[q].lease) > 0 /\ Less(runs[q].lease) <= Less(events[u].lease)
        BY <3>2, <4>1, LessType
      <4> QED BY <1>4, <4>2
    <3>4. /\ runs'[q].pc = runs[q].pc /\ events'[u].status = events[u].status
          /\ \A p \in Runs : runs'[p].update = runs[p].update
      BY <1>4
    <3> QED BY <1>1, <3>1, <3>3, <3>4 DEF AtWorkOn
  <2> QED BY <1>4, <2>1, <2>2
<1> QED BY <1>7, <1>8, <1>9, <1>10 DEF IntakeInv

LEMMA RowAgesKeeps ==
  ASSUME IntakeInv, NEW u \in Updates, RowAges(u)
  PROVE  IntakeInv'
<1>1. /\ u \in acked /\ events' = [events EXCEPT ![u].old = TRUE]
      /\ runs' = runs /\ acked' = acked /\ handled' = handled /\ excused' = excused
      /\ disowned' = disowned /\ mishaps' = mishaps
  BY DEF RowAges, intakeHistory
<1>2. /\ events' \in [Updates -> Event]
      /\ \A w \in Updates : /\ events'[w].status = events[w].status
                            /\ events'[w].lease = events[w].lease
                            /\ events'[w].old => w = u \/ events[w].old
  BY <1>1, Types DEF Event
<1>3. IntakeTypeOK'
  BY <1>1, <1>2, Types, IntakeTypes
<1>4. Sound' /\ Handled'
  BY <1>1, <1>2, Types DEF Sound, Handled, Works
<1>5. Covered'
  <2>1. \A r \in Runs : runs[r].lease > 0 => runs[r].update \in Updates
    BY Types DEF Sound, Run
  <2> QED BY <1>1, <1>2, <2>1, Types DEF Covered
<1>6. Once'
  BY <1>1, <1>2, Types DEF Once, AtWorkOn
<1> QED BY <1>3, <1>4, <1>5, <1>6 DEF IntakeInv

-----------------------------------------------------------------------------
LEMMA Initially == IntakeInit => IntakeInv
<1> SUFFICES ASSUME IntakeInit PROVE IntakeInv
  OBVIOUS
<1>1. IntakeTypeOK
  BY Constants, IntakeAssumption DEF IntakeInit, IntakeTypeOK, Event, Run
<1>2. Sound /\ Handled /\ Covered /\ Once
  BY Constants DEF IntakeInit, Sound, Handled, Covered, Once, Works
<1> QED BY <1>1, <1>2 DEF IntakeInv

LEMMA Stutter == IntakeInv /\ UNCHANGED intakeVars => IntakeInv'
BY DEF IntakeInv, intakeVars, intakeHistory, IntakeTypeOK, Sound, Handled, Covered, Once,
       AtWorkOn, Works

LEMMA Step == IntakeInv /\ [IntakeNext]_intakeVars => IntakeInv'
<1> SUFFICES ASSUME IntakeInv, [IntakeNext]_intakeVars PROVE IntakeInv'
  OBVIOUS
<1>1. CASE Repeat
  BY <1>1, DeliverKeeps DEF Repeat
<1>2. CASE \E r \in Runs : Proceed(r)
  BY <1>2, HandlerKeeps, EndsKeep DEF Proceed
<1>3. CASE GoWrong
  BY <1>3, ClaimLostKeeps, HandlerKeeps, EndsKeep DEF GoWrong
<1>4. CASE LeaseTick \/ \E u \in Updates : RowAges(u)
  BY <1>4, LeaseTickKeeps, RowAgesKeeps
<1>5. CASE UNCHANGED intakeVars
  BY <1>5, Stutter
<1> QED BY <1>1, <1>2, <1>3, <1>4, <1>5 DEF IntakeNext

THEOREM IntakeInvariance == IntakeSpec => []IntakeInv
BY Initially, Step, PTL DEF IntakeSpec

\* However often Telegram repeats an update and however its requests overlap,
\* fail, are slow or are lost (HandledOnce): the update is acknowledged only
\* when it was handled, and handled twice only if one of its requests failed or
\* outlived its lease.
THEOREM HandledTheorem == IntakeSpec => []HandledOnce
<1>1. IntakeInv => HandledOnce
  <2> SUFFICES ASSUME IntakeInv, NEW u \in Updates
               PROVE  /\ u \in acked => handled[u] > 0
                      /\ handled[u] > 1 => u \in excused
    BY DEF HandledOnce
  <2>1. u \in acked => handled[u] > 0
    BY Types DEF Handled
  <2>2. u \notin excused => handled[u] <= 1 /\ handled[u] \in 0..2
    BY Types DEF Once
  <2> QED BY <2>1, <2>2
<1> QED BY <1>1, IntakeInvariance, PTL

\* Two requests are within their leases for one update only after a request
\* without a lease has deleted a row that was not its own (LeaseKeepsApart).
THEOREM ApartTheorem == IntakeSpec => []LeaseKeepsApart
<1>1. IntakeInv => LeaseKeepsApart
  BY Types DEF LeaseKeepsApart, Covered
<1> QED BY <1>1, IntakeInvariance, PTL

-----------------------------------------------------------------------------
(***************************************************************************)
(* Proofs about the accounts of a person, for any number of invocations,   *)
(* lost anywhere, and of accounts.  Whoever has found the account has      *)
(* found its row, so that it was active since the lookup began (Found);    *)
(* whoever is about to return it has made sure of its UserState, unless    *)
(* the account was purged since (Ready).                                   *)
(***************************************************************************)

Stages == {"free", "kv", "check", "db", "insert", "again", "check2", "db2",
           "welcome", "leftover", "delete", "insert2", "cache", "init",
           "reread", "limit", "use", "purge", "hard"}
Visits == [step : Stages, id : Ids \cup {NoId}, new : Ids \cup {NoId},
           reset : Ids \cup {NoId}]

Early == {"kv", "check", "db"}
Creating == {"cache", "init", "reread"}
Resolved == {"welcome", "limit", "use"}

\* What a run remembers fits where it is: no reset looks into the cache first.
Fits ==
  \A r \in IdRuns :
    /\ visit[r].step \in Early => visit[r].reset = NoId
    /\ visit[r].step \in Creating => visit[r].new \in Ids

Found == \A r \in IdRuns : visit[r].step \in Resolved => visit[r].id \in live[r]

Ready ==
  \A r \in IdRuns :
    /\ Is(r, "use") => state[visit[r].id] # "none" \/ emptied[r]
    /\ Is(r, "reread") => state[visit[r].new] # "none" \/ emptied[r]

IdentityInv == IdentityTypeOK /\ Fits /\ Found /\ Ready

-----------------------------------------------------------------------------
(* One run takes a step, and the others stay where they are. *)

\* What any step of run r does: a run that has found an account found its row
\* in this step or keeps what it had found before, and a run that comes to
\* return an account has just made sure of its state or was rereading it.
Moved(r) ==
  /\ visit' \in [IdRuns -> Visits]
  /\ \A q \in IdRuns : q # r => visit'[q] = visit[q]
  /\ visit'[r].step \in Early => visit'[r].reset = NoId
  /\ visit'[r].step \in Creating => visit'[r].new \in Ids
  /\ visit'[r].step \in Resolved =>
       \/ visit'[r].id \in users'
       \/ visit[r].step \in Resolved /\ visit'[r].id = visit[r].id
  /\ visit'[r].step = "use" =>
       \/ state'[visit'[r].id] # "none"
       \/ visit[r].step = "reread" /\ visit'[r].id = visit[r].new
  /\ visit'[r].step = "reread" => state'[visit'[r].new] # "none"

\* The stores after any step.
AccountTypes ==
  /\ users' \in SUBSET Ids /\ Cardinality(users') <= 1
  /\ used' \in 0..MaxIds
  /\ tg' \in SUBSET Ids
  /\ state' \in [Ids -> {"none", "plain", "named"}]

LEMMA IdentityTypes ==
  ASSUME IdentityInv
  PROVE  /\ visit \in [IdRuns -> Visits]
         /\ users \in SUBSET Ids /\ Cardinality(users) <= 1
         /\ used \in 0..MaxIds /\ tg \in SUBSET Ids
         /\ state \in [Ids -> {"none", "plain", "named"}]
         /\ live \in [IdRuns -> SUBSET Ids]
         /\ emptied \in [IdRuns -> BOOLEAN]
  BY DEF IdentityInv, IdentityTypeOK, Visits, Stages

\* A run turns to a stage, with what it remembers.
Turned(r, stage, id, new, reset) ==
  /\ visit' \in [IdRuns -> Visits]
  /\ \A q \in IdRuns : q # r => visit'[q] = visit[q]
  /\ visit'[r].step = stage /\ visit'[r].id = id
  /\ visit'[r].new = new /\ visit'[r].reset = reset

LEMMA Turns ==
  ASSUME IdentityInv, NEW r \in IdRuns
  PROVE  LET v == visit[r] IN
         /\ \A s \in Stages :
              visit' = [visit EXCEPT ![r].step = s] => Turned(r, s, v.id, v.new, v.reset)
         /\ \A s \in Stages, i \in Ids \cup {NoId} :
              visit' = [visit EXCEPT ![r].step = s, ![r].id = i]
                => Turned(r, s, i, v.new, v.reset)
         /\ \A s \in Stages, i \in Ids \cup {NoId} :
              visit' = [visit EXCEPT ![r].step = s, ![r].new = i]
                => Turned(r, s, v.id, i, v.reset)
         /\ \A s \in Stages, i \in Ids \cup {NoId} :
              visit' = [visit EXCEPT ![r].step = s, ![r].reset = i]
                => Turned(r, s, v.id, v.new, i)
         /\ Gone(r) => Turned(r, "free", NoId, NoId, NoId)
<1>1. visit \in [IdRuns -> Visits] /\ visit[r] \in Visits
  BY IdentityTypes
<1>2. ASSUME NEW s \in Stages, visit' = [visit EXCEPT ![r].step = s]
      PROVE  Turned(r, s, visit[r].id, visit[r].new, visit[r].reset)
  BY <1>1, <1>2 DEF Turned, Visits
<1>3. ASSUME NEW s \in Stages, NEW i \in Ids \cup {NoId},
             visit' = [visit EXCEPT ![r].step = s, ![r].id = i]
      PROVE  Turned(r, s, i, visit[r].new, visit[r].reset)
  BY <1>1, <1>3 DEF Turned, Visits
<1>4. ASSUME NEW s \in Stages, NEW i \in Ids \cup {NoId},
             visit' = [visit EXCEPT ![r].step = s, ![r].new = i]
      PROVE  Turned(r, s, visit[r].id, i, visit[r].reset)
  BY <1>1, <1>4 DEF Turned, Visits
<1>5. ASSUME NEW s \in Stages, NEW i \in Ids \cup {NoId},
             visit' = [visit EXCEPT ![r].step = s, ![r].reset = i]
      PROVE  Turned(r, s, visit[r].id, visit[r].new, i)
  BY <1>1, <1>5 DEF Turned, Visits
<1>6. ASSUME Gone(r)
      PROVE  Turned(r, "free", NoId, NoId, NoId)
  BY <1>1, <1>6 DEF Turned, Visits, Gone, Nobody, Stages
<1> QED BY <1>2, <1>3, <1>4, <1>5, <1>6

\* A person has no row or one.
LEMMA OneRow ==
  /\ Cardinality({}) <= 1
  /\ \A i : Cardinality({i}) <= 1
  /\ \A S \in SUBSET Ids, i \in Ids : Cardinality(S) <= 1 => Cardinality(S \ {i}) <= 1
<1>1. Cardinality({}) = 0
  BY FS_EmptySet
<1>2. ASSUME NEW i PROVE Cardinality({i}) <= 1
  <2>1. Cardinality({i}) = 1
    BY FS_Singleton
  <2> QED BY <2>1
<1>3. ASSUME NEW S \in SUBSET Ids, NEW i \in Ids, Cardinality(S) <= 1
      PROVE  Cardinality(S \ {i}) <= 1
  <2>1. IsFiniteSet(Ids)
    BY FS_Interval, IdentityAssumption DEF Ids
  <2>2. IsFiniteSet(S)
    BY <2>1, FS_Subset
  <2>3. IsFiniteSet(S \ {i}) /\ Cardinality(S \ {i}) <= Cardinality(S)
    BY <2>2, FS_Subset
  <2>4. Cardinality(S) \in Nat /\ Cardinality(S \ {i}) \in Nat
    BY <2>2, <2>3, FS_CardinalityType
  <2> QED BY <2>3, <2>4, <1>3
<1>4. Cardinality({}) <= 1
  BY <1>1
<1> QED BY <1>2, <1>3, <1>4

\* initState makes sure of a state and takes none away.
LEMMA InitLemma ==
  ASSUME state \in [Ids -> {"none", "plain", "named"}],
         NEW id \in Ids, NEW name \in {"plain", "named"}, InitState(id, name)
  PROVE  /\ state' \in [Ids -> {"none", "plain", "named"}]
         /\ state'[id] # "none"
  BY DEF InitState

-----------------------------------------------------------------------------
(* The actions. *)

\* The lookup: the cache is checked, the database answers with a row.
LEMMA LookupMoves ==
  ASSUME IdentityInv, NEW r \in IdRuns,
         Update(r) \/ KvGet(r) \/ CheckCached(r) \/ SelectByHash(r)
  PROVE  Moved(r) /\ AccountTypes
<1>1. AccountTypes
  BY IdentityTypes DEF AccountTypes, Update, KvGet, CheckCached, SelectByHash
<1>2. visit[r] \in Visits /\ (visit[r].step \in Early => visit[r].reset = NoId)
  BY IdentityTypes DEF IdentityInv, Fits
<1>3. CASE Update(r)
  <2>1. "kv" \in Stages /\ visit[r].reset = NoId
    BY <1>3 DEF Stages, Update, Nobody
  <2>2. Turned(r, "kv", visit[r].id, visit[r].new, visit[r].reset)
    BY <1>3, <2>1, Turns DEF Update, Steps
  <2> QED BY <1>1, <2>1, <2>2 DEF Turned, Moved, Early, Creating, Resolved
<1>4. CASE KvGet(r)
  <2>1. PICK id \in Ids \cup {NoId}, s \in {"check", "db", "check2", "db2"} :
          /\ visit' = [visit EXCEPT ![r].step = s, ![r].id = id]
          /\ s \in {"check", "db"} => visit[r].step = "kv"
    BY <1>4, IdentityTypes DEF KvGet, Finds, Is
  <2>2. s \in Stages
    BY DEF Stages
  <2>3. Turned(r, s, id, visit[r].new, visit[r].reset)
    BY <2>1, <2>2, Turns
  <2> QED BY <1>1, <1>2, <2>1, <2>3 DEF Turned, Moved, Early, Creating, Resolved
<1>5. CASE CheckCached(r)
  <2>1. PICK s \in {"limit", "use", "db", "welcome", "db2"} :
          /\ visit' = [visit EXCEPT ![r].step = s]
          /\ s = "db" => visit[r].step = "check"
          /\ s = "use" => visit[r].step = "check" /\ visit[r].reset # NoId
          /\ s \in Resolved => visit[r].id \in users'
    BY <1>5 DEF CheckCached, Steps, Is, Onward, Validated, Resolved
  <2>2. s # "use"
    BY <1>2, <2>1 DEF Early
  <2> QED BY <1>1, <1>2, <2>1, <2>2, Turns DEF Turned, Moved, Stages, Early, Creating, Resolved
<1>6. CASE SelectByHash(r)
  <2>1. \/ /\ visit[r].step \in {"db", "db2"}
           /\ \E s \in {"insert", "leftover"} : visit' = [visit EXCEPT ![r].step = s]
        \/ /\ \E s \in {"limit", "use", "welcome"}, id \in users' :
                /\ visit' = [visit EXCEPT ![r].step = s, ![r].id = id]
                /\ s = "use" => visit[r].step = "db" /\ visit[r].reset # NoId
    BY <1>6 DEF SelectByHash, Steps, Finds, Is, Onward
  <2>2. CASE \E s \in {"insert", "leftover"} : visit' = [visit EXCEPT ![r].step = s]
    BY <1>1, <1>2, <2>2, Turns DEF Turned, Moved, Stages, Early, Creating, Resolved
  <2>3. CASE \E s \in {"limit", "use", "welcome"}, id \in users' :
               /\ visit' = [visit EXCEPT ![r].step = s, ![r].id = id]
               /\ s = "use" => visit[r].step = "db" /\ visit[r].reset # NoId
    <3>1. PICK s \in {"limit", "welcome"}, id \in users' :
            visit' = [visit EXCEPT ![r].step = s, ![r].id = id]
      BY <1>2, <2>3 DEF Early
    <3>2. id \in Ids
      BY <1>1, <3>1 DEF AccountTypes
    <3>3. s \in Stages
      BY DEF Stages
    <3>4. Turned(r, s, id, visit[r].new, visit[r].reset)
      BY <3>1, <3>2, <3>3, Turns
    <3> QED BY <1>1, <3>1, <3>4 DEF Turned, Moved, Early, Creating, Resolved
  <2> QED BY <2>1, <2>2, <2>3
<1> QED BY <1>1, <1>3, <1>4, <1>5, <1>6

\* A creation: the row is there before anything is done with it.
LEMMA InsertMoves ==
  ASSUME IdentityInv, NEW r \in IdRuns, Insert(r) \/ InsertAgain(r)
  PROVE  Moved(r) /\ AccountTypes
<1>1. visit[r] \in Visits
  BY IdentityTypes
<1>2. CASE InsertUserAndLink(r) /\ UNCHANGED <<tg, state>>
  <2>1. used' \in Ids /\ used' \in 0..MaxIds
    BY <1>2, IdentityTypes, IdentityAssumption DEF InsertUserAndLink, Ids
  <2>2. users' \in SUBSET Ids /\ Cardinality(users') <= 1
    BY <1>2, <2>1, OneRow DEF InsertUserAndLink
  <2>3. visit' = [visit EXCEPT ![r].step = "cache", ![r].new = used']
    BY <1>2 DEF InsertUserAndLink
  <2>4. Moved(r)
    <3>1. "cache" \in Stages
      BY DEF Stages
    <3>2. Turned(r, "cache", visit[r].id, used', visit[r].reset)
      BY <2>1, <2>3, <3>1, Turns
    <3> QED BY <2>1, <3>2 DEF Turned, Moved, Early, Creating, Resolved
  <2> QED BY <1>2, <2>1, <2>2, <2>4, IdentityTypes DEF AccountTypes
<1>3. CASE UNCHANGED <<users, used, tg, state>> /\ (Gone(r) \/ Steps(r, "again"))
  <2>1. AccountTypes
    BY <1>3, IdentityTypes DEF AccountTypes
  <2>2. CASE Gone(r)
    BY <2>1, <2>2, Turns DEF Turned, Moved, Stages, Early, Creating, Resolved
  <2>3. CASE Steps(r, "again")
    BY <2>1, <2>3, Turns DEF Steps, Turned, Moved, Stages, Early, Creating, Resolved
  <2> QED BY <1>3, <2>2, <2>3
<1> QED BY <1>2, <1>3 DEF Insert, InsertAgain

\* The account a conflict leads to is made ready, or is in the way.
LEMMA ConflictMoves ==
  ASSUME IdentityInv, NEW r \in IdRuns, Welcome(r) \/ SelectAnyStatus(r) \/ DeleteLeftover(r)
  PROVE  Moved(r) /\ AccountTypes
<1>1. visit[r] \in Visits
  BY IdentityTypes
<1>2. CASE Welcome(r)
  <2>1. visit[r].id \in Ids
    BY <1>2, IdentityTypes DEF IdentityInv, Found, Welcome, Is, Resolved
  <2>2. state' \in [Ids -> {"none", "plain", "named"}] /\ state'[visit[r].id] # "none"
    BY <1>2, <2>1, InitLemma, IdentityTypes DEF Welcome
  <2>3. PICK s \in {"limit", "use"} : visit' = [visit EXCEPT ![r].step = s]
    BY <1>2 DEF Welcome, Steps, Onward
  <2>4. visit[r].step = "welcome"
    BY <1>2 DEF Welcome, Is
  <2>5. Moved(r)
    BY <1>1, <2>2, <2>3, <2>3, <2>4, Turns DEF Turned, Moved, Stages, Early, Creating, Resolved
  <2> QED BY <1>2, <2>2, <2>5, IdentityTypes DEF AccountTypes, Welcome
<1>3. CASE SelectAnyStatus(r)
  <2>1. PICK s \in {"insert2", "delete"}, id \in Ids \cup {NoId} :
          visit' = [visit EXCEPT ![r].step = s, ![r].id = id]
    <3>1. CASE users = {}
      <4>1. visit' = [visit EXCEPT ![r].step = "insert2"]
        BY <1>3, <3>1 DEF SelectAnyStatus, Steps
      <4>2. visit' = [visit EXCEPT ![r].step = "insert2", ![r].id = visit[r].id]
        BY <1>1, <4>1, IdentityTypes DEF Visits
      <4> QED BY <1>1, <4>2 DEF Visits
    <3>2. CASE users # {}
      BY <1>3, <3>2, IdentityTypes DEF SelectAnyStatus, Finds
    <3> QED BY <3>1, <3>2
  <2>2. s \in Stages
    BY DEF Stages
  <2>3. Turned(r, s, id, visit[r].new, visit[r].reset)
    BY <2>1, <2>2, Turns
  <2>4. Moved(r)
    BY <2>3 DEF Turned, Moved, Early, Creating, Resolved
  <2> QED BY <1>3, <2>4, IdentityTypes DEF AccountTypes, SelectAnyStatus
<1>4. CASE DeleteLeftover(r)
  <2>1. users' \in SUBSET Ids /\ Cardinality(users') <= 1
    <3>1. CASE visit[r].id \in Ids
      BY <1>4, <3>1, OneRow, IdentityTypes DEF DeleteLeftover
    <3>2. CASE visit[r].id \notin Ids
      <4>1. users' = users
        BY <1>4, <3>2, IdentityTypes DEF DeleteLeftover
      <4> QED BY <4>1, IdentityTypes
    <3> QED BY <3>1, <3>2
  <2>2. Moved(r)
    BY <1>1, <1>4, Turns DEF DeleteLeftover, Steps, Turned, Moved, Stages, Early, Creating, Resolved
  <2> QED BY <1>4, <2>1, <2>2, IdentityTypes DEF AccountTypes, DeleteLeftover
<1> QED BY <1>2, <1>3, <1>4

\* A new account gets its state before it is read again.
LEMMA NewMoves ==
  ASSUME IdentityInv, NEW r \in IdRuns, CacheUserRouting(r) \/ InitUserState(r) \/ Reread(r)
  PROVE  Moved(r) /\ AccountTypes
<1>1. visit[r] \in Visits /\ (visit[r].step \in Creating => visit[r].new \in Ids)
  BY IdentityTypes DEF IdentityInv, Fits
<1>2. CASE CacheUserRouting(r)
  <2>1. visit[r].new \in Ids /\ visit' = [visit EXCEPT ![r].step = "init"]
    BY <1>1, <1>2 DEF CacheUserRouting, Is, Steps, Creating
  <2>2. Moved(r)
    BY <1>1, <2>1, Turns DEF Turned, Moved, Stages, Early, Creating, Resolved
  <2> QED BY <1>2, <2>1, <2>2, IdentityTypes DEF AccountTypes, CacheUserRouting
<1>3. CASE InitUserState(r)
  <2>1. visit[r].new \in Ids /\ visit' = [visit EXCEPT ![r].step = "reread"]
    BY <1>1, <1>3 DEF InitUserState, Is, Steps, Creating
  <2>2. state' \in [Ids -> {"none", "plain", "named"}] /\ state'[visit[r].new] # "none"
    BY <1>3, <2>1, InitLemma, IdentityTypes DEF InitUserState
  <2>3. Moved(r)
    BY <1>1, <2>1, <2>2, Turns DEF Turned, Moved, Stages, Early, Creating, Resolved
  <2> QED BY <1>3, <2>2, <2>3, IdentityTypes DEF AccountTypes, InitUserState
<1>4. CASE Reread(r)
  <2>1. visit[r].step = "reread" /\ users' = users
    BY <1>4 DEF Reread, Is
  <2>2. CASE visit[r].new \in users
    <3>1. PICK s \in {"limit", "use"} :
            visit' = [visit EXCEPT ![r].step = s, ![r].id = visit[r].new]
      BY <1>4, <2>2 DEF Reread, Finds, Onward
    <3>2. visit[r].new \in Ids
      BY <2>2, IdentityTypes
    <3>3. s \in Stages
      BY <3>1 DEF Stages
    <3>4. Turned(r, s, visit[r].new, visit[r].new, visit[r].reset)
      BY <3>1, <3>2, <3>3, Turns
    <3>5. Moved(r)
      BY <2>1, <2>2, <3>1, <3>4 DEF Turned, Moved, Early, Creating, Resolved
    <3> QED BY <1>4, <3>5, IdentityTypes DEF Reread, AccountTypes
  <2>3. CASE visit[r].new \notin users
    BY <1>1, <1>4, <2>3, IdentityTypes, Turns
    DEF Reread, AccountTypes, Turned, Moved, Stages, Early, Creating, Resolved
  <2> QED BY <2>2, <2>3
<1> QED BY <1>2, <1>3, <1>4

\* What an update does with its account; a reset forgets that it had found it.
LEMMA UseMoves ==
  ASSUME IdentityInv, NEW r \in IdRuns,
         \/ ConsumeRateLimit(r) \/ ToBotUser(r)
         \/ PurgeUserState(r) \/ HardDeleteUserAccount(r) \/ IdentityLost(r)
  PROVE  Moved(r) /\ AccountTypes
<1>1. visit[r] \in Visits
  BY IdentityTypes
<1>2. CASE ConsumeRateLimit(r)
  <2>1. visit[r].step = "limit" /\ visit[r].id \in Ids
    BY <1>2, IdentityTypes DEF IdentityInv, Found, ConsumeRateLimit, Is, Resolved
  <2>2. state' \in [Ids -> {"none", "plain", "named"}] /\ state'[visit[r].id] # "none"
    BY <1>2, <2>1, InitLemma, IdentityTypes DEF ConsumeRateLimit
  <2>3. AccountTypes
    BY <1>2, <2>2, IdentityTypes DEF AccountTypes, ConsumeRateLimit
  <2>4. CASE Steps(r, "use")
    BY <1>1, <2>1, <2>2, <2>3, <2>4, Turns DEF Steps, Turned, Moved, Stages, Early, Creating, Resolved
  <2>5. CASE Gone(r)
    BY <1>1, <2>3, <2>5, Turns DEF Turned, Moved, Stages, Early, Creating, Resolved
  <2>6. CASE visit' = [visit EXCEPT ![r].step = "purge", ![r].reset = visit[r].id]
    <3>1. "purge" \in Stages
      BY DEF Stages
    <3>2. Turned(r, "purge", visit[r].id, visit[r].new, visit[r].id)
      BY <2>1, <2>6, <3>1, Turns
    <3> QED BY <2>3, <3>2 DEF Turned, Moved, Early, Creating, Resolved
  <2> QED BY <1>2, <2>3, <2>4, <2>5, <2>6 DEF ConsumeRateLimit
<1>3. CASE ToBotUser(r) \/ IdentityLost(r)
  BY <1>1, <1>3, IdentityTypes, Turns
  DEF ToBotUser, IdentityLost, AccountTypes, Turned, Moved, Stages, Early, Creating, Resolved
<1>4. CASE PurgeUserState(r)
  <2>1. Moved(r)
    BY <1>1, <1>4, Turns DEF PurgeUserState, Steps, Turned, Moved, Stages, Early, Creating, Resolved
  <2>2. state' \in [Ids -> {"none", "plain", "named"}]
    BY <1>4, IdentityTypes DEF PurgeUserState
  <2> QED BY <1>4, <2>1, <2>2, IdentityTypes DEF PurgeUserState, AccountTypes
<1>5. CASE HardDeleteUserAccount(r)
  <2>1. Moved(r)
    BY <1>1, <1>5, Turns
    DEF HardDeleteUserAccount, Steps, Turned, Moved, Stages, Early, Creating, Resolved
  <2>2. users' \in SUBSET Ids /\ Cardinality(users') <= 1
    <3>1. CASE visit[r].reset \in Ids
      BY <1>5, <3>1, OneRow, IdentityTypes DEF HardDeleteUserAccount
    <3>2. CASE visit[r].reset \notin Ids
      <4>1. users' = users
        BY <1>5, <3>2, IdentityTypes DEF HardDeleteUserAccount
      <4> QED BY <4>1, IdentityTypes
    <3> QED BY <3>1, <3>2
  <2> QED BY <1>5, <2>1, <2>2, IdentityTypes DEF HardDeleteUserAccount, AccountTypes
<1> QED BY <1>2, <1>3, <1>4, <1>5

LEMMA StepMoves ==
  ASSUME IdentityInv, NEW r \in IdRuns, IdentityStep(r)
  PROVE  Moved(r) /\ AccountTypes
  BY LookupMoves, InsertMoves, ConflictMoves, NewMoves, UseMoves DEF IdentityStep

-----------------------------------------------------------------------------
(* The history and the invariant. *)

\* A run that has found an account keeps it in sight, and a purge is noticed.
LEMMA Witnessed ==
  ASSUME IdentityInv, Witness, users' \in SUBSET Ids, NEW r \in IdRuns
  PROVE  /\ live' \in [IdRuns -> SUBSET Ids]
         /\ emptied' \in [IdRuns -> BOOLEAN]
         /\ \A i \in Ids : /\ visit'[r].step \in Resolved /\ visit'[r].id = i
                           /\ i \in live[r] \cup users'
                           => i \in live'[r]
         /\ /\ visit'[r].step = "use" /\ visit[r].step # "limit"
            /\ \/ emptied[r]
               \/ state[visit'[r].id] # "none" /\ state'[visit'[r].id] = "none"
            => emptied'[r]
         /\ /\ visit'[r].step = "reread" /\ visit[r].step # "limit"
            /\ \/ emptied[r]
               \/ state[visit[r].new] # "none" /\ state'[visit[r].new] = "none"
            => emptied'[r]
<1>1. live' \in [IdRuns -> SUBSET Ids] /\ emptied' \in [IdRuns -> BOOLEAN]
  <2>1. live' \in [IdRuns -> SUBSET Ids]
    BY IdentityTypes DEF Witness
  <2>2. emptied' \in [IdRuns -> BOOLEAN]
    BY DEF Witness
  <2> QED BY <2>1, <2>2
<1>2. \A i \in Ids : /\ visit'[r].step \in Resolved /\ visit'[r].id = i
                     /\ i \in live[r] \cup users'
                     => i \in live'[r]
  BY DEF Witness, Resolved
<1>3. /\ visit'[r].step = "use" /\ visit[r].step # "limit"
      /\ \/ emptied[r]
         \/ state[visit'[r].id] # "none" /\ state'[visit'[r].id] = "none"
      => emptied'[r]
  BY DEF Witness
<1>4. /\ visit'[r].step = "reread" /\ visit[r].step # "limit"
      /\ \/ emptied[r]
         \/ state[visit[r].new] # "none" /\ state'[visit[r].new] = "none"
      => emptied'[r]
  BY DEF Witness
<1> QED BY <1>1, <1>2, <1>3, <1>4

LEMMA IdentityInitial == IdentityInit => IdentityInv
<1> SUFFICES ASSUME IdentityInit PROVE IdentityInv
  OBVIOUS
<1>1. IdentityTypeOK
  BY OneRow, IdentityAssumption DEF IdentityInit, IdentityTypeOK, Nobody
<1>2. \A r \in IdRuns : visit[r].step = "free"
  BY DEF IdentityInit, Nobody
<1> QED BY <1>1, <1>2 DEF IdentityInv, Fits, Found, Ready, Is, Early, Creating, Resolved

\* A step of one run, of which the others see the stores only.
LEMMA RunStep ==
  ASSUME IdentityInv, NEW r \in IdRuns, IdentityStep(r), Witness
  PROVE  IdentityInv'
<1>1. Moved(r) /\ AccountTypes
  BY StepMoves
<1>2. IdentityTypeOK'
  BY <1>1, Witnessed DEF Moved, AccountTypes, IdentityTypeOK, Visits, Stages
<1>3. Fits'
  BY <1>1 DEF Moved, IdentityInv, Fits
<1>4. Found'
  <2> SUFFICES ASSUME NEW q \in IdRuns, visit'[q].step \in Resolved
               PROVE  visit'[q].id \in live'[q]
    BY DEF Found
  <2>1. visit'[q].id \in live[q] \cup users'
    BY <1>1 DEF Moved, IdentityInv, Found
  <2>2. visit'[q].id \in Ids
    BY <1>1, <2>1, IdentityTypes DEF AccountTypes
  <2> QED BY <1>1, <2>1, <2>2, Witnessed DEF AccountTypes
<1>5. Ready'
  <2> SUFFICES ASSUME NEW q \in IdRuns
               PROVE  /\ visit'[q].step = "use" => state'[visit'[q].id] # "none" \/ emptied'[q]
                      /\ visit'[q].step = "reread"
                           => state'[visit'[q].new] # "none" \/ emptied'[q]
    BY DEF Ready, Is
  <2>1. CASE q # r
    <3>1. visit'[q] = visit[q]
      BY <1>1, <2>1 DEF Moved
    <3> QED BY <1>1, <3>1, Witnessed DEF AccountTypes, IdentityInv, Ready, Is
  <2>2. CASE q = r
    <3>1. visit[r].step = "reread" => state[visit[r].new] # "none" \/ emptied[r]
      BY DEF IdentityInv, Ready, Is
    <3> QED BY <1>1, <2>2, <3>1, Witnessed DEF Moved, AccountTypes
  <2> QED BY <2>1, <2>2
<1> QED BY <1>2, <1>3, <1>4, <1>5 DEF IdentityInv

\* A visitor only makes sure of a state.
LEMMA VisitStep ==
  ASSUME IdentityInv, NEW id \in Ids, VisitLink(id), Witness
  PROVE  IdentityInv'
<1>1. visit' = visit /\ UNCHANGED <<users, used, tg>>
  BY DEF VisitLink
<1>2. users' \in SUBSET Ids /\ state' \in [Ids -> {"none", "plain", "named"}]
  BY InitLemma, IdentityTypes DEF VisitLink
<1>3. IdentityTypeOK'
  <2>1. live' \in [IdRuns -> SUBSET Ids] /\ emptied' \in [IdRuns -> BOOLEAN]
    BY <1>2, Witnessed DEF Witness
  <2> QED BY <1>1, <1>2, <2>1 DEF IdentityInv, IdentityTypeOK
<1>4. Fits'
  BY <1>1 DEF IdentityInv, Fits
<1>5. Found'
  BY <1>1, <1>2, Witnessed, IdentityTypes DEF IdentityInv, Found
<1>6. Ready'
  BY <1>1, <1>2, Witnessed DEF IdentityInv, Ready, Is
<1> QED BY <1>3, <1>4, <1>5, <1>6 DEF IdentityInv

LEMMA IdentityInductive == IdentityInv /\ [IdentityNext]_identityVars => IdentityInv'
<1> SUFFICES ASSUME IdentityInv, [IdentityNext]_identityVars PROVE IdentityInv'
  OBVIOUS
<1>1. CASE IdentityNext
  BY <1>1, RunStep, VisitStep DEF IdentityNext
<1>2. CASE UNCHANGED identityVars
  BY <1>2 DEF identityVars, IdentityInv, IdentityTypeOK, Fits, Found, Ready, Is
<1> QED BY <1>1, <1>2

\* The invariant holds throughout.
THEOREM IdentityInvariance == IdentitySpec => []IdentityInv
  BY IdentityInitial, IdentityInductive, PTL DEF IdentitySpec

\* What a lookup returns was active while it ran, and a reset never returns
\* the old account.
THEOREM LiveTheorem == IdentitySpec => []ResolvedIsLive
<1>1. IdentityInv => ResolvedIsLive
  BY DEF IdentityInv, Found, ResolvedIsLive, Is, Resolved
<1> QED BY <1>1, IdentityInvariance, PTL

\* An account never lacks its UserState when somebody is about to read it,
\* unless it was purged since.
THEOREM ReadyTheorem == IdentitySpec => []NobodyLockedOut
<1>1. IdentityInv => NobodyLockedOut
  BY DEF IdentityInv, Ready, NobodyLockedOut
<1> QED BY <1>1, IdentityInvariance, PTL

-----------------------------------------------------------------------------
(***************************************************************************)
(* Proofs about the statistics, for any number of events, of deliveries of *)
(* each and of batches at a time, any counts and any number of days.  The  *)
(* tables have counted exactly the events that a committed transaction     *)
(* applied, and keep the receipt of each that is young enough to be        *)
(* delivered again (Booked); of the transaction at work the same is true,  *)
(* event by event, of the tables as it sees them (Underway).  A message    *)
(* that a batch holds is within the retention of the queue (Held), which   *)
(* is shorter than that of the receipts, so cleaning forgets none that     *)
(* may still arrive.                                                       *)
(***************************************************************************)

Mail == [status : {"new", "queued", "acked", "gone"}, day : 0..LastDay]
Work == [pc : {"idle", "loaded", "applying", "acking", "retrying"},
         events : Seq(Events), done : 0..STATS_MAX_BATCH]

Today(C, mail, d) == {e \in C : mail[e].day = d}
Applied(b) == {batch[b].events[i] : i \in 1..batch[b].done}

\* On day now the tables have counted the events of C, each once, and keep the
\* receipts of all that are younger than the retention.
BookedIn(tables, C, mail, now) ==
  /\ \A d \in Days :
       /\ IsFiniteSet(Units(Today(C, mail, d)))
       /\ tables.daily[d] = CountOf(Today(C, mail, d))
       /\ \A k \in Keys :
            tables.keyed[<<d, k>>] = CountOf({e \in Today(C, mail, d) : Body[e].key = k})
       /\ \A h \in Hashes :
            <<d, h>> \in tables.unique <=> \E e \in Today(C, mail, d) : Body[e].hash = h
  /\ \A e \in Events : tables.receipts[e] >= 0 =>
       e \in C /\ tables.receipts[e] <= now - mail[e].day
  /\ \A e \in C : /\ mail[e].status # "new"
                  /\ now - mail[e].day < STATS_RECEIPT_RETENTION => tables.receipts[e] >= 0

Booked(tables, C) == BookedIn(tables, C, message, day)

\* A message that may still be applied is no older than the queue allows.
Recent(e) == message[e].status # "new" /\ day - message[e].day <= QUEUE_RETENTION

Dated == \A e \in Events : /\ message[e].status # "new" => message[e].day \in 1..day
                           /\ message[e].status = "queued" => Recent(e)

Held(b) ==
  /\ batch[b].done <= Len(batch[b].events) /\ Len(batch[b].events) <= STATS_MAX_BATCH
  /\ At(b, "idle") => batch[b] = NoBatch
  /\ At(b, "loaded") => batch[b].done = 0
  /\ \A e \in Within(b) : Recent(e)
  /\ At(b, "acking") => Within(b) \subseteq counted
  /\ At(b, "applying") => \A c \in Batches : At(c, "applying") => c = b

\* The transaction at work has counted what it has come to.
Underway == \A b \in Batches : At(b, "applying") => Booked(tx, counted \cup Applied(b))

Acknowledged == \A e \in Events : message[e].status = "acked" => e \in counted

StatsInv ==
  /\ StatsTypeOK /\ Booked(db, counted) /\ Underway
  /\ Dated /\ (\A b \in Batches : Held(b)) /\ Acknowledged

-----------------------------------------------------------------------------
(* Sums. *)

LEMMA UnitsGrow ==
  ASSUME NEW S \in SUBSET Events, NEW e \in Events, e \notin S, IsFiniteSet(Units(S))
  PROVE  /\ IsFiniteSet(Units(S \cup {e}))
         /\ CountOf(S \cup {e}) = CountOf(S) + Body[e].count
<1> DEFINE n == Body[e].count
           new == {e} \X (1..n)
<1>1. n \in Nat
  BY StatsAssumption
<1>2. IsFiniteSet({e}) /\ Cardinality({e}) = 1 /\ IsFiniteSet(1..n) /\ Cardinality(1..n) = n
  <2>1. IsFiniteSet({e}) /\ Cardinality({e}) = 1
    BY FS_Singleton
  <2>2. IsFiniteSet(1..n) /\ Cardinality(1..n) = IF 1 > n THEN 0 ELSE n - 1 + 1
    BY <1>1, FS_Interval
  <2> HIDE DEF n
  <2> QED BY <1>1, <2>1, <2>2
<1>3. IsFiniteSet(new) /\ Cardinality(new) = n
  <2> DEFINE c == Cardinality(new)
  <2>1. IsFiniteSet(new) /\ c = Cardinality({e}) * Cardinality(1..n)
    BY <1>2, FS_Product
  <2> HIDE DEF n, c
  <2>2. c = 1 * n
    BY <1>2, <2>1
  <2>3. c = n
    BY <1>1, <2>2
  <2> QED BY <2>1, <2>3 DEF c
<1>4. Units(S \cup {e}) = Units(S) \cup new
  BY DEF Units
<1>5. Units(S) \cap new = {}
  BY DEF Units
<1>6. Cardinality(Units(S) \cap new) = 0 /\ Cardinality(Units(S)) \in Nat
  BY <1>5, FS_EmptySet, FS_CardinalityType
<1> HIDE DEF n, new
<1>7. /\ IsFiniteSet(Units(S) \cup new)
      /\ Cardinality(Units(S) \cup new) = Cardinality(Units(S)) + Cardinality(new)
                                               - Cardinality(Units(S) \cap new)
  BY <1>3, FS_Union
<1>8. Cardinality(Units(S \cup {e})) = Cardinality(Units(S)) + n
  <2> DEFINE a == Cardinality(Units(S))
             c == Cardinality(Units(S) \cup new)
  <2>1. c = a + n - 0 /\ a \in Nat /\ n \in Nat
    BY <1>1, <1>3, <1>6, <1>7
  <2> HIDE DEF a, c
  <2>2. c = a + n
    BY <2>1
  <2> QED BY <1>4, <2>2 DEF a, c
<1> QED BY <1>4, <1>7, <1>8 DEF CountOf, n

LEMMA UnitsOfSome ==
  ASSUME NEW S \in SUBSET Events, NEW T \in SUBSET S, IsFiniteSet(Units(S))
  PROVE  IsFiniteSet(Units(T)) /\ CountOf(T) \in Nat
<1>1. Units(T) \subseteq Units(S)
  BY DEF Units
<1> QED BY <1>1, FS_Subset, FS_CardinalityType DEF CountOf

LEMMA UnitsOfNone == IsFiniteSet(Units({})) /\ CountOf({}) = 0
<1>1. Units({}) = {}
  BY DEF Units
<1> QED BY <1>1, FS_EmptySet DEF CountOf

-----------------------------------------------------------------------------
(* One event. *)

\* What the statements of an event write, if it has no receipt.
LEMMA EventWrites ==
  ASSUME NEW tables \in Tables, NEW e \in Events, message[e].day \in Days,
         tables.receipts[e] < 0
  PROVE  LET d == message[e].day
             t == ApplyEvent(tables, e) IN
         /\ t \in Tables
         /\ t.receipts = [tables.receipts EXCEPT ![e] = 0]
         /\ t.daily = [tables.daily EXCEPT ![d] = @ + Body[e].count]
         /\ t.keyed = IF Body[e].key = NoKey THEN tables.keyed
                      ELSE [tables.keyed EXCEPT ![<<d, Body[e].key>>] = @ + Body[e].count]
         /\ t.unique = IF Body[e].hash = NoHash THEN tables.unique
                       ELSE tables.unique \cup {<<d, Body[e].hash>>}
<1> DEFINE d == message[e].day
           n == Body[e].count
           tb1 == [tables EXCEPT !.receipts[e] = 0, !.changes = 1]
           tb2 == [tb1 EXCEPT !.daily[d] = @ + n]
           tb3 == IF Body[e].key = NoKey THEN tb2 ELSE [tb2 EXCEPT !.keyed[<<d, Body[e].key>>] = @ + n]
           row == <<d, Body[e].hash>>
           tb4 == IF Body[e].hash = NoHash THEN tb3
                 ELSE [tb3 EXCEPT !.unique = @ \cup {row}, !.changes = IF row \in tb3.unique THEN 0 ELSE 1]
<1>1. n \in Nat /\ (Body[e].key # NoKey => Body[e].key \in Keys)
      /\ (Body[e].hash # NoHash => Body[e].hash \in Hashes) /\ 0 \in -1..STATS_RECEIPT_RETENTION
  BY StatsAssumption DEF Keys, Hashes
<1>2. /\ tables.receipts \in [Events -> -1..STATS_RECEIPT_RETENTION]
      /\ tables.daily \in [Days -> Nat] /\ tables.keyed \in [Days \X Keys -> Nat]
      /\ tables.unique \subseteq Days \X Hashes
  BY DEF Tables
<1>3. /\ tb1 \in Tables /\ tb1.receipts = [tables.receipts EXCEPT ![e] = 0]
      /\ tb1.daily = tables.daily /\ tb1.keyed = tables.keyed /\ tb1.unique = tables.unique
      /\ tb1.changes = 1
  BY <1>1, <1>2 DEF Tables
<1>4. InsertReceipt(tables, e) = tb1
  BY <1>2 DEF InsertReceipt
<1> HIDE DEF tb1
<1>5. /\ tb2 \in Tables /\ tb2.receipts = tb1.receipts
      /\ tb2.daily = [tb1.daily EXCEPT ![d] = @ + n]
      /\ tb2.keyed = tb1.keyed /\ tb2.unique = tb1.unique /\ tb2.changes = 1
  <2>1. tb1.daily[d] \in Nat /\ [tb1.daily EXCEPT ![d] = @ + n] \in [Days -> Nat]
    BY <1>1, <1>2, <1>3
  <2>2. tb2 = [receipts |-> tb1.receipts, daily |-> [tb1.daily EXCEPT ![d] = @ + n],
              keyed |-> tb1.keyed, unique |-> tb1.unique, changes |-> tb1.changes]
    BY <1>3 DEF Tables
  <2> HIDE DEF n
  <2> QED BY <1>3, <2>1, <2>2 DEF Tables
<1>6. CountDaily(tb1, e) = tb2
  BY <1>3 DEF CountDaily
<1> HIDE DEF tb2
<1>7. /\ tb3 \in Tables /\ tb3.receipts = tb2.receipts /\ tb3.daily = tb2.daily
      /\ tb3.keyed = IF Body[e].key = NoKey THEN tb2.keyed
                    ELSE [tb2.keyed EXCEPT ![<<d, Body[e].key>>] = @ + n]
      /\ tb3.unique = tb2.unique /\ tb3.changes = 1
  <2>1. CASE Body[e].key = NoKey
    BY <1>5, <2>1
  <2>2. CASE Body[e].key # NoKey
    <3> DEFINE at == <<d, Body[e].key>>
    <3>1. at \in Days \X Keys /\ tb2.keyed \in [Days \X Keys -> Nat] /\ tb2.keyed[at] \in Nat
      BY <1>1, <1>2, <1>3, <1>5, <2>2
    <3> HIDE DEF at, n
    <3>2. tb2.keyed[at] + n \in Nat
      BY <1>1, <3>1
    <3>3. [tb2.keyed EXCEPT ![at] = @ + n] \in [Days \X Keys -> Nat]
      BY <3>1, <3>2
    <3>4. tb3 = [tb2 EXCEPT !.keyed[at] = @ + n]
      BY <2>2 DEF at
    <3>5. tb3 = [receipts |-> tb2.receipts, daily |-> tb2.daily,
                keyed |-> [tb2.keyed EXCEPT ![at] = @ + n],
                unique |-> tb2.unique, changes |-> tb2.changes]
      BY <1>5, <3>4 DEF Tables
    <3> QED BY <1>5, <2>2, <3>3, <3>5 DEF Tables, at
  <2> QED BY <2>1, <2>2
<1>8. CountByKey(tb2, e) = tb3
  BY <1>5 DEF CountByKey
<1> HIDE DEF tb3
<1>9. /\ tb4 \in Tables /\ tb4.receipts = tb3.receipts /\ tb4.daily = tb3.daily /\ tb4.keyed = tb3.keyed
      /\ tb4.unique = IF Body[e].hash = NoHash THEN tb3.unique ELSE tb3.unique \cup {row}
  <2>1. CASE Body[e].hash = NoHash
    BY <1>7, <2>1
  <2>2. CASE Body[e].hash # NoHash
    <3>1. row \in Days \X Hashes
      BY <1>1, <2>2
    <3> HIDE DEF row
    <3> DEFINE c == IF row \in tb3.unique THEN 0 ELSE 1
    <3>2. c \in {0, 1} /\ tb3.unique \cup {row} \subseteq Days \X Hashes
      BY <1>7, <3>1 DEF Tables
    <3>3. tb4 = [tb3 EXCEPT !.unique = @ \cup {row}, !.changes = c]
      BY <2>2
    <3> HIDE DEF c
    <3>4. tb4 = [receipts |-> tb3.receipts, daily |-> tb3.daily, keyed |-> tb3.keyed,
                unique |-> tb3.unique \cup {row}, changes |-> c]
      BY <1>7, <3>3 DEF Tables
    <3> QED BY <1>7, <2>2, <3>2, <3>4 DEF Tables
  <2> QED BY <2>1, <2>2
<1>10. InsertUnique(tb3, e) = tb4
  BY <1>7 DEF InsertUnique
<1> HIDE DEF tb4
<1>11. ApplyEvent(tables, e) = tb4
  BY <1>4, <1>6, <1>8, <1>10 DEF ApplyEvent
<1> HIDE DEF n
<1> QED BY <1>3, <1>5, <1>7, <1>9, <1>11 DEF n

\* An event that has a receipt writes nothing.
LEMMA EventKnown ==
  ASSUME NEW tables \in Tables, NEW e \in Events, tables.receipts[e] >= 0
  PROVE  LET t == ApplyEvent(tables, e) IN
         /\ t \in Tables /\ t.receipts = tables.receipts /\ t.daily = tables.daily
         /\ t.keyed = tables.keyed /\ t.unique = tables.unique
<1> DEFINE tb1 == [tables EXCEPT !.changes = 0]
<1>1. /\ tb1 \in Tables /\ tb1.receipts = tables.receipts /\ tb1.daily = tables.daily
      /\ tb1.keyed = tables.keyed /\ tb1.unique = tables.unique /\ tb1.changes = 0
  BY DEF Tables
<1>2. InsertReceipt(tables, e) = tb1
  BY DEF InsertReceipt
<1> HIDE DEF tb1
<1>3. ApplyEvent(tables, e) = tb1
  BY <1>1, <1>2 DEF ApplyEvent, CountDaily, CountByKey, InsertUnique
<1> QED BY <1>1, <1>3

\* The tables count an event at most once more, and then it was not counted yet.
LEMMA EventBooked ==
  ASSUME NEW tables \in Tables, NEW C \in SUBSET Events, Booked(tables, C),
         NEW e \in Events, Recent(e), message[e].day \in 1..day, day \in Days
  PROVE  ApplyEvent(tables, e) \in Tables /\ Booked(ApplyEvent(tables, e), C \cup {e})
<1> DEFINE t == ApplyEvent(tables, e)
           d == message[e].day
           n == Body[e].count
<1>1. d \in Days /\ d \in Int /\ day \in Int /\ d <= day
      /\ day - d <= QUEUE_RETENTION /\ QUEUE_RETENTION < STATS_RECEIPT_RETENTION
      /\ QUEUE_RETENTION \in Nat /\ STATS_RECEIPT_RETENTION \in Nat
      /\ day - d < STATS_RECEIPT_RETENTION
  BY StatsAssumption DEF Days, Recent
<1>2. tables.receipts \in [Events -> -1..STATS_RECEIPT_RETENTION]
  BY DEF Tables
<1>3. CASE tables.receipts[e] >= 0
  <2>1. e \in C /\ C \cup {e} = C
    BY <1>3 DEF Booked, BookedIn
  <2> QED BY <1>3, <2>1, EventKnown DEF Booked, BookedIn
<1>4. CASE tables.receipts[e] < 0
  <2>1. e \notin C
    BY <1>1, <1>2, <1>4 DEF Booked, BookedIn
  <2>2. /\ t \in Tables
        /\ t.receipts = [tables.receipts EXCEPT ![e] = 0]
        /\ t.daily = [tables.daily EXCEPT ![d] = @ + n]
        /\ t.keyed = IF Body[e].key = NoKey THEN tables.keyed
                     ELSE [tables.keyed EXCEPT ![<<d, Body[e].key>>] = @ + n]
        /\ t.unique = IF Body[e].hash = NoHash THEN tables.unique
                      ELSE tables.unique \cup {<<d, Body[e].hash>>}
    BY <1>1, <1>4, EventWrites
  <2> HIDE DEF t
  <2>3. /\ tables.daily \in [Days -> Nat] /\ tables.keyed \in [Days \X Keys -> Nat]
        /\ tables.unique \subseteq Days \X Hashes /\ n \in Nat
    BY StatsAssumption DEF Tables
  <2>4. ASSUME NEW x \in Days
        PROVE  /\ IsFiniteSet(Units(Today(C \cup {e}, message, x)))
               /\ t.daily[x] = CountOf(Today(C \cup {e}, message, x))
               /\ \A k \in Keys :
                    t.keyed[<<x, k>>] = CountOf({g \in Today(C \cup {e}, message, x) : Body[g].key = k})
               /\ \A h \in Hashes :
                    <<x, h>> \in t.unique <=> \E g \in Today(C \cup {e}, message, x) : Body[g].hash = h
    <3> DEFINE S == Today(C, message, x)
    <3>1. /\ IsFiniteSet(Units(S)) /\ tables.daily[x] = CountOf(S)
          /\ \A k \in Keys : tables.keyed[<<x, k>>] = CountOf({g \in S : Body[g].key = k})
          /\ \A h \in Hashes : <<x, h>> \in tables.unique <=> \E g \in S : Body[g].hash = h
          /\ S \subseteq Events /\ e \notin S
      BY <2>1 DEF Booked, BookedIn, Today
    <3>2. CASE x # d
      <4>1. Today(C \cup {e}, message, x) = S
        BY <3>2 DEF Today
      <4>2. t.daily[x] = tables.daily[x] /\ \A k \in Keys : t.keyed[<<x, k>>] = tables.keyed[<<x, k>>]
        BY <2>2, <2>3, <3>2
      <4>3. \A h \in Hashes : <<x, h>> \in t.unique <=> <<x, h>> \in tables.unique
        BY <2>2, <3>2
      <4> QED BY <3>1, <4>1, <4>2, <4>3
    <3>3. CASE x = d
      <4>1. Today(C \cup {e}, message, x) = S \cup {e}
        BY <3>3 DEF Today
      <4>2. IsFiniteSet(Units(S \cup {e})) /\ CountOf(S \cup {e}) = CountOf(S) + n
        BY <3>1, UnitsGrow
      <4>3. t.daily[x] = CountOf(S) + n
        BY <1>1, <2>2, <2>3, <3>1, <3>3
      <4>4. ASSUME NEW k \in Keys
            PROVE  t.keyed[<<x, k>>] = CountOf({g \in S \cup {e} : Body[g].key = k})
        <5> DEFINE K == {g \in S : Body[g].key = k}
        <5>1. K \in SUBSET S /\ IsFiniteSet(Units(K)) /\ tables.keyed[<<x, k>>] = CountOf(K) /\ e \notin K
          BY <3>1, UnitsOfSome
        <5>2. CASE Body[e].key = k
          <6>1. {g \in S \cup {e} : Body[g].key = k} = K \cup {e}
            BY <5>2
          <6>2. CountOf(K \cup {e}) = CountOf(K) + n
            BY <3>1, <5>1, UnitsGrow
          <6>3. k # NoKey
            BY DEF Keys
          <6>4. t.keyed[<<x, k>>] = tables.keyed[<<x, k>>] + n
            BY <1>1, <2>2, <2>3, <3>3, <5>2, <6>3
          <6> QED BY <5>1, <6>1, <6>2, <6>4
        <5>3. CASE Body[e].key # k
          <6>1. {g \in S \cup {e} : Body[g].key = k} = K
            BY <5>3
          <6>2. t.keyed[<<x, k>>] = tables.keyed[<<x, k>>]
            BY <1>1, <2>2, <2>3, <3>3, <5>3
          <6> QED BY <5>1, <6>1, <6>2
        <5> QED BY <5>2, <5>3
      <4>5. ASSUME NEW h \in Hashes
            PROVE  <<x, h>> \in t.unique <=> \E g \in S \cup {e} : Body[g].hash = h
        <5>1. h # NoHash
          BY DEF Hashes
        <5> QED BY <2>2, <3>1, <3>3, <5>1
      <4> QED BY <4>1, <4>2, <4>3, <4>4, <4>5
    <3> QED BY <3>2, <3>3
  <2>5. \A g \in Events : t.receipts[g] >= 0 =>
          g \in C \cup {e} /\ t.receipts[g] <= day - message[g].day
    BY <1>1, <1>2, <2>2 DEF Booked, BookedIn
  <2>6. \A g \in C \cup {e} :
          /\ message[g].status # "new"
          /\ day - message[g].day < STATS_RECEIPT_RETENTION => t.receipts[g] >= 0
    BY <1>2, <2>2 DEF Booked, BookedIn, Recent
  <2> QED BY <2>2, <2>4, <2>5, <2>6 DEF Booked, BookedIn, t
<1> QED BY <1>2, <1>3, <1>4

-----------------------------------------------------------------------------
(* Days and receipts. *)

\* The messages that were sent keep their day.
LEMMA BookedStays ==
  ASSUME NEW tables, NEW C \in SUBSET Events, NEW mail, Booked(tables, C),
         \A e \in Events : message[e].status # "new" =>
           mail[e].status # "new" /\ mail[e].day = message[e].day
  PROVE  BookedIn(tables, C, mail, day)
<1>1. \A e \in C : mail[e].status # "new" /\ mail[e].day = message[e].day
  BY DEF Booked, BookedIn
<1>2. \A d \in Days : Today(C, mail, d) = Today(C, message, d)
  BY <1>1 DEF Today
<1> QED BY <1>1, <1>2 DEF Booked, BookedIn

\* A receipt that is cleaned has outlived the retention.
LEMMA CleanBooked ==
  ASSUME NEW C \in SUBSET Events, StatsTypeOK, Booked(db, C), CleanReceipts
  PROVE  tx' \in Tables /\ Booked(tx', C)
<1>1. PICK D \in SUBSET {e \in Events : db.receipts[e] >= STATS_RECEIPT_RETENTION} :
        tx' = [db EXCEPT !.receipts = [e \in Events |-> IF e \in D THEN -1 ELSE db.receipts[e]]]
  BY DEF CleanReceipts
<1>2. db \in Tables /\ db.receipts \in [Events -> -1..STATS_RECEIPT_RETENTION]
      /\ day \in Int /\ STATS_RECEIPT_RETENTION \in Nat
      /\ \A e \in Events : message[e].day \in Int
  BY StatsAssumption DEF StatsTypeOK, Tables, Days
<1>3. tx'.receipts = [e \in Events |-> IF e \in D THEN -1 ELSE db.receipts[e]]
      /\ tx'.daily = db.daily /\ tx'.keyed = db.keyed /\ tx'.unique = db.unique
  BY <1>1, <1>2 DEF Tables
<1>4. tx' \in Tables
  BY <1>1, <1>2 DEF Tables
<1>5. \A e \in Events : tx'.receipts[e] >= 0 =>
        e \in C /\ tx'.receipts[e] <= day - message[e].day
  BY <1>2, <1>3 DEF Booked, BookedIn
<1>6. ASSUME NEW e \in C, day - message[e].day < STATS_RECEIPT_RETENTION
      PROVE  tx'.receipts[e] >= 0
  <2>1. db.receipts[e] >= 0 /\ db.receipts[e] <= day - message[e].day
    BY <1>6 DEF Booked, BookedIn
  <2>2. db.receipts[e] \in Int /\ message[e].day \in Int
    BY <1>2
  <2>3. ~ (db.receipts[e] >= STATS_RECEIPT_RETENTION)
    BY <1>2, <1>6, <2>1, <2>2
  <2> QED BY <1>1, <1>3, <2>1, <2>3
<1> QED BY <1>3, <1>4, <1>5, <1>6 DEF Booked, BookedIn

-----------------------------------------------------------------------------
(* The steps. *)

LEMMA StatsBegins == StatsInit => StatsInv
<1> SUFFICES ASSUME StatsInit PROVE StatsInv
  OBVIOUS
<1> USE StatsAssumption DEF StatsInit
<1>1. db \in Tables /\ tx \in Tables
  BY DEF Tables
<1>2. <<>> \in Seq(Events) /\ Len(<<>>) = 0 /\ DOMAIN <<>> = {}
  OBVIOUS
<1>3. StatsTypeOK
  BY <1>1, <1>2 DEF StatsTypeOK, Days, NoBatch
<1>4. Booked(db, counted)
  <2>1. \A d \in Days : /\ Today({}, message, d) = {}
                        /\ \A k \in Keys : {e \in Today({}, message, d) : Body[e].key = k} = {}
    BY DEF Today
  <2>2. \A d \in Days : db.daily[d] = 0 /\ \A k \in Keys : db.keyed[<<d, k>>] = 0
    OBVIOUS
  <2>3. \A d \in Days :
          /\ IsFiniteSet(Units(Today({}, message, d))) /\ db.daily[d] = CountOf(Today({}, message, d))
          /\ \A k \in Keys : db.keyed[<<d, k>>] = CountOf({e \in Today({}, message, d) : Body[e].key = k})
          /\ \A h \in Hashes : <<d, h>> \in db.unique <=> \E e \in Today({}, message, d) : Body[e].hash = h
    <3>1. db.unique = {}
      OBVIOUS
    <3> QED BY <2>1, <2>2, <3>1, UnitsOfNone
  <2>4. counted = {} /\ \A e \in Events : db.receipts[e] = -1
    OBVIOUS
  <2>5. BookedIn(db, {}, message, day)
    <3>1. \A e \in Events : ~ (db.receipts[e] >= 0)
      BY <2>4
    <3> QED BY <2>3, <3>1 DEF BookedIn
  <2> QED BY <2>4, <2>5 DEF Booked
<1>5. \A b \in Batches : Held(b) /\ ~ At(b, "applying")
  BY <1>2 DEF Held, At, Within, NoBatch
<1> QED BY <1>3, <1>4, <1>5 DEF StatsInv, Underway, Dated, Acknowledged

\* What a step of the messages leaves.
LEMMA MessagesMove ==
  ASSUME StatsInv, UNCHANGED <<day, db, counted>>,
         message' \in [Events -> Mail],
         \A e \in Events : message[e].status # "new" =>
           message'[e].status # "new" /\ message'[e].day = message[e].day
  PROVE  /\ Booked(db, counted)'
         /\ \A e \in Events : Recent(e) => Recent(e)'
         /\ UNCHANGED <<tx, batch>> => Underway'
         /\ \A b \in Batches : UNCHANGED batch => Held(b)'
<1>1. counted \in SUBSET Events /\ Booked(db, counted)
  BY DEF StatsInv, StatsTypeOK
<1>2. Booked(db, counted)'
  BY <1>1, BookedStays DEF Booked
<1>3. \A e \in Events : Recent(e) => Recent(e)'
  BY DEF Recent
<1>4. ASSUME UNCHANGED <<tx, batch>>, NEW b \in Batches, At(b, "applying")'
      PROVE  Booked(tx, counted \cup Applied(b))'
  <2>1. At(b, "applying") /\ Booked(tx, counted \cup Applied(b))
    BY <1>4 DEF At, StatsInv, Underway
  <2>2. batch[b].events \in Seq(Events) /\ batch[b].done \in Nat /\ batch[b].done <= Len(batch[b].events)
    BY DEF StatsInv, StatsTypeOK, Held
  <2>3. counted \cup Applied(b) \in SUBSET Events
    BY <1>1, <2>2 DEF Applied
  <2>4. BookedIn(tx, counted \cup Applied(b), message', day)
    BY <2>1, <2>3, BookedStays
  <2>5. Applied(b)' = Applied(b)
    BY <1>4 DEF Applied
  <2> QED BY <1>4, <2>4, <2>5 DEF Booked
<1>5. ASSUME UNCHANGED batch, NEW b \in Batches
      PROVE  Held(b)'
  <2>1. Within(b)' = Within(b) /\ Within(b) \subseteq Events
    BY <1>5 DEF Within, StatsInv, StatsTypeOK
  <2> QED BY <1>3, <1>5, <2>1 DEF StatsInv, Held, At
<1> QED BY <1>2, <1>3, <1>4, <1>5 DEF Underway

\* The transaction of another invocation than b is not disturbed.
TxOther(b) == \A c \in Batches \ {b} : At(c, "applying") => tx' = tx

\* The end of an invocation, whatever it does to its messages.
LEMMA BatchEnds ==
  ASSUME StatsInv, NEW b \in Batches, batch' = [batch EXCEPT ![b] = NoBatch],
         UNCHANGED <<day, db, counted>>, tx' \in {tx, db}, TxOther(b),
         message' \in [Events -> Mail], Acknowledged',
         \A e \in Events : /\ message'[e].day = message[e].day
                           /\ message'[e].status # "new" <=> message[e].status # "new"
                           /\ message'[e].status = "queued" => message[e].status = "queued"
  PROVE  StatsInv'
<1>1. /\ StatsTypeOK /\ Booked(db, counted) /\ Underway
      /\ Dated /\ (\A c \in Batches : Held(c)) /\ counted \subseteq Events
  BY DEF StatsInv, StatsTypeOK
<1>2. batch \in [Batches -> Work]
  BY <1>1 DEF StatsTypeOK, Work
<1>3. batch'[b] = NoBatch /\ \A c \in Batches \ {b} : batch'[c] = batch[c]
  BY <1>2
<1>4. batch' \in [Batches -> Work]
  <2>1. <<>> \in Seq(Events) /\ 0 \in 0..STATS_MAX_BATCH
    BY StatsAssumption
  <2> QED BY <1>2, <2>1 DEF Work, NoBatch
<1>5. StatsTypeOK'
  BY <1>1, <1>4 DEF StatsTypeOK, Work, Mail
<1>6. Booked(db, counted)' /\ \A e \in Events : Recent(e) => Recent(e)'
  BY MessagesMove
<1>7. Dated'
  BY <1>1, <1>6 DEF Dated
<1>8. ASSUME NEW c \in Batches \ {b}
      PROVE  Held(c)' /\ (At(c, "applying")' => Booked(tx, counted \cup Applied(c))')
  <2>1. /\ batch[c].events \in Seq(Events) /\ batch[c].done \in Nat
        /\ batch[c].done <= Len(batch[c].events)
    BY <1>1, <1>2 DEF Work, Held
  <2>2. Within(c) \subseteq Events /\ Within(c)' = Within(c) /\ Applied(c)' = Applied(c)
        /\ Applied(c) \subseteq Events
    BY <1>3, <2>1 DEF Within, Applied
  <2>3. \A x \in Batches : At(x, "applying")' => At(x, "applying")
    BY <1>3 DEF At, NoBatch
  <2>4. Held(c)'
    BY <1>1, <1>3, <1>6, <2>2, <2>3 DEF Held, At
  <2>5. ASSUME At(c, "applying")'
        PROVE  Booked(tx, counted \cup Applied(c))'
    <3>1. tx' = tx /\ Booked(tx, counted \cup Applied(c))
      BY <1>1, <2>3, <2>5 DEF TxOther, Underway
    <3>2. counted \cup Applied(c) \in SUBSET Events
      BY <1>1, <2>2
    <3>3. BookedIn(tx, counted \cup Applied(c), message', day)
      BY <3>1, <3>2, BookedStays
    <3> QED BY <2>2, <3>1, <3>3 DEF Booked
  <2> QED BY <2>4, <2>5
<1>9. Held(b)' /\ ~ At(b, "applying")'
  <2>1. Len(<<>>) = 0 /\ DOMAIN <<>> = {}
    OBVIOUS
  <2> QED BY <1>3, <2>1, StatsAssumption DEF Held, At, Within, NoBatch
<1> QED BY <1>5, <1>6, <1>7, <1>8, <1>9 DEF StatsInv, Underway

LEMMA StatsStep == StatsInv /\ [StatsNext]_statsVars => StatsInv'
<1> SUFFICES ASSUME StatsInv, [StatsNext]_statsVars PROVE StatsInv'
  OBVIOUS
<1> USE StatsAssumption
<1>1. /\ StatsTypeOK /\ Booked(db, counted) /\ Underway
      /\ Dated /\ (\A b \in Batches : Held(b)) /\ Acknowledged
  BY DEF StatsInv
<1>2. /\ day \in Days /\ message \in [Events -> Mail] /\ batch \in [Batches -> Work]
      /\ db \in Tables /\ tx \in Tables /\ counted \in SUBSET Events
  BY <1>1 DEF StatsTypeOK, Mail, Work
<1>3. \A b \in Batches : /\ batch[b].events \in Seq(Events) /\ batch[b].done \in Nat
                         /\ Len(batch[b].events) \in Nat
                         /\ Within(b) = {batch[b].events[i] : i \in 1..Len(batch[b].events)}
                         /\ Within(b) \subseteq Events /\ Applied(b) \subseteq Events
  <2> SUFFICES ASSUME NEW b \in Batches
               PROVE  /\ batch[b].events \in Seq(Events) /\ batch[b].done \in Nat
                      /\ Len(batch[b].events) \in Nat
                      /\ Within(b) = {batch[b].events[i] : i \in 1..Len(batch[b].events)}
                      /\ Within(b) \subseteq Events /\ Applied(b) \subseteq Events
    OBVIOUS
  <2>1. batch[b].events \in Seq(Events) /\ batch[b].done \in Nat
    BY <1>2 DEF Work
  <2>2. batch[b].done <= Len(batch[b].events)
    BY <1>1 DEF Held
  <2> QED BY <2>1, <2>2 DEF Within, Applied
<1>4. CASE UNCHANGED statsVars
  <2>1. UNCHANGED <<day, message, db, tx, batch, counted>>
    BY <1>4 DEF statsVars
  <2>2. StatsTypeOK' /\ Dated' /\ Acknowledged'
    BY <1>1, <2>1 DEF StatsTypeOK, Dated, Acknowledged, Recent
  <2>3. Booked(db, counted)'
    BY <1>1, <2>1 DEF Booked
  <2>4. Underway'
    BY <1>1, <2>1 DEF Underway, Booked, At, Applied
  <2>5. \A b \in Batches : Held(b)'
    BY <1>1, <2>1 DEF Held, At, Within, Recent
  <2> QED BY <2>2, <2>3, <2>4, <2>5 DEF StatsInv
<1>5. CASE EmitStat
  <2>1. PICK e \in Events : message[e].status = "new"
                          /\ message' = [message EXCEPT ![e].status = "queued", ![e].day = day]
    BY <1>5 DEF EmitStat
  <2>2. UNCHANGED <<day, db, tx, batch, counted>>
    BY <1>5 DEF EmitStat
  <2>3. message' \in [Events -> Mail] /\ message'[e] = [status |-> "queued", day |-> day]
        /\ \A g \in Events \ {e} : message'[g] = message[g]
    <3>1. day \in 0..LastDay
      BY <1>2 DEF Days
    <3>2. message'[e] = [status |-> "queued", day |-> day]
      BY <1>2, <2>1 DEF Mail
    <3>3. message' = [message EXCEPT ![e] = [status |-> "queued", day |-> day]]
      BY <1>2, <2>1, <3>2
    <3> QED BY <1>2, <3>1, <3>3 DEF Mail
  <2>4. StatsTypeOK'
    BY <1>1, <2>2, <2>3 DEF StatsTypeOK, Mail
  <2>5. Dated'
    BY <1>1, <1>2, <2>2, <2>3 DEF Dated, Recent, Days
  <2>6. Acknowledged'
    BY <1>1, <2>2, <2>3 DEF Acknowledged
  <2> QED BY <2>1, <2>2, <2>3, <2>4, <2>5, <2>6, MessagesMove DEF StatsInv
<1>6. CASE NextDay
  <2> USE <1>6 DEF NextDay
  <2>1. \A b \in Batches : At(b, "idle") /\ batch[b] = NoBatch /\ Within(b) = {}
    BY <1>1 DEF Held, Within, NoBatch
  <2>2. /\ message' \in [Events -> Mail]
        /\ \A e \in Events : /\ message'[e].day = message[e].day
                             /\ message'[e].status # "new" <=> message[e].status # "new"
                             /\ message'[e].status = "acked" => message[e].status = "acked"
                             /\ message'[e].status = "queued" =>
                                  message[e].status = "queued" /\ day' - message[e].day <= QUEUE_RETENTION
    <3>1. message' = [e \in Events |->
            IF e \in Queued /\ day' - message[e].day > QUEUE_RETENTION
            THEN [message[e] EXCEPT !.status = "gone"] ELSE message[e]]
      OBVIOUS
    <3>2. \A e \in Events : day' - message[e].day \in Int
      BY <1>2 DEF Mail, Days
    <3> SUFFICES ASSUME NEW e \in Events
                 PROVE  /\ message'[e] \in Mail /\ message'[e].day = message[e].day
                        /\ message'[e].status # "new" <=> message[e].status # "new"
                        /\ message'[e].status = "acked" => message[e].status = "acked"
                        /\ message'[e].status = "queued" =>
                             message[e].status = "queued" /\ day' - message[e].day <= QUEUE_RETENTION
      BY <3>1
    <3> DEFINE late == day' - message[e].day > QUEUE_RETENTION
    <3>3. message'[e] = IF e \in Queued /\ late THEN [message[e] EXCEPT !.status = "gone"] ELSE message[e]
      BY <3>1
    <3>4. ~ late => day' - message[e].day <= QUEUE_RETENTION
      BY <3>2
    <3>5. message[e] \in Mail
      BY <1>2
    <3> HIDE DEF late
    <3> QED BY <3>3, <3>4, <3>5 DEF Mail, Queued
  <2>3. day' = day + 1 /\ day' \in Days /\ day \in Int
    BY <1>2 DEF Days
  <2> DEFINE aged == [e \in Events |->
               IF db.receipts[e] \in {-1, STATS_RECEIPT_RETENTION} THEN db.receipts[e]
               ELSE db.receipts[e] + 1]
  <2>4. db.receipts \in [Events -> -1..STATS_RECEIPT_RETENTION]
    BY <1>2 DEF Tables
  <2>5. aged \in [Events -> -1..STATS_RECEIPT_RETENTION]
        /\ \A e \in Events : /\ aged[e] >= 0 <=> db.receipts[e] >= 0
                             /\ aged[e] <= db.receipts[e] + 1
    <3> SUFFICES ASSUME NEW e \in Events
                 PROVE  /\ aged[e] \in -1..STATS_RECEIPT_RETENTION
                        /\ aged[e] >= 0 <=> db.receipts[e] >= 0
                        /\ aged[e] <= db.receipts[e] + 1
      BY ZenonT(20)
    <3> DEFINE r == db.receipts[e]
    <3>1. r \in -1..STATS_RECEIPT_RETENTION /\ STATS_RECEIPT_RETENTION \in Nat
      BY <2>4
    <3>2. aged[e] = IF r = -1 \/ r = STATS_RECEIPT_RETENTION THEN r ELSE r + 1
      OBVIOUS
    <3> HIDE DEF r, aged
    <3>3. /\ aged[e] \in -1..STATS_RECEIPT_RETENTION
          /\ aged[e] >= 0 <=> r >= 0
          /\ aged[e] <= r + 1
      BY <3>1, <3>2
    <3> QED BY <3>3 DEF r
  <2>6. db' \in Tables /\ tx' \in Tables /\ db'.receipts = aged /\ db'.daily = db.daily
        /\ db'.keyed = db.keyed /\ db'.unique = db.unique
    <3>1. db' = [db EXCEPT !.receipts = aged] /\ tx' = db'
      OBVIOUS
    <3> HIDE DEF aged
    <3> QED BY <1>2, <2>5, <3>1 DEF Tables
  <2> HIDE DEF aged
  <2>7. StatsTypeOK'
    BY <1>1, <2>2, <2>3, <2>6 DEF StatsTypeOK, Mail
  <2>8. Booked(db, counted)'
    <3>1. \A d \in Days : Today(counted, message', d) = Today(counted, message, d)
      BY <1>2, <2>2 DEF Today
    <3>2. ASSUME NEW e \in Events, db'.receipts[e] >= 0
          PROVE  e \in counted /\ db'.receipts[e] <= day' - message'[e].day
      <4>1. db.receipts[e] >= 0 /\ aged[e] <= db.receipts[e] + 1 /\ db.receipts[e] \in Int
            /\ aged[e] \in Int /\ message[e].day \in Int
        BY <1>2, <2>4, <2>5, <2>6, <3>2 DEF Mail
      <4>2. e \in counted /\ db.receipts[e] <= day - message[e].day
        BY <1>1, <4>1 DEF Booked, BookedIn
      <4>3. aged[e] <= day' - message[e].day
        BY <2>3, <4>1, <4>2
      <4> QED BY <2>2, <2>6, <4>2, <4>3
    <3>3. ASSUME NEW e \in counted
          PROVE  /\ message'[e].status # "new"
                 /\ day' - message'[e].day < STATS_RECEIPT_RETENTION => db'.receipts[e] >= 0
      <4>1. e \in Events /\ message[e].day \in Int
        BY <1>2 DEF Mail
      <4>2. day' - message[e].day < STATS_RECEIPT_RETENTION => day - message[e].day < STATS_RECEIPT_RETENTION
        BY <2>3, <4>1
      <4> QED BY <1>1, <2>2, <2>5, <2>6, <4>1, <4>2 DEF Booked, BookedIn
    <3>4. ASSUME NEW d \in Days
          PROVE  /\ IsFiniteSet(Units(Today(counted, message', d)))
                 /\ db'.daily[d] = CountOf(Today(counted, message', d))
                 /\ \A k \in Keys :
                      db'.keyed[<<d, k>>] = CountOf({e \in Today(counted, message', d) : Body[e].key = k})
                 /\ \A h \in Hashes :
                      <<d, h>> \in db'.unique <=> \E e \in Today(counted, message', d) : Body[e].hash = h
      <4> DEFINE D == Today(counted, message, d)
      <4>1. /\ IsFiniteSet(Units(D)) /\ db.daily[d] = CountOf(D)
            /\ \A k \in Keys : db.keyed[<<d, k>>] = CountOf({e \in D : Body[e].key = k})
            /\ \A h \in Hashes : <<d, h>> \in db.unique <=> \E e \in D : Body[e].hash = h
        BY <1>1 DEF Booked, BookedIn
      <4>2. Today(counted, message', d) = D
        BY <3>1
      <4> HIDE DEF D
      <4> QED BY <2>6, <4>1, <4>2
    <3>5. BookedIn(db', counted, message', day')
      BY <3>2, <3>3, <3>4 DEF BookedIn
    <3>6. counted' = counted
      OBVIOUS
    <3> QED BY <3>5, <3>6 DEF Booked
  <2>9. Dated'
    BY <1>1, <1>2, <2>2, <2>3 DEF Dated, Recent, Days, Mail
  <2>10. \A b \in Batches : Held(b)' /\ ~ At(b, "applying")'
    BY <1>1, <2>1 DEF Held, At, Within, NoBatch
  <2>11. Acknowledged'
    BY <1>1, <2>2 DEF Acknowledged
  <2> QED BY <2>7, <2>8, <2>9, <2>10, <2>11 DEF StatsInv, Underway
<1>7. ASSUME NEW b \in Batches, TakeBatch(b)
      PROVE  StatsInv'
  <2>1. PICK n \in 1..STATS_MAX_BATCH, taken \in Seq(Events) :
          /\ Len(taken) = n /\ \A i \in 1..n : taken[i] \in Queued
          /\ batch' = [batch EXCEPT ![b] = [pc |-> "loaded", events |-> taken, done |-> 0]]
    <3>1. PICK n \in 1..STATS_MAX_BATCH : \E taken \in [1..n -> Queued] :
            batch' = [batch EXCEPT ![b] = [pc |-> "loaded", events |-> taken, done |-> 0]]
      BY <1>7 DEF TakeBatch
    <3>2. PICK taken \in [1..n -> Queued] :
            batch' = [batch EXCEPT ![b] = [pc |-> "loaded", events |-> taken, done |-> 0]]
      BY <3>1
    <3>3. taken \in Seq(Events) /\ Len(taken) = n
      BY <3>2 DEF Queued
    <3> QED BY <3>2, <3>3
  <2>2. UNCHANGED <<day, message, db, tx, counted>> /\ At(b, "idle")
    BY <1>7 DEF TakeBatch
  <2>3. batch'[b] = [pc |-> "loaded", events |-> taken, done |-> 0]
        /\ \A c \in Batches \ {b} : batch'[c] = batch[c]
    BY <1>2, <2>1
  <2>4. batch' \in [Batches -> Work]
    BY <1>2, <2>1 DEF Work
  <2>5. StatsTypeOK'
    BY <1>1, <2>2, <2>4 DEF StatsTypeOK, Work
  <2>6. ASSUME NEW c \in Batches \ {b}
        PROVE  Held(c)'
    <3>1. \A x \in Batches : At(x, "applying")' => At(x, "applying")
      BY <2>3 DEF At
    <3>2. Within(c)' = Within(c) /\ \A e \in Within(c) : Recent(e) <=> Recent(e)'
      BY <2>2, <2>3 DEF Within, Recent
    <3> QED BY <1>1, <2>2, <2>3, <3>1, <3>2 DEF Held, At
  <2>7. Held(b)'
    <3>1. Within(b)' \subseteq Queued
      BY <2>1, <2>3 DEF Within
    <3>2. \A e \in Queued : Recent(e)'
      <4> SUFFICES ASSUME NEW e \in Queued PROVE Recent(e)'
        OBVIOUS
      <4>1. Recent(e)
        BY <1>1 DEF Dated, Queued
      <4> QED BY <2>2, <4>1 DEF Recent
    <3> QED BY <2>1, <2>3, <3>1, <3>2 DEF Held, At
  <2>8. Underway'
    <3> SUFFICES ASSUME NEW c \in Batches, At(c, "applying")' PROVE Booked(tx, counted \cup Applied(c))'
      BY DEF Underway
    <3>1. c # b /\ At(c, "applying") /\ Applied(c)' = Applied(c)
      BY <2>3 DEF At, Applied
    <3>2. Booked(tx, counted \cup Applied(c))
      BY <1>1, <3>1 DEF Underway
    <3> QED BY <2>2, <3>1, <3>2 DEF Booked
  <2> QED BY <1>1, <2>2, <2>5, <2>6, <2>7, <2>8 DEF StatsInv, Booked, Dated, Recent, Acknowledged
<1>8. ASSUME NEW b \in Batches, Begin(b)
      PROVE  StatsInv'
  <2>1. /\ At(b, "loaded") /\ (\A c \in Batches : ~ At(c, "applying")) /\ CleanReceipts
        /\ batch' = [batch EXCEPT ![b].pc = "applying"] /\ UNCHANGED <<day, message, db, counted>>
    BY <1>8 DEF Begin, Goes
  <2>2. tx' \in Tables /\ Booked(tx', counted)
    BY <1>1, <1>2, <2>1, CleanBooked
  <2>3. batch' \in [Batches -> Work] /\ batch'[b].pc = "applying" /\ batch'[b].done = batch[b].done
        /\ batch'[b].events = batch[b].events /\ \A c \in Batches \ {b} : batch'[c] = batch[c]
    BY <1>2, <2>1 DEF Work
  <2>4. StatsTypeOK'
    BY <1>1, <2>1, <2>2, <2>3 DEF StatsTypeOK, Work
  <2>5. \A c \in Batches : Held(c)' /\ (At(c, "applying")' => c = b)
    <3>1. \A c \in Batches : At(c, "applying")' => c = b
      BY <2>1, <2>3 DEF At
    <3>2. \A c \in Batches \ {b} : Held(c)'
      BY <1>1, <2>1, <2>3, <3>1 DEF Held, At, Within, Recent
    <3>3. Held(b)'
      BY <1>1, <2>1, <2>3, <3>1 DEF Held, At, Within, Recent
    <3> QED BY <3>1, <3>2, <3>3
  <2>6. Underway'
    <3>1. Applied(b)' = {}
      BY <1>1, <2>1, <2>3 DEF Held, Applied
    <3>2. counted' \cup Applied(b)' = counted
      BY <2>1, <3>1
    <3>3. Booked(tx, counted \cup Applied(b))'
      BY <2>1, <2>2, <3>2 DEF Booked
    <3> QED BY <2>5, <3>3 DEF Underway
  <2> QED BY <1>1, <2>1, <2>4, <2>5, <2>6 DEF StatsInv, Booked, Dated, Recent, Acknowledged
<1>9. ASSUME NEW b \in Batches, Apply(b)
      PROVE  StatsInv'
  <2> DEFINE e == batch[b].events[batch[b].done + 1]
  <2>1. /\ At(b, "applying") /\ batch[b].done < Len(batch[b].events)
        /\ tx' = ApplyEvent(tx, e) /\ batch' = [batch EXCEPT ![b].done = @ + 1]
        /\ UNCHANGED <<day, message, db, counted>>
    BY <1>9 DEF Apply
  <2>2. e \in Within(b) /\ e \in Events
    <3>1. batch[b].done + 1 \in 1..Len(batch[b].events)
      BY <1>3, <2>1
    <3> QED BY <1>3, <3>1
  <2>3. Recent(e) /\ message[e].day \in 1..day
    <3> HIDE DEF e
    <3>1. Recent(e)
      BY <1>1, <2>2 DEF Held
    <3> QED BY <1>1, <2>2, <3>1 DEF Dated, Recent
  <2>4. counted \cup Applied(b) \in SUBSET Events /\ Booked(tx, counted \cup Applied(b))
    BY <1>1, <1>2, <1>3, <2>1 DEF Underway
  <2>5. tx' \in Tables /\ Booked(tx', (counted \cup Applied(b)) \cup {e})
    <3> HIDE DEF e
    <3> QED BY <1>2, <2>1, <2>2, <2>3, <2>4, EventBooked
  <2>6. /\ batch'[b].pc = "applying" /\ batch'[b].done = batch[b].done + 1
        /\ batch'[b].events = batch[b].events /\ \A c \in Batches \ {b} : batch'[c] = batch[c]
        /\ batch' = [batch EXCEPT ![b] = [pc |-> batch[b].pc, events |-> batch[b].events, done |-> batch[b].done + 1]]
    <3>1. batch[b] \in Work /\ batch[b].pc = "applying"
      BY <1>2, <2>1 DEF At
    <3>2. [batch[b] EXCEPT !.done = @ + 1]
            = [pc |-> batch[b].pc, events |-> batch[b].events, done |-> batch[b].done + 1]
      BY <3>1 DEF Work
    <3>3. batch' = [batch EXCEPT ![b] = [pc |-> batch[b].pc, events |-> batch[b].events,
                                         done |-> batch[b].done + 1]]
      BY <2>1, <3>2, Zenon
    <3> QED BY <1>2, <3>1, <3>3
  <2>7. Applied(b)' = Applied(b) \cup {e}
    <3>1. 1..(batch[b].done + 1) = 1..batch[b].done \cup {batch[b].done + 1}
      BY <1>3
    <3> QED BY <2>6, <3>1 DEF Applied
  <2>8. batch[b].done + 1 <= Len(batch[b].events) /\ batch[b].done + 1 \in 0..STATS_MAX_BATCH
    BY <1>1, <1>3, <2>1 DEF Held
  <2>9. batch' \in [Batches -> Work]
    BY <1>2, <2>6, <2>8 DEF Work
  <2>10. StatsTypeOK'
    BY <1>1, <2>1, <2>5, <2>9 DEF StatsTypeOK, Work
  <2>11. \A c \in Batches : Held(c)' /\ (At(c, "applying")' => c = b)
    <3>1. \A c \in Batches : At(c, "applying")' => c = b
      BY <1>1, <2>1, <2>6 DEF Held, At
    <3>2. \A c \in Batches \ {b} : Held(c)'
      BY <1>1, <2>1, <2>6, <3>1 DEF Held, At, Within, Recent
    <3>3. Held(b)'
      BY <1>1, <2>1, <2>6, <2>8, <3>1 DEF Held, At, Within, Recent
    <3> QED BY <3>1, <3>2, <3>3
  <2>12. Underway'
    <3>1. counted' \cup Applied(b)' = (counted \cup Applied(b)) \cup {e}
      BY <2>1, <2>7
    <3>2. Booked(tx, counted \cup Applied(b))'
      BY <2>1, <2>5, <3>1 DEF Booked
    <3> QED BY <2>11, <3>2 DEF Underway
  <2> QED BY <1>1, <2>1, <2>10, <2>11, <2>12 DEF StatsInv, Booked, Dated, Recent, Acknowledged
<1>10. ASSUME NEW b \in Batches, Commit(b)
       PROVE  StatsInv'
  <2>1. /\ At(b, "applying") /\ batch[b].done = Len(batch[b].events)
        /\ db' = [tx EXCEPT !.changes = 0] /\ tx' = db' /\ counted' = counted \cup Within(b)
        /\ UNCHANGED <<day, message>>
    BY <1>10 DEF Commit
  <2>2. PICK pc \in {"acking", "retrying"} : batch' = [batch EXCEPT ![b].pc = pc]
    BY <1>10 DEF Commit, Goes
  <2>3. batch' \in [Batches -> Work] /\ batch'[b].pc = pc /\ batch'[b].done = batch[b].done
        /\ batch'[b].events = batch[b].events /\ \A c \in Batches \ {b} : batch'[c] = batch[c]
    BY <1>2, <2>2 DEF Work
  <2>4. Applied(b) = Within(b)
    BY <1>3, <2>1 DEF Applied
  <2>5. Booked(tx, counted')
    BY <1>1, <2>1, <2>4 DEF Underway
  <2>6. db' \in Tables /\ db'.receipts = tx.receipts /\ db'.daily = tx.daily
        /\ db'.keyed = tx.keyed /\ db'.unique = tx.unique
    BY <1>2, <2>1 DEF Tables
  <2>7. Booked(db', counted')
    BY <2>5, <2>6 DEF Booked, BookedIn
  <2>8. StatsTypeOK'
    BY <1>1, <1>3, <2>1, <2>3, <2>6 DEF StatsTypeOK, Work
  <2>9. \A c \in Batches : Held(c)' /\ ~ At(c, "applying")'
    <3>1. \A c \in Batches : ~ At(c, "applying")'
      BY <1>1, <2>1, <2>2, <2>3 DEF Held, At
    <3>2. \A c \in Batches \ {b} : Held(c)'
      BY <1>1, <2>1, <2>3, <3>1 DEF Held, At, Within, Recent
    <3>3. Held(b)'
      BY <1>1, <2>1, <2>2, <2>3, <3>1 DEF Held, At, Within, Recent
    <3> QED BY <3>1, <3>2, <3>3
  <2>10. Booked(db, counted)'
    BY <2>1, <2>7 DEF Booked
  <2> QED BY <1>1, <2>1, <2>8, <2>9, <2>10 DEF StatsInv, Underway, Dated, Recent, Acknowledged
<1>11. ASSUME NEW b \in Batches, Abort(b)
       PROVE  StatsInv'
  <2>1. /\ At(b, "applying") /\ tx' = db /\ batch' = [batch EXCEPT ![b].pc = "retrying"]
        /\ UNCHANGED <<day, message, db, counted>>
    BY <1>11 DEF Abort, Goes
  <2>2. batch' \in [Batches -> Work] /\ batch'[b].pc = "retrying" /\ batch'[b].done = batch[b].done
        /\ batch'[b].events = batch[b].events /\ \A c \in Batches \ {b} : batch'[c] = batch[c]
    BY <1>2, <2>1 DEF Work
  <2>3. StatsTypeOK'
    BY <1>1, <2>1, <2>2 DEF StatsTypeOK, Work
  <2>4. \A c \in Batches : Held(c)' /\ ~ At(c, "applying")'
    <3>1. \A c \in Batches : ~ At(c, "applying")'
      BY <1>1, <2>1, <2>2 DEF Held, At
    <3>2. \A c \in Batches \ {b} : Held(c)'
      BY <1>1, <2>1, <2>2, <3>1 DEF Held, At, Within, Recent
    <3>3. Held(b)'
      BY <1>1, <2>1, <2>2, <3>1 DEF Held, At, Within, Recent
    <3> QED BY <3>1, <3>2, <3>3
  <2> QED BY <1>1, <2>1, <2>3, <2>4 DEF StatsInv, Underway, Booked, Dated, Recent, Acknowledged
<1>12. ASSUME NEW b \in Batches, AckAll(b)
       PROVE  StatsInv'
  <2>1. /\ At(b, "acking") /\ batch' = [batch EXCEPT ![b] = NoBatch]
        /\ message' = [e \in Events |-> IF e \in Within(b) \cap Queued
                         THEN [message[e] EXCEPT !.status = "acked"] ELSE message[e]]
        /\ UNCHANGED <<day, db, tx, counted>>
    BY <1>12 DEF AckAll
  <2>2. Within(b) \subseteq counted
    BY <1>1, <2>1 DEF Held
  <2>3. /\ message' \in [Events -> Mail]
        /\ \A e \in Events : /\ message'[e].day = message[e].day
                             /\ message'[e].status # "new" <=> message[e].status # "new"
                             /\ message'[e].status = "queued" => message[e].status = "queued"
                             /\ message'[e].status = "acked" => message[e].status = "acked" \/ e \in counted
    BY <1>2, <2>1, <2>2 DEF Mail, Queued
  <2>4. TxOther(b)
    BY <1>1, <2>1 DEF TxOther, At
  <2>5. Acknowledged'
    BY <1>1, <2>1, <2>3 DEF Acknowledged
  <2> QED BY <1>1, <2>1, <2>3, <2>4, <2>5, BatchEnds
<1>13. ASSUME NEW b \in Batches, Retry(b)
       PROVE  StatsInv'
  <2>1. PICK dead \in SUBSET Within(b) : message' = [e \in Events |->
          IF e \in dead \cap Queued THEN [message[e] EXCEPT !.status = "gone"] ELSE message[e]]
    BY <1>13 DEF Retry, Redelivered
  <2>2. /\ tx' = IF At(b, "applying") THEN db ELSE tx
        /\ batch' = [batch EXCEPT ![b] = NoBatch] /\ UNCHANGED <<day, db, counted>>
    BY <1>13 DEF Retry
  <2>3. /\ message' \in [Events -> Mail]
        /\ \A e \in Events : /\ message'[e].day = message[e].day
                             /\ message'[e].status # "new" <=> message[e].status # "new"
                             /\ message'[e].status = "queued" => message[e].status = "queued"
                             /\ message'[e].status = "acked" => message[e].status = "acked"
    BY <1>2, <2>1 DEF Mail, Queued
  <2>4. TxOther(b)
    BY <1>1, <1>2, <2>2 DEF TxOther, Held
  <2>5. Acknowledged'
    BY <1>1, <2>2, <2>3 DEF Acknowledged
  <2> QED BY <1>1, <2>2, <2>3, <2>4, <2>5, BatchEnds
<1> QED BY <1>4, <1>5, <1>6, <1>7, <1>8, <1>9, <1>10, <1>11, <1>12, <1>13 DEF StatsNext

\* However often and whenever its message is delivered, an event is counted once,
\* and none is acknowledged uncounted (src/stats/stats-consumer.ts).
THEOREM CountedTheorem == StatsSpec => []EventsCountedOnce
<1>1. StatsInv => EventsCountedOnce
  <2> SUFFICES ASSUME StatsInv PROVE EventsCountedOnce
    OBVIOUS
  <2>1. Booked(db, counted) /\ Acknowledged /\ db \in Tables /\ counted \subseteq Events
    BY DEF StatsInv, StatsTypeOK
  <2>2. \A d \in Days : Today(counted, message, d) = OfDay(d)
    BY DEF Today, OfDay
  <2>3. ASSUME NEW d \in Days
        PROVE  /\ db.daily[d] = CountOf(OfDay(d))
               /\ \A k \in Keys : db.keyed[<<d, k>>] = CountOf({e \in OfDay(d) : Body[e].key = k})
               /\ {row[2] : row \in {r \in db.unique : r[1] = d}}
                    = {Body[e].hash : e \in OfDay(d)} \ {NoHash}
    <3>1. /\ db.daily[d] = CountOf(OfDay(d))
          /\ \A k \in Keys : db.keyed[<<d, k>>] = CountOf({e \in OfDay(d) : Body[e].key = k})
          /\ \A h \in Hashes : <<d, h>> \in db.unique <=> \E e \in OfDay(d) : Body[e].hash = h
      BY <2>1, <2>2 DEF Booked, BookedIn
    <3>2. db.unique \subseteq Days \X Hashes /\ OfDay(d) \subseteq Events
      BY <2>1 DEF Tables, OfDay
    <3>3. ASSUME NEW h \in {row[2] : row \in {r \in db.unique : r[1] = d}}
          PROVE  h \in {Body[e].hash : e \in OfDay(d)} \ {NoHash}
      <4>1. <<d, h>> \in db.unique /\ h \in Hashes
        BY <3>2, <3>3
      <4> QED BY <3>1, <4>1 DEF Hashes
    <3>4. ASSUME NEW h \in {Body[e].hash : e \in OfDay(d)} \ {NoHash}
          PROVE  h \in {row[2] : row \in {r \in db.unique : r[1] = d}}
      <4>1. h \in Hashes
        BY <3>2, <3>4 DEF Hashes
      <4>2. <<d, h>> \in db.unique
        BY <3>1, <3>4, <4>1
      <4> QED BY <4>2
    <3> QED BY <3>1, <3>3, <3>4
  <2> QED BY <2>1, <2>3 DEF EventsCountedOnce, Acknowledged
<1> QED BY <1>1, StatsBegins, StatsStep, PTL DEF StatsSpec

-----------------------------------------------------------------------------
(***************************************************************************)
(* The inbox, the webhook, the accounts and the statistics side by side,   *)
(* as the runs explore them: a step of one is no step of another, so what  *)
(* is invariant in each is so in all.                                      *)
(***************************************************************************)

LEMMA OnePartMoves ==
  [MCNext]_mcVars => /\ [Next]_inboxVars /\ [IntakeNext]_intakeVars
                     /\ [IdentityNext]_identityVars /\ [StatsNext]_statsVars
BY DEF MCNext, mcVars

\* Every variable of the inbox, of the webhook, of the accounts and of the
\* statistics keeps its type: no lease, lifetime or count leaves its range.
THEOREM TypesTheorem == MCSpec => []TypesOK
<1> DEFINE Inv == IInv /\ IntakeInv /\ IdentityInv /\ StatsInv
<1>1. MCInit => Inv
  BY InitIInv, Initially, IdentityInitial, StatsBegins DEF MCInit
<1>2. Inv /\ [MCNext]_mcVars => Inv'
  BY OnePartMoves, Inductive, Step, IdentityInductive, StatsStep
<1>3. Inv => TypesOK
  BY DEF TypesOK, IInv, IntakeInv, IdentityInv, StatsInv
<1> HIDE DEF Inv
<1> QED BY <1>1, <1>2, <1>3, PTL DEF MCSpec
=============================================================================
