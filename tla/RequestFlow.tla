------------------------------ MODULE RequestFlow ------------------------------
(***************************************************************************)
(* Conversation requests between one pair of people: the requests of the   *)
(* pair in the ConversationVault (src/storage/conversation-vault.do.ts),   *)
(* the state of the pair in the PairLedger (src/storage/pair-ledger.do.ts) *)
(* and the service calls that create, cancel, decline and accept requests  *)
(* (src/suggestions/request-service.ts).  Every await on a Durable Object  *)
(* is a step of its own, so calls interleave and may be lost between any   *)
(* two steps.                                                              *)
(*                                                                         *)
(* Deadlines are kept as the time left, 0 once they have passed: ttl in    *)
(* days, lease in leases of REQUEST_ACCEPT_LEASE_MS; the two clocks run    *)
(* independently.  The operation id of an accept is a function of the      *)
(* request, so op says only whether accept_operation_id is set.  The row's *)
(* accepted_ticket_hash is set exactly when its status is accepted.        *)
(* createSealedTicket appears through its answer: sealed holds the         *)
(* requests whose intro the candidate's inbox has taken.                   *)
(***************************************************************************)
EXTENDS Integers, FiniteSets

CONSTANTS
  Requests,      \* request hashes of the pair, one for each create
  Callers,       \* service calls at work at the same time
  NoRequest,
  REQUEST_TTL,   \* lifetime of a request and of its lock, in days
  DISMISS_COOLDOWN, ACCEPTED_COOLDOWN, DECLINED_COOLDOWN,
  ACCEPT_LEASE,  \* lease of an accept
  MaxFailures    \* bound: lost calls and failed calls explored

ASSUME RequestAssumption ==
  /\ NoRequest \notin Requests
  /\ REQUEST_TTL \in Nat \ {0} /\ ACCEPT_LEASE \in Nat \ {0}
  /\ DISMISS_COOLDOWN \in Nat /\ DISMISS_COOLDOWN >= REQUEST_TTL
  /\ ACCEPTED_COOLDOWN \in Nat /\ ACCEPTED_COOLDOWN >= DISMISS_COOLDOWN
  /\ DECLINED_COOLDOWN \in Nat /\ DECLINED_COOLDOWN >= DISMISS_COOLDOWN
  /\ MaxFailures \in Nat

VARIABLES
  requests,   \* request_tickets
  pair,       \* the row of the pair in pair_states
  sealed,     \* requests whose intro was taken by the candidate's inbox
  caller,     \* program state of each service call
  failures,   \* faults so far (bound)
  lockOf,     \* history: the request the pending lock was taken for
  loose,      \* history: requests whose lock was released under them
  overran,    \* history: an accept has been at work longer than its lease
  repeated    \* history: requests canceled again after they were canceled

vars == <<requests, pair, sealed, caller, failures,
          lockOf, loose, overran, repeated>>

TerminalStatuses == {"accepted", "declined", "canceled", "expired"}
Cooldowns == {"dismiss_cooldown", "accepted_cooldown", "declined_cooldown"}

MaxCooldown ==
  IF ACCEPTED_COOLDOWN >= DECLINED_COOLDOWN THEN ACCEPTED_COOLDOWN
  ELSE DECLINED_COOLDOWN

NoRow == [status |-> "none", intro |-> FALSE, op |-> FALSE, lease |-> 0, ttl |-> 0]
NoPair == [state |-> "none", ttl |-> 0]
Idle == [pc |-> "idle", request |-> NoRequest, seen |-> "none", ttl |-> 0]

CallerPC == {"idle", "storing", "unlocking", "canceling", "declining",
             "coolDeclined", "claiming", "sealing", "failing", "completing",
             "coolAccepted"}

\* An accept that has acquired the request and not yet given it up.
Accepting == {"sealing", "failing", "completing"}

TypeOK ==
  /\ requests \in [Requests ->
       [status : {"none", "pending", "accepting"} \cup TerminalStatuses,
        intro : BOOLEAN, op : BOOLEAN, lease : 0..ACCEPT_LEASE,
        ttl : 0..REQUEST_TTL]]
  /\ pair \in [state : {"none", "pending"} \cup Cooldowns,
               ttl : 0..MaxCooldown]
  /\ sealed \subseteq Requests
  /\ caller \in [Callers ->
       [pc : CallerPC, request : Requests \cup {NoRequest},
        seen : {"none", "pending", "accepting"} \cup TerminalStatuses,
        ttl : 0..REQUEST_TTL]]
  /\ failures \in 0..MaxFailures
  /\ lockOf \in Requests \cup {NoRequest}
  /\ loose \subseteq Requests /\ overran \in BOOLEAN
  /\ repeated \subseteq Requests

Init ==
  /\ requests = [r \in Requests |-> NoRow]
  /\ pair = NoPair /\ sealed = {}
  /\ caller = [c \in Callers |-> Idle]
  /\ failures = 0
  /\ lockOf = NoRequest /\ loose = {} /\ overran = FALSE /\ repeated = {}

-----------------------------------------------------------------------------
(* PairLedger. *)

\* isActiveBlockingPairState; nothing in the program writes "blocked".
Blocking(p) == p.state # "none" /\ p.ttl > 0

LockHeldFor(r) == pair.state = "pending" /\ pair.ttl > 0 /\ lockOf = r

\* Mutant of AcquirePairPending: the pair is not looked at first.
AcquireUnchecked(r, ttl) ==
  /\ pair' = [state |-> "pending", ttl |-> ttl]
  /\ lockOf' = r

\* acquirePairPending, once it has found the pair free.
AcquirePairPending(r, ttl) ==
  /\ ~ Blocking(pair)
  /\ pair' = [state |-> "pending", ttl |-> ttl]
  /\ lockOf' = r

\* Mutant of Releases: whatever the state of the pair is, it is deleted.
ReleasesAnyState(p) == p.ttl > 0

Releases(p) == p.state = "pending" /\ p.ttl > 0

\* releasePairPending by a call about request r: the lock is not compared
\* with the request.
ReleasePairPending(r, live) ==
  IF Releases(pair)
  THEN /\ pair' = NoPair
       /\ loose' = loose \cup ({lockOf} \ ({NoRequest} \cup (IF live THEN {} ELSE {r})))
       /\ lockOf' = NoRequest
  ELSE UNCHANGED <<pair, loose, lockOf>>

\* Mutant of UpsertPairState: the time that was left is added.
UpsertExtending(state, ttl) ==
  /\ pair' = [state |-> state, ttl |-> pair.ttl + ttl]
  /\ lockOf' = NoRequest

\* upsertPairState: overwrites whatever is there.
UpsertPairState(state, ttl) ==
  /\ pair' = [state |-> state, ttl |-> ttl]
  /\ lockOf' = NoRequest

-----------------------------------------------------------------------------
(* ConversationVault. *)

Stored(r) == requests[r].status # "none"

\* effectiveRequestStatus.
Effective(q) ==
  IF q.status \in {"pending", "accepting"} /\ q.ttl = 0 THEN "expired" ELSE q.status

\* A row whose status becomes terminal: intro and lease are cleared.
Closed(q, status) == [q EXCEPT !.status = status, !.intro = FALSE, !.lease = 0]

\* Mutant of CanTransition: an accept in progress can be canceled.
CanTransitionAny(current, next) ==
  current \in {"pending", "accepting"} /\ next \in TerminalStatuses

\* canTransitionRequestStatus.
CanTransition(current, next) ==
  \/ current = "pending" /\ next \in {"accepting", "declined", "canceled", "expired"}
  \/ current = "accepting" /\ next \in {"accepted", "expired"}

\* storeRequest: only ever a fresh, pending request.
StoreRequest(r, ttl) ==
  requests' = [requests EXCEPT ![r] =
    [status |-> "pending", intro |-> TRUE, op |-> FALSE, lease |-> 0, ttl |-> ttl]]

\* getRequest: an expiry that has passed is written down.
GetRequest(r) ==
  requests' = [requests EXCEPT ![r] =
    IF Effective(@) # @.status THEN Closed(@, "expired") ELSE @]

\* setRequestStatus, when it throws and when it succeeds.
SetRefused(r, next, seen) ==
  LET q == requests[r]  current == Effective(q) IN
  \/ seen \notin {current, q.status}
  \/ current # next /\ ~ CanTransition(current, next)

SetRequestStatus(r, next, seen) ==
  LET current == Effective(requests[r]) IN
  /\ ~ SetRefused(r, next, seen)
  /\ requests' = IF current = next THEN requests
                 ELSE [requests EXCEPT ![r] = Closed(@, next)]

\* Mutant of MayReclaim: the lease of another worker is not looked at.
MayReclaimLeased(q) == q.op

MayReclaim(q) == q.op /\ q.lease = 0

\* claimRequestAccept, by its answer.
ClaimAcquired(r) ==
  LET q == requests[r] IN
  /\ \/ Effective(q) = "pending"
     \/ Effective(q) = "accepting" /\ MayReclaim(q)
  /\ requests' = [requests EXCEPT ![r] =
       [@ EXCEPT !.status = "accepting", !.op = TRUE, !.lease = ACCEPT_LEASE]]

\* Already accepted, at work elsewhere, expired, or settled otherwise.
ClaimNotAcquired(r) ==
  LET q == requests[r] IN
  /\ \/ Effective(q) \in TerminalStatuses
     \/ Effective(q) = "accepting" /\ ~ MayReclaim(q)
  /\ requests' = IF Effective(q) = "expired"
                 THEN [requests EXCEPT ![r] = Closed(@, "expired")] ELSE requests

OwnsAccept(q) == q.status = "accepting" /\ q.op

\* completeRequestAccept: expiry is not looked at.  A repeat with the same
\* ticket succeeds.
CompleteOk(q) == q.status = "accepted" \/ OwnsAccept(q)

CompleteRequestAccept(r) ==
  requests' = [requests EXCEPT ![r] =
    IF OwnsAccept(@) THEN Closed(@, "accepted") ELSE @]

\* failRequestAccept.
FailRequestAccept(r) ==
  requests' = [requests EXCEPT ![r] =
    IF ~ OwnsAccept(@) THEN @
    ELSE IF @.ttl = 0 THEN Closed(@, "expired")
    ELSE [@ EXCEPT !.status = "pending", !.op = FALSE, !.lease = 0]]

-----------------------------------------------------------------------------
(* Service calls. *)

At(c, pc) == caller[c].pc = pc
Goto(c, pc) == caller' = [caller EXCEPT ![c].pc = pc]
Return(c) == caller' = [caller EXCEPT ![c] = Idle]
Req(c) == caller[c].request

Live(r) == Stored(r) /\ Effective(requests[r]) \in {"pending", "accepting"}

\* createConversationRequest, once the gates have let it pass.  A pair that
\* is blocked answers "blocked" and changes nothing.
CreateLocked(c, r) ==
  /\ At(c, "idle")
  /\ ~ Stored(r) /\ r # lockOf /\ \A d \in Callers : Req(d) # r
  /\ AcquirePairPending(r, REQUEST_TTL)
  /\ caller' = [caller EXCEPT ![c] = [pc |-> "storing", request |-> r,
                                      seen |-> "none", ttl |-> REQUEST_TTL]]
  /\ UNCHANGED <<requests, sealed, loose, overran, repeated>>

CreateStores(c) ==
  /\ At(c, "storing")
  /\ StoreRequest(Req(c), caller[c].ttl)
  /\ Return(c)
  /\ UNCHANGED <<pair, sealed, lockOf, loose, overran, repeated>>

\* storeRequest throws, before or after the row was written.
CreateFails(c) ==
  /\ At(c, "storing")
  /\ UNCHANGED requests \/ StoreRequest(Req(c), caller[c].ttl)
  /\ Goto(c, "unlocking")
  /\ UNCHANGED <<pair, sealed, lockOf, loose, overran, repeated>>

\* The lock is released by a failed create or by a cancel.
Unlock(c) ==
  /\ At(c, "unlocking")
  /\ ReleasePairPending(Req(c), Live(Req(c)))
  /\ Return(c)
  /\ UNCHANGED <<requests, sealed, overran, repeated>>

\* resolveRequestCapability and resolveRequestForCandidate: a settled request
\* is refused, except that an accept may find it accepted.
Resolvable(r, alsoSettled) ==
  /\ requests[r].ttl > 0
  /\ Effective(requests[r]) \in {"pending", "accepting"} \cup alsoSettled

Resolve(c, r, alsoSettled, pc) ==
  /\ At(c, "idle") /\ Stored(r)
  /\ GetRequest(r)
  /\ caller' = IF Resolvable(r, alsoSettled)
               THEN [caller EXCEPT ![c] =
                       [pc |-> pc, request |-> r, seen |-> requests'[r].status,
                        ttl |-> 0]]
               ELSE caller
  /\ UNCHANGED <<pair, sealed, lockOf, loose, overran>>

\* cancelConversationRequest.
CancelResolves(c, r) ==
  /\ Resolve(c, r, {}, "canceling")
  /\ repeated' = IF requests[r].status = "canceled"
                 THEN repeated \cup {r} ELSE repeated

CancelSets(c) ==
  /\ At(c, "canceling")
  /\ \/ SetRequestStatus(Req(c), "canceled", caller[c].seen) /\ Goto(c, "unlocking")
     \/ /\ SetRefused(Req(c), "canceled", caller[c].seen)
        /\ Return(c)
        /\ UNCHANGED requests
  /\ UNCHANGED <<pair, sealed, lockOf, loose, overran, repeated>>

\* declineConversationRequest.
DeclineResolves(c, r) == Resolve(c, r, {}, "declining") /\ UNCHANGED repeated

DeclineSets(c) ==
  /\ At(c, "declining")
  /\ \/ SetRequestStatus(Req(c), "declined", caller[c].seen) /\ Goto(c, "coolDeclined")
     \/ /\ SetRefused(Req(c), "declined", caller[c].seen)
        /\ Return(c)
        /\ UNCHANGED requests
  /\ UNCHANGED <<pair, sealed, lockOf, loose, overran, repeated>>

DeclineCools(c) ==
  /\ At(c, "coolDeclined")
  /\ UpsertPairState("declined_cooldown", DECLINED_COOLDOWN)
  /\ Return(c)
  /\ UNCHANGED <<requests, sealed, loose, overran, repeated>>

\* acceptConversationRequest.
AcceptResolves(c, r) ==
  Resolve(c, r, {"accepted"}, "claiming") /\ UNCHANGED repeated

AcceptClaims(c) ==
  /\ At(c, "claiming")
  /\ \/ ClaimAcquired(Req(c)) /\ Goto(c, "sealing")
     \/ ClaimNotAcquired(Req(c)) /\ Return(c)
  /\ UNCHANGED <<pair, sealed, lockOf, loose, overran, repeated>>

\* createSealedTicket answers ok: the intro is, or already was, in the inbox.
AcceptSeals(c) ==
  /\ At(c, "sealing")
  /\ sealed' = sealed \cup {Req(c)}
  /\ Goto(c, "completing")
  /\ UNCHANGED <<requests, pair, lockOf, loose, overran, repeated>>

\* The requester is gone, or a gate or a full inbox refuses the ticket.
AcceptRefused(c) ==
  /\ At(c, "sealing")
  /\ Goto(c, "failing")
  /\ UNCHANGED <<requests, pair, sealed, lockOf, loose, overran, repeated>>

\* createSealedTicket fails or throws although the inbox may have the intro.
AcceptSealFails(c) ==
  /\ At(c, "sealing")
  /\ sealed' \in {sealed, sealed \cup {Req(c)}}
  /\ Goto(c, "failing") \/ Return(c)
  /\ UNCHANGED <<requests, pair, lockOf, loose, overran, repeated>>

AcceptReopens(c) ==
  /\ At(c, "failing")
  /\ FailRequestAccept(Req(c))
  /\ Return(c)
  /\ UNCHANGED <<pair, sealed, lockOf, loose, overran, repeated>>

AcceptCompletes(c) ==
  /\ At(c, "completing")
  /\ CompleteRequestAccept(Req(c))
  /\ IF CompleteOk(requests[Req(c)]) THEN Goto(c, "coolAccepted") ELSE Return(c)
  /\ UNCHANGED <<pair, sealed, lockOf, loose, overran, repeated>>

AcceptCools(c) ==
  /\ At(c, "coolAccepted")
  /\ UpsertPairState("accepted_cooldown", ACCEPTED_COOLDOWN)
  /\ Return(c)
  /\ UNCHANGED <<requests, sealed, loose, overran, repeated>>

\* The invocation is lost, or its next call throws, before or after that call
\* took effect: the step before or the step itself was its last.
Lose(c) ==
  /\ ~ At(c, "idle")
  /\ Return(c)
  /\ UNCHANGED <<requests, pair, sealed, lockOf, loose, overran, repeated>>

-----------------------------------------------------------------------------
(* Everything else. *)

\* dismissSuggestionTicket: a suggestion of the same pair is dismissed.
Dismiss ==
  /\ UpsertPairState("dismiss_cooldown", DISMISS_COOLDOWN)
  /\ UNCHANGED <<requests, sealed, caller, loose, overran, repeated>>

AtWork(c) == caller[c].pc \in Accepting

\* Accept leases run down.
Tick ==
  /\ \E r \in Requests : requests[r].lease > 0
  /\ requests' = [r \in Requests |->
       [requests[r] EXCEPT !.lease = IF @ > 0 THEN @ - 1 ELSE 0]]
  /\ overran' = (overran \/ \E c \in Callers : AtWork(c) /\ requests[Req(c)].lease = 1)
  /\ UNCHANGED <<pair, sealed, caller, lockOf, loose, repeated>>

\* A day passes.
Day ==
  /\ requests' = [r \in Requests |->
       [requests[r] EXCEPT !.ttl = IF @ > 0 THEN @ - 1 ELSE 0]]
  /\ pair' = [pair EXCEPT !.ttl = IF @ > 0 THEN @ - 1 ELSE 0]
  /\ caller' = [c \in Callers |->
       [caller[c] EXCEPT !.ttl = IF @ > 0 THEN @ - 1 ELSE 0]]
  /\ UNCHANGED <<sealed, lockOf, loose, overran, repeated>>

Create(c) ==
  (\E r \in Requests : CreateLocked(c, r)) \/ CreateStores(c) \/ Unlock(c)

Cancel(c) == (\E r \in Requests : CancelResolves(c, r)) \/ CancelSets(c)

Decline(c) ==
  (\E r \in Requests : DeclineResolves(c, r)) \/ DeclineSets(c) \/ DeclineCools(c)

Accept(c) ==
  \/ \E r \in Requests : AcceptResolves(c, r)
  \/ AcceptClaims(c) \/ AcceptSeals(c) \/ AcceptRefused(c)
  \/ AcceptReopens(c) \/ AcceptCompletes(c) \/ AcceptCools(c)

Fail(c) == CreateFails(c) \/ AcceptSealFails(c) \/ Lose(c)

Working ==
  \/ \E c \in Callers : Create(c) \/ Cancel(c) \/ Decline(c) \/ Accept(c)
  \/ Dismiss \/ Tick \/ Day

Failing ==
  /\ failures < MaxFailures /\ failures' = failures + 1
  /\ \E c \in Callers : Fail(c)

Next == (Working /\ UNCHANGED failures) \/ Failing

Spec == Init /\ [][Next]_vars

-----------------------------------------------------------------------------
(* Correctness. *)

\* The pair is shielded: a live request keeps the pair from a second one,
\* by its lock or by the cooldown that replaced it, unless its lock was
\* released under it; so two requests are never open at once
\* (request-service.ts:196-250, pair-ledger.do.ts:105-178).
PairIsExclusive ==
  \A r \in Requests \ loose :
    Live(r) => /\ Blocking(pair)
               /\ \A s \in Requests \ loose : Live(s) => s = r

\* The lock of a pair ends on the day the open request it was taken for ends,
\* and no later than a request may live where that request was never stored or
\* is settled (request-service.ts:196-250).
LockIsTimed ==
  pair.state = "pending" /\ pair.ttl > 0 =>
    /\ lockOf # NoRequest /\ pair.ttl <= REQUEST_TTL
    /\ Live(lockOf) => requests[lockOf].ttl = pair.ttl

\* A pair is held for its request as long as the request lives, and by a lock
\* no longer than that.
PairIsHeld == PairIsExclusive /\ LockIsTimed

\* As long as no accept outlives its lease, one accept at a time works on a
\* request, whatever is lost or fails (conversation-vault.do.ts:434-627).
AcceptIsExclusive ==
  ~ overran => \A c, d \in Callers :
    AtWork(c) /\ AtWork(d) /\ Req(c) = Req(d) => c = d

\* A request counts as accepted only when its intro has been delivered to the
\* inbox (request-service.ts:453-482).
AcceptedWasSealed ==
  \A r \in Requests : requests[r].status = "accepted" => r \in sealed

\* Without a fault and without an overrun, nobody receives the intro of a
\* request that was declined or canceled.
MessageMatchesOutcome ==
  failures = 0 /\ ~ overran =>
    \A r \in sealed : requests[r].status \notin {"declined", "canceled"}

\* The outcome of a request and the intro in the candidate's inbox agree.
OutcomeIsTrue == AcceptedWasSealed /\ MessageMatchesOutcome

\* A settled request never changes again and its intro never comes back,
\* however late a worker's answer arrives.
TerminalStands ==
  [][\A r \in Requests : requests[r].status \in TerminalStatuses =>
       /\ requests'[r].status = requests[r].status
       /\ ~ requests'[r].intro]_vars

\* A pair in cooldown stays in some cooldown until it has run out: no late
\* release and no new lock ends it.
CooldownStands ==
  [][pair.state \in Cooldowns /\ pair.ttl > 0 => pair'.state \in Cooldowns]_vars

\* "The request becomes canceled and the pending pair lock is released.
\* Repeated cancel is idempotent." (docs/conversation-suggestions.md:200): once
\* a cancel has been repeated and nobody is at work on the request, its lock
\* is gone.
RepeatedCancelReleases ==
  \A r \in repeated :
    (\A c \in Callers : Req(c) # r) => ~ LockHeldFor(r)

\* The step that takes the release away from a cancel: the call is lost between
\* setRequestStatus and releasePairPendingLock (request-service.ts:302-318).
CutOffBeforeRelease == \E c \in Callers : At(c, "unlocking") /\ Lose(c)
=============================================================================
