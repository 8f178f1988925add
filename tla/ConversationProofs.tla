-------------------------- MODULE ConversationProofs --------------------------
(***************************************************************************)
(* Proofs about the requests of a pair, for every set of requests and      *)
(* callers and every lifetime, lease and cooldown, and about the           *)
(* suggestions of a person, for every set of candidates and invocations.   *)
(*                                                                         *)
(* Requests: Base collects what every other argument needs: types, which   *)
(* rows the callers are at work on, and where the material of a row is.    *)
(*                                                                         *)
(* Suggestions: a step is described by what it does to the invocations     *)
(* (HandlersKept), to the pairs (PairsKept) and to the suggestions (Quiet, *)
(* or Issues); the lemmas before each of these say it once for the         *)
(* operators the actions are built from.  The exposure tokens only order   *)
(* the candidates and appear in no argument.                               *)
(***************************************************************************)
EXTENDS RequestFlow, Suggestions, FiniteSetTheorems, TLAPS

\* A create is alone with its request, which is not stored yet; every other
\* caller at work on a request has found it stored.
Placed ==
  \A c \in Callers :
    /\ At(c, "idle") => caller[c] = Idle
    /\ ~ At(c, "idle") => Req(c) # NoRequest
    /\ At(c, "storing") =>
         ~ Stored(Req(c)) /\ \A d \in Callers : Req(d) = Req(c) => d = c
    /\ caller[c].pc \notin {"idle", "storing", "unlocking"} => Stored(Req(c))
    /\ At(c, "completing") => Req(c) \in sealed

ClosedHasNoIntro ==
  \A r \in Requests : requests[r].status \in TerminalStatuses => ~ requests[r].intro

Base == TypeOK /\ Placed /\ ClosedHasNoIntro /\ AcceptedWasSealed

\* What every step but the passing of a day does to the rows: a request is
\* opened only by the create that works on it, and a closed one stays closed.
Calm ==
  /\ \A r \in Requests : Live(r)' =>
       \/ Live(r) /\ requests'[r].ttl = requests[r].ttl
       \/ \E c \in Callers : /\ At(c, "storing") /\ Req(c) = r
                             /\ caller[c].ttl = requests'[r].ttl
  /\ \A c \in Callers : At(c, "storing")' => caller'[c] = caller[c]

ClosedStays ==
  \A r \in Requests : requests[r].status \in TerminalStatuses =>
    requests'[r].status = requests[r].status /\ ~ requests'[r].intro

Row == [status : {"none", "pending", "accepting"} \cup TerminalStatuses,
        intro : BOOLEAN, op : BOOLEAN, lease : 0..ACCEPT_LEASE,
        ttl : 0..REQUEST_TTL]

Call == [pc : CallerPC, request : Requests \cup {NoRequest},
         seen : {"none", "pending", "accepting"} \cup TerminalStatuses,
         ttl : 0..REQUEST_TTL]

LEMMA IdleType == Idle \in Call
BY RequestAssumption DEF Idle, Call, CallerPC

\* What one method of the vault may do to a row.
RowStep(q, p) ==
  /\ p \in Row /\ p.ttl = q.ttl
  /\ p.status # "none" <=> q.status # "none"
  /\ q.status \in TerminalStatuses => p.status = q.status /\ ~ p.intro
  /\ p.status \in TerminalStatuses => ~ p.intro
  /\ p.status \in {"pending", "accepting"} => q.status \in {"pending", "accepting"}

LEMMA ClosedRow ==
  ASSUME NEW q \in Row, NEW s \in TerminalStatuses,
         q.status \in {"pending", "accepting"} \/ q.status = s
  PROVE  RowStep(q, Closed(q, s)) /\ Closed(q, s).status = s
<1> DEFINE p == Closed(q, s)
<1>1. 0 \in 0..ACCEPT_LEASE
  BY RequestAssumption
<1>2. p \in Row
  BY <1>1 DEF Row, Closed
<1>3. p.status = s /\ p.intro = FALSE /\ p.ttl = q.ttl
  BY DEF Row, Closed
<1>4. q.status # "none" /\ p.status # "none"
  BY <1>3 DEF TerminalStatuses
<1>5. p.status \notin {"pending", "accepting"}
  BY <1>3 DEF TerminalStatuses
<1>6. q.status \in TerminalStatuses => q.status = s
  BY DEF TerminalStatuses
<1> HIDE DEF p
<1> QED BY <1>2, <1>3, <1>4, <1>5, <1>6 DEF RowStep, p

\* A row that is opened for an accept, or opened again.
LEMMA OpenRow ==
  ASSUME NEW q \in Row, q.status \in {"pending", "accepting"},
         NEW s \in {"pending", "accepting"}, NEW o \in BOOLEAN,
         NEW l \in 0..ACCEPT_LEASE
  PROVE  LET p == [q EXCEPT !.status = s, !.op = o, !.lease = l] IN
         RowStep(q, p) /\ p.status = s
<1> DEFINE p == [q EXCEPT !.status = s, !.op = o, !.lease = l]
<1>1. p \in Row
  BY DEF Row
<1>2. p.status = s /\ p.ttl = q.ttl
  BY DEF Row
<1>3. q.status \notin TerminalStatuses /\ p.status \notin TerminalStatuses
  BY <1>2 DEF TerminalStatuses
<1> HIDE DEF p
<1> QED BY <1>1, <1>2, <1>3 DEF RowStep, p

\* getRequest.
LEMMA GetRow ==
  ASSUME Base, NEW r \in Requests, GetRequest(r)
  PROVE  /\ requests' = [requests EXCEPT ![r] = requests'[r]]
         /\ RowStep(requests[r], requests'[r])
         /\ requests'[r].status \in {requests[r].status, "expired"}
<1> DEFINE q == requests[r]
<1>1. q \in Row /\ (q.status \in TerminalStatuses => ~ q.intro)
  BY DEF Base, TypeOK, ClosedHasNoIntro, Row
<1>2. requests'[r] = IF Effective(q) # q.status THEN Closed(q, "expired") ELSE q
  BY DEF GetRequest, Base, TypeOK
<1>3. requests' = [requests EXCEPT ![r] = requests'[r]]
  BY <1>2 DEF GetRequest, Base, TypeOK
<1>4. CASE Effective(q) # q.status
  <2>1. q.status \in {"pending", "accepting"}
    BY <1>4 DEF Effective
  <2> QED BY <1>1, <1>2, <1>3, <1>4, <2>1, ClosedRow DEF TerminalStatuses
<1>5. CASE Effective(q) = q.status
  BY <1>1, <1>2, <1>3, <1>5 DEF RowStep
<1> QED BY <1>4, <1>5

\* setRequestStatus.
LEMMA SetRow ==
  ASSUME Base, NEW r \in Requests, NEW s, NEW n \in {"canceled", "declined"},
         SetRequestStatus(r, n, s)
  PROVE  /\ requests' = [requests EXCEPT ![r] = requests'[r]]
         /\ RowStep(requests[r], requests'[r])
         /\ requests'[r].status # "accepted" \/ requests[r].status = "accepted"
<1> DEFINE q == requests[r]
<1>1. q \in Row /\ (q.status \in TerminalStatuses => ~ q.intro)
  BY DEF Base, TypeOK, ClosedHasNoIntro, Row
<1>2. CASE Effective(q) = n
  BY <1>1, <1>2 DEF SetRequestStatus, RowStep, Base, TypeOK
<1>3. CASE Effective(q) # n
  <2>1. CanTransition(Effective(q), n)
    BY <1>3 DEF SetRequestStatus, SetRefused
  <2>2. q.status \in {"pending", "accepting"}
    BY <2>1 DEF CanTransition, Effective
  <2>3. requests' = [requests EXCEPT ![r] = Closed(q, n)]
    BY <1>3 DEF SetRequestStatus
  <2>4. requests'[r] = Closed(q, n)
    BY <2>3 DEF Base, TypeOK
  <2> QED BY <1>1, <2>2, <2>3, <2>4, ClosedRow DEF TerminalStatuses
<1> QED BY <1>2, <1>3

\* claimRequestAccept, completeRequestAccept and failRequestAccept.
LEMMA ClaimRow ==
  ASSUME Base, NEW r \in Requests, ClaimAcquired(r) \/ ClaimNotAcquired(r)
  PROVE  /\ requests' = [requests EXCEPT ![r] = requests'[r]]
         /\ RowStep(requests[r], requests'[r])
         /\ requests'[r].status # "accepted" \/ requests[r].status = "accepted"
<1> DEFINE q == requests[r]
<1>1. q \in Row /\ (q.status \in TerminalStatuses => ~ q.intro)
  BY DEF Base, TypeOK, ClosedHasNoIntro, Row
<1>2. CASE ClaimAcquired(r)
  <2> DEFINE p == [q EXCEPT !.status = "accepting", !.op = TRUE,
                            !.lease = ACCEPT_LEASE]
  <2>1. q.status \in {"pending", "accepting"}
    BY <1>2 DEF ClaimAcquired, Effective
  <2>2. requests' = [requests EXCEPT ![r] = p]
    BY <1>2 DEF ClaimAcquired
  <2>3. requests'[r] = p
    BY <2>2 DEF Base, TypeOK
  <2>4. RowStep(q, p) /\ p.status = "accepting"
    <3>1. ACCEPT_LEASE \in 0..ACCEPT_LEASE
      BY RequestAssumption
    <3> QED BY <1>1, <2>1, <3>1, OpenRow
  <2> QED BY <2>2, <2>3, <2>4
<1>3. CASE ClaimNotAcquired(r) /\ Effective(q) = "expired"
  <2>1. requests' = [requests EXCEPT ![r] = Closed(q, "expired")]
    BY <1>3 DEF ClaimNotAcquired
  <2>2. requests'[r] = Closed(q, "expired")
    BY <2>1 DEF Base, TypeOK
  <2>3. q.status \in {"pending", "accepting"} \/ q.status = "expired"
    BY <1>3 DEF Effective
  <2> QED BY <1>1, <2>1, <2>2, <2>3, ClosedRow DEF TerminalStatuses
<1>4. CASE ClaimNotAcquired(r) /\ Effective(q) # "expired"
  BY <1>1, <1>4 DEF ClaimNotAcquired, RowStep, Base, TypeOK
<1> QED BY <1>2, <1>3, <1>4

LEMMA CompleteRow ==
  ASSUME Base, NEW r \in Requests, CompleteRequestAccept(r)
  PROVE  /\ requests' = [requests EXCEPT ![r] = requests'[r]]
         /\ RowStep(requests[r], requests'[r])
<1> DEFINE q == requests[r]
<1>1. q \in Row /\ (q.status \in TerminalStatuses => ~ q.intro)
  BY DEF Base, TypeOK, ClosedHasNoIntro, Row
<1>2. requests'[r] = IF OwnsAccept(q) THEN Closed(q, "accepted") ELSE q
  BY DEF CompleteRequestAccept, Base, TypeOK
<1>3. requests' = [requests EXCEPT ![r] = requests'[r]]
  BY <1>2 DEF CompleteRequestAccept, Base, TypeOK
<1>4. CASE OwnsAccept(q)
  <2>1. q.status \in {"pending", "accepting"}
    BY <1>4 DEF OwnsAccept
  <2> QED BY <1>1, <1>2, <1>3, <1>4, <2>1, ClosedRow DEF TerminalStatuses
<1>5. CASE ~ OwnsAccept(q)
  BY <1>1, <1>2, <1>3, <1>5 DEF RowStep
<1> QED BY <1>4, <1>5

LEMMA FailRow ==
  ASSUME Base, NEW r \in Requests, FailRequestAccept(r)
  PROVE  /\ requests' = [requests EXCEPT ![r] = requests'[r]]
         /\ RowStep(requests[r], requests'[r])
         /\ requests'[r].status # "accepted" \/ requests[r].status = "accepted"
<1> DEFINE q == requests[r]
           p == [q EXCEPT !.status = "pending", !.op = FALSE, !.lease = 0]
<1>1. q \in Row /\ (q.status \in TerminalStatuses => ~ q.intro)
  BY DEF Base, TypeOK, ClosedHasNoIntro, Row
<1>2. requests'[r] = IF ~ OwnsAccept(q) THEN q
                     ELSE IF q.ttl = 0 THEN Closed(q, "expired") ELSE p
  BY DEF FailRequestAccept, Base, TypeOK
<1>3. requests' = [requests EXCEPT ![r] = requests'[r]]
  BY <1>2 DEF FailRequestAccept, Base, TypeOK
<1>4. CASE ~ OwnsAccept(q)
  BY <1>1, <1>2, <1>3, <1>4 DEF RowStep
<1>5. CASE OwnsAccept(q)
  <2>1. q.status = "accepting"
    BY <1>5 DEF OwnsAccept
  <2>2. RowStep(q, Closed(q, "expired")) /\ Closed(q, "expired").status = "expired"
    BY <1>1, <2>1, ClosedRow DEF TerminalStatuses
  <2>3. RowStep(q, p) /\ p.status = "pending"
    <3>1. 0 \in 0..ACCEPT_LEASE
      BY RequestAssumption
    <3> QED BY <1>1, <2>1, <3>1, OpenRow
  <2> QED BY <1>2, <1>3, <1>5, <2>2, <2>3
<1> QED BY <1>4, <1>5

-----------------------------------------------------------------------------
(* Steps that keep Base, and are calm, and leave closed requests closed. *)

OtherTypes ==
  /\ pair \in [state : {"none", "pending"} \cup Cooldowns, ttl : 0..MaxCooldown]
  /\ failures \in 0..MaxFailures
  /\ lockOf \in Requests \cup {NoRequest}
  /\ loose \subseteq Requests /\ overran \in BOOLEAN /\ repeated \subseteq Requests

FlowKept == Base' /\ Calm /\ ClosedStays

LEMMA BaseTypes ==
  ASSUME Base
  PROVE  /\ requests \in [Requests -> Row] /\ caller \in [Callers -> Call]
         /\ sealed \subseteq Requests /\ OtherTypes
BY DEF Base, TypeOK, OtherTypes, Row, Call

LEMMA SameRow ==
  ASSUME Base, NEW r \in Requests
  PROVE  /\ RowStep(requests[r], requests[r])
         /\ requests = [requests EXCEPT ![r] = requests[r]]
<1>1. requests[r] \in Row /\ requests \in [Requests -> Row]
  BY BaseTypes
<1> QED BY <1>1 DEF RowStep, Base, ClosedHasNoIntro

\* A caller moves on, and the row it works on makes a step.
LEMMA WorkStep ==
  ASSUME Base, OtherTypes', NEW c \in Callers, NEW r \in Requests, NEW k \in Call,
         requests' = [requests EXCEPT ![r] = requests'[r]],
         RowStep(requests[r], requests'[r]),
         caller' = [caller EXCEPT ![c] = k],
         k = Idle \/ (Stored(r) /\ k.request = r /\ k.pc \notin {"idle", "storing"}),
         k.pc = "completing" => r \in sealed',
         sealed \subseteq sealed', sealed' \subseteq Requests,
         requests'[r].status = "accepted" => r \in sealed'
  PROVE  FlowKept
<1>1. requests \in [Requests -> Row] /\ caller \in [Callers -> Call]
  BY BaseTypes
<1>2. /\ requests' \in [Requests -> Row] /\ caller' \in [Callers -> Call]
      /\ \A s \in Requests : s # r => requests'[s] = requests[s]
      /\ caller'[c] = k /\ \A d \in Callers : d # c => caller'[d] = caller[d]
  BY <1>1 DEF RowStep
<1>3. TypeOK'
  BY <1>2 DEF TypeOK, OtherTypes, Row, Call
<1>4. \A s \in Requests : Stored(s)' <=> Stored(s)
  BY <1>2 DEF Stored, RowStep
<1>5. \A s \in Requests :
        /\ requests'[s].ttl = requests[s].ttl
        /\ requests[s].status \in TerminalStatuses =>
             requests'[s].status = requests[s].status /\ ~ requests'[s].intro
        /\ requests'[s].status \in TerminalStatuses => ~ requests'[s].intro
        /\ requests'[s].status \in {"pending", "accepting"} =>
             requests[s].status \in {"pending", "accepting"}
  BY <1>2 DEF RowStep, Base, ClosedHasNoIntro
<1>6. ClosedStays /\ ClosedHasNoIntro'
  BY <1>5 DEF ClosedStays, ClosedHasNoIntro
<1>7. AcceptedWasSealed'
  BY <1>2 DEF AcceptedWasSealed, Base
<1>8. \A s \in Requests : Live(s)' => Live(s) /\ requests'[s].ttl = requests[s].ttl
  BY <1>5 DEF Live, Stored, Effective
<1>9. \A d \in Callers : At(d, "storing")' => d # c /\ caller'[d] = caller[d]
  BY <1>2 DEF At, Idle
<1>10. Calm
  BY <1>8, <1>9 DEF Calm
<1>11. Placed'
  <2> SUFFICES ASSUME NEW d \in Callers
      PROVE  /\ At(d, "idle")' => caller'[d] = Idle
             /\ ~ At(d, "idle")' => Req(d)' # NoRequest
             /\ At(d, "storing")' =>
                  /\ ~ Stored(Req(d))'
                  /\ \A e \in Callers : Req(e)' = Req(d)' => e = d
             /\ caller'[d].pc \notin {"idle", "storing", "unlocking"} => Stored(Req(d))'
             /\ At(d, "completing")' => Req(d)' \in sealed'
    BY DEF Placed, At, Req, Stored
  <2>1. CASE d = c
    <3>1. CASE k = Idle
      BY <1>2, <2>1, <3>1 DEF At, Req, Idle
    <3>2. CASE Stored(r) /\ k.request = r /\ k.pc \notin {"idle", "storing"}
      BY <1>2, <1>4, <2>1, <3>2, RequestAssumption DEF At, Req, Stored
    <3> QED BY <3>1, <3>2
  <2>2. CASE d # c
    <3>1. /\ caller'[d] = caller[d] /\ Req(d)' = Req(d)
          /\ Req(d) \in Requests \cup {NoRequest}
      BY <1>1, <1>2, <2>2 DEF Req, Call
    <3>2. /\ At(d, "idle")' => caller'[d] = Idle
          /\ ~ At(d, "idle")' => Req(d)' # NoRequest
      BY <3>1 DEF Base, Placed, At
    <3>3. caller'[d].pc \notin {"idle", "storing", "unlocking"} => Stored(Req(d))'
      <4> SUFFICES ASSUME caller[d].pc \notin {"idle", "storing", "unlocking"}
                   PROVE  Stored(Req(d))'
        BY <3>1
      <4>1. Stored(Req(d)) /\ Req(d) \in Requests
        BY <3>1 DEF Base, Placed, At
      <4> QED BY <1>4, <3>1, <4>1 DEF Stored
    <3>4. At(d, "completing")' => Req(d)' \in sealed'
      BY <3>1 DEF Base, Placed, At
    <3>5. ASSUME At(d, "storing")'
          PROVE  /\ ~ Stored(Req(d))'
                 /\ \A e \in Callers : Req(e)' = Req(d)' => e = d
      <4>1. At(d, "storing") /\ Req(d) \in Requests
        BY <3>1, <3>5 DEF Base, Placed, At
      <4>2. ~ Stored(Req(d)) /\ \A e \in Callers : Req(e) = Req(d) => e = d
        BY <4>1 DEF Base, Placed
      <4>3. ~ Stored(Req(d))'
        BY <1>4, <3>1, <4>1, <4>2 DEF Stored
      <4>4. k.request # Req(d)
        BY <4>1, <4>2, RequestAssumption DEF Idle
      <4>5. \A e \in Callers : Req(e)' = IF e = c THEN k.request ELSE Req(e)
        BY <1>2 DEF Req
      <4> QED BY <3>1, <4>2, <4>3, <4>4, <4>5
    <3> QED BY <3>2, <3>3, <3>4, <3>5
  <2> QED BY <2>1, <2>2
<1> QED BY <1>3, <1>6, <1>7, <1>10, <1>11 DEF FlowKept, Base

\* A caller with its request, where it is not idle.
LEMMA AtWorkOn ==
  ASSUME Base, NEW c \in Callers, ~ At(c, "idle")
  PROVE  /\ Req(c) \in Requests /\ caller[c] \in Call
         /\ ~ At(c, "storing") /\ ~ At(c, "unlocking") => Stored(Req(c))
<1>1. caller[c] \in Call
  BY BaseTypes
<1>2. Req(c) # NoRequest
  BY DEF Base, Placed
<1> QED BY <1>1, <1>2 DEF Call, Req, Base, Placed, At

LEMMA GotoCall ==
  ASSUME Base, NEW c \in Callers, NEW p \in CallerPC, Goto(c, p)
  PROVE  LET k == [caller[c] EXCEPT !.pc = p] IN
         /\ k \in Call /\ k.request = Req(c) /\ k.pc = p
         /\ caller' = [caller EXCEPT ![c] = k]
<1>1. caller[c] \in Call
  BY BaseTypes
<1> QED BY <1>1 DEF Goto, Call, Req

\* The two ways a caller at work on a stored request goes on.
LEMMA GoOn ==
  ASSUME Base, OtherTypes', NEW c \in Callers, NEW p \in CallerPC,
         ~ At(c, "idle"), ~ At(c, "storing"), ~ At(c, "unlocking"),
         p \notin {"idle", "storing"}, Goto(c, p),
         requests' = [requests EXCEPT ![Req(c)] = requests'[Req(c)]],
         RowStep(requests[Req(c)], requests'[Req(c)]),
         p = "completing" => Req(c) \in sealed',
         sealed \subseteq sealed', sealed' \subseteq Requests,
         requests'[Req(c)].status = "accepted" => Req(c) \in sealed'
  PROVE  FlowKept
<1>1. Req(c) \in Requests /\ Stored(Req(c))
  BY AtWorkOn
<1> DEFINE k == [caller[c] EXCEPT !.pc = p]
<1>2. /\ k \in Call /\ k.request = Req(c) /\ k.pc = p
      /\ caller' = [caller EXCEPT ![c] = k]
  BY GotoCall
<1> HIDE DEF k
<1> QED BY <1>1, <1>2, WorkStep

LEMMA GoHome ==
  ASSUME Base, OtherTypes', NEW c \in Callers, NEW r \in Requests, Return(c),
         requests' = [requests EXCEPT ![r] = requests'[r]],
         RowStep(requests[r], requests'[r]),
         sealed \subseteq sealed', sealed' \subseteq Requests,
         requests'[r].status = "accepted" => r \in sealed'
  PROVE  FlowKept
<1>1. Idle \in Call /\ Idle.pc # "completing"
  BY IdleType DEF Idle
<1>2. caller' = [caller EXCEPT ![c] = Idle]
  BY DEF Return
<1> QED BY <1>1, <1>2, WorkStep

\* Steps in which the rows and the inbox stay as they are.
LEMMA QuietGoOn ==
  ASSUME Base, OtherTypes', NEW c \in Callers, NEW p \in CallerPC,
         ~ At(c, "idle"), ~ At(c, "storing"), ~ At(c, "unlocking"),
         p \notin {"idle", "storing"}, Goto(c, p),
         UNCHANGED requests,
         p = "completing" => Req(c) \in sealed',
         sealed \subseteq sealed', sealed' \subseteq Requests
  PROVE  FlowKept
<1>1. Req(c) \in Requests
  BY AtWorkOn
<1>2. /\ RowStep(requests[Req(c)], requests'[Req(c)])
      /\ requests' = [requests EXCEPT ![Req(c)] = requests'[Req(c)]]
  BY <1>1, SameRow
<1>3. requests'[Req(c)].status = "accepted" => Req(c) \in sealed'
  BY <1>1 DEF Base, AcceptedWasSealed
<1> QED BY <1>2, <1>3, GoOn

LEMMA QuietGoHome ==
  ASSUME Base, OtherTypes', NEW c \in Callers, ~ At(c, "idle"), Return(c),
         UNCHANGED requests, sealed \subseteq sealed', sealed' \subseteq Requests
  PROVE  FlowKept
<1>1. Req(c) \in Requests
  BY AtWorkOn
<1>2. /\ RowStep(requests[Req(c)], requests'[Req(c)])
      /\ requests' = [requests EXCEPT ![Req(c)] = requests'[Req(c)]]
  BY <1>1, SameRow
<1>3. requests'[Req(c)].status = "accepted" => Req(c) \in sealed'
  BY <1>1 DEF Base, AcceptedWasSealed
<1> QED BY <1>1, <1>2, <1>3, GoHome

LEMMA ResolveKept ==
  ASSUME Base, OtherTypes', NEW c \in Callers, NEW r \in Requests, NEW S,
         NEW p \in {"canceling", "declining", "claiming"}, Resolve(c, r, S, p)
  PROVE  FlowKept
<1>1. /\ requests' = [requests EXCEPT ![r] = requests'[r]]
      /\ RowStep(requests[r], requests'[r])
      /\ requests'[r].status \in {requests[r].status, "expired"}
  BY GetRow DEF Resolve
<1>2. UNCHANGED sealed /\ sealed \subseteq Requests
  BY BaseTypes DEF Resolve
<1>3. requests'[r].status = "accepted" => r \in sealed'
  BY <1>1, <1>2 DEF Base, AcceptedWasSealed
<1>4. CASE Resolvable(r, S)
  <2> DEFINE k == [pc |-> p, request |-> r, seen |-> requests'[r].status, ttl |-> 0]
  <2>1. requests'[r] \in Row
    BY <1>1 DEF RowStep
  <2>2. k \in Call
    BY <2>1, RequestAssumption DEF Call, Row, CallerPC
  <2>3. caller' = [caller EXCEPT ![c] = k] /\ Stored(r)
    BY <1>4 DEF Resolve
  <2>4. k.request = r /\ k.pc \notin {"idle", "storing", "completing"}
    OBVIOUS
  <2> HIDE DEF k
  <2> QED BY <1>1, <1>2, <1>3, <2>2, <2>3, <2>4, WorkStep
<1>5. CASE ~ Resolvable(r, S)
  <2>1. caller' = caller /\ At(c, "idle")
    BY <1>5 DEF Resolve
  <2>2. caller[c] = Idle
    BY <2>1 DEF Base, Placed
  <2>3. caller' = [caller EXCEPT ![c] = Idle]
    BY <2>1, <2>2, BaseTypes
  <2>4. Idle \in Call /\ Idle.pc # "completing"
    BY IdleType DEF Idle
  <2> QED BY <1>1, <1>2, <1>3, <2>3, <2>4, WorkStep
<1> QED BY <1>4, <1>5

FailuresType == failures \in 0..MaxFailures

\* The cooldowns fit the type of the pair and are longer than a request lives.
LEMMA CooldownLengths ==
  /\ REQUEST_TTL \in 0..MaxCooldown /\ MaxCooldown \in Nat
  /\ \A n \in {DISMISS_COOLDOWN, ACCEPTED_COOLDOWN, DECLINED_COOLDOWN} :
       n \in 0..MaxCooldown /\ n >= REQUEST_TTL
BY RequestAssumption DEF MaxCooldown

LEMMA UpsertTypes ==
  ASSUME Base, FailuresType',
         NEW p \in Cooldowns,
         NEW n \in {DISMISS_COOLDOWN, ACCEPTED_COOLDOWN, DECLINED_COOLDOWN},
         UpsertPairState(p, n), UNCHANGED <<loose, overran, repeated>>
  PROVE  OtherTypes'
<1>1. n \in 0..MaxCooldown
  BY CooldownLengths
<1>2. pair' \in [state : {"none", "pending"} \cup Cooldowns, ttl : 0..MaxCooldown]
  BY <1>1 DEF UpsertPairState
<1>3. lockOf' = NoRequest
  BY DEF UpsertPairState
<1> QED BY <1>2, <1>3 DEF OtherTypes, FailuresType, Base, TypeOK

LEMMA ReleaseTypes ==
  ASSUME Base, FailuresType', NEW r \in Requests, NEW live,
         ReleasePairPending(r, live), UNCHANGED <<overran, repeated>>
  PROVE  OtherTypes'
<1>1. NoPair \in [state : {"none", "pending"} \cup Cooldowns, ttl : 0..MaxCooldown]
  BY CooldownLengths DEF NoPair
<1>2. CASE Releases(pair)
  <2>1. pair' = NoPair /\ lockOf' = NoRequest
    BY <1>2 DEF ReleasePairPending
  <2>2. loose' \subseteq Requests
    BY <1>2 DEF ReleasePairPending, Base, TypeOK
  <2> QED BY <1>1, <2>1, <2>2 DEF OtherTypes, FailuresType, Base, TypeOK
<1>3. CASE ~ Releases(pair)
  BY <1>3 DEF ReleasePairPending, OtherTypes, FailuresType, Base, TypeOK
<1> QED BY <1>2, <1>3

LEMMA SameTypes ==
  ASSUME Base, FailuresType', UNCHANGED <<pair, lockOf, loose, repeated>>,
         overran' \in BOOLEAN
  PROVE  OtherTypes'
BY DEF OtherTypes, FailuresType, Base, TypeOK

LEMMA CancelKept ==
  ASSUME Base, FailuresType', NEW c \in Callers,
         (\E r \in Requests : CancelResolves(c, r)) \/ CancelSets(c)
  PROVE  FlowKept
<1>1. ASSUME NEW r \in Requests, CancelResolves(c, r) PROVE FlowKept
  <2>1. OtherTypes'
    BY <1>1 DEF CancelResolves, Resolve, OtherTypes, FailuresType, Base, TypeOK
  <2> QED BY <1>1, <2>1, ResolveKept DEF CancelResolves
<1>2. ASSUME CancelSets(c) PROVE FlowKept
  <2>0. OtherTypes' /\ UNCHANGED sealed /\ sealed \subseteq Requests
    BY <1>2, SameTypes, BaseTypes DEF CancelSets, OtherTypes
  <2>1. /\ ~ At(c, "idle") /\ ~ At(c, "storing") /\ ~ At(c, "unlocking")
        /\ Req(c) \in Requests
    BY <1>2, AtWorkOn DEF CancelSets, At
  <2>2. CASE SetRequestStatus(Req(c), "canceled", caller[c].seen) /\ Goto(c, "unlocking")
    BY <2>0, <2>1, <2>2, SetRow, GoOn DEF CallerPC, Base, AcceptedWasSealed
  <2>3. CASE Return(c) /\ UNCHANGED requests
    BY <2>0, <2>1, <2>3, QuietGoHome
  <2> QED BY <1>2, <2>2, <2>3 DEF CancelSets
<1> QED BY <1>1, <1>2

LEMMA DeclineKept ==
  ASSUME Base, FailuresType', NEW c \in Callers, Decline(c)
  PROVE  FlowKept
<1>1. ASSUME NEW r \in Requests, DeclineResolves(c, r) PROVE FlowKept
  <2>1. OtherTypes'
    BY <1>1 DEF DeclineResolves, Resolve, OtherTypes, FailuresType, Base, TypeOK
  <2> QED BY <1>1, <2>1, ResolveKept DEF DeclineResolves
<1>2. ASSUME DeclineSets(c) PROVE FlowKept
  <2>0. OtherTypes' /\ UNCHANGED sealed /\ sealed \subseteq Requests
    BY <1>2, SameTypes, BaseTypes DEF DeclineSets, OtherTypes
  <2>1. /\ ~ At(c, "idle") /\ ~ At(c, "storing") /\ ~ At(c, "unlocking")
        /\ Req(c) \in Requests
    BY <1>2, AtWorkOn DEF DeclineSets, At
  <2>2. CASE SetRequestStatus(Req(c), "declined", caller[c].seen) /\ Goto(c, "coolDeclined")
    BY <2>0, <2>1, <2>2, SetRow, GoOn DEF CallerPC, Base, AcceptedWasSealed
  <2>3. CASE Return(c) /\ UNCHANGED requests
    BY <2>0, <2>1, <2>3, QuietGoHome
  <2> QED BY <1>2, <2>2, <2>3 DEF DeclineSets
<1>3. ASSUME DeclineCools(c) PROVE FlowKept
  <2>1. OtherTypes'
    BY <1>3, UpsertTypes DEF DeclineCools, Cooldowns
  <2> QED BY <1>3, <2>1, QuietGoHome, BaseTypes DEF DeclineCools, At
<1> QED BY <1>1, <1>2, <1>3 DEF Decline

LEMMA AcceptKept ==
  ASSUME Base, FailuresType', NEW c \in Callers, Accept(c)
  PROVE  FlowKept
<1>0. sealed \subseteq Requests
  BY BaseTypes
<1>1. ASSUME NEW r \in Requests, AcceptResolves(c, r) PROVE FlowKept
  <2>1. OtherTypes'
    BY <1>1 DEF AcceptResolves, Resolve, OtherTypes, FailuresType, Base, TypeOK
  <2> QED BY <1>1, <2>1, ResolveKept DEF AcceptResolves
<1>2. ASSUME AcceptClaims(c) PROVE FlowKept
  <2>0. OtherTypes' /\ UNCHANGED sealed
    BY <1>2, SameTypes, BaseTypes DEF AcceptClaims, OtherTypes
  <2>1. /\ ~ At(c, "idle") /\ ~ At(c, "storing") /\ ~ At(c, "unlocking")
        /\ Req(c) \in Requests
    BY <1>2, AtWorkOn DEF AcceptClaims, At
  <2>2. CASE ClaimAcquired(Req(c)) /\ Goto(c, "sealing")
    BY <1>0, <2>0, <2>1, <2>2, ClaimRow, GoOn DEF CallerPC, Base, AcceptedWasSealed
  <2>3. CASE ClaimNotAcquired(Req(c)) /\ Return(c)
    BY <1>0, <2>0, <2>1, <2>3, ClaimRow, GoHome DEF Base, AcceptedWasSealed
  <2> QED BY <1>2, <2>2, <2>3 DEF AcceptClaims
<1>3. ASSUME AcceptSeals(c) PROVE FlowKept
  <2>1. OtherTypes'
    BY <1>3, SameTypes, BaseTypes DEF AcceptSeals, OtherTypes
  <2>2. Req(c) \in Requests
    BY <1>3, AtWorkOn DEF AcceptSeals, At
  <2>3. sealed \subseteq sealed' /\ sealed' \subseteq Requests /\ Req(c) \in sealed'
    BY <1>0, <1>3, <2>2 DEF AcceptSeals
  <2> QED BY <1>3, <2>1, <2>3, QuietGoOn DEF AcceptSeals, At, CallerPC
<1>4. ASSUME AcceptRefused(c) PROVE FlowKept
  <2>1. OtherTypes'
    BY <1>4, SameTypes, BaseTypes DEF AcceptRefused, OtherTypes
  <2> QED BY <1>0, <1>4, <2>1, QuietGoOn DEF AcceptRefused, At, CallerPC
<1>5. ASSUME AcceptReopens(c) PROVE FlowKept
  <2>0. OtherTypes' /\ UNCHANGED sealed
    BY <1>5, SameTypes, BaseTypes DEF AcceptReopens, OtherTypes
  <2>1. Req(c) \in Requests
    BY <1>5, AtWorkOn DEF AcceptReopens, At
  <2> QED BY <1>0, <1>5, <2>0, <2>1, FailRow, GoHome
          DEF AcceptReopens, Base, AcceptedWasSealed
<1>6. ASSUME AcceptCompletes(c) PROVE FlowKept
  <2>0. OtherTypes' /\ UNCHANGED sealed
    BY <1>6, SameTypes, BaseTypes DEF AcceptCompletes, OtherTypes
  <2>1. /\ ~ At(c, "idle") /\ ~ At(c, "storing") /\ ~ At(c, "unlocking")
        /\ Req(c) \in Requests
    BY <1>6, AtWorkOn DEF AcceptCompletes, At
  <2>2. Req(c) \in sealed'
    BY <1>6, <2>0 DEF AcceptCompletes, Base, Placed
  <2>3. /\ requests' = [requests EXCEPT ![Req(c)] = requests'[Req(c)]]
        /\ RowStep(requests[Req(c)], requests'[Req(c)])
    BY <1>6, <2>1, CompleteRow DEF AcceptCompletes
  <2>4. CASE Goto(c, "coolAccepted")
    BY <1>0, <2>0, <2>1, <2>2, <2>3, <2>4, GoOn DEF CallerPC
  <2>5. CASE Return(c)
    BY <1>0, <2>0, <2>1, <2>2, <2>3, <2>5, GoHome
  <2> QED BY <1>6, <2>4, <2>5 DEF AcceptCompletes
<1>7. ASSUME AcceptCools(c) PROVE FlowKept
  <2>1. OtherTypes'
    BY <1>7, UpsertTypes DEF AcceptCools, Cooldowns
  <2> QED BY <1>0, <1>7, <2>1, QuietGoHome DEF AcceptCools, At
<1> QED BY <1>1, <1>2, <1>3, <1>4, <1>5, <1>6, <1>7 DEF Accept

LEMMA LeavingKept ==
  ASSUME Base, FailuresType', NEW c \in Callers,
         AcceptSealFails(c) \/ Lose(c) \/ Unlock(c)
  PROVE  FlowKept
<1>0. sealed \subseteq Requests
  BY BaseTypes
<1>1. CASE AcceptSealFails(c)
  <2>1. OtherTypes'
    BY <1>1, SameTypes, BaseTypes DEF AcceptSealFails, OtherTypes
  <2>2. Req(c) \in Requests /\ ~ At(c, "idle")
    BY <1>1, AtWorkOn DEF AcceptSealFails, At
  <2>3. sealed \subseteq sealed' /\ sealed' \subseteq Requests
    BY <1>0, <1>1, <2>2 DEF AcceptSealFails
  <2>4. CASE Goto(c, "failing")
    BY <1>1, <2>1, <2>3, <2>4, QuietGoOn DEF AcceptSealFails, At, CallerPC
  <2>5. CASE Return(c)
    BY <1>1, <2>1, <2>2, <2>3, <2>5, QuietGoHome DEF AcceptSealFails
  <2> QED BY <1>1, <2>4, <2>5 DEF AcceptSealFails
<1>2. CASE Lose(c)
  <2>1. OtherTypes'
    BY <1>2, SameTypes, BaseTypes DEF Lose, OtherTypes
  <2> QED BY <1>0, <1>2, <2>1, QuietGoHome DEF Lose
<1>3. CASE Unlock(c)
  <2>1. ~ At(c, "idle") /\ Req(c) \in Requests
    BY <1>3, AtWorkOn DEF Unlock, At
  <2>2. OtherTypes'
    BY <1>3, <2>1, ReleaseTypes DEF Unlock
  <2> QED BY <1>0, <1>3, <2>1, <2>2, QuietGoHome DEF Unlock
<1> QED BY <1>1, <1>2, <1>3

\* A row is stored under the create that works on it.
LEMMA StoringKept ==
  ASSUME Base, FailuresType', NEW c \in Callers, CreateStores(c) \/ CreateFails(c)
  PROVE  FlowKept
<1> DEFINE r == Req(c)
           q == [status |-> "pending", intro |-> TRUE, op |-> FALSE, lease |-> 0,
                 ttl |-> caller[c].ttl]
           k == caller'[c]
<1>1. /\ requests \in [Requests -> Row] /\ caller \in [Callers -> Call]
      /\ sealed \subseteq Requests
  BY BaseTypes
<1>2. At(c, "storing") /\ UNCHANGED <<pair, sealed, lockOf, loose, overran, repeated>>
  BY DEF CreateStores, CreateFails
<1>3. /\ r \in Requests /\ ~ Stored(r) /\ \A d \in Callers : d # c => Req(d) # r
  BY <1>2, AtWorkOn DEF At, Base, Placed
<1>4. q \in Row
  BY <1>1, RequestAssumption DEF Row, Call
<1>5. /\ requests'[r] \in {requests[r], q} /\ requests' \in [Requests -> Row]
      /\ \A s \in Requests : s # r => requests'[s] = requests[s]
  BY <1>1, <1>3, <1>4 DEF CreateStores, CreateFails, StoreRequest
<1>6. /\ k = Idle \/ (k.pc = "unlocking" /\ k.request = r)
      /\ k \in Call
      /\ caller' \in [Callers -> Call]
      /\ \A d \in Callers : d # c => caller'[d] = caller[d]
  <2>1. CASE Return(c)
    BY <1>1, <2>1, IdleType DEF Return
  <2>2. CASE Goto(c, "unlocking")
    <3> DEFINE j == [caller[c] EXCEPT !.pc = "unlocking"]
    <3>1. /\ j \in Call /\ j.request = r /\ j.pc = "unlocking"
          /\ caller' = [caller EXCEPT ![c] = j]
      BY <2>2, GotoCall DEF CallerPC
    <3> HIDE DEF j
    <3> QED BY <1>1, <3>1
  <2> QED BY <2>1, <2>2 DEF CreateStores, CreateFails
<1> HIDE DEF k
<1>7. TypeOK'
  BY <1>2, <1>5, <1>6 DEF TypeOK, Base, FailuresType, Row, Call
<1>8. requests[r].status = "none" /\ q.status \notin TerminalStatuses
  BY <1>3 DEF Stored, TerminalStatuses
<1>9. requests'[r].status \notin TerminalStatuses
  BY <1>5, <1>8 DEF TerminalStatuses
<1>10. ClosedHasNoIntro' /\ ClosedStays
  BY <1>5, <1>8, <1>9 DEF ClosedHasNoIntro, ClosedStays, Base, TerminalStatuses
<1>11. AcceptedWasSealed'
  BY <1>2, <1>5, <1>9 DEF AcceptedWasSealed, Base, TerminalStatuses
<1>12. \A s \in Requests : Live(s)' =>
         \/ Live(s) /\ requests'[s].ttl = requests[s].ttl
         \/ s = r /\ requests'[s].ttl = caller[c].ttl
  <2> TAKE s \in Requests
  <2>1. CASE s # r
    BY <1>5, <2>1 DEF Live, Stored, Effective
  <2>2. CASE s = r /\ requests'[r] = q
    BY <2>2
  <2>3. CASE s = r /\ requests'[r] = requests[r]
    BY <2>3 DEF Live, Stored, Effective
  <2> QED BY <1>5, <2>1, <2>2, <2>3
<1>13. \A d \in Callers : At(d, "storing")' => d # c /\ caller'[d] = caller[d]
  BY <1>6 DEF At, Idle, k
<1>14. Calm
  BY <1>2, <1>12, <1>13 DEF Calm
<1>15. \A s \in Requests : Stored(s) => Stored(s)'
  BY <1>3, <1>5 DEF Stored
<1>16. Placed'
  <2> SUFFICES ASSUME NEW d \in Callers
      PROVE  /\ At(d, "idle")' => caller'[d] = Idle
             /\ ~ At(d, "idle")' => Req(d)' # NoRequest
             /\ At(d, "storing")' =>
                  /\ ~ Stored(Req(d))'
                  /\ \A e \in Callers : Req(e)' = Req(d)' => e = d
             /\ caller'[d].pc \notin {"idle", "storing", "unlocking"} => Stored(Req(d))'
             /\ At(d, "completing")' => Req(d)' \in sealed'
    BY DEF Placed, At, Req, Stored
  <2>1. CASE d = c
    BY <1>3, <1>6, <2>1, RequestAssumption DEF At, Req, Idle, k
  <2>2. CASE d # c
    <3>1. /\ caller'[d] = caller[d] /\ Req(d)' = Req(d)
          /\ Req(d) \in Requests \cup {NoRequest} /\ Req(d) # r
      BY <1>1, <1>3, <1>6, <2>2 DEF Req, Call
    <3>2. /\ At(d, "idle")' => caller'[d] = Idle
          /\ ~ At(d, "idle")' => Req(d)' # NoRequest
          /\ At(d, "completing")' => Req(d)' \in sealed'
      BY <1>2, <3>1 DEF Base, Placed, At
    <3>3. caller'[d].pc \notin {"idle", "storing", "unlocking"} => Stored(Req(d))'
      <4> SUFFICES ASSUME caller[d].pc \notin {"idle", "storing", "unlocking"}
                   PROVE  Stored(Req(d))'
        BY <3>1
      <4>1. Stored(Req(d)) /\ Req(d) \in Requests
        BY <3>1 DEF Base, Placed, At
      <4> QED BY <1>15, <3>1, <4>1 DEF Stored
    <3>4. ASSUME At(d, "storing")'
          PROVE  /\ ~ Stored(Req(d))'
                 /\ \A e \in Callers : Req(e)' = Req(d)' => e = d
      <4>1. At(d, "storing") /\ Req(d) \in Requests
        BY <3>1, <3>4 DEF Base, Placed, At
      <4>2. ~ Stored(Req(d)) /\ \A e \in Callers : Req(e) = Req(d) => e = d
        BY <4>1 DEF Base, Placed
      <4>3. ~ Stored(Req(d))'
        BY <1>5, <3>1, <4>1, <4>2 DEF Stored
      <4>4. Req(c)' # Req(d)
        BY <1>6, <3>1, <4>1, RequestAssumption DEF Idle, Req, k
      <4>5. \A e \in Callers : e # c => Req(e)' = Req(e)
        BY <1>6 DEF Req
      <4> QED BY <3>1, <4>2, <4>3, <4>4, <4>5
    <3> QED BY <3>2, <3>3, <3>4
  <2> QED BY <2>1, <2>2
<1> QED BY <1>7, <1>10, <1>11, <1>14, <1>16 DEF FlowKept, Base

\* A new request, not stored yet, with one caller at work on it.
LEMMA LockedKept ==
  ASSUME Base, FailuresType', NEW c \in Callers, NEW r \in Requests, CreateLocked(c, r)
  PROVE  Base' /\ ClosedStays
<1> DEFINE k == [pc |-> "storing", request |-> r, seen |-> "none", ttl |-> REQUEST_TTL]
<1>1. caller \in [Callers -> Call] /\ k \in Call
  BY BaseTypes, RequestAssumption DEF Call, CallerPC
<1>2. /\ caller'[c] = k /\ caller' \in [Callers -> Call]
      /\ \A d \in Callers : d # c => caller'[d] = caller[d]
      /\ UNCHANGED <<requests, sealed, loose, overran, repeated>>
      /\ ~ Stored(r) /\ \A d \in Callers : Req(d) # r
  BY <1>1 DEF CreateLocked
<1>3. /\ pair' \in [state : {"none", "pending"} \cup Cooldowns, ttl : 0..MaxCooldown]
      /\ lockOf' = r
  BY CooldownLengths DEF CreateLocked, AcquirePairPending
<1>4. TypeOK'
  BY <1>2, <1>3 DEF TypeOK, Base, FailuresType, Call
<1>5. Placed'
  <2> SUFFICES ASSUME NEW d \in Callers
      PROVE  /\ At(d, "idle")' => caller'[d] = Idle
             /\ ~ At(d, "idle")' => Req(d)' # NoRequest
             /\ At(d, "storing")' =>
                  /\ ~ Stored(Req(d))'
                  /\ \A e \in Callers : Req(e)' = Req(d)' => e = d
             /\ caller'[d].pc \notin {"idle", "storing", "unlocking"} => Stored(Req(d))'
             /\ At(d, "completing")' => Req(d)' \in sealed'
    BY DEF Placed, At, Req, Stored
  <2>1. \A e \in Callers : e # c => Req(e)' = Req(e) /\ Req(e) # r
    BY <1>2 DEF Req
  <2>2. Req(c)' = r
    BY <1>2 DEF Req
  <2>3. \A s : Stored(s)' <=> Stored(s)
    BY <1>2 DEF Stored
  <2>4. CASE d = c
    BY <1>2, <2>1, <2>2, <2>3, <2>4, RequestAssumption DEF At, Req, Stored
  <2>5. CASE d # c
    <3>1. caller'[d] = caller[d] /\ Req(d)' = Req(d) /\ Req(d) # r /\ sealed' = sealed
      BY <1>2, <2>1, <2>5
    <3>2. /\ At(d, "idle") => caller[d] = Idle
          /\ ~ At(d, "idle") => Req(d) # NoRequest
          /\ At(d, "storing") =>
               ~ Stored(Req(d)) /\ \A e \in Callers : Req(e) = Req(d) => e = d
          /\ caller[d].pc \notin {"idle", "storing", "unlocking"} => Stored(Req(d))
          /\ At(d, "completing") => Req(d) \in sealed
      BY DEF Base, Placed
    <3>3. Stored(Req(d))' <=> Stored(Req(d))
      BY <1>2, <3>1 DEF Stored
    <3> QED BY <2>1, <2>2, <3>1, <3>2, <3>3 DEF At
  <2> QED BY <2>4, <2>5
<1>6. ClosedHasNoIntro' /\ AcceptedWasSealed' /\ ClosedStays
  BY <1>2 DEF ClosedHasNoIntro, AcceptedWasSealed, ClosedStays, Base
<1> QED BY <1>4, <1>5, <1>6 DEF Base

\* Where no caller moves, Placed is about the rows alone.
LEMMA PlacedStays ==
  ASSUME Base,
         \A c \in Callers : /\ caller'[c].pc = caller[c].pc
                            /\ caller'[c].request = caller[c].request
                            /\ caller[c] = Idle => caller'[c] = Idle,
         \A r \in Requests : Stored(r)' <=> Stored(r), UNCHANGED sealed
  PROVE  Placed'
<1>1. \A c \in Callers : Req(c)' = Req(c) /\ Req(c) \in Requests \cup {NoRequest}
  BY BaseTypes DEF Req, Call
<1> SUFFICES ASSUME NEW d \in Callers
    PROVE  /\ At(d, "idle")' => caller'[d] = Idle
           /\ ~ At(d, "idle")' => Req(d)' # NoRequest
           /\ At(d, "storing")' =>
                /\ ~ Stored(Req(d))'
                /\ \A e \in Callers : Req(e)' = Req(d)' => e = d
           /\ caller'[d].pc \notin {"idle", "storing", "unlocking"} => Stored(Req(d))'
           /\ At(d, "completing")' => Req(d)' \in sealed'
  BY DEF Placed, At, Req, Stored
<1>2. /\ At(d, "idle") => caller[d] = Idle
      /\ ~ At(d, "idle") => Req(d) # NoRequest
      /\ At(d, "storing") =>
           ~ Stored(Req(d)) /\ \A e \in Callers : Req(e) = Req(d) => e = d
      /\ caller[d].pc \notin {"idle", "storing", "unlocking"} => Stored(Req(d))
      /\ At(d, "completing") => Req(d) \in sealed
  BY DEF Base, Placed
<1>3. ~ At(d, "idle") => (Stored(Req(d))' <=> Stored(Req(d)))
  BY <1>1, <1>2 DEF Stored
<1> QED BY <1>1, <1>2, <1>3 DEF At

LEMMA DismissKept == ASSUME Base, FailuresType', Dismiss PROVE FlowKept
<1>1. OtherTypes' /\ UNCHANGED <<requests, sealed, caller>>
  BY UpsertTypes DEF Dismiss, Cooldowns
<1>2. TypeOK' /\ ClosedHasNoIntro' /\ AcceptedWasSealed' /\ ClosedStays
  BY <1>1 DEF TypeOK, OtherTypes, ClosedHasNoIntro, AcceptedWasSealed, ClosedStays, Base
<1>3. Placed'
  BY <1>1, PlacedStays DEF Stored
<1>4. Calm
  BY <1>1 DEF Calm, Live, Stored, Effective
<1> QED BY <1>2, <1>3, <1>4 DEF FlowKept, Base

LEMMA TickKept == ASSUME Base, FailuresType', Tick PROVE FlowKept
<1>1. UNCHANGED <<sealed, caller, pair, lockOf, loose, repeated>> /\ overran' \in BOOLEAN
  BY DEF Tick, Base, TypeOK
<1>2. OtherTypes'
  BY <1>1, SameTypes
<1>3. \A r \in Requests :
        /\ requests'[r] \in Row
        /\ requests'[r].status = requests[r].status
        /\ requests'[r].intro = requests[r].intro
        /\ requests'[r].ttl = requests[r].ttl
  BY BaseTypes, RequestAssumption DEF Tick, Row
<1>4. requests' \in [Requests -> Row]
  BY <1>3 DEF Tick
<1>5. TypeOK'
  BY <1>1, <1>2, <1>4, BaseTypes DEF TypeOK, OtherTypes, Row, Call
<1>6. ClosedHasNoIntro' /\ AcceptedWasSealed' /\ ClosedStays
  BY <1>1, <1>3 DEF ClosedHasNoIntro, AcceptedWasSealed, ClosedStays, Base
<1>7. Placed'
  BY <1>1, <1>3, PlacedStays DEF Stored
<1>8. Calm
  BY <1>1, <1>3 DEF Calm, Live, Stored, Effective, At
<1> QED BY <1>5, <1>6, <1>7, <1>8 DEF FlowKept, Base

LEMMA DayRows ==
  ASSUME Base, Day
  PROVE  /\ \A r \in Requests : /\ requests'[r] \in Row
                                /\ requests'[r].status = requests[r].status
                                /\ requests'[r].intro = requests[r].intro
                                /\ requests'[r].ttl = Less(requests[r].ttl)
         /\ \A c \in Callers : /\ caller'[c] \in Call
                               /\ caller'[c].pc = caller[c].pc
                               /\ caller'[c].request = caller[c].request
                               /\ caller'[c].ttl = Less(caller[c].ttl)
                               /\ caller[c] = Idle => caller'[c] = Idle
         /\ pair'.state = pair.state /\ pair'.ttl = Less(pair.ttl)
<1>1. \A r \in Requests : /\ requests'[r] \in Row
                          /\ requests'[r].status = requests[r].status
                          /\ requests'[r].intro = requests[r].intro
                          /\ requests'[r].ttl = Less(requests[r].ttl)
  BY BaseTypes, RequestAssumption DEF Day, Row, Less
<1>2. \A c \in Callers : /\ caller'[c] \in Call
                         /\ caller'[c].pc = caller[c].pc
                         /\ caller'[c].request = caller[c].request
                         /\ caller'[c].ttl = Less(caller[c].ttl)
                         /\ caller[c] = Idle => caller'[c] = Idle
  BY BaseTypes, RequestAssumption DEF Day, Call, Less, Idle
<1>3. pair'.state = pair.state /\ pair'.ttl = Less(pair.ttl)
  BY BaseTypes, CooldownLengths DEF Day, OtherTypes, Less
<1> QED BY <1>1, <1>2, <1>3

LEMMA DayKept == ASSUME Base, FailuresType', Day PROVE Base' /\ ClosedStays
<1>1. UNCHANGED <<sealed, lockOf, loose, overran, repeated>>
  BY DEF Day
<1>2. requests' \in [Requests -> Row] /\ caller' \in [Callers -> Call]
  BY DayRows DEF Day
<1>3. pair' \in [state : {"none", "pending"} \cup Cooldowns, ttl : 0..MaxCooldown]
  BY BaseTypes, CooldownLengths DEF Day, OtherTypes
<1>4. TypeOK'
  BY <1>1, <1>2, <1>3 DEF TypeOK, Base, FailuresType, Row, Call
<1>5. ClosedHasNoIntro' /\ AcceptedWasSealed' /\ ClosedStays
  BY <1>1, DayRows DEF ClosedHasNoIntro, AcceptedWasSealed, ClosedStays, Base
<1>6. Placed'
  BY <1>1, DayRows, PlacedStays DEF Stored
<1> QED BY <1>4, <1>5, <1>6 DEF Base

-----------------------------------------------------------------------------
(* The steps together. *)

Locks == \E c \in Callers, r \in Requests : CreateLocked(c, r)

\* Every step is the passing of a day, a new lock, or calm.
LEMMA StepKept ==
  ASSUME Base, Next
  PROVE  Base' /\ ClosedStays /\ (Calm \/ Day \/ Locks)
<1>1. FailuresType'
  BY RequestAssumption DEF Next, Failing, FailuresType, Base, TypeOK
<1>2. CASE Dismiss \/ Tick
  BY <1>1, <1>2, DismissKept, TickKept DEF FlowKept
<1>3. CASE Day
  BY <1>1, <1>3, DayKept
<1>4. ASSUME NEW c \in Callers, Create(c) PROVE Base' /\ ClosedStays /\ (Calm \/ Locks)
  <2>1. CASE \E r \in Requests : CreateLocked(c, r)
    BY <1>1, <2>1, LockedKept DEF Locks
  <2>2. CASE CreateStores(c) \/ Unlock(c)
    BY <1>1, <2>2, StoringKept, LeavingKept DEF FlowKept
  <2> QED BY <1>4, <2>1, <2>2 DEF Create
<1>5. ASSUME NEW c \in Callers, Cancel(c) PROVE FlowKept
  BY <1>1, <1>5, CancelKept DEF Cancel
<1>6. ASSUME NEW c \in Callers, Decline(c) \/ Accept(c) PROVE FlowKept
  BY <1>1, <1>6, DeclineKept, AcceptKept
<1>7. ASSUME NEW c \in Callers, Fail(c) PROVE FlowKept
  BY <1>1, <1>7, StoringKept, LeavingKept DEF Fail
<1> QED BY <1>2, <1>3, <1>4, <1>5, <1>6, <1>7 DEF Next, Working, Failing, FlowKept

LEMMA BaseInit == Init => Base
<1> SUFFICES ASSUME Init PROVE Base
  OBVIOUS
<1>1. NoRow \in Row /\ Idle \in Call
  BY IdleType, RequestAssumption DEF NoRow, Row
<1>2. NoPair \in [state : {"none", "pending"} \cup Cooldowns, ttl : 0..MaxCooldown]
  BY CooldownLengths DEF NoPair
<1>3. TypeOK
  <2>1. requests \in [Requests -> Row] /\ caller \in [Callers -> Call]
    BY <1>1 DEF Init
  <2>2. /\ failures \in 0..MaxFailures /\ lockOf \in Requests \cup {NoRequest}
        /\ sealed \subseteq Requests /\ loose \subseteq Requests
        /\ repeated \subseteq Requests
    BY RequestAssumption DEF Init
  <2>3. overran \in BOOLEAN
    BY DEF Init
  <2>4. pair \in [state : {"none", "pending"} \cup Cooldowns, ttl : 0..MaxCooldown]
    BY <1>2 DEF Init
  <2>5. OtherTypes
    BY <2>2, <2>3, <2>4 DEF OtherTypes
  <2> QED BY <2>1, <2>2, <2>5 DEF TypeOK, OtherTypes, Row, Call
<1>4. Placed
  BY DEF Init, Placed, At, Req, Idle
<1>5. ClosedHasNoIntro /\ AcceptedWasSealed
  BY DEF Init, ClosedHasNoIntro, AcceptedWasSealed, NoRow, TerminalStatuses
<1> QED BY <1>3, <1>4, <1>5 DEF Base

LEMMA BaseStutters == ASSUME Base, UNCHANGED vars PROVE Base'
<1>1. TypeOK'
  BY DEF vars, Base, TypeOK
<1>2. Placed'
  BY PlacedStays DEF vars, Stored
<1>3. ClosedHasNoIntro' /\ AcceptedWasSealed'
  BY DEF vars, Base, ClosedHasNoIntro, AcceptedWasSealed
<1> QED BY <1>1, <1>2, <1>3 DEF Base

\* The inductive invariant every other theorem rests on: types, who works on
\* which row, and that closed rows keep no intro.
THEOREM BaseInvariant == Spec => []Base
<1>1. Base /\ [Next]_vars => Base'
  BY StepKept, BaseStutters
<1> QED BY <1>1, BaseInit, PTL DEF Spec

\* Every variable of the request flow keeps its type.
THEOREM TypeTheorem == Spec => []TypeOK
<1>1. Base => TypeOK
  BY DEF Base
<1> QED BY <1>1, BaseInvariant, PTL

\* No request is ever accepted before its intro is in the candidate's inbox.
THEOREM AcceptedTheorem == Spec => []AcceptedWasSealed
<1>1. Base => AcceptedWasSealed
  BY DEF Base
<1> QED BY <1>1, BaseInvariant, PTL

\* No step of any call, however late, reopens or rewrites a settled request.
THEOREM TerminalTheorem == Spec => TerminalStands
<1> DEFINE Stands == \A r \in Requests : requests[r].status \in TerminalStatuses =>
                       /\ requests'[r].status = requests[r].status
                       /\ ~ requests'[r].intro
<1>1. Base /\ [Next]_vars => [Stands]_vars
  BY StepKept DEF ClosedStays
<1> QED BY <1>1, BaseInvariant, PTL DEF Spec, TerminalStands

-----------------------------------------------------------------------------
(* The lock of the pair. *)

\* What a step may do to the pair.
RowMoves ==
  \/ UNCHANGED <<pair, lockOf, loose>>
  \/ \E c \in Callers : Unlock(c)
  \/ /\ pair'.state \in Cooldowns /\ pair'.ttl >= REQUEST_TTL
     /\ UNCHANGED loose

LEMMA UpsertMoves ==
  ASSUME NEW s \in Cooldowns,
         NEW n \in {DISMISS_COOLDOWN, ACCEPTED_COOLDOWN, DECLINED_COOLDOWN},
         UpsertPairState(s, n), UNCHANGED loose
  PROVE  RowMoves
BY CooldownLengths DEF UpsertPairState, RowMoves

LEMMA StepMoves == ASSUME Next PROVE RowMoves \/ Day \/ Locks
<1>1. ASSUME NEW c \in Callers, Create(c) \/ Cancel(c) PROVE RowMoves \/ Locks
  BY <1>1 DEF Create, Cancel, CreateStores, CancelResolves, CancelSets, Resolve,
              RowMoves, Locks
<1>2. ASSUME NEW c \in Callers, Decline(c) PROVE RowMoves
  <2>1. CASE DeclineCools(c)
    BY <2>1, UpsertMoves DEF DeclineCools, Cooldowns
  <2>2. CASE DeclineSets(c) \/ \E r \in Requests : DeclineResolves(c, r)
    BY <2>2 DEF DeclineSets, DeclineResolves, Resolve, RowMoves
  <2> QED BY <1>2, <2>1, <2>2 DEF Decline
<1>3. ASSUME NEW c \in Callers, Accept(c) PROVE RowMoves
  <2>1. CASE AcceptCools(c)
    BY <2>1, UpsertMoves DEF AcceptCools, Cooldowns
  <2>2. CASE ~ AcceptCools(c)
    BY <1>3, <2>2 DEF Accept, AcceptResolves, Resolve, AcceptClaims, AcceptSeals,
                      AcceptRefused, AcceptReopens, AcceptCompletes, RowMoves
  <2> QED BY <2>1, <2>2
<1>4. ASSUME NEW c \in Callers, Fail(c) PROVE RowMoves
  BY <1>4 DEF Fail, CreateFails, AcceptSealFails, Lose, RowMoves
<1>5. CASE Dismiss
  BY <1>5, UpsertMoves DEF Dismiss, Cooldowns
<1>6. CASE Tick
  BY <1>6 DEF Tick, RowMoves
<1> QED BY <1>1, <1>2, <1>3, <1>4, <1>5, <1>6 DEF Next, Working, Failing

\* The pair shields request r for n more days.
Cover(r, n) ==
  /\ Blocking(pair) /\ pair.ttl >= n
  /\ pair.state = "pending" => lockOf = r

Storing(c) == At(c, "storing") /\ caller[c].ttl > 0

\* A request that is open, or will be when its row is stored.
Open(r) == Live(r) \/ \E c \in Callers : Storing(c) /\ Req(c) = r

\* Every open request whose lock was not taken from it is shielded for as
\* long as it lives, and there is only one.
PairInv ==
  /\ \A r \in Requests \ loose : Live(r) => Cover(r, requests[r].ttl)
  /\ \A c \in Callers : Storing(c) /\ Req(c) \notin loose =>
       Cover(Req(c), caller[c].ttl)
  /\ \A r, s \in Requests \ loose : Open(r) /\ Open(s) => r = s

LEMMA PairInit == Init => PairInv
BY DEF Init, PairInv, Open, Live, Stored, NoRow, Storing, At, Idle

\* An open request has time left.
LEMMA OpenHasTime ==
  ASSUME Base
  PROVE  /\ \A r \in Requests : Live(r) => requests[r].ttl > 0
         /\ pair.ttl \in Nat
         /\ \A r \in Requests : requests[r].ttl \in 0..REQUEST_TTL
         /\ \A c \in Callers : caller[c].ttl \in 0..REQUEST_TTL
<1>1. pair.ttl \in Nat
  BY CooldownLengths DEF Base, TypeOK
<1>2. \A r \in Requests : requests[r].ttl \in 0..REQUEST_TTL
  BY BaseTypes DEF Row
<1>3. \A c \in Callers : caller[c].ttl \in 0..REQUEST_TTL
  BY BaseTypes DEF Call
<1>4. \A r \in Requests : Live(r) => requests[r].ttl > 0
  BY <1>2, RequestAssumption DEF Live, Effective
<1> QED BY <1>1, <1>2, <1>3, <1>4

\* A calm step opens no request that was not open, nor changes its time left.
LEMMA CalmOpens ==
  ASSUME Base, Base', Calm
  PROVE  /\ \A r \in Requests : Open(r)' => Open(r)
         /\ \A r \in Requests : Live(r)' =>
              \/ Live(r) /\ requests'[r].ttl = requests[r].ttl
              \/ \E c \in Callers : /\ Storing(c) /\ Req(c) = r
                                    /\ caller[c].ttl = requests'[r].ttl
         /\ \A c \in Callers : Storing(c)' => /\ Storing(c) /\ Req(c)' = Req(c)
                                              /\ caller'[c].ttl = caller[c].ttl
<1>1. \A r \in Requests : Live(r)' => requests'[r].ttl > 0
  <2>1. \A r \in Requests : requests'[r].ttl \in 0..REQUEST_TTL
    BY DEF Base, TypeOK
  <2> QED BY <2>1, RequestAssumption DEF Live, Effective
<1>2. \A r \in Requests : Live(r)' =>
        \/ Live(r) /\ requests'[r].ttl = requests[r].ttl
        \/ \E c \in Callers : /\ Storing(c) /\ Req(c) = r
                              /\ caller[c].ttl = requests'[r].ttl
  BY <1>1 DEF Calm, Storing
<1>3. \A c \in Callers : Storing(c)' => /\ Storing(c) /\ Req(c)' = Req(c)
                                        /\ caller'[c].ttl = caller[c].ttl
  BY DEF Calm, Storing, At, Req
<1>4. \A r \in Requests : Open(r)' => Open(r)
  BY <1>2, <1>3 DEF Open
<1> QED BY <1>2, <1>3, <1>4

\* A calm step keeps PairInv where the pair still covers what is not loose.
LEMMA CalmPair ==
  ASSUME Base, Base', Calm, PairInv, loose \subseteq loose',
         \A r \in Requests \ loose', n \in 0..REQUEST_TTL :
           Open(r) /\ Cover(r, n) => Cover(r, n)'
  PROVE  PairInv'
<1>1. \A r \in Requests \ loose' : r \in Requests \ loose
  OBVIOUS
<1>2. \A r \in Requests \ loose' : Live(r)' => Cover(r, requests[r].ttl)'
  <2>1. \A r \in Requests : requests'[r].ttl \in 0..REQUEST_TTL
    BY BaseTypes DEF Base, TypeOK
  <2>2. ASSUME NEW r \in Requests \ loose', Live(r)'
        PROVE  Cover(r, requests'[r].ttl)
    <3>1. CASE Live(r) /\ requests'[r].ttl = requests[r].ttl
      BY <1>1, <3>1 DEF PairInv
    <3>2. ASSUME NEW c \in Callers, Storing(c), Req(c) = r,
                 caller[c].ttl = requests'[r].ttl
          PROVE  Cover(r, requests'[r].ttl)
      BY <1>1, <3>2 DEF PairInv
    <3> QED BY <2>2, <3>1, <3>2, CalmOpens
  <2>3. ASSUME NEW r \in Requests \ loose', Live(r)' PROVE Open(r)
    BY <2>3, CalmOpens DEF Open
  <2>4. ASSUME NEW r \in Requests \ loose', Live(r)',
               NEW n \in 0..REQUEST_TTL, n = requests'[r].ttl
        PROVE  Cover(r, n)'
    BY <2>2, <2>3, <2>4
  <2> QED BY <2>1, <2>4 DEF Cover
<1>3. \A c \in Callers : Storing(c)' /\ Req(c)' \notin loose' =>
        Cover(Req(c), caller[c].ttl)'
  <2> SUFFICES ASSUME NEW c \in Callers, Storing(c)', Req(c)' \notin loose'
               PROVE  Cover(Req(c), caller[c].ttl)'
    OBVIOUS
  <2>1. /\ Storing(c) /\ Req(c)' = Req(c) /\ caller'[c].ttl = caller[c].ttl
        /\ ~ At(c, "idle")
    BY CalmOpens DEF Storing, At
  <2>2. Req(c) \in Requests \ loose' /\ Req(c) \notin loose
    BY <2>1, AtWorkOn
  <2>3. Cover(Req(c), caller[c].ttl) /\ Open(Req(c))
    BY <2>1, <2>2 DEF PairInv, Open
  <2>4. caller[c].ttl \in 0..REQUEST_TTL
    BY OpenHasTime
  <2>5. ASSUME NEW r \in Requests \ loose', NEW n \in 0..REQUEST_TTL,
               Cover(r, n), Open(r)
        PROVE  Blocking(pair)' /\ pair'.ttl >= n /\ (pair'.state = "pending" => lockOf' = r)
    BY <2>5 DEF Cover
  <2> QED BY <2>1, <2>2, <2>3, <2>4, <2>5 DEF Cover
<1>4. \A r, s \in Requests \ loose' : Open(r)' /\ Open(s)' => r = s
  BY <1>1, CalmOpens DEF PairInv
<1> QED BY <1>2, <1>3, <1>4 DEF PairInv

LEMMA UnlockPair ==
  ASSUME Base, Base', Calm, PairInv, NEW c \in Callers, Unlock(c)
  PROVE  PairInv'
<1>1. CASE ~ Releases(pair)
  <2>1. UNCHANGED <<pair, lockOf, loose>>
    BY <1>1 DEF Unlock, ReleasePairPending
  <2> QED BY <2>1, CalmPair DEF Cover, Blocking
<1>2. CASE Releases(pair)
  <2>1. /\ pair.state = "pending" /\ loose \subseteq loose'
        /\ \A r \in Requests \ loose' : lockOf = r => r = Req(c) /\ ~ Live(r)
    BY <1>2, RequestAssumption DEF Releases, Unlock, ReleasePairPending
  <2>2. ASSUME NEW r \in Requests \ loose', NEW n \in 0..REQUEST_TTL, Open(r), Cover(r, n)
        PROVE  FALSE
    <3>1. lockOf = r /\ r = Req(c) /\ ~ Live(r)
      BY <2>1, <2>2 DEF Cover
    <3>2. PICK d \in Callers : Storing(d) /\ Req(d) = r
      BY <2>2, <3>1 DEF Open
    <3>3. d = c
      BY <3>1, <3>2 DEF Base, Placed, Storing
    <3> QED BY <3>2, <3>3 DEF Unlock, Storing, At
  <2> QED BY <2>1, <2>2, CalmPair
<1> QED BY <1>1, <1>2

LEMMA CalmPairKept ==
  ASSUME Base, Base', Calm, PairInv, RowMoves
  PROVE  PairInv'
<1>1. CASE UNCHANGED <<pair, lockOf, loose>>
  BY <1>1, CalmPair DEF Cover, Blocking
<1>2. CASE \E c \in Callers : Unlock(c)
  BY <1>2, UnlockPair
<1>3. CASE pair'.state \in Cooldowns /\ pair'.ttl >= REQUEST_TTL /\ UNCHANGED loose
  <2>1. pair'.ttl > 0 /\ pair'.state # "none" /\ pair'.state # "pending"
    <3>1. pair'.ttl \in Nat
      BY CooldownLengths DEF Base, TypeOK
    <3> QED BY <1>3, <3>1, RequestAssumption DEF Cooldowns
  <2>2. \A n \in 0..REQUEST_TTL : pair'.ttl >= n
    BY <1>3, RequestAssumption DEF Base, TypeOK
  <2>3. \A r \in Requests \ loose', n \in 0..REQUEST_TTL : Cover(r, n)'
    BY <2>1, <2>2 DEF Cover, Blocking
  <2> QED BY <1>3, <2>3, CalmPair
<1> QED BY <1>1, <1>2, <1>3 DEF RowMoves

LEMMA LockPair ==
  ASSUME Base, Base', PairInv, NEW c \in Callers, NEW r \in Requests, CreateLocked(c, r)
  PROVE  PairInv'
<1>1. /\ ~ Blocking(pair) /\ pair' = [state |-> "pending", ttl |-> REQUEST_TTL]
      /\ lockOf' = r /\ UNCHANGED <<requests, loose>> /\ ~ Stored(r)
      /\ caller'[c] = [pc |-> "storing", request |-> r, seen |-> "none",
                       ttl |-> REQUEST_TTL]
      /\ \A d \in Callers : d # c => caller'[d] = caller[d]
  BY BaseTypes DEF CreateLocked, AcquirePairPending
<1>2. \A s \in Requests \ loose : ~ Live(s)
  BY <1>1 DEF PairInv, Cover
<1>3. \A d \in Callers : Storing(d) => Req(d) \in loose
  BY <1>1 DEF PairInv, Cover
<1>4. \A s \in Requests \ loose : ~ Live(s)'
  BY <1>1, <1>2 DEF Live, Stored, Effective
<1>5. \A d \in Callers : Storing(d)' /\ Req(d)' \notin loose => d = c
  BY <1>1, <1>3 DEF Storing, At, Req
<1>6. Cover(Req(c), caller[c].ttl)'
  BY <1>1, RequestAssumption DEF Cover, Blocking, Req
<1>7. \A s \in Requests \ loose : Open(s)' => s = r
  BY <1>1, <1>4, <1>5 DEF Open, Req
<1> QED BY <1>1, <1>4, <1>5, <1>6, <1>7 DEF PairInv

LEMMA DayPair == ASSUME Base, Base', PairInv, Day PROVE PairInv'
<1>1. UNCHANGED <<lockOf, loose>>
  BY DEF Day
<1>2. \A n \in Nat : Less(n) \in Nat /\ (Less(n) > 0 => n > 0)
  BY DEF Less
<1>3. \A m, n \in Nat : m >= n /\ Less(n) > 0 => Less(m) >= Less(n) /\ Less(m) > 0
  BY DEF Less
<1>4. /\ pair.ttl \in Nat /\ pair'.ttl = Less(pair.ttl) /\ pair'.state = pair.state
      /\ \A r \in Requests : requests[r].ttl \in Nat /\ requests'[r].ttl = Less(requests[r].ttl)
      /\ \A c \in Callers : caller[c].ttl \in Nat /\ caller'[c].ttl = Less(caller[c].ttl)
  BY OpenHasTime, DayRows, RequestAssumption
<1>5. \A r \in Requests : Live(r)' => Live(r) /\ Less(requests[r].ttl) > 0
  <2> SUFFICES ASSUME NEW r \in Requests, Live(r)'
               PROVE  Live(r) /\ Less(requests[r].ttl) > 0
    OBVIOUS
  <2>1. /\ requests'[r].status = requests[r].status /\ requests'[r].ttl # 0
        /\ requests[r].status \in {"pending", "accepting"}
    BY DayRows DEF Live, Stored, Effective
  <2>2. Less(requests[r].ttl) > 0 /\ requests[r].ttl > 0
    BY <1>2, <1>4, <2>1
  <2> QED BY <1>4, <2>1, <2>2 DEF Live, Stored, Effective
<1>6. \A c \in Callers : Storing(c)' => /\ Storing(c) /\ Less(caller[c].ttl) > 0
                                        /\ Req(c)' = Req(c)
  BY <1>2, <1>4, DayRows DEF Storing, At, Req
<1>7. ASSUME NEW r, NEW n \in Nat, Cover(r, n), Less(n) > 0
      PROVE  Blocking(pair)' /\ pair'.ttl >= Less(n) /\ (pair'.state = "pending" => lockOf' = r)
  BY <1>1, <1>3, <1>4, <1>7 DEF Cover, Blocking
<1>8. \A r \in Requests \ loose' : Live(r)' => Cover(r, requests[r].ttl)'
  BY <1>1, <1>4, <1>5, <1>7 DEF PairInv, Cover
<1>9. \A c \in Callers : Storing(c)' /\ Req(c)' \notin loose' => Cover(Req(c), caller[c].ttl)'
  BY <1>1, <1>4, <1>6, <1>7 DEF PairInv, Cover
<1>10. \A r \in Requests : Open(r)' => Open(r)
  BY <1>5, <1>6 DEF Open
<1>11. \A r, s \in Requests \ loose' : Open(r)' /\ Open(s)' => r = s
  BY <1>1, <1>10 DEF PairInv
<1> QED BY <1>8, <1>9, <1>11 DEF PairInv

LEMMA PairStep == ASSUME Base, PairInv, [Next]_vars PROVE PairInv'
<1>1. CASE Next
  <2>1. Base' /\ (Calm \/ Day \/ Locks) /\ (RowMoves \/ Day \/ Locks)
    BY <1>1, StepKept, StepMoves
  <2> QED BY <2>1, CalmPairKept, DayPair, LockPair DEF Locks
<1>2. CASE UNCHANGED vars
  BY <1>2 DEF vars, PairInv, Open, Live, Stored, Effective, Storing, At, Req, Cover, Blocking
<1> QED BY <1>1, <1>2

\* At most one request of a pair is open, and the pair blocks a second one,
\* for every lifetime and cooldown: the lock outlives the request, unless it
\* was released under it.
THEOREM ExclusiveTheorem == Spec => []PairIsExclusive
<1>1. Base /\ PairInv => PairIsExclusive
  BY DEF PairInv, PairIsExclusive, Open, Cover
<1>2. Base /\ PairInv /\ [Next]_vars => PairInv'
  BY PairStep
<1> QED BY <1>1, <1>2, BaseInvariant, PairInit, PTL DEF Spec

\* A cooldown is ended by nothing but time: a release looks at the state, and
\* a lock needs a free pair.
THEOREM CooldownTheorem == Spec => CooldownStands
<1> DEFINE Stands == pair.state \in Cooldowns /\ pair.ttl > 0 =>
                       pair'.state \in Cooldowns
<1>1. ASSUME Base, Next PROVE Stands
  <2> SUFFICES ASSUME pair.state \in Cooldowns, pair.ttl > 0
               PROVE  pair'.state \in Cooldowns
    OBVIOUS
  <2>1. pair.state # "none" /\ pair.state # "pending"
    BY DEF Cooldowns
  <2>2. ~ Locks
    BY <2>1 DEF Locks, CreateLocked, AcquirePairPending, Blocking
  <2>3. ASSUME NEW c \in Callers, Unlock(c) PROVE pair' = pair
    BY <2>1, <2>3 DEF Unlock, ReleasePairPending, Releases
  <2>4. CASE Day
    BY <2>4, <1>1, DayRows
  <2>5. CASE RowMoves
    BY <2>3, <2>5 DEF RowMoves
  <2> QED BY <1>1, <2>2, <2>4, <2>5, StepMoves
<1>2. Base /\ [Next]_vars => [Stands]_vars
  BY <1>1
<1> QED BY <1>2, BaseInvariant, PTL DEF Spec, CooldownStands

-----------------------------------------------------------------------------
(* Accepts. *)

\* The row of a request some accept is at work on.
WorkRow(q) == q.status = "expired" \/ (OwnsAccept(q) /\ q.lease > 0)

\* As long as no accept outlives its lease, an accept at work on a request is
\* the only one, and holds its lease unless the request expired meanwhile.
AcceptInv ==
  ~ overran => \A c \in Callers : AtWork(c) =>
    /\ \A d \in Callers : AtWork(d) /\ Req(d) = Req(c) => d = c
    /\ WorkRow(requests[Req(c)])

\* Without a fault and without an overrun, a request whose intro was taken is
\* accepted or expired, or the accept that sent the intro is about to complete.
SealInv ==
  failures = 0 /\ ~ overran => \A r \in sealed :
    \/ requests[r].status \in {"accepted", "expired"}
    \/ /\ requests[r].status = "accepting"
       /\ \E c \in Callers : At(c, "completing") /\ Req(c) = r

LEMMA AcceptInit == Init => AcceptInv /\ SealInv
BY DEF Init, AcceptInv, SealInv, AtWork, Accepting, Idle

\* No worker is new: each was at work on the same request before.
OldWorkers == \A d \in Callers : AtWork(d)' => AtWork(d) /\ Req(d)' = Req(d)

LEMMA WorkersStay ==
  ASSUME AcceptInv, OldWorkers, ~ overran,
         \A d \in Callers : AtWork(d) /\ AtWork(d)' /\ WorkRow(requests[Req(d)])
           => WorkRow(requests'[Req(d)])
  PROVE  AcceptInv'
<1>1. ASSUME NEW c \in Callers, AtWork(c)'
      PROVE  WorkRow(requests'[Req(c)']) /\ Req(c)' = Req(c) /\ AtWork(c)
  BY <1>1 DEF AcceptInv, OldWorkers
<1>2. ASSUME NEW c \in Callers, NEW d \in Callers, AtWork(c)', AtWork(d)',
             Req(d)' = Req(c)'
      PROVE  d = c
  BY <1>1, <1>2 DEF AcceptInv
<1> QED BY <1>1, <1>2 DEF AcceptInv, WorkRow, OwnsAccept

LEMMA OldReturn ==
  ASSUME Base, NEW c \in Callers, Return(c)
  PROVE  OldWorkers /\ ~ AtWork(c)'
BY BaseTypes DEF Return, OldWorkers, AtWork, Req, Idle, Accepting

LEMMA OldGoto ==
  ASSUME Base, NEW c \in Callers, NEW p, Goto(c, p), p \in Accepting => AtWork(c)
  PROVE  OldWorkers /\ (p \notin Accepting => ~ AtWork(c)')
BY BaseTypes DEF Goto, OldWorkers, AtWork, Req, Call

\* What each method of the vault leaves of a row some accept is at work on.
LEMMA WorkRowKept ==
  ASSUME Base, NEW r \in Requests, NEW s \in Requests, WorkRow(requests[s])
  PROVE  /\ GetRequest(r) => WorkRow(requests'[s])
         /\ ClaimNotAcquired(r) => WorkRow(requests'[s])
         /\ ClaimAcquired(r) => r # s /\ WorkRow(requests'[s])
         /\ \A n \in {"canceled", "declined"} : \A e :
              SetRequestStatus(r, n, e) => WorkRow(requests'[s])
<1> DEFINE q == requests[s]
<1>1. q \in Row /\ requests \in [Requests -> Row]
  BY BaseTypes
<1>2. WorkRow(Closed(q, "expired"))
  BY <1>1 DEF WorkRow, Closed, Row
<1>3. GetRequest(r) => WorkRow(requests'[s])
  <2> SUFFICES ASSUME GetRequest(r) PROVE WorkRow(requests'[s])
    OBVIOUS
  <2>1. requests'[s] = q \/ requests'[s] = Closed(q, "expired")
    BY <1>1 DEF GetRequest
  <2> QED BY <1>2, <2>1
<1>4. ClaimNotAcquired(r) => WorkRow(requests'[s])
  <2> SUFFICES ASSUME ClaimNotAcquired(r) PROVE WorkRow(requests'[s])
    OBVIOUS
  <2>1. requests'[s] = q \/ requests'[s] = Closed(q, "expired")
    BY <1>1 DEF ClaimNotAcquired
  <2> QED BY <1>2, <2>1
<1>5. ClaimAcquired(r) => r # s /\ WorkRow(requests'[s])
  <2> SUFFICES ASSUME ClaimAcquired(r) PROVE r # s /\ WorkRow(requests'[s])
    OBVIOUS
  <2>1. r # s
    BY DEF ClaimAcquired, WorkRow, OwnsAccept, Effective, MayReclaim
  <2> QED BY <1>1, <2>1 DEF ClaimAcquired
<1>6. ASSUME NEW n \in {"canceled", "declined"}, NEW e, SetRequestStatus(r, n, e)
      PROVE  WorkRow(requests'[s])
  <2>1. r # s \/ requests' = requests
    BY <1>6 DEF SetRequestStatus, SetRefused, WorkRow, OwnsAccept, Effective,
                CanTransition
  <2> QED BY <1>1, <1>6, <2>1 DEF SetRequestStatus
<1> QED BY <1>3, <1>4, <1>5, <1>6

\* The row of an accept at work.
LEMMA WorkerRow ==
  ASSUME Base, NEW c \in Callers, AtWork(c)
  PROVE  Req(c) \in Requests /\ Stored(Req(c)) /\ ~ At(c, "idle")
BY AtWorkOn DEF AtWork, Accepting, At

\* Steps that touch no row.
LEMMA QuietAccept ==
  ASSUME Base, AcceptInv, ~ overran, OldWorkers, UNCHANGED requests
  PROVE  AcceptInv'
BY WorkersStay

LEMMA CreateAccept ==
  ASSUME Base, AcceptInv, ~ overran, NEW c \in Callers, Create(c) \/ CreateFails(c)
  PROVE  AcceptInv'
<1>1. ASSUME NEW r \in Requests, CreateLocked(c, r) PROVE AcceptInv'
  <2>1. OldWorkers /\ UNCHANGED requests
    BY <1>1, BaseTypes DEF CreateLocked, OldWorkers, AtWork, Accepting, Req
  <2> QED BY <2>1, QuietAccept
<1>2. CASE CreateStores(c) \/ CreateFails(c)
  <2>1. OldWorkers
    BY <1>2, OldReturn, OldGoto DEF CreateStores, CreateFails, Accepting
  <2>2. ~ Stored(Req(c))
    BY <1>2 DEF CreateStores, CreateFails, Base, Placed
  <2>3. \A d \in Callers : AtWork(d) => requests'[Req(d)] = requests[Req(d)]
    <3> SUFFICES ASSUME NEW d \in Callers, AtWork(d)
                 PROVE  requests'[Req(d)] = requests[Req(d)]
      OBVIOUS
    <3>1. Req(d) \in Requests /\ Req(d) # Req(c)
      BY <2>2, WorkerRow
    <3> QED BY <1>2, <3>1, BaseTypes DEF CreateStores, CreateFails, StoreRequest
  <2> QED BY <2>1, <2>3, WorkersStay
<1>3. CASE Unlock(c)
  BY <1>3, OldReturn, QuietAccept DEF Unlock
<1> QED BY <1>1, <1>2, <1>3 DEF Create

LEMMA ResolveAccept ==
  ASSUME Base, AcceptInv, ~ overran, NEW c \in Callers, NEW r \in Requests, NEW S,
         NEW p \in {"canceling", "declining", "claiming"}, Resolve(c, r, S, p)
  PROVE  AcceptInv'
<1>1. OldWorkers
  BY BaseTypes DEF Resolve, OldWorkers, AtWork, Accepting, Req
<1>2. \A d \in Callers : AtWork(d) /\ WorkRow(requests[Req(d)])
        => WorkRow(requests'[Req(d)])
  BY WorkerRow, WorkRowKept DEF Resolve
<1> QED BY <1>1, <1>2, WorkersStay

LEMMA CloseAccept ==
  ASSUME Base, AcceptInv, ~ overran, NEW c \in Callers, Cancel(c) \/ Decline(c)
  PROVE  AcceptInv'
<1>1. ASSUME NEW r \in Requests, CancelResolves(c, r) \/ DeclineResolves(c, r)
      PROVE  AcceptInv'
  BY <1>1, ResolveAccept DEF CancelResolves, DeclineResolves
<1>2. CASE CancelSets(c) \/ DeclineSets(c)
  <2>1. OldWorkers
    BY <1>2, OldReturn, OldGoto DEF CancelSets, DeclineSets, Accepting
  <2>2. ~ At(c, "idle") /\ Req(c) \in Requests
    BY <1>2, AtWorkOn DEF CancelSets, DeclineSets, At
  <2>3. \A d \in Callers : AtWork(d) /\ WorkRow(requests[Req(d)])
          => WorkRow(requests'[Req(d)])
    <3> SUFFICES ASSUME NEW d \in Callers, AtWork(d), WorkRow(requests[Req(d)])
                 PROVE  WorkRow(requests'[Req(d)])
      OBVIOUS
    <3>1. Req(d) \in Requests
      BY WorkerRow
    <3>2. CASE UNCHANGED requests
      BY <3>2
    <3>3. CASE ~ UNCHANGED requests
      <4>1. \E n \in {"canceled", "declined"} : SetRequestStatus(Req(c), n, caller[c].seen)
        BY <1>2, <3>3 DEF CancelSets, DeclineSets
      <4> QED BY <2>2, <3>1, <4>1, WorkRowKept
    <3> QED BY <3>2, <3>3
  <2> QED BY <2>1, <2>3, WorkersStay
<1>3. CASE DeclineCools(c)
  BY <1>3, OldReturn, QuietAccept DEF DeclineCools
<1> QED BY <1>1, <1>2, <1>3 DEF Cancel, Decline

LEMMA ClaimAccept ==
  ASSUME Base, AcceptInv, ~ overran, NEW c \in Callers, AcceptClaims(c)
  PROVE  AcceptInv'
<1>1. ~ At(c, "idle") /\ Req(c) \in Requests
  BY AtWorkOn DEF AcceptClaims, At
<1>2. CASE ClaimNotAcquired(Req(c)) /\ Return(c)
  <2>1. \A d \in Callers : AtWork(d) /\ WorkRow(requests[Req(d)])
          => WorkRow(requests'[Req(d)])
    BY <1>1, <1>2, WorkerRow, WorkRowKept
  <2> QED BY <1>2, <2>1, OldReturn, WorkersStay
<1>3. CASE ClaimAcquired(Req(c)) /\ Goto(c, "sealing")
  <2>1. \A d \in Callers : AtWork(d) =>
          Req(d) # Req(c) /\ WorkRow(requests'[Req(d)])
    BY <1>1, <1>3, WorkerRow, WorkRowKept DEF AcceptInv
  <2>2. /\ \A d \in Callers : Req(d)' = Req(d)
        /\ \A d \in Callers : AtWork(d)' => AtWork(d) \/ d = c
    BY <1>3, BaseTypes DEF Goto, Req, AtWork, Call
  <2>3. WorkRow(requests'[Req(c)])
    <3>1. requests'[Req(c)] = [requests[Req(c)] EXCEPT
            !.status = "accepting", !.op = TRUE, !.lease = ACCEPT_LEASE]
      BY <1>1, <1>3, BaseTypes DEF ClaimAcquired
    <3>2. requests[Req(c)] \in Row
      BY <1>1, BaseTypes
    <3> QED BY <3>1, <3>2, RequestAssumption DEF Row, WorkRow, OwnsAccept
  <2>4. ASSUME NEW d \in Callers, AtWork(d)'
        PROVE  /\ WorkRow(requests'[Req(d)'])
               /\ \A e \in Callers : AtWork(e)' /\ Req(e)' = Req(d)' => e = d
    BY <2>1, <2>2, <2>3, <2>4 DEF AcceptInv
  <2> QED BY <2>4 DEF AcceptInv, WorkRow, OwnsAccept
<1> QED BY <1>2, <1>3 DEF AcceptClaims

\* A worker that writes to its row gives the row up.
LEMMA LeaveAccept ==
  ASSUME Base, AcceptInv, ~ overran, NEW c \in Callers,
         AcceptReopens(c) \/ AcceptCompletes(c)
  PROVE  AcceptInv'
<1>1. AtWork(c) /\ Req(c) \in Requests
  BY WorkerRow DEF AcceptReopens, AcceptCompletes, At, AtWork, Accepting
<1>2. OldWorkers /\ ~ AtWork(c)'
  BY OldReturn, OldGoto DEF AcceptReopens, AcceptCompletes, Accepting
<1>3. \A r \in Requests : r # Req(c) => requests'[r] = requests[r]
  BY BaseTypes DEF AcceptReopens, AcceptCompletes, FailRequestAccept,
                   CompleteRequestAccept
<1>4. \A d \in Callers : AtWork(d) /\ AtWork(d)' => requests'[Req(d)] = requests[Req(d)]
  BY <1>1, <1>2, <1>3, WorkerRow DEF AcceptInv
<1> QED BY <1>2, <1>4, WorkersStay

LEMMA AcceptAccept ==
  ASSUME Base, AcceptInv, ~ overran, NEW c \in Callers,
         Accept(c) \/ AcceptSealFails(c) \/ Lose(c)
  PROVE  AcceptInv'
<1>1. ASSUME NEW r \in Requests, AcceptResolves(c, r) PROVE AcceptInv'
  BY <1>1, ResolveAccept DEF AcceptResolves
<1>2. CASE AcceptSeals(c) \/ AcceptRefused(c) \/ AcceptSealFails(c) \/ Lose(c) \/ AcceptCools(c)
  <2>1. UNCHANGED requests
    BY <1>2 DEF AcceptSeals, AcceptRefused, AcceptSealFails, Lose, AcceptCools
  <2>2. OldWorkers
    BY <1>2, OldReturn, OldGoto
       DEF AcceptSeals, AcceptRefused, AcceptSealFails, Lose, AcceptCools, At,
           AtWork, Accepting
  <2> QED BY <2>1, <2>2, QuietAccept
<1> QED BY <1>1, <1>2, ClaimAccept, LeaveAccept DEF Accept

LEMMA TimeAccept ==
  ASSUME Base, AcceptInv, Dismiss \/ Tick \/ Day, ~ overran'
  PROVE  AcceptInv'
<1>1. CASE Dismiss
  <2>1. ~ overran /\ OldWorkers /\ UNCHANGED requests
    BY <1>1 DEF Dismiss, OldWorkers, AtWork, Req
  <2> QED BY <2>1, QuietAccept
<1>2. CASE Day
  <2>1. ~ overran /\ OldWorkers
    BY <1>2, DayRows DEF Day, OldWorkers, AtWork, Req
  <2>2. \A r \in Requests : WorkRow(requests[r]) => WorkRow(requests'[r])
    BY <1>2, BaseTypes DEF Day, WorkRow, OwnsAccept, Row
  <2> QED BY <2>1, <2>2, WorkerRow, WorkersStay
<1>3. CASE Tick
  <2>1. /\ ~ overran /\ OldWorkers
        /\ \A d \in Callers : AtWork(d) => requests[Req(d)].lease # 1
    BY <1>3 DEF Tick, OldWorkers, AtWork, Req
  <2>2. ASSUME NEW r \in Requests, WorkRow(requests[r]), requests[r].lease # 1
        PROVE  WorkRow(requests'[r])
    <3>1. requests[r] \in Row
      BY BaseTypes
    <3>2. requests'[r] = [requests[r] EXCEPT !.lease = IF @ > 0 THEN @ - 1 ELSE 0]
      BY <1>3 DEF Tick
    <3>3. /\ requests'[r].status = requests[r].status /\ requests'[r].op = requests[r].op
          /\ requests'[r].lease = Less(requests[r].lease)
      BY <3>1, <3>2 DEF Row, Less
    <3>4. requests[r].lease \in Nat
      BY <3>1, RequestAssumption DEF Row
    <3> QED BY <2>2, <3>3, <3>4 DEF WorkRow, OwnsAccept, Less
  <2> QED BY <2>1, <2>2, WorkerRow, WorkersStay
<1> QED BY <1>1, <1>2, <1>3

LEMMA OverranStays == ASSUME Next, ~ overran' PROVE ~ overran
<1>1. ASSUME NEW c \in Callers, Create(c) \/ Cancel(c) \/ Decline(c) PROVE UNCHANGED overran
  BY <1>1 DEF Create, Cancel, Decline, CreateLocked, CreateStores, Unlock,
              CancelResolves, CancelSets, DeclineResolves, DeclineSets, DeclineCools,
              Resolve
<1>2. ASSUME NEW c \in Callers, Accept(c) \/ Fail(c) PROVE UNCHANGED overran
  BY <1>2 DEF Accept, Fail, AcceptResolves, Resolve, AcceptClaims, AcceptSeals,
              AcceptRefused, AcceptReopens, AcceptCompletes, AcceptCools, CreateFails,
              AcceptSealFails, Lose
<1>3. Dismiss \/ Tick \/ Day => ~ overran
  BY DEF Dismiss, Tick, Day
<1> QED BY <1>1, <1>2, <1>3 DEF Next, Working, Failing

LEMMA AcceptStep == ASSUME Base, AcceptInv, [Next]_vars PROVE AcceptInv'
<1>1. CASE UNCHANGED vars
  BY <1>1 DEF vars, AcceptInv, AtWork, Req, WorkRow, OwnsAccept
<1>2. CASE Next /\ overran'
  BY <1>2 DEF AcceptInv
<1>3. CASE Next /\ ~ overran'
  <2>1. ~ overran
    BY <1>3, OverranStays
  <2>2. ASSUME NEW c \in Callers, Create(c) \/ Cancel(c) \/ Decline(c) \/ Accept(c)
        PROVE  AcceptInv'
    BY <2>1, <2>2, CreateAccept, CloseAccept, AcceptAccept
  <2>3. ASSUME NEW c \in Callers, Fail(c) PROVE AcceptInv'
    BY <2>1, <2>3, CreateAccept, AcceptAccept DEF Fail
  <2>4. CASE Dismiss \/ Tick \/ Day
    BY <1>3, <2>4, TimeAccept
  <2> QED BY <1>3, <2>2, <2>3, <2>4 DEF Next, Working, Failing
<1> QED BY <1>1, <1>2, <1>3

\* The lease of an accept excludes every other accept of the request until it
\* has run out, for any number of callers, whatever calls are lost.
THEOREM LeaseTheorem == Spec => []AcceptIsExclusive
<1>1. AcceptInv => AcceptIsExclusive
  BY DEF AcceptInv, AcceptIsExclusive
<1>2. Base /\ AcceptInv /\ [Next]_vars => AcceptInv'
  BY AcceptStep
<1> QED BY <1>1, <1>2, BaseInvariant, AcceptInit, PTL DEF Spec

-----------------------------------------------------------------------------
(* What the candidate received. *)

\* An accept that has sent the intro stays where it is until it completes.
LEMMA CompletingStays ==
  ASSUME Base, Working, NEW c \in Callers, At(c, "completing")
  PROVE  (At(c, "completing")' /\ Req(c)' = Req(c)) \/ AcceptCompletes(c)
<1> DEFINE Stays == At(c, "completing")' /\ Req(c)' = Req(c)
<1>0. caller \in [Callers -> Call]
  BY BaseTypes
<1>1. ASSUME NEW d \in Callers, d # c, \A e \in Callers : e # d => caller'[e] = caller[e]
      PROVE  Stays
  BY <1>1 DEF At, Req
<1>2. ASSUME NEW d \in Callers, Create(d) \/ Cancel(d) \/ Decline(d) \/ Accept(d),
             ~ AcceptCompletes(c)
      PROVE  d # c
  BY <1>2 DEF Create, Cancel, Decline, Accept, CreateLocked, CreateStores, Unlock,
              CancelResolves, CancelSets, DeclineResolves, DeclineSets, DeclineCools,
              Resolve, AcceptResolves, AcceptClaims, AcceptSeals, AcceptRefused,
              AcceptReopens, AcceptCools, At
<1>3. ASSUME NEW d \in Callers, Create(d) \/ Cancel(d) \/ Decline(d)
      PROVE  \A e \in Callers : e # d => caller'[e] = caller[e]
  BY <1>0, <1>3 DEF Create, Cancel, Decline, CreateLocked, CreateStores, Unlock,
              CancelResolves, CancelSets, DeclineResolves, DeclineSets, DeclineCools,
              Resolve, Goto, Return
<1>4. ASSUME NEW d \in Callers, Accept(d)
      PROVE  \A e \in Callers : e # d => caller'[e] = caller[e]
  BY <1>0, <1>4 DEF Accept, AcceptResolves, Resolve, AcceptClaims, AcceptSeals,
              AcceptRefused, AcceptReopens, AcceptCompletes, AcceptCools, Goto, Return
<1>5. CASE Dismiss \/ Tick
  BY <1>5 DEF Dismiss, Tick, At, Req
<1>6. CASE Day
  BY <1>6, DayRows DEF At, Req
<1> QED BY <1>1, <1>2, <1>3, <1>4, <1>5, <1>6 DEF Working

\* Without a fault, only an accept that moves on to complete sends an intro.
LEMMA SealedBy ==
  ASSUME Base, Working
  PROVE  \/ UNCHANGED sealed
         \/ \E c \in Callers : /\ sealed' = sealed \cup {Req(c)}
                               /\ At(c, "completing")' /\ Req(c)' = Req(c)
<1>1. ASSUME NEW c \in Callers, Create(c) \/ Cancel(c) \/ Decline(c) PROVE UNCHANGED sealed
  BY <1>1 DEF Create, Cancel, Decline, CreateLocked, CreateStores, Unlock,
              CancelResolves, CancelSets, DeclineResolves, DeclineSets, DeclineCools,
              Resolve
<1>2. ASSUME NEW c \in Callers, AcceptSeals(c)
      PROVE  /\ sealed' = sealed \cup {Req(c)}
             /\ At(c, "completing")' /\ Req(c)' = Req(c)
  BY <1>2, BaseTypes DEF AcceptSeals, Goto, At, Req, Call
<1>3. ASSUME NEW c \in Callers, Accept(c), ~ AcceptSeals(c) PROVE UNCHANGED sealed
  BY <1>3 DEF Accept, AcceptResolves, Resolve, AcceptClaims, AcceptRefused,
              AcceptReopens, AcceptCompletes, AcceptCools
<1>4. Dismiss \/ Tick \/ Day => UNCHANGED sealed
  BY DEF Dismiss, Tick, Day
<1> QED BY <1>1, <1>2, <1>3, <1>4 DEF Working

LEMMA SealStep ==
  ASSUME Base, Base', AcceptInv, AcceptInv', SealInv, [Next]_vars
  PROVE  SealInv'
<1>1. CASE UNCHANGED vars
  BY <1>1 DEF vars, SealInv, At, Req
<1>2. CASE Next
  <2> SUFFICES ASSUME failures' = 0, ~ overran', NEW r \in sealed'
      PROVE  \/ requests'[r].status \in {"accepted", "expired"}
             \/ /\ requests'[r].status = "accepting"
                /\ \E c \in Callers : At(c, "completing")' /\ Req(c)' = r
    BY DEF SealInv, At, Req
  <2>1. Working /\ failures = 0
    BY <1>2, RequestAssumption DEF Next, Failing, Base, TypeOK
  <2>2. ~ overran
    BY <1>2, OverranStays
  <2>3. ASSUME NEW c \in Callers, At(c, "completing")', Req(c)' = r
        PROVE  \/ requests'[r].status = "expired"
               \/ requests'[r].status = "accepting"
    BY <2>3 DEF AcceptInv, AtWork, Accepting, At, Req, WorkRow, OwnsAccept
  <2>4. CASE r \notin sealed
    BY <2>1, <2>3, <2>4, SealedBy
  <2>5. CASE r \in sealed /\ requests[r].status \in {"accepted", "expired"}
    <3>1. r \in Requests
      BY <2>5, BaseTypes
    <3> QED BY <1>2, <2>5, <3>1, StepKept DEF ClosedStays, TerminalStatuses
  <2>6. CASE r \in sealed /\ requests[r].status \notin {"accepted", "expired"}
    <3>1. PICK c \in Callers : At(c, "completing") /\ Req(c) = r
      BY <2>1, <2>2, <2>6 DEF SealInv
    <3>2. CASE At(c, "completing")' /\ Req(c)' = Req(c)
      BY <2>3, <3>1, <3>2
    <3>3. CASE AcceptCompletes(c)
      <4>1. OwnsAccept(requests[r]) /\ r \in Requests
        BY <2>2, <2>6, <3>1, BaseTypes
           DEF AcceptInv, AtWork, Accepting, At, WorkRow
      <4>2. requests'[r] = Closed(requests[r], "accepted") /\ requests[r] \in Row
        BY <3>1, <3>3, <4>1, BaseTypes DEF AcceptCompletes, CompleteRequestAccept
      <4>3. requests'[r].status = "accepted"
        BY <4>2 DEF Closed, Row
      <4> QED BY <4>3
    <3> QED BY <2>1, <3>1, <3>2, <3>3, CompletingStays
  <2> QED BY <2>4, <2>5, <2>6
<1> QED BY <1>1, <1>2

\* The outcome of a request and the intro in the candidate's inbox agree
\* (OutcomeIsTrue): who reads "accepted" has the intro, and, without a fault and
\* within the lease, nobody holds the intro of a request that was declined or
\* canceled.
THEOREM OutcomeTheorem == Spec => []OutcomeIsTrue
<1>1. SealInv => MessageMatchesOutcome
  BY DEF SealInv, MessageMatchesOutcome
<1>2. Base /\ AcceptInv /\ SealInv /\ [Next]_vars => AcceptInv' /\ (Base' => SealInv')
  BY AcceptStep, SealStep
<1>3. AcceptedWasSealed /\ MessageMatchesOutcome => OutcomeIsTrue
  BY DEF OutcomeIsTrue
<1> QED BY <1>1, <1>2, <1>3, BaseInvariant, AcceptInit, AcceptedTheorem, PTL DEF Spec
-----------------------------------------------------------------------------
(* How long a lock lasts, and who releases it. *)

\* The lock keeps time with the request it was taken for, or with the create
\* that is about to store it.
LockInv ==
  pair.state = "pending" /\ pair.ttl > 0 =>
    /\ lockOf \in Requests /\ pair.ttl <= REQUEST_TTL
    /\ Live(lockOf) => requests[lockOf].ttl = pair.ttl
    /\ \A c \in Callers : At(c, "storing") /\ Req(c) = lockOf =>
         caller[c].ttl = pair.ttl

LEMMA LockInit == Init => LockInv
BY DEF Init, LockInv, NoPair

\* A step that leaves the lock alone, or ends it, and opens no request.
LEMMA CalmLock ==
  ASSUME Base, Calm, LockInv,
         pair'.state = "pending" /\ pair'.ttl > 0 => UNCHANGED <<pair, lockOf>>
  PROVE  LockInv'
<1> SUFFICES ASSUME pair.state = "pending", pair.ttl > 0, UNCHANGED <<pair, lockOf>>
             PROVE  LockInv'
  BY DEF LockInv
<1>1. /\ lockOf \in Requests /\ pair.ttl <= REQUEST_TTL
      /\ Live(lockOf) => requests[lockOf].ttl = pair.ttl
      /\ \A c \in Callers : At(c, "storing") /\ Req(c) = lockOf =>
           caller[c].ttl = pair.ttl
  BY DEF LockInv
<1>2. \A r \in Requests : r = lockOf /\ Live(r)' => requests'[r].ttl = pair.ttl
  BY <1>1 DEF Calm
<1>3. \A c \in Callers : At(c, "storing")' =>
        At(c, "storing") /\ Req(c)' = Req(c) /\ caller'[c].ttl = caller[c].ttl
  BY DEF Calm, At, Req
<1>4. Live(lockOf)' => requests'[lockOf'].ttl = pair'.ttl
  BY <1>1, <1>2 DEF Live, Stored
<1> QED BY <1>1, <1>3, <1>4 DEF LockInv

LEMMA MovesLock ==
  ASSUME Base, Calm, LockInv, RowMoves
  PROVE  LockInv'
<1>1. pair'.state = "pending" => UNCHANGED <<pair, lockOf>>
  BY DEF RowMoves, Unlock, ReleasePairPending, NoPair, Cooldowns
<1> QED BY <1>1, CalmLock

LEMMA NewLock ==
  ASSUME Base, NEW c \in Callers, NEW r \in Requests, CreateLocked(c, r)
  PROVE  LockInv'
<1>1. /\ pair' = [state |-> "pending", ttl |-> REQUEST_TTL] /\ lockOf' = r
      /\ UNCHANGED requests /\ ~ Stored(r) /\ \A d \in Callers : Req(d) # r
      /\ caller'[c].ttl = REQUEST_TTL
      /\ \A d \in Callers : d # c => caller'[d] = caller[d]
  BY BaseTypes DEF CreateLocked, AcquirePairPending
<1>2. ~ Live(r)'
  BY <1>1 DEF Live, Stored
<1>3. \A d \in Callers : Req(d)' = r => d = c
  BY <1>1 DEF Req
<1>4. Live(lockOf)' => FALSE
  BY <1>1, <1>2 DEF Live, Stored
<1> QED BY <1>1, <1>3, <1>4, RequestAssumption DEF LockInv

LEMMA DayLock == ASSUME Base, LockInv, Day PROVE LockInv'
<1>1. lockOf' = lockOf /\ pair.ttl \in Nat /\ pair'.ttl = Less(pair.ttl)
      /\ pair'.state = pair.state
  BY DayRows, OpenHasTime DEF Day
<1>2. \A n \in Nat : Less(n) \in Nat /\ (Less(n) > 0 => n > 0) /\ Less(n) <= n
  BY DEF Less
<1>3. SUFFICES ASSUME pair.state = "pending", pair.ttl > 0 PROVE LockInv'
  BY <1>1, <1>2 DEF LockInv
<1>4. /\ lockOf \in Requests /\ pair.ttl <= REQUEST_TTL
      /\ Live(lockOf) => requests[lockOf].ttl = pair.ttl
      /\ \A c \in Callers : At(c, "storing") /\ Req(c) = lockOf =>
           caller[c].ttl = pair.ttl
  BY <1>3 DEF LockInv
<1>5. /\ requests'[lockOf].status = requests[lockOf].status
      /\ requests'[lockOf].ttl = Less(requests[lockOf].ttl)
      /\ requests[lockOf].ttl \in Nat
  BY <1>4, DayRows, OpenHasTime
<1>6. Live(lockOf)' => Live(lockOf)
  BY <1>1, <1>2, <1>5 DEF Live, Stored, Effective
<1>7. \A c \in Callers : At(c, "storing")' => /\ At(c, "storing") /\ Req(c)' = Req(c)
                                              /\ caller'[c].ttl = Less(caller[c].ttl)
  BY DayRows DEF At, Req
<1>8. pair'.ttl <= REQUEST_TTL
  BY <1>1, <1>2, <1>4, RequestAssumption
<1> QED BY <1>1, <1>4, <1>5, <1>6, <1>7, <1>8 DEF LockInv

LEMMA LockStep == ASSUME Base, LockInv, [Next]_vars PROVE LockInv'
<1>1. CASE Next
  <2>1. (Calm \/ Day \/ Locks) /\ (RowMoves \/ Day \/ Locks)
    BY <1>1, StepKept, StepMoves
  <2> QED BY <2>1, MovesLock, DayLock, NewLock DEF Locks
<1>2. CASE UNCHANGED vars
  BY <1>2 DEF vars, LockInv, Live, Stored, Effective, At, Req
<1> QED BY <1>1, <1>2

\* The lock of a pair ends with the request it was taken for; one whose create
\* was lost before it stored the request ends within the life of a request.
THEOREM LockTheorem == Spec => []LockIsTimed
<1>1. Base /\ LockInv => LockIsTimed
  BY RequestAssumption DEF LockInv, LockIsTimed
<1>2. Base /\ LockInv /\ [Next]_vars => LockInv'
  BY LockStep
<1> QED BY <1>1, <1>2, BaseInvariant, LockInit, PTL DEF Spec

\* A pair is held for its request as long as the request lives and by a lock no
\* longer than that, for any number of requests, calls and faults.
THEOREM HeldTheorem == Spec => []PairIsHeld
<1>1. PairIsExclusive /\ LockIsTimed => PairIsHeld
  BY DEF PairIsHeld
<1> QED BY <1>1, ExclusiveTheorem, LockTheorem, PTL

\* Where the lock of a canceled request is still held, a call is about to
\* release it; and what was canceled twice is canceled.
CancelInv ==
  /\ \A r \in Requests : requests[r].status = "canceled" /\ LockHeldFor(r) =>
       \E c \in Callers : At(c, "unlocking") /\ Req(c) = r
  /\ \A r \in repeated : requests[r].status = "canceled"

LEMMA CancelInit == Init => CancelInv
BY DEF Init, CancelInv, NoRow, NoPair, LockHeldFor

\* A request is canceled only by a call that goes on to release the lock.
LEMMA WhoCancels ==
  ASSUME Base, Next, NEW r \in Requests, requests'[r].status = "canceled",
         requests[r].status # "canceled"
  PROVE  \E c \in Callers : At(c, "unlocking")' /\ Req(c)' = r
<1>1. requests \in [Requests -> Row] /\ caller \in [Callers -> Call]
  BY BaseTypes
<1>2. ASSUME NEW q \in Row
      PROVE  /\ \A s : Closed(q, s).status = s
             /\ Effective(q) # "canceled" \/ q.status = "canceled"
  BY <1>2 DEF Closed, Row, Effective
<1>3. ASSUME NEW c \in Callers, CancelSets(c)
      PROVE  At(c, "unlocking")' /\ Req(c)' = r
  <2>1. ~ At(c, "idle") /\ Req(c) \in Requests
    BY <1>3, AtWorkOn DEF CancelSets, At
  <2>2. requests' # requests
    BY <1>1
  <2>3. Goto(c, "unlocking") /\ r = Req(c)
    BY <1>1, <1>3, <2>1, <2>2 DEF CancelSets, SetRequestStatus
  <2> QED BY <1>1, <2>3 DEF Goto, At, Req
<1>4. ASSUME NEW s \in Requests, GetRequest(s) PROVE FALSE
  BY <1>1, <1>2, <1>4 DEF GetRequest
<1>5. ASSUME NEW c \in Callers, DeclineSets(c) PROVE FALSE
  <2>1. ~ At(c, "idle") /\ Req(c) \in Requests
    BY <1>5, AtWorkOn DEF DeclineSets, At
  <2> QED BY <1>1, <1>2, <1>5, <2>1 DEF DeclineSets, SetRequestStatus
<1>6. ASSUME NEW c \in Callers, CreateStores(c) \/ CreateFails(c) PROVE FALSE
  <2>1. ~ At(c, "idle") /\ Req(c) \in Requests
    BY <1>6, AtWorkOn DEF CreateStores, CreateFails, At
  <2> QED BY <1>1, <1>6, <2>1 DEF CreateStores, CreateFails, StoreRequest
<1>7. ASSUME NEW c \in Callers, AcceptClaims(c) PROVE FALSE
  <2>1. ~ At(c, "idle") /\ Req(c) \in Requests
    BY <1>7, AtWorkOn DEF AcceptClaims, At
  <2>2. CASE ClaimAcquired(Req(c))
    BY <1>1, <2>1, <2>2 DEF ClaimAcquired, Row
  <2>3. CASE ClaimNotAcquired(Req(c))
    BY <1>1, <1>2, <2>1, <2>3 DEF ClaimNotAcquired
  <2> QED BY <1>7, <2>2, <2>3 DEF AcceptClaims
<1>8. ASSUME NEW c \in Callers, AcceptReopens(c) \/ AcceptCompletes(c) PROVE FALSE
  <2>1. ~ At(c, "idle") /\ Req(c) \in Requests
    BY <1>8, AtWorkOn DEF AcceptReopens, AcceptCompletes, At
  <2> DEFINE q == requests[Req(c)]
  <2>2. q \in Row /\ requests[r] \in Row
    BY <1>1, <2>1
  <2>3. CASE FailRequestAccept(Req(c))
    <3>1. [q EXCEPT !.status = "pending", !.op = FALSE, !.lease = 0].status = "pending"
      BY <2>2 DEF Row
    <3> QED BY <1>1, <1>2, <2>1, <2>2, <2>3, <3>1 DEF FailRequestAccept
  <2>4. CASE CompleteRequestAccept(Req(c))
    BY <1>1, <1>2, <2>1, <2>2, <2>4 DEF CompleteRequestAccept
  <2> QED BY <1>8, <2>3, <2>4 DEF AcceptReopens, AcceptCompletes
<1>9. CASE Tick \/ Day
  <2>1. requests'[r].status = requests[r].status
    <3>1. CASE Tick
      BY <1>1, <3>1 DEF Tick, Row
    <3>2. CASE Day
      BY <3>2, DayRows
    <3> QED BY <1>9, <3>1, <3>2
  <2> QED BY <2>1
<1>10. ASSUME NEW c \in Callers, Create(c) PROVE FALSE
  BY <1>6, <1>10 DEF Create, CreateLocked, Unlock
<1>11. ASSUME NEW c \in Callers, Cancel(c)
       PROVE  At(c, "unlocking")' /\ Req(c)' = r
  BY <1>3, <1>4, <1>11 DEF Cancel, CancelResolves, Resolve
<1>12. ASSUME NEW c \in Callers, Decline(c) PROVE FALSE
  BY <1>4, <1>5, <1>12 DEF Decline, DeclineResolves, Resolve, DeclineCools
<1>13. ASSUME NEW c \in Callers, Accept(c) PROVE FALSE
  BY <1>4, <1>7, <1>8, <1>13 DEF Accept, AcceptResolves, Resolve, AcceptSeals,
     AcceptRefused, AcceptCools
<1>14. ASSUME NEW c \in Callers, Fail(c) PROVE FALSE
  BY <1>6, <1>14 DEF Fail, AcceptSealFails, Lose
<1>15. CASE Dismiss
  BY <1>15 DEF Dismiss
<1> QED BY <1>9, <1>10, <1>11, <1>12, <1>13, <1>14, <1>15 DEF Next, Working, Failing

\* A call that is about to release the lock does so, or is lost.
LEMMA UnlockingStays ==
  ASSUME Base, Next, NEW c \in Callers, At(c, "unlocking")
  PROVE  \/ At(c, "unlocking")' /\ Req(c)' = Req(c)
         \/ Unlock(c)
         \/ CutOffBeforeRelease
<1>1. caller \in [Callers -> Call]
  BY BaseTypes
<1>2. ASSUME NEW d \in Callers, d # c, NEW k, caller' = [caller EXCEPT ![d] = k]
      PROVE  At(c, "unlocking")' /\ Req(c)' = Req(c)
  BY <1>1, <1>2 DEF At, Req
<1>3. CASE UNCHANGED caller
  BY <1>3 DEF At, Req
<1>4. ASSUME NEW d \in Callers, d # c,
             Create(d) \/ Cancel(d) \/ Decline(d) \/ Accept(d) \/ Fail(d)
      PROVE  UNCHANGED caller \/ \E k : caller' = [caller EXCEPT ![d] = k]
  <2>1. CASE Create(d) \/ Cancel(d)
    BY <2>1 DEF Create, Cancel, CreateLocked, CreateStores, Unlock, CancelResolves,
                CancelSets, Resolve, Goto, Return
  <2>2. CASE Decline(d) \/ Fail(d)
    BY <2>2 DEF Decline, Fail, DeclineResolves, DeclineSets, DeclineCools, Resolve,
                CreateFails, AcceptSealFails, Lose, Goto, Return
  <2>3. CASE Accept(d)
    BY <2>3 DEF Accept, AcceptResolves, AcceptClaims, AcceptSeals, AcceptRefused,
                AcceptReopens, AcceptCompletes, AcceptCools, Resolve, Goto, Return
  <2> QED BY <1>4, <2>1, <2>2, <2>3
<1>5. CASE Create(c) \/ Cancel(c) \/ Decline(c) \/ Accept(c) \/ Fail(c)
  <2>1. CASE Create(c) \/ Cancel(c)
    BY <2>1 DEF Create, Cancel, CreateLocked, CreateStores, CancelResolves,
                CancelSets, Resolve, At
  <2>2. CASE Decline(c) \/ Accept(c)
    BY <2>2 DEF Decline, DeclineResolves, DeclineSets, DeclineCools, Resolve, At,
                Accept, AcceptResolves, AcceptClaims, AcceptSeals, AcceptRefused,
                AcceptReopens, AcceptCompletes, AcceptCools
  <2>3. CASE Fail(c)
    BY <2>3 DEF Fail, CreateFails, AcceptSealFails, CutOffBeforeRelease, At
  <2> QED BY <1>5, <2>1, <2>2, <2>3
<1>6. CASE Dismiss \/ Tick
  BY <1>3, <1>6 DEF Dismiss, Tick
<1>7. CASE Day
  BY <1>7, DayRows DEF At, Req
<1> QED BY <1>2, <1>3, <1>4, <1>5, <1>6, <1>7 DEF Next, Working, Failing

\* Nobody takes a lock for a request that is stored.
LEMMA LockHeldBefore ==
  ASSUME Base, Next, NEW r \in Requests, LockHeldFor(r)', requests[r].status # "none"
  PROVE  LockHeldFor(r) /\ \A c \in Callers : ~ Unlock(c)
<1>1. ASSUME NEW c \in Callers, Unlock(c) PROVE FALSE
  BY <1>1, OpenHasTime DEF Unlock, ReleasePairPending, Releases, LockHeldFor, NoPair
<1>2. ~ Locks
  BY RequestAssumption DEF Locks, CreateLocked, AcquirePairPending, LockHeldFor, Stored
<1>3. CASE RowMoves
  BY <1>1, <1>3 DEF RowMoves, LockHeldFor, Cooldowns
<1>4. CASE Day
  <2>1. pair.ttl \in Nat /\ pair'.ttl = Less(pair.ttl) /\ pair'.state = pair.state
        /\ lockOf' = lockOf
    BY <1>4, DayRows, OpenHasTime DEF Day
  <2> QED BY <1>1, <2>1 DEF LockHeldFor, Less
<1> QED BY <1>1, <1>2, <1>3, <1>4, StepMoves

LEMMA RepeatedGrows ==
  ASSUME Base, Next, NEW r \in repeated'
  PROVE  r \in repeated \/ (r \in Requests /\ requests[r].status = "canceled")
BY DEF Next, Working, Failing, Create, Cancel, Decline, Accept, Fail, CreateLocked,
       CreateStores, Unlock, CancelResolves, CancelSets, DeclineResolves, DeclineSets,
       DeclineCools, AcceptResolves, AcceptClaims, AcceptSeals, AcceptRefused,
       AcceptReopens, AcceptCompletes, AcceptCools, CreateFails, AcceptSealFails,
       Lose, Dismiss, Tick, Day

LEMMA CancelStep ==
  ASSUME Base, CancelInv, Next, ~ CutOffBeforeRelease
  PROVE  CancelInv'
<1>1. ASSUME NEW r \in Requests, requests'[r].status = "canceled", LockHeldFor(r)'
      PROVE  \E c \in Callers : At(c, "unlocking")' /\ Req(c)' = r
  <2>1. CASE requests[r].status # "canceled"
    BY <1>1, <2>1, WhoCancels
  <2>2. CASE requests[r].status = "canceled"
    <3>1. LockHeldFor(r) /\ \A c \in Callers : ~ Unlock(c)
      BY <1>1, <2>2, LockHeldBefore
    <3>2. PICK c \in Callers : At(c, "unlocking") /\ Req(c) = r
      BY <2>2, <3>1 DEF CancelInv
    <3> QED BY <3>1, <3>2, UnlockingStays
  <2> QED BY <2>1, <2>2
<1>2. ASSUME NEW r \in repeated' PROVE requests'[r].status = "canceled"
  <2>1. r \in Requests /\ requests[r].status = "canceled"
    BY <1>2, RepeatedGrows DEF CancelInv, Base, TypeOK
  <2> QED BY <2>1, StepKept DEF ClosedStays, TerminalStatuses
<1> QED BY <1>1, <1>2 DEF CancelInv

\* What the finding repeated_cancel rests on is all there is: unless a call is
\* lost just before it releases the lock, a canceled request that nobody is at
\* work on holds no lock, canceled once or again.
THEOREM ReleaseTheorem ==
  Spec /\ [][~ CutOffBeforeRelease]_vars => []RepeatedCancelReleases
<1>1. Base /\ CancelInv => RepeatedCancelReleases
  BY DEF CancelInv, RepeatedCancelReleases, Base, TypeOK
<1>2. ASSUME Base, CancelInv, [Next]_vars, [~ CutOffBeforeRelease]_vars
      PROVE  CancelInv'
  <2>1. CASE UNCHANGED vars
    <3>1. UNCHANGED <<requests, pair, lockOf, caller, repeated>>
      BY <2>1 DEF vars
    <3> QED BY <1>2, <3>1 DEF CancelInv, LockHeldFor, At, Req
  <2> QED BY <1>2, <2>1, CancelStep
<1> QED BY <1>1, <1>2, BaseInvariant, CancelInit, PTL DEF Spec

-----------------------------------------------------------------------------
(* The suggestions of a person. *)

PairRow == [state : {"none", "pending", "cooldown"}, ttl : 0..PAIR_DISMISS_COOLDOWN]
Ticket == [status : {"none"} \cup UsableStatuses \cup SettledStatuses,
           candidate : SUBSET Candidates, ttl : 0..SUGGESTION_TTL]
Invocation ==
  [pc : SearchPC \cup {"idle", "recording", "showing", "dismissing", "cooling",
        "viewing", "opening", "prompting", "locking", "storing", "unlocking",
        "converting", "marking", "clearing"},
   people : SUBSET Candidates, refs : SUBSET Refs,
   seen : {"none"} \cup UsableStatuses]
Witness == [listed : SUBSET Candidates, free : SUBSET Candidates]

\* What the type invariant says of everything but the exposure tokens.
Typed ==
  /\ listed \subseteq Candidates
  /\ pairState \in [Candidates -> PairRow]
  /\ tickets \in [Refs -> Ticket]
  /\ intro \in Refs \cup {NoRef} /\ offered \subseteq Refs
  /\ handler \in [Handlers -> Invocation]
  /\ barred \in [Candidates -> 0..PAIR_DISMISS_COOLDOWN]
  /\ witnessed \in [Handlers -> Witness]

\* Only a search is without a suggestion.
Carries ==
  \A h \in Handlers : handler[h].pc \notin {"idle"} \cup SearchPC => handler[h].refs # {}

\* A dismissal lasts as long as its cooldown.
Barred ==
  \A c \in Candidates : barred[c] > 0 =>
    pairState[c].state = "cooldown" /\ barred[c] <= pairState[c].ttl

\* Whom a search goes on with, it found listed, and then free.
Found ==
  \A h \in Handlers :
    /\ HandlerAt(h, "pairing") => handler[h].people \subseteq witnessed[h].listed
    /\ handler[h].pc \in {"ranking", "issuing"} =>
         handler[h].people \subseteq witnessed[h].listed \cap witnessed[h].free

\* The suggestions issued are the first ones.
Drawn == \E n \in 0..MaxRefs : {s \in Refs : tickets[s].status # "none"} = 1..n

SuggestionsInv == Typed /\ Carries /\ Barred /\ Found /\ Drawn

-----------------------------------------------------------------------------
(* What a step does to the handlers, to the pairs and to the suggestions. *)

HandlersKept ==
  /\ handler' \in [Handlers -> Invocation] /\ witnessed' \in [Handlers -> Witness]
  /\ Carries' /\ Found'

\* What is so now is a witness of every search under way.
LEMMA Witnesses ==
  ASSUME SuggestionsInv, WitnessSearch
  PROVE  /\ witnessed' \in [Handlers -> Witness]
         /\ \A h \in Handlers : handler'[h].pc \in SearchPC =>
              /\ witnessed[h].listed \cup listed \subseteq witnessed'[h].listed
              /\ witnessed[h].free \cup {c \in Candidates : Free(c)} \subseteq witnessed'[h].free
<1>1. witnessed \in [Handlers -> Witness] /\ listed \subseteq Candidates
  BY DEF SuggestionsInv, Typed
<1>2. ASSUME NEW h \in Handlers
      PROVE  /\ witnessed'[h] = IF handler'[h].pc \notin SearchPC
                                THEN [listed |-> {}, free |-> {}]
                                ELSE [listed |-> witnessed[h].listed \cup listed,
                                      free |-> witnessed[h].free \cup {c \in Candidates : Free(c)}]
             /\ witnessed'[h] \in Witness
  <2>1. witnessed'[h] = IF handler'[h].pc \notin SearchPC
                        THEN [listed |-> {}, free |-> {}]
                        ELSE [listed |-> witnessed[h].listed \cup listed,
                              free |-> witnessed[h].free \cup {c \in Candidates : Free(c)}]
    BY DEF WitnessSearch
  <2>2. witnessed[h].listed \subseteq Candidates /\ witnessed[h].free \subseteq Candidates
    BY <1>1 DEF Witness
  <2> QED BY <1>1, <2>1, <2>2 DEF Witness
<1>3. witnessed' = [h \in Handlers |-> witnessed'[h]]
  BY DEF WitnessSearch
<1> QED BY <1>2, <1>3

\* No handler takes a step.
LEMMA HandlersStay ==
  ASSUME SuggestionsInv, WitnessSearch, handler' = handler
  PROVE  HandlersKept
<1> USE DEF SuggestionsInv
<1>1. handler' \in [Handlers -> Invocation] /\ Carries'
  BY DEF Typed, Carries
<1>2. Found'
  BY Witnesses DEF Found, HandlerAt, SearchPC
<1> QED BY <1>1, <1>2, Witnesses DEF HandlersKept

\* One does, and goes on only with people found so far or found now.
LEMMA HandlerGoes ==
  ASSUME SuggestionsInv, WitnessSearch, NEW h \in Handlers, NEW x \in Invocation,
         handler' = [handler EXCEPT ![h] = x],
         x.pc \notin {"idle"} \cup SearchPC => x.refs # {},
         x.pc \in {"pairing", "ranking", "issuing"} =>
           x.people \subseteq witnessed[h].listed \cup listed,
         x.pc \in {"ranking", "issuing"} =>
           x.people \subseteq witnessed[h].free \cup {c \in Candidates : Free(c)}
  PROVE  HandlersKept
<1> USE DEF SuggestionsInv
<1>1. handler' \in [Handlers -> Invocation] /\ handler'[h] = x
      /\ \A g \in Handlers : g # h => handler'[g] = handler[g]
  BY DEF Typed
<1>2. Carries'
  BY <1>1 DEF Carries
<1>3. Found'
  BY <1>1, Witnesses DEF Found, HandlerAt, SearchPC
<1> QED BY <1>1, <1>2, <1>3, Witnesses DEF HandlersKept

LEMMA HandlerEnds ==
  ASSUME SuggestionsInv, WitnessSearch, NEW h \in Handlers, Finish(h)
  PROVE  HandlersKept
<1>1. Resting \in Invocation /\ Resting.pc = "idle"
  BY DEF Resting, Invocation
<1> QED BY <1>1, HandlerGoes DEF Finish

\* A handler that carries a suggestion takes its next step.
LEMMA HandlerSteps ==
  ASSUME SuggestionsInv, WitnessSearch, NEW h \in Handlers,
         handler[h].pc \notin {"idle"} \cup SearchPC,
         NEW pc \in {"showing", "cooling", "prompting", "storing", "unlocking",
                     "converting", "marking", "clearing"},
         Step(h, pc)
  PROVE  HandlersKept
<1> DEFINE x == [handler[h] EXCEPT !.pc = pc]
<1>1. handler[h] \in Invocation /\ handler[h].refs # {}
  BY DEF SuggestionsInv, Typed, Carries
<1>2. x \in Invocation /\ x.pc = pc /\ x.refs = handler[h].refs
  BY <1>1 DEF Invocation
<1>3. handler' = [handler EXCEPT ![h] = x]
  BY DEF Step
<1> HIDE DEF x
<1> QED BY <1>1, <1>2, <1>3, HandlerGoes DEF SearchPC

\* A search goes on with fewer people, or ends.
LEMMA SearchNarrows ==
  ASSUME SuggestionsInv, WitnessSearch, NEW h \in Handlers,
         NEW pc \in {"pairing", "ranking", "issuing"}, NEW people \in SUBSET Candidates,
         Narrow(h, pc, people) \/ StepWith(h, pc, people),
         people \subseteq witnessed[h].listed \cup listed,
         pc # "pairing" => people \subseteq witnessed[h].free \cup {c \in Candidates : Free(c)}
  PROVE  HandlersKept
<1> DEFINE x == [handler[h] EXCEPT !.pc = pc, !.people = people]
<1>1. handler[h] \in Invocation
  BY DEF SuggestionsInv, Typed
<1>2. x \in Invocation /\ x.pc = pc /\ x.people = people
  BY <1>1 DEF Invocation, SearchPC
<1>3. Finish(h) \/ handler' = [handler EXCEPT ![h] = x]
  BY DEF Narrow, StepWith
<1> HIDE DEF x
<1> QED BY <1>2, <1>3, HandlerGoes, HandlerEnds DEF SearchPC

-----------------------------------------------------------------------------
PairsKept ==
  /\ pairState' \in [Candidates -> PairRow] /\ barred' \in [Candidates -> 0..PAIR_DISMISS_COOLDOWN]
  /\ Barred'
  /\ \A c \in Candidates : barred[c] > 0 => pairState'[c].state = "cooldown"

LEMMA Lengths ==
  /\ PAIR_DISMISS_COOLDOWN \in Nat
  /\ UnknownPair \in PairRow /\ UnknownPair.state = "none"
  /\ [state |-> "pending", ttl |-> PAIR_LOCK_TTL] \in PairRow
  /\ [state |-> "cooldown", ttl |-> PAIR_DISMISS_COOLDOWN] \in PairRow
BY SuggestionAssumption DEF PairRow, UnknownPair

LEMMA PairsStay ==
  ASSUME SuggestionsInv, pairState' = pairState, barred' = barred
  PROVE  PairsKept
BY DEF SuggestionsInv, Typed, Barred, PairsKept

LEMMA ReleaseKeeps ==
  ASSUME SuggestionsInv, NEW c, ReleasePair(c), barred' = barred
  PROVE  PairsKept
<1>1. pairState' \in [Candidates -> PairRow]
      /\ \A d \in Candidates : pairState'[d] = pairState[d] \/ pairState[d].state = "pending"
  BY Lengths DEF ReleasePair, SuggestionsInv, Typed
<1> QED BY <1>1 DEF SuggestionsInv, Typed, Barred, PairsKept

\* A pair is locked only when nothing blocks it.
LEMMA LockKeeps ==
  ASSUME SuggestionsInv, NEW c, ~ PairBlocks(pairState[c]), barred' = barred,
         SetPair(c, "pending", PAIR_LOCK_TTL)
  PROVE  PairsKept
<1>1. pairState' \in [Candidates -> PairRow]
      /\ \A d \in Candidates : pairState'[d] = pairState[d] \/ d = c
  BY Lengths DEF SetPair, SuggestionsInv, Typed
<1>2. c \in Candidates => ~ (barred[c] > 0)
  BY SuggestionAssumption DEF SuggestionsInv, Typed, Barred, PairBlocks, PairRow
<1> QED BY <1>1, <1>2 DEF SuggestionsInv, Typed, Barred, PairsKept

LEMMA CooldownKeeps ==
  ASSUME SuggestionsInv, NEW c, SetPair(c, "cooldown", PAIR_DISMISS_COOLDOWN),
         barred' = barred \/ barred' = [barred EXCEPT ![c] = PAIR_DISMISS_COOLDOWN]
  PROVE  PairsKept
<1> DEFINE row == [state |-> "cooldown", ttl |-> PAIR_DISMISS_COOLDOWN]
<1>1. /\ row \in PairRow /\ row.state = "cooldown" /\ row.ttl = PAIR_DISMISS_COOLDOWN
      /\ pairState \in [Candidates -> PairRow] /\ pairState' = [pairState EXCEPT ![c] = row]
  BY Lengths DEF SetPair, SuggestionsInv, Typed
<1> HIDE DEF row
<1>2. /\ pairState' \in [Candidates -> PairRow]
      /\ \A d \in Candidates : pairState'[d] = IF d = c THEN row ELSE pairState[d]
  BY <1>1
<1>3. /\ barred' \in [Candidates -> 0..PAIR_DISMISS_COOLDOWN]
      /\ \A d \in Candidates : d # c => barred'[d] = barred[d]
  BY Lengths DEF SuggestionsInv, Typed
<1>4. \A d \in Candidates : barred'[d] <= PAIR_DISMISS_COOLDOWN
  BY <1>3, Lengths
<1> QED BY <1>1, <1>2, <1>3, <1>4 DEF SuggestionsInv, Barred, PairsKept

-----------------------------------------------------------------------------
\* Suggestions are not issued, and what is settled stays.
Quiet ==
  /\ tickets' \in [Refs -> Ticket]
  /\ \A s \in Refs :
       /\ tickets'[s].status = "none" <=> tickets[s].status = "none"
       /\ tickets'[s].candidate = tickets[s].candidate
       /\ Current(tickets[s]) \in SettledStatuses => Current(tickets'[s]) = Current(tickets[s])

LEMMA TicketsStay ==
  ASSUME SuggestionsInv, tickets' = tickets
  PROVE  Quiet
BY DEF SuggestionsInv, Typed, Quiet

LEMMA GetQuiet ==
  ASSUME SuggestionsInv, NEW s, GetSuggestion(s)
  PROVE  Quiet
<1>1. tickets \in [Refs -> Ticket]
  BY DEF SuggestionsInv, Typed
<1>2. ASSUME NEW r \in Refs
      PROVE  \/ tickets'[r] = tickets[r]
             \/ tickets'[r] = [tickets[r] EXCEPT !.status = Current(tickets[r])]
  BY <1>1, <1>2 DEF GetSuggestion
<1>3. ASSUME NEW t \in Ticket, NEW u, u = [t EXCEPT !.status = Current(t)]
      PROVE  /\ u \in Ticket /\ (u.status = "none" <=> t.status = "none")
             /\ u.candidate = t.candidate /\ Current(u) = Current(t)
  BY <1>3 DEF Ticket, Current, UsableStatuses, SettledStatuses
<1>4. \A r \in Refs : /\ tickets'[r] \in Ticket
                      /\ tickets'[r].status = "none" <=> tickets[r].status = "none"
                      /\ tickets'[r].candidate = tickets[r].candidate
                      /\ Current(tickets'[r]) = Current(tickets[r])
  BY <1>1, <1>2, <1>3
<1>5. tickets' = [r \in Refs |-> tickets'[r]]
  BY <1>1 DEF GetSuggestion
<1> QED BY <1>4, <1>5 DEF Quiet

LEMMA SetQuiet ==
  ASSUME SuggestionsInv, NEW s, NEW expected,
         NEW next \in {"viewed", "dismissed", "converted_to_request"},
         SetSuggestionStatus(s, next, expected)
  PROVE  Quiet
<1>1. tickets \in [Refs -> Ticket]
  BY DEF SuggestionsInv, Typed
<1>2. ASSUME NEW r \in Refs
      PROVE  \/ tickets'[r] = tickets[r]
             \/ /\ tickets'[r] = [tickets[r] EXCEPT !.status = next]
                /\ Current(tickets[r]) = next \/ MayBecome(Current(tickets[r]), next)
  BY <1>1, <1>2 DEF SetSuggestionStatus, Accepts
<1>3. ASSUME NEW t \in Ticket, Current(t) = next \/ MayBecome(Current(t), next),
             NEW u, u = [t EXCEPT !.status = next]
      PROVE  /\ u \in Ticket /\ u.status # "none" /\ t.status # "none"
             /\ u.candidate = t.candidate
             /\ Current(t) \in SettledStatuses => Current(u) = Current(t)
  BY <1>3 DEF Ticket, MayBecome, Current, UsableStatuses, SettledStatuses
<1>4. \A r \in Refs : /\ tickets'[r] \in Ticket
                      /\ tickets'[r].status = "none" <=> tickets[r].status = "none"
                      /\ tickets'[r].candidate = tickets[r].candidate
                      /\ Current(tickets[r]) \in SettledStatuses
                           => Current(tickets'[r]) = Current(tickets[r])
  BY <1>1, <1>2, <1>3
<1>5. tickets' = [r \in Refs |-> tickets'[r]]
  BY <1>1 DEF SetSuggestionStatus
<1> QED BY <1>4, <1>5 DEF Quiet

\* A search issues a suggestion of one of its people, under a new name.
Issues ==
  \E h \in Handlers, c \in Candidates, s \in Refs :
    /\ HandlerAt(h, "issuing") /\ c \in handler[h].people
    /\ tickets[s].status = "none"
    /\ tickets' = [tickets EXCEPT ![s] =
         [status |-> "created", candidate |-> {c}, ttl |-> SUGGESTION_TTL]]

Kept == SuggestionsInv' /\ PairsKept /\ (Quiet \/ Issues)

\* The parts make the whole.
LEMMA Together ==
  ASSUME SuggestionsInv, HandlersKept, PairsKept, Quiet,
         listed' \subseteq Candidates, intro' \in Refs \cup {NoRef}, offered' \subseteq Refs
  PROVE  Kept
<1>1. {s \in Refs : tickets'[s].status # "none"} = {s \in Refs : tickets[s].status # "none"}
  BY DEF Quiet
<1>2. Drawn'
  BY <1>1 DEF SuggestionsInv, Drawn
<1> QED BY <1>2 DEF Kept, HandlersKept, PairsKept, Quiet, SuggestionsInv, Typed

\* Most steps leave the rest alone.
LEMMA Quietly ==
  ASSUME SuggestionsInv, HandlersKept, UNCHANGED <<listed, intro, offered>>,
         Quiet, PairsKept
  PROVE  Kept
BY Together DEF SuggestionsInv, Typed

LEMMA TheRefType ==
  ASSUME SuggestionsInv, NEW h \in Handlers, handler[h].pc \notin {"idle"} \cup SearchPC
  PROVE  TheRef(h) \in Refs /\ TheRef(h) \in handler[h].refs
BY DEF SuggestionsInv, Typed, Carries, Invocation, TheRef

-----------------------------------------------------------------------------
(* One lemma for each kind of step. *)

LEMMA IssueStep ==
  ASSUME SuggestionsInv, WitnessSearch, NEW h \in Handlers, Issue(h), barred' = barred
  PROVE  Kept
<1>1. PICK c \in handler[h].people :
        LET s == NextRef IN
        /\ s \in Refs
        /\ tickets' = [tickets EXCEPT ![s] =
             [status |-> "created", candidate |-> {c}, ttl |-> SUGGESTION_TTL]]
        /\ handler' = [handler EXCEPT
             ![h].people = @ \ {c}, ![h].refs = @ \cup {s},
             ![h].pc = IF handler[h].people = {c} THEN "recording" ELSE "issuing"]
  BY DEF Issue
<1> DEFINE s == NextRef
           t == [status |-> "created", candidate |-> {c}, ttl |-> SUGGESTION_TTL]
           x == [handler[h] EXCEPT !.people = @ \ {c}, !.refs = @ \cup {s},
                   !.pc = IF handler[h].people = {c} THEN "recording" ELSE "issuing"]
           used == {r \in Refs : tickets[r].status # "none"}
<1>2. /\ handler[h] \in Invocation /\ HandlerAt(h, "issuing") /\ c \in Candidates
      /\ tickets \in [Refs -> Ticket]
      /\ UNCHANGED <<listed, pairState, exposure, budget, intro, offered>>
  BY DEF SuggestionsInv, Typed, Issue, Invocation
<1>3. PICK n \in 0..MaxRefs : used = 1..n
  BY DEF SuggestionsInv, Drawn
<1>4. s = n + 1 /\ n \in Nat
  <2>1. n \in Nat /\ Cardinality(1..n) = n
    BY <1>3, FS_Interval, SuggestionAssumption
  <2>2. NextRef = 1 + Cardinality(used)
    BY DEF NextRef
  <2> HIDE DEF used
  <2> QED BY <1>3, <2>1, <2>2
<1>5. tickets[s].status = "none" /\ s \in Refs
  <2>1. s \notin used /\ s \in Refs
    BY <1>1, <1>3, <1>4
  <2> QED BY <2>1
<1>6. t \in Ticket
  BY <1>2, SuggestionAssumption DEF Ticket, UsableStatuses
<1>7. tickets' \in [Refs -> Ticket] /\ tickets' = [tickets EXCEPT ![s] = t]
  BY <1>1, <1>2, <1>6
<1>8. Drawn'
  <2>1. {r \in Refs : tickets'[r].status # "none"} = used \cup {s}
    BY <1>2, <1>5, <1>7
  <2>2. used \cup {s} = 1..(n + 1)
    BY <1>3, <1>4
  <2>3. n + 1 \in 0..MaxRefs
    BY <1>4, <1>5, SuggestionAssumption DEF Refs
  <2> QED BY <2>1, <2>2, <2>3 DEF Drawn
<1>9. HandlersKept
  <2>1. /\ x \in Invocation /\ x.pc \in {"recording", "issuing"} /\ x.refs # {}
        /\ x.people \subseteq handler[h].people
    BY <1>2, <1>5 DEF Invocation, SearchPC
  <2>2. handler' = [handler EXCEPT ![h] = x]
    BY <1>1
  <2>3. handler[h].people \subseteq witnessed[h].listed \cap witnessed[h].free
    BY <1>2 DEF SuggestionsInv, Found, HandlerAt
  <2> HIDE DEF x
  <2> QED BY <2>1, <2>2, <2>3, HandlerGoes DEF SearchPC
<1>10. Issues
  BY <1>1, <1>2, <1>5 DEF Issues
<1>11. PairsKept
  BY <1>2, PairsStay
<1> QED BY <1>2, <1>7, <1>8, <1>9, <1>10, <1>11
        DEF Kept, HandlersKept, PairsKept, SuggestionsInv, Typed

LEMMA SearchStep ==
  ASSUME SuggestionsInv, WitnessSearch, NEW h \in Handlers, Search(h), barred' = barred
  PROVE  Kept
<1>1. handler[h] \in Invocation /\ listed \subseteq Candidates /\ handler[h].people \subseteq Candidates
      /\ handler[h].refs \subseteq Refs /\ offered \subseteq Refs
  BY DEF SuggestionsInv, Typed, Invocation
<1>2. CASE SearchStarts(h)
  <2> DEFINE x == [handler[h] EXCEPT !.pc = "loading"]
  <2>1. x \in Invocation /\ x.pc = "loading"
    BY <1>1 DEF Invocation, SearchPC
  <2>2. handler' = [handler EXCEPT ![h] = x]
    BY <1>2 DEF SearchStarts, Step
  <2> HIDE DEF x
  <2>3. HandlersKept
    BY <2>1, <2>2, HandlerGoes DEF SearchPC
  <2> QED BY <1>2, <2>3, Quietly, PairsStay, TicketsStay DEF SearchStarts
<1>3. CASE LoadProfiles(h)
  <2>1. PICK hits \in Hits : Narrow(h, "pairing", hits \cap listed)
    BY <1>3 DEF LoadProfiles
  <2>2. HandlersKept
    BY <1>1, <2>1, SearchNarrows
  <2> QED BY <1>3, <2>2, Quietly, PairsStay, TicketsStay DEF LoadProfiles
<1>4. CASE ReadPairs(h)
  <2> DEFINE left == {c \in handler[h].people : ~ PairBlocks(pairState[c])}
  <2>1. Narrow(h, "ranking", left) /\ HandlerAt(h, "pairing")
    BY <1>4 DEF ReadPairs
  <2>2. handler[h].people \subseteq witnessed[h].listed
    BY <2>1 DEF SuggestionsInv, Found
  <2>3. ASSUME NEW c \in left PROVE Free(c)
    <3>1. c \in Candidates /\ ~ PairBlocks(pairState[c])
      BY <1>1
    <3>2. /\ barred[c] \in Nat /\ pairState[c].ttl \in Nat
          /\ barred[c] > 0 => pairState[c].state = "cooldown" /\ barred[c] <= pairState[c].ttl
      BY <3>1, SuggestionAssumption DEF SuggestionsInv, Typed, Barred, PairRow
    <3> QED BY <3>1, <3>2 DEF Free, PairBlocks
  <2>4. left \in SUBSET Candidates /\ left \subseteq {c \in Candidates : Free(c)}
    BY <1>1, <2>3
  <2> HIDE DEF left
  <2>5. left \subseteq handler[h].people
    BY DEF left
  <2>6. HandlersKept
    BY <2>1, <2>2, <2>4, <2>5, SearchNarrows
  <2> QED BY <1>4, <2>6, Quietly, PairsStay, TicketsStay DEF ReadPairs
<1>5. CASE Rank(h)
  <2>1. PICK chosen \in Selections(handler[h].people) : StepWith(h, "issuing", chosen)
    BY <1>5 DEF Rank
  <2>2. chosen \subseteq handler[h].people
    BY DEF Selections, Best
  <2>3. handler[h].people \subseteq witnessed[h].listed \cap witnessed[h].free
    BY <1>5 DEF Rank, HandlerAt, SuggestionsInv, Found
  <2>4. HandlersKept
    BY <1>1, <2>1, <2>2, <2>3, SearchNarrows
  <2> QED BY <1>5, <2>4, Quietly, PairsStay, TicketsStay DEF Rank
<1>6. CASE Issue(h)
  BY <1>6, IssueStep
<1>7. CASE Record(h)
  <2>1. HandlersKept
    BY <1>7, HandlerSteps DEF Record, HandlerAt, SearchPC
  <2> QED BY <1>7, <2>1, Quietly, PairsStay, TicketsStay DEF Record
<1>8. CASE Show(h)
  <2>1. PICK s \in handler[h].refs :
          /\ offered' = offered \cup {s}
          /\ IF handler[h].refs = {s} THEN Finish(h)
             ELSE handler' = [handler EXCEPT ![h].refs = @ \ {s}]
    BY <1>8 DEF Show
  <2>2. CASE Finish(h)
    BY <1>1, <1>8, <2>1, <2>2, HandlerEnds, Together, PairsStay, TicketsStay
       DEF Show, SuggestionsInv, Typed
  <2>3. CASE ~ Finish(h)
    <3> DEFINE x == [handler[h] EXCEPT !.refs = @ \ {s}]
    <3>1. x \in Invocation /\ x.pc = "showing" /\ x.refs # {}
      <4>1. handler[h].refs # {s} /\ handler[h].pc = "showing"
        BY <1>8, <2>1, <2>3 DEF Show, HandlerAt
      <4> QED BY <1>1, <4>1 DEF Invocation
    <3>2. handler' = [handler EXCEPT ![h] = x]
      BY <2>1, <2>3
    <3> HIDE DEF x
    <3>3. HandlersKept
      BY <3>1, <3>2, HandlerGoes
    <3> QED BY <1>1, <1>8, <2>1, <3>3, Together, PairsStay, TicketsStay
         DEF Show, SuggestionsInv, Typed
  <2> QED BY <2>2, <2>3
<1> QED BY <1>2, <1>3, <1>4, <1>5, <1>6, <1>7, <1>8 DEF Search

LEMMA PressStep ==
  ASSUME SuggestionsInv, WitnessSearch, NEW h \in Handlers, Press(h), barred' = barred
  PROVE  Kept
<1>1. ASSUME NEW s \in Refs, NEW pc \in {"dismissing", "viewing", "opening"}, Resolves(h, s, pc)
      PROVE  Kept
  <2> DEFINE x == [Resting EXCEPT !.pc = pc, !.refs = {s}, !.seen = tickets[s].status]
  <2>1. HandlersKept
    <3>1. CASE ~ Usable(s)
      BY <1>1, <3>1, HandlersStay DEF Resolves
    <3>2. CASE Usable(s)
      <4>1. tickets[s].status \in UsableStatuses
        BY <3>2 DEF Usable, Current, UsableStatuses
      <4>2. x \in Invocation /\ x.pc = pc /\ x.refs # {}
        BY <4>1 DEF Resting, Invocation
      <4>3. handler' = [handler EXCEPT ![h] = x]
        BY <1>1, <3>2 DEF Resolves
      <4> HIDE DEF x
      <4> QED BY <4>2, <4>3, HandlerGoes
    <3> QED BY <3>1, <3>2
  <2> QED BY <1>1, <2>1, GetQuiet, Quietly, PairsStay DEF Resolves
<1>2. CASE DismissSets(h)
  <2>1. HandlersKept
    BY <1>2, HandlerSteps, HandlerEnds DEF DismissSets, SetOrEnd, HandlerAt, SearchPC
  <2> QED BY <1>2, <2>1, SetQuiet, Quietly, PairsStay DEF DismissSets, SetOrEnd
<1>3. CASE ViewSets(h)
  <2>1. HandlersKept
    BY <1>3, HandlerSteps, HandlerEnds DEF ViewSets, SetOrEnd, HandlerAt, SearchPC
  <2>2. Quiet
    BY <1>3, SetQuiet, TicketsStay DEF ViewSets, SetOrEnd
  <2> QED BY <1>3, <2>1, <2>2, Quietly, PairsStay DEF ViewSets
<1>4. CASE Prompt(h)
  <2>1. TheRef(h) \in Refs
    BY <1>4, TheRefType DEF Prompt, HandlerAt, SearchPC
  <2> QED BY <1>4, <2>1, HandlerEnds, Together, PairsStay, TicketsStay
       DEF Prompt, SuggestionsInv, Typed
<1> QED BY <1>1, <1>2, <1>3, <1>4 DEF Press

LEMMA CoolStep ==
  ASSUME SuggestionsInv, WitnessSearch, NEW h \in Handlers, DismissCools(h)
  PROVE  Kept
<1>1. PairsKept
  BY CooldownKeeps DEF DismissCools
<1> QED BY <1>1, HandlerEnds, Quietly, TicketsStay DEF DismissCools

LEMMA AskStep ==
  ASSUME SuggestionsInv, WitnessSearch, NEW h \in Handlers, Ask(h), barred' = barred
  PROVE  Kept
<1>0. ASSUME NEW pc \in {"locking", "clearing"}, intro # NoRef,
             handler' = [handler EXCEPT ![h] = [Resting EXCEPT !.refs = {intro}, !.pc = pc]]
      PROVE  HandlersKept
  <2> DEFINE x == [Resting EXCEPT !.refs = {intro}, !.pc = pc]
  <2>1. intro \in Refs
    BY <1>0 DEF SuggestionsInv, Typed
  <2>2. x \in Invocation /\ x.pc = pc /\ x.refs # {}
    BY <2>1 DEF Resting, Invocation
  <2> HIDE DEF x
  <2>3. handler' = [handler EXCEPT ![h] = x]
    BY <1>0 DEF x
  <2> QED BY <2>2, <2>3, HandlerGoes DEF SearchPC
<1>1. CASE AskResolves(h)
  <2>1. HandlersKept
    <3>1. CASE Usable(intro)
      BY <1>0, <1>1, <3>1 DEF AskResolves
    <3>2. CASE ~ Usable(intro)
      BY <1>0, <1>1, <3>2 DEF AskResolves
    <3> QED BY <3>1, <3>2
  <2> QED BY <1>1, <2>1, GetQuiet, Quietly, PairsStay DEF AskResolves
<1>2. CASE AskRefused(h)
  BY <1>0, <1>2, Quietly, PairsStay, TicketsStay DEF AskRefused
<1>3. CASE AskLocks(h)
  <2>1. HandlersKept
    BY <1>3, HandlerSteps DEF AskLocks, HandlerAt, SearchPC
  <2>2. PairsKept
    BY <1>3, LockKeeps, PairsStay DEF AskLocks
  <2> QED BY <1>3, <2>1, <2>2, Quietly, TicketsStay DEF AskLocks
<1>4. CASE AskStores(h)
  <2>1. HandlersKept
    BY <1>4, HandlerSteps DEF AskStores, HandlerAt, SearchPC
  <2> QED BY <1>4, <2>1, Quietly, PairsStay, TicketsStay DEF AskStores
<1>5. CASE AskUnlocks(h)
  <2>1. HandlersKept
    BY <1>5, HandlerSteps DEF AskUnlocks, HandlerAt, SearchPC
  <2>2. PairsKept
    BY <1>5, ReleaseKeeps DEF AskUnlocks
  <2> QED BY <1>5, <2>1, <2>2, Quietly, TicketsStay DEF AskUnlocks
<1>6. CASE ConvertResolves(h)
  <2> DEFINE s == TheRef(h)
             x == [handler[h] EXCEPT !.pc = IF Usable(s) THEN "marking" ELSE "clearing",
                                     !.seen = IF Usable(s) THEN tickets[s].status ELSE "none"]
  <2>1. handler[h] \in Invocation /\ handler[h].refs # {}
    BY <1>6 DEF ConvertResolves, HandlerAt, SuggestionsInv, Typed, Carries, SearchPC
  <2>2. Usable(s) => tickets[s].status \in UsableStatuses
    BY DEF Usable, Current, UsableStatuses
  <2>3. x \in Invocation /\ x.pc \in {"marking", "clearing"} /\ x.refs # {}
    BY <2>1, <2>2 DEF Invocation
  <2>4. handler' = [handler EXCEPT ![h] = x]
    BY <1>6 DEF ConvertResolves
  <2> HIDE DEF x, s
  <2>5. HandlersKept
    BY <2>3, <2>4, HandlerGoes DEF SearchPC
  <2> QED BY <1>6, <2>5, GetQuiet, Quietly, PairsStay DEF ConvertResolves
<1>7. CASE ConvertSets(h)
  BY <1>7, HandlerSteps, SetQuiet, Quietly, PairsStay DEF ConvertSets, HandlerAt, SearchPC
<1>8. CASE ClearIntro(h)
  BY <1>8, HandlerEnds, Together, PairsStay, TicketsStay DEF ClearIntro, SuggestionsInv, Typed
<1> QED BY <1>1, <1>2, <1>3, <1>4, <1>5, <1>6, <1>7, <1>8 DEF Ask

LEMMA RequestsStep ==
  ASSUME SuggestionsInv, WitnessSearch, PairMoves
  PROVE  Kept
<1>1. PICK c \in Candidates :
        \/ ~ PairBlocks(pairState[c]) /\ SetPair(c, "pending", PAIR_LOCK_TTL)
        \/ ReleasePair(c)
        \/ pairState[c].state = "pending" /\ SetPair(c, "cooldown", PAIR_DISMISS_COOLDOWN)
  BY DEF PairMoves
<1>2. PairsKept
  BY <1>1, LockKeeps, ReleaseKeeps, CooldownKeeps DEF PairMoves
<1> QED BY <1>2, HandlersStay, Quietly, TicketsStay DEF PairMoves

\* Cooldowns and dismissals run down together; what is expired stays so.
LEMMA PassStep ==
  ASSUME SuggestionsInv, WitnessSearch, Pass
  PROVE  Kept
<1>1. \A max \in Nat : \A n \in 0..max : Less(n) \in 0..max /\ (n = 0 => Less(n) = 0)
  BY DEF Less
<1>2. PairsKept
  <2>1. ASSUME NEW c \in Candidates
        PROVE  /\ pairState'[c] \in PairRow /\ pairState'[c].state = pairState[c].state
               /\ pairState'[c].ttl = Less(pairState[c].ttl)
               /\ barred'[c] = Less(barred[c]) /\ barred'[c] \in 0..PAIR_DISMISS_COOLDOWN
               /\ pairState[c].ttl \in Nat /\ barred[c] \in Nat
    <3>1. /\ pairState'[c] = [pairState[c] EXCEPT !.ttl = Less(@)]
          /\ barred'[c] = Less(barred[c])
      BY DEF Pass
    <3>2. /\ pairState[c] \in PairRow /\ barred[c] \in 0..PAIR_DISMISS_COOLDOWN
          /\ pairState[c].ttl \in 0..PAIR_DISMISS_COOLDOWN
      BY DEF SuggestionsInv, Typed, PairRow
    <3>3. /\ Less(pairState[c].ttl) \in 0..PAIR_DISMISS_COOLDOWN
          /\ Less(barred[c]) \in 0..PAIR_DISMISS_COOLDOWN
      BY <1>1, <3>2, Lengths
    <3>4. pairState[c].ttl \in Nat /\ barred[c] \in Nat
      BY <3>2, Lengths
    <3> QED BY <3>1, <3>2, <3>3, <3>4 DEF PairRow
  <2>2. \A c \in Candidates :
          /\ pairState'[c] \in PairRow /\ pairState'[c].state = pairState[c].state
          /\ barred'[c] \in 0..PAIR_DISMISS_COOLDOWN
    BY <2>1
  <2>3. pairState' \in [Candidates -> PairRow]
        /\ barred' \in [Candidates -> 0..PAIR_DISMISS_COOLDOWN]
    BY <2>2 DEF Pass
  <2>4. ASSUME NEW c \in Candidates, barred'[c] > 0
        PROVE  pairState'[c].state = "cooldown" /\ barred'[c] <= pairState'[c].ttl
    <3>1. /\ pairState[c].ttl \in Nat /\ barred[c] \in Nat
          /\ barred'[c] = Less(barred[c]) /\ pairState'[c].ttl = Less(pairState[c].ttl)
          /\ pairState'[c].state = pairState[c].state
      BY <2>1
    <3>2. barred[c] > 0 /\ Less(barred[c]) = barred[c] - 1
      BY <2>4, <3>1 DEF Less
    <3>3. pairState[c].state = "cooldown" /\ barred[c] <= pairState[c].ttl
      BY <3>2 DEF SuggestionsInv, Barred
    <3> QED BY <3>1, <3>2, <3>3 DEF Less
  <2> QED BY <2>2, <2>3, <2>4 DEF PairsKept, SuggestionsInv, Barred
<1>3. Quiet
  <2>1. ASSUME NEW t \in Ticket, NEW u, u = [t EXCEPT !.ttl = Less(@)]
        PROVE  /\ u \in Ticket /\ u.status = t.status /\ u.candidate = t.candidate
               /\ Current(t) \in SettledStatuses => Current(u) = Current(t)
    <3>1. Less(t.ttl) \in 0..SUGGESTION_TTL /\ (t.ttl = 0 => Less(t.ttl) = 0)
      BY <1>1, SuggestionAssumption DEF Ticket
    <3> QED BY <2>1, <3>1 DEF Ticket, Current, UsableStatuses, SettledStatuses
  <2>2. \A s \in Refs : tickets[s] \in Ticket /\ tickets'[s] = [tickets[s] EXCEPT !.ttl = Less(@)]
    BY DEF Pass, SuggestionsInv, Typed
  <2>3. \A s \in Refs : /\ tickets'[s] \in Ticket /\ tickets'[s].status = tickets[s].status
                        /\ tickets'[s].candidate = tickets[s].candidate
                        /\ Current(tickets[s]) \in SettledStatuses
                             => Current(tickets'[s]) = Current(tickets[s])
    BY <2>1, <2>2
  <2> QED BY <2>3 DEF Quiet, Pass
<1> QED BY <1>2, <1>3, HandlersStay, Quietly DEF Pass

LEMMA SuggestionsStep == SuggestionsInv /\ SuggestionsNext => Kept
<1> SUFFICES ASSUME SuggestionsInv, SuggestionsNext PROVE Kept
  OBVIOUS
<1>1. WitnessSearch
  BY DEF SuggestionsNext
<1>2. CASE Handling
  BY <1>1, <1>2, SearchStep, PressStep, AskStep, CoolStep DEF Handling
<1>3. ASSUME NEW h \in Handlers, SuggestionLost(h), barred' = barred PROVE Kept
  BY <1>1, <1>3, HandlerEnds, Quietly, PairsStay, TicketsStay DEF SuggestionLost
<1>4. CASE Relist
  <2>1. listed' \subseteq Candidates
    BY <1>4 DEF Relist, SuggestionsInv, Typed
  <2> QED BY <1>1, <1>4, <2>1, HandlersStay, Together, PairsStay, TicketsStay
       DEF Relist, SuggestionsInv, Typed
<1>5. CASE PairMoves \/ Pass
  BY <1>1, <1>5, RequestsStep, PassStep
<1> QED BY <1>2, <1>3, <1>4, <1>5 DEF SuggestionsNext, Moving

LEMMA SuggestionsBegin == SuggestionsInit => SuggestionsInv
<1> SUFFICES ASSUME SuggestionsInit PROVE SuggestionsInv
  OBVIOUS
<1>1. Typed
  BY SuggestionAssumption DEF SuggestionsInit, Typed, PairRow, Ticket, Invocation, Witness,
    UnknownPair, NoTicket, Resting
<1>2. Carries /\ Barred /\ Found
  BY DEF SuggestionsInit, Carries, Barred, Found, Resting, SearchPC, HandlerAt
<1>3. Drawn
  <2>1. {s \in Refs : tickets[s].status # "none"} = 1..0
    BY DEF SuggestionsInit, NoTicket
  <2> QED BY <2>1, SuggestionAssumption DEF Drawn
<1> QED BY <1>1, <1>2, <1>3 DEF SuggestionsInv

LEMMA SuggestionsStutter == SuggestionsInv /\ UNCHANGED sgVars => SuggestionsInv'
BY DEF sgVars, SuggestionsInv, Typed, Carries, Barred, Found, Drawn, HandlerAt

\* A suggestion is issued of somebody the search found discoverable, and found
\* free after that, at some moments since it began.
THEOREM EligibleTheorem == SuggestionsSpec => SuggestedWasEligible
<1>1. SuggestionsInv /\ [SuggestionsNext]_sgVars =>
        [\A s \in Refs : Issued(s) =>
           \E h \in Handlers, c \in tickets'[s].candidate :
             /\ HandlerAt(h, "issuing") /\ c \in handler[h].people
             /\ c \in witnessed[h].listed \cap witnessed[h].free]_sgVars
  <2> SUFFICES ASSUME SuggestionsInv, SuggestionsNext, NEW s \in Refs, Issued(s)
               PROVE  \E h \in Handlers, c \in tickets'[s].candidate :
                        /\ HandlerAt(h, "issuing") /\ c \in handler[h].people
                        /\ c \in witnessed[h].listed \cap witnessed[h].free
    OBVIOUS
  <2>1. Issues
    BY SuggestionsStep DEF Kept, Quiet, Issued
  <2>2. PICK h \in Handlers, c \in Candidates, r \in Refs :
          /\ HandlerAt(h, "issuing") /\ c \in handler[h].people
          /\ tickets' = [tickets EXCEPT ![r] =
               [status |-> "created", candidate |-> {c}, ttl |-> SUGGESTION_TTL]]
    BY <2>1 DEF Issues
  <2>3. tickets \in [Refs -> Ticket]
    BY DEF SuggestionsInv, Typed
  <2>4. s = r
    BY <2>2, <2>3 DEF Issued
  <2>5. tickets'[s].candidate = {c}
    BY <2>2, <2>3, <2>4
  <2>6. handler[h].people \subseteq witnessed[h].listed \cap witnessed[h].free
    BY <2>2 DEF SuggestionsInv, Found, HandlerAt
  <2> QED BY <2>2, <2>5, <2>6
<1>2. SuggestionsInv /\ [SuggestionsNext]_sgVars => SuggestionsInv'
  BY SuggestionsStep, SuggestionsStutter DEF Kept
<1> QED BY <1>1, <1>2, SuggestionsBegin, PTL DEF SuggestionsSpec, SuggestedWasEligible

-----------------------------------------------------------------------------
(* Which suggestion a dismissal goes back to. *)

\* Whoever is about to set a pair aside has dismissed a suggestion of it, and so
\* has whoever did.
Recorded ==
  /\ \A s \in Refs : tickets[s].status # "none" =>
       \E c \in Candidates : tickets[s].candidate = {c}
  /\ \A h \in Handlers : HandlerAt(h, "cooling") => tickets[TheRef(h)].status = "dismissed"
  /\ \A c \in Candidates : barred[c] > 0 =>
       \E s \in Refs : tickets[s].status = "dismissed" /\ c \in tickets[s].candidate

\* What is dismissed stays so, and a suggestion keeps its candidate.
LEMMA TicketsLast ==
  ASSUME SuggestionsInv, Quiet \/ Issues, NEW s \in Refs, tickets[s].status = "dismissed"
  PROVE  tickets'[s].status = "dismissed" /\ tickets'[s].candidate = tickets[s].candidate
<1>1. CASE Quiet
  BY <1>1 DEF Quiet, Current, UsableStatuses, SettledStatuses
<1>2. CASE Issues
  BY <1>2 DEF Issues, SuggestionsInv, Typed
<1> QED BY <1>1, <1>2

\* One handler at a time takes a step, and comes there by none but these.
LEMMA StepsElsewhere ==
  ASSUME SuggestionsInv, NEW g \in Handlers, NEW h \in Handlers, HandlerAt(h, "cooling")',
         \/ \E pc \in {"loading", "showing", "prompting", "storing", "unlocking",
                      "converting", "marking", "clearing"} : Step(g, pc)
         \/ \E pc \in {"pairing", "ranking", "issuing"} : \E people : StepWith(g, pc, people)
         \/ Finish(g)
         \/ \E x : handler' = [handler EXCEPT ![g] = x] /\ x.pc # "cooling"
         \/ handler' = handler
  PROVE  handler'[h] = handler[h]
<1>1. handler \in [Handlers -> Invocation]
  BY DEF SuggestionsInv, Typed
<1>2. ASSUME NEW pc \in {"loading", "showing", "prompting", "storing", "unlocking",
                        "converting", "marking", "clearing"}, Step(g, pc)
      PROVE  handler'[h] = handler[h]
  BY <1>1, <1>2 DEF Step, HandlerAt, Invocation
<1>3. ASSUME NEW pc \in {"pairing", "ranking", "issuing"}, NEW people, StepWith(g, pc, people)
      PROVE  handler'[h] = handler[h]
  BY <1>1, <1>3 DEF StepWith, HandlerAt, Invocation
<1>4. CASE Finish(g)
  BY <1>1, <1>4 DEF Finish, Resting, HandlerAt
<1>5. ASSUME NEW x, handler' = [handler EXCEPT ![g] = x], x.pc # "cooling"
      PROVE  handler'[h] = handler[h]
  BY <1>1, <1>5 DEF HandlerAt
<1> QED BY <1>2, <1>3, <1>4, <1>5

\* A handler comes to set a pair aside only by a dismissal.
LEMMA WhoCools ==
  ASSUME SuggestionsInv, SuggestionsNext, NEW h \in Handlers, HandlerAt(h, "cooling")'
  PROVE  handler'[h] = handler[h] \/ DismissSets(h)
<1>1. handler \in [Handlers -> Invocation]
  BY DEF SuggestionsInv, Typed
<1>2. ASSUME NEW g \in Handlers, Search(g) PROVE handler'[h] = handler[h]
  <2>1. CASE SearchStarts(g) \/ Record(g)
    BY <2>1, StepsElsewhere DEF SearchStarts, Record
  <2>2. CASE LoadProfiles(g) \/ ReadPairs(g) \/ Rank(g)
    BY <2>2, StepsElsewhere DEF LoadProfiles, ReadPairs, Rank, Narrow
  <2>3. CASE Issue(g)
    BY <1>1, <2>3 DEF Issue, HandlerAt, Invocation
  <2>4. CASE Show(g)
    BY <1>1, <2>4, StepsElsewhere DEF Show, HandlerAt, Invocation
  <2> QED BY <1>2, <2>1, <2>2, <2>3, <2>4 DEF Search
<1>3. ASSUME NEW g \in Handlers, Press(g) PROVE handler'[h] = handler[h] \/ DismissSets(h)
  <2>1. CASE \E s \in Refs, pc \in {"dismissing", "viewing", "opening"} : Resolves(g, s, pc)
    BY <1>1, <2>1 DEF Resolves, Resting, HandlerAt
  <2>2. CASE DismissSets(g)
    BY <1>1, <2>2 DEF DismissSets, SetOrEnd, Step, Finish
  <2>3. CASE ViewSets(g) \/ Prompt(g)
    BY <2>3, StepsElsewhere DEF ViewSets, SetOrEnd, Prompt
  <2> QED BY <1>3, <2>1, <2>2, <2>3 DEF Press
<1>4. ASSUME NEW g \in Handlers, Ask(g) PROVE handler'[h] = handler[h]
  <2>1. CASE AskResolves(g) \/ AskRefused(g)
    BY <1>1, <2>1 DEF AskResolves, AskRefused, Resting, HandlerAt
  <2>2. CASE AskLocks(g) \/ AskStores(g) \/ AskUnlocks(g)
    BY <2>2, StepsElsewhere DEF AskLocks, AskStores, AskUnlocks
  <2>3. CASE ConvertResolves(g)
    BY <1>1, <2>3 DEF ConvertResolves, HandlerAt, Invocation
  <2>4. CASE ConvertSets(g) \/ ClearIntro(g)
    BY <2>4, StepsElsewhere DEF ConvertSets, ClearIntro
  <2> QED BY <1>4, <2>1, <2>2, <2>3, <2>4 DEF Ask
<1>5. CASE (\E g \in Handlers : DismissCools(g) \/ SuggestionLost(g)) \/ Relist \/ PairMoves \/ Pass
  BY <1>1, <1>5 DEF DismissCools, SuggestionLost, Relist, PairMoves, Pass, Finish, Resting,
    HandlerAt
<1> QED BY <1>2, <1>3, <1>4, <1>5 DEF SuggestionsNext, Handling, Moving

\* Nobody is set aside but by the handler of a dismissal.
LEMMA WhoBars ==
  ASSUME SuggestionsInv, SuggestionsNext, NEW c \in Candidates, barred'[c] > 0
  PROVE  \/ barred[c] > 0
         \/ \E h \in Handlers : DismissCools(h) /\ c = CandidateOf(TheRef(h))
<1>1. barred \in [Candidates -> 0..PAIR_DISMISS_COOLDOWN] /\ PAIR_DISMISS_COOLDOWN \in Nat
  BY SuggestionAssumption DEF SuggestionsInv, Typed
<1>2. CASE UNCHANGED barred
  BY <1>2
<1>3. CASE \E h \in Handlers : DismissCools(h)
  BY <1>1, <1>3 DEF DismissCools
<1>4. CASE Pass
  BY <1>1, <1>4 DEF Pass, Less
<1> QED BY <1>2, <1>3, <1>4 DEF SuggestionsNext, Handling, Moving, Relist, PairMoves

LEMMA RecordedStep ==
  ASSUME SuggestionsInv, Recorded, SuggestionsNext
  PROVE  Recorded'
<1>1. Quiet \/ Issues
  BY SuggestionsStep DEF Kept
<1>2. ASSUME NEW s \in Refs, tickets'[s].status # "none"
      PROVE  \E c \in Candidates : tickets'[s].candidate = {c}
  <2>1. CASE Quiet
    BY <1>2, <2>1 DEF Quiet, Recorded
  <2>2. CASE Issues
    BY <1>2, <2>2 DEF Issues, Recorded, SuggestionsInv, Typed
  <2> QED BY <1>1, <2>1, <2>2
<1>3. ASSUME NEW h \in Handlers, HandlerAt(h, "cooling")'
      PROVE  tickets'[TheRef(h)'].status = "dismissed"
  <2>1. CASE handler'[h] = handler[h]
    <3>1. HandlerAt(h, "cooling") /\ TheRef(h)' = TheRef(h)
      BY <1>3, <2>1 DEF HandlerAt, TheRef
    <3>2. TheRef(h) \in Refs /\ tickets[TheRef(h)].status = "dismissed"
      BY <3>1, TheRefType DEF Recorded, HandlerAt, SearchPC
    <3> QED BY <1>1, <3>1, <3>2, TicketsLast
  <2>2. CASE DismissSets(h)
    <3>1. TheRef(h) \in Refs /\ handler \in [Handlers -> Invocation]
          /\ tickets \in [Refs -> Ticket]
      BY <2>2, TheRefType DEF DismissSets, HandlerAt, SearchPC, SuggestionsInv, Typed
    <3>2. Step(h, "cooling") /\ Accepts(TheRef(h), "dismissed", handler[h].seen)
      BY <1>3, <2>2, <3>1 DEF DismissSets, SetOrEnd, Finish, Resting, HandlerAt
    <3>3. handler'[h].refs = handler[h].refs
      BY <3>1, <3>2 DEF Step
    <3>4. TheRef(h)' = TheRef(h)
      BY <3>3 DEF TheRef
    <3>5. tickets'[TheRef(h)].status = "dismissed"
      BY <2>2, <3>1, <3>2 DEF DismissSets, SetOrEnd, SetSuggestionStatus, Ticket
    <3> QED BY <3>4, <3>5
  <2> QED BY <1>3, <2>1, <2>2, WhoCools
<1>4. ASSUME NEW c \in Candidates, barred'[c] > 0
      PROVE  \E s \in Refs : tickets'[s].status = "dismissed" /\ c \in tickets'[s].candidate
  <2>1. PICK s \in Refs : tickets[s].status = "dismissed" /\ c \in tickets[s].candidate
    <3>1. CASE barred[c] > 0
      BY <3>1 DEF Recorded
    <3>2. CASE \E h \in Handlers : DismissCools(h) /\ c = CandidateOf(TheRef(h))
      <4>1. PICK h \in Handlers : DismissCools(h) /\ c = CandidateOf(TheRef(h))
        BY <3>2
      <4>2. TheRef(h) \in Refs /\ tickets[TheRef(h)].status = "dismissed"
        BY <4>1, TheRefType DEF DismissCools, Recorded, HandlerAt, SearchPC
      <4>3. c \in tickets[TheRef(h)].candidate
        BY <4>1, <4>2 DEF Recorded, CandidateOf
      <4> QED BY <4>2, <4>3
    <3> QED BY <1>4, <3>1, <3>2, WhoBars
  <2> QED BY <1>1, <2>1, TicketsLast
<1> QED BY <1>2, <1>3, <1>4 DEF Recorded

\* A dismissal is not undone, shortened or overwritten by what else goes on
\* between the two, until its cooldown has run out; and only what was recorded
\* as dismissed sets anybody aside, whatever else became of a suggestion while
\* the handler of its button was under way.
THEOREM DismissedTheorem == SuggestionsSpec => DismissedIsLeftAlone
<1> DEFINE Inv == SuggestionsInv /\ Recorded
<1>1. Inv /\ [SuggestionsNext]_sgVars =>
        [\A c \in Candidates : barred[c] > 0 =>
           /\ pairState[c].state = "cooldown" /\ pairState'[c].state = "cooldown"
           /\ \E s \in Refs :
                tickets[s].status = "dismissed" /\ c \in tickets[s].candidate]_sgVars
  BY SuggestionsStep DEF Kept, PairsKept, SuggestionsInv, Barred, Recorded
<1>2. Inv /\ [SuggestionsNext]_sgVars => Inv'
  <2>1. Recorded /\ UNCHANGED sgVars => Recorded'
    BY DEF sgVars, Recorded, HandlerAt, TheRef
  <2> QED BY <2>1, SuggestionsStep, SuggestionsStutter, RecordedStep DEF Kept
<1>3. SuggestionsInit => Inv
  <2>1. SuggestionsInit => Recorded
    BY DEF SuggestionsInit, Recorded, NoTicket, Resting, HandlerAt
  <2> QED BY <2>1, SuggestionsBegin
<1> QED BY <1>1, <1>2, <1>3, PTL DEF SuggestionsSpec, DismissedIsLeftAlone

\* A settled suggestion keeps its fate, whichever handlers began before.
THEOREM FateTheorem == SuggestionsSpec => SuggestionFateStands
<1>1. SuggestionsInv /\ [SuggestionsNext]_sgVars =>
        [\A s \in Refs : Current(tickets[s]) \in SettledStatuses =>
           Current(tickets'[s]) = Current(tickets[s])]_sgVars
  <2> SUFFICES ASSUME SuggestionsInv, SuggestionsNext, NEW s \in Refs,
                      Current(tickets[s]) \in SettledStatuses
               PROVE  Current(tickets'[s]) = Current(tickets[s])
    OBVIOUS
  <2>1. CASE Quiet
    BY <2>1 DEF Quiet
  <2>2. CASE Issues
    <3>1. PICK c \in Candidates, r \in Refs :
            /\ tickets[r].status = "none"
            /\ tickets' = [tickets EXCEPT ![r] =
                 [status |-> "created", candidate |-> {c}, ttl |-> SUGGESTION_TTL]]
      BY <2>2 DEF Issues
    <3>2. s # r
      BY <3>1 DEF Current, SettledStatuses, UsableStatuses
    <3> QED BY <3>1, <3>2 DEF SuggestionsInv, Typed
  <2> QED BY <2>1, <2>2, SuggestionsStep DEF Kept
<1>2. SuggestionsInv /\ [SuggestionsNext]_sgVars => SuggestionsInv'
  BY SuggestionsStep, SuggestionsStutter DEF Kept
<1> QED BY <1>1, <1>2, SuggestionsBegin, PTL DEF SuggestionsSpec, SuggestionFateStands

-----------------------------------------------------------------------------
(* The types of what only a search writes, and of the bound on moves. *)

Budgeted ==
  /\ budget \in [tokens : 0..SUGGESTION_SEARCH_LIMIT, over : BOOLEAN]
  /\ moves \in 0..MaxMoves

\* Only the start of a search and time touch the budget.
LEMMA BudgetMoves ==
  ASSUME Handling \/ Moving
  PROVE  UNCHANGED budget \/ Pass \/ \E h \in Handlers : SearchStarts(h)
<1>1. CASE Handling
  <2>1. CASE \E h \in Handlers : Search(h)
    BY <2>1 DEF Search, LoadProfiles, ReadPairs, Rank, Issue, Record, Show
  <2>2. CASE \E h \in Handlers : Press(h)
    BY <2>2 DEF Press, Resolves, DismissSets, ViewSets, SetOrEnd, Prompt
  <2>3. CASE \E h \in Handlers : Ask(h)
    BY <2>3 DEF Ask, AskResolves, AskRefused, AskLocks, AskStores, AskUnlocks,
                ConvertResolves, ConvertSets, ClearIntro
  <2>4. CASE \E h \in Handlers : DismissCools(h)
    BY <2>4 DEF DismissCools
  <2> QED BY <1>1, <2>1, <2>2, <2>3, <2>4 DEF Handling
<1>2. CASE Moving
  BY <1>2 DEF Moving, SuggestionLost, Relist, PairMoves
<1> QED BY <1>1, <1>2

LEMMA BudgetStep == Budgeted /\ [SuggestionsNext]_sgVars => Budgeted'
<1> SUFFICES ASSUME Budgeted, [SuggestionsNext]_sgVars PROVE Budgeted'
  OBVIOUS
<1>1. CASE UNCHANGED sgVars
  BY <1>1 DEF sgVars, Budgeted
<1>2. CASE SuggestionsNext
  <2>1. moves' \in 0..MaxMoves
    BY <1>2, SuggestionAssumption DEF SuggestionsNext, Budgeted
  <2>2. UNCHANGED budget \/ Pass \/ \E h \in Handlers : SearchStarts(h)
    BY <1>2, BudgetMoves DEF SuggestionsNext
  <2>3. CASE UNCHANGED budget
    BY <2>1, <2>3 DEF Budgeted
  <2>4. CASE Pass
    <3> DEFINE spent == budget.tokens > 0
    <3>1. spent \in BOOLEAN /\ budget' = [budget EXCEPT !.over = spent]
      BY <2>4 DEF Pass
    <3> HIDE DEF spent
    <3> QED BY <2>1, <3>1 DEF Budgeted
  <2>5. CASE \E h \in Handlers : SearchStarts(h)
    BY <2>1, <2>5, SuggestionAssumption DEF SearchStarts, Budgeted
  <2> QED BY <2>2, <2>3, <2>4, <2>5
<1> QED BY <1>1, <1>2

\* Every variable of the suggestions but the list of exposure tokens keeps its
\* type: no search is counted beyond the limit, and no cooldown, lifetime or
\* dismissal leaves its range.
THEOREM SuggestionTypesTheorem == SuggestionsSpec => [](Typed /\ Budgeted)
<1>1. SuggestionsInit => SuggestionsInv /\ Budgeted
  BY SuggestionsBegin, SuggestionAssumption DEF SuggestionsInit, Budgeted
<1>2. SuggestionsInv /\ Budgeted /\ [SuggestionsNext]_sgVars => (SuggestionsInv /\ Budgeted)'
  BY SuggestionsStep, SuggestionsStutter, BudgetStep DEF Kept
<1>3. SuggestionsInv => Typed
  BY DEF SuggestionsInv
<1> QED BY <1>1, <1>2, <1>3, PTL DEF SuggestionsSpec
=============================================================================
