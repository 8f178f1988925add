------------------------------ MODULE Suggestions ------------------------------
(***************************************************************************)
(* The conversation suggestions of one person: the search                  *)
(* (src/suggestions/suggestion-search.ts and what it calls), the           *)
(* suggestion tickets in the ConversationVault, the exposure tokens and    *)
(* the search budget in UserState, and the buttons under a suggestion      *)
(* (src/suggestions/suggestion-handlers.ts, suggestion-service.ts).  Every *)
(* await on a Durable Object, Vectorize or Telegram is a step of its own;  *)
(* reads of a batch that concern different candidates are one step.        *)
(*                                                                         *)
(* A profile hash is drawn by each finalize, so a profile has one revision *)
(* for life and the revision checks of the search always hold.  The pair   *)
(* tag and the exposure token are functions of the candidate's hash.       *)
(* Deadlines are kept as the time left, 0 once they have passed.           *)
(* The rows of the pairs are also written by the requests of both people,  *)
(* which RequestFlow models: here those writes may happen at any time.     *)
(***************************************************************************)
EXTENDS Integers, FiniteSets, Sequences
LOCAL INSTANCE SequencesExt

CONSTANTS
  Candidates,     \* profile hashes of the other people
  Fit,            \* reciprocal score of each, in hundredths
  MIN_RECIPROCAL_SCORE, EXPOSURE_RECENT_PENALTY, EXPOSURE_LOW_BOOST,
  MAX_SUGGESTION_RESULTS,
  SUGGESTION_SEARCH_LIMIT, EXPOSURE_TOKEN_MAX,
  EXPOSURE_TOKEN_TTL, SUGGESTION_TTL, PAIR_LOCK_TTL, PAIR_DISMISS_COOLDOWN,
  Handlers,       \* handler invocations at a time
  Tasks,          \* bound: what each may be for, "search", "press" or "ask"
  MaxRefs,        \* bound: suggestions issued
  MaxMoves        \* bound: steps of others, losses, steps of time

ASSUME SuggestionAssumption ==
  /\ Fit \in [Candidates -> 0..100]
  /\ MAX_SUGGESTION_RESULTS \in 1..EXPOSURE_TOKEN_MAX
  /\ EXPOSURE_TOKEN_TTL \in Nat \ {0} /\ SUGGESTION_TTL \in Nat \ {0}
  /\ SUGGESTION_SEARCH_LIMIT \in Nat \ {0}
  /\ PAIR_DISMISS_COOLDOWN \in Nat /\ PAIR_LOCK_TTL \in 1..PAIR_DISMISS_COOLDOWN
  /\ Tasks \in [Handlers -> SUBSET {"search", "press", "ask"}]
  /\ MaxRefs \in Nat /\ MaxMoves \in Nat

Refs == 1..MaxRefs
NoRef == 0

VARIABLES
  listed,     \* profiles: those whose status is discoverable
  pairState,  \* pair_states: the pair with each candidate
  tickets,    \* suggestion_tickets
  exposure,   \* exposure_tokens, the oldest first
  budget,     \* rate_limits: the searches counted, and that their window is over
  intro,      \* drafts: the suggestion an intro is being written for
  offered,    \* suggestions whose message with its buttons has been sent
  handler,    \* program state of the invocations
  moves,      \* steps of others, losses and steps of time so far (bound)
  barred,     \* history: the time left of a dismissal that was completed
  witnessed   \* history: candidates found listed, and free, since a search began

sgVars == <<listed, pairState, tickets, exposure, budget, intro, offered, handler,
            moves, barred, witnessed>>

NoTicket == [status |-> "none", candidate |-> {}, ttl |-> 0]
UnknownPair == [state |-> "none", ttl |-> 0]
Resting == [pc |-> "idle", people |-> {}, refs |-> {}, seen |-> "none"]

UsableStatuses == {"created", "viewed"}
SettledStatuses == {"dismissed", "converted_to_request", "expired"}
SearchPC == {"loading", "pairing", "ranking", "issuing"}

SuggestionsTypeOK ==
  /\ listed \subseteq Candidates
  /\ pairState \in [Candidates -> [state : {"none", "pending", "cooldown"},
                                   ttl : 0..PAIR_DISMISS_COOLDOWN]]
  /\ tickets \in [Refs -> [status : {"none"} \cup UsableStatuses \cup SettledStatuses,
                           candidate : SUBSET Candidates, ttl : 0..SUGGESTION_TTL]]
  /\ exposure \in Seq([candidate : Candidates, ttl : 1..EXPOSURE_TOKEN_TTL])
  /\ budget \in [tokens : 0..SUGGESTION_SEARCH_LIMIT, over : BOOLEAN]
  /\ intro \in Refs \cup {NoRef} /\ offered \subseteq Refs
  /\ handler \in [Handlers ->
       [pc : SearchPC \cup {"idle", "recording", "showing", "dismissing", "cooling",
             "viewing", "opening", "prompting", "locking", "storing", "unlocking",
             "converting", "marking", "clearing"},
        people : SUBSET Candidates, refs : SUBSET Refs,
        seen : {"none"} \cup UsableStatuses]]
  /\ moves \in 0..MaxMoves
  /\ barred \in [Candidates -> 0..PAIR_DISMISS_COOLDOWN]
  /\ witnessed \in [Handlers -> [listed : SUBSET Candidates, free : SUBSET Candidates]]

SuggestionsInit ==
  /\ listed \in SUBSET Candidates
  /\ pairState = [c \in Candidates |-> UnknownPair]
  /\ tickets = [s \in Refs |-> NoTicket]
  /\ exposure = <<>>
  /\ budget = [tokens |-> 0, over |-> FALSE]
  /\ intro = NoRef /\ offered = {}
  /\ handler = [h \in Handlers |-> Resting] /\ moves = 0
  /\ barred = [c \in Candidates |-> 0]
  /\ witnessed = [h \in Handlers |-> [listed |-> {}, free |-> {}]]

-----------------------------------------------------------------------------
(* PairLedger, and the exposure tokens of UserState. *)

\* isPairStateBlocking and isActiveBlockingPairState.
PairBlocks(row) == row.state # "none" /\ row.ttl > 0

SetPair(c, state, ttl) ==
  pairState' = [pairState EXCEPT ![c] = [state |-> state, ttl |-> ttl]]

\* releasePairPending
ReleasePair(c) ==
  pairState' = IF pairState[c].state = "pending" /\ pairState[c].ttl > 0
               THEN [pairState EXCEPT ![c] = UnknownPair] ELSE pairState

Shown == {token.candidate : token \in ToSet(exposure)}

\* The tokens of a batch are of the same age: any order may be that of their
\* hashes.
Tokens(people) ==
  {[i \in 1..Cardinality(people) |-> [candidate |-> order[i], ttl |-> EXPOSURE_TOKEN_TTL]] :
     order \in SetToSeqs(people)}

Others(people) == SelectSeq(exposure, LAMBDA token : token.candidate \notin people)

\* recordExposureTokens
RecordExposureTokens(people) ==
  \E batch \in Tokens(people) :
    exposure' = LET all == Others(people) \o batch IN
                IF Len(all) <= EXPOSURE_TOKEN_MAX THEN all
                ELSE SubSeq(all, Len(all) - EXPOSURE_TOKEN_MAX + 1, Len(all))

-----------------------------------------------------------------------------
(* Suggestion tickets in the ConversationVault. *)

\* effectiveSuggestionStatus
Current(ticket) ==
  IF ticket.status \in UsableStatuses /\ ticket.ttl = 0 THEN "expired" ELSE ticket.status

\* Mutant of MayBecome: what is settled may be settled again.
MayBecomeAgain(current, next) == current # next

\* canTransitionSuggestionStatus
MayBecome(current, next) ==
  \/ current = "created" /\ next \in {"viewed"} \cup SettledStatuses
  \/ current = "viewed" /\ next \in SettledStatuses

\* The answer of setSuggestionStatus: "conflict" when the status is not the one
\* its caller has seen, or may not become the next one.
Accepts(s, next, expected) ==
  /\ expected \in {Current(tickets[s]), tickets[s].status}
  /\ Current(tickets[s]) = next \/ MayBecome(Current(tickets[s]), next)

\* setSuggestionStatus: what is refused is left alone.
SetSuggestionStatus(s, next, expected) ==
  tickets' = IF Accepts(s, next, expected)
             THEN [tickets EXCEPT ![s].status = next] ELSE tickets

\* getSuggestion writes an expiry down, and resolveSuggestionCapability
\* refuses what is settled.
GetSuggestion(s) == tickets' = [tickets EXCEPT ![s].status = Current(tickets[s])]
Usable(s) == Current(tickets[s]) \in UsableStatuses

CandidateOf(s) == CHOOSE c \in Candidates : c \in tickets[s].candidate

-----------------------------------------------------------------------------
(* A search. *)

HandlerAt(h, pc) == handler[h].pc = pc
Step(h, pc) == handler' = [handler EXCEPT ![h].pc = pc]
StepWith(h, pc, people) ==
  handler' = [handler EXCEPT ![h].pc = pc, ![h].people = people]
Finish(h) == handler' = [handler EXCEPT ![h] = Resting]

\* Goes on with the candidates that are left; "no_candidates" ends the search.
Narrow(h, pc, people) == IF people = {} THEN Finish(h) ELSE StepWith(h, pc, people)

\* consumeSuggestionSearch: the window counts from the last search that was let
\* through.  A search that is limited changes nothing.
SearchStarts(h) ==
  /\ HandlerAt(h, "idle") /\ "search" \in Tasks[h]
  /\ LET anew == budget.tokens = 0 \/ budget.over IN
     /\ anew \/ budget.tokens < SUGGESTION_SEARCH_LIMIT
     /\ budget' = [tokens |-> IF anew THEN 1 ELSE budget.tokens + 1, over |-> FALSE]
  /\ Step(h, "loading")
  /\ UNCHANGED <<listed, pairState, tickets, exposure, intro, offered>>

\* queryDualChannelVectorHits, whose answer is any set of hits, also of
\* profiles that are not discoverable any more.
Hits == SUBSET Candidates

\* Mutant of LoadProfiles: the status of the profile is not looked at.
LoadProfilesUnfiltered(h) ==
  /\ HandlerAt(h, "loading")
  /\ \E hits \in Hits : Narrow(h, "pairing", hits)
  /\ UNCHANGED <<listed, pairState, tickets, exposure, budget, intro, offered>>

\* resolveCandidateProfiles: the routes of the hits are active as long as the
\* profile can be discoverable.
LoadProfiles(h) ==
  /\ HandlerAt(h, "loading")
  /\ \E hits \in Hits : Narrow(h, "pairing", hits \cap listed)
  /\ UNCHANGED <<listed, pairState, tickets, exposure, budget, intro, offered>>

\* getPairStatesBatch and filterEligibleCandidates.
ReadPairs(h) ==
  /\ HandlerAt(h, "pairing")
  /\ Narrow(h, "ranking", {c \in handler[h].people : ~ PairBlocks(pairState[c])})
  /\ UNCHANGED <<listed, pairState, tickets, exposure, budget, intro, offered>>

\* applyExposureAdjustments; the intent adjustment is part of Fit.
Adjusted(c) ==
  LET score == Fit[c] + (IF c \in Shown THEN - EXPOSURE_RECENT_PENALTY
                         ELSE EXPOSURE_LOW_BOOST)
  IN IF score < 0 THEN 0 ELSE IF score > 100 THEN 100 ELSE score

\* The first n of people by their score; equal ones in the order of their hashes.
Best(people, n) ==
  {B \in SUBSET people :
     /\ Cardinality(B) = IF Cardinality(people) < n THEN Cardinality(people) ELSE n
     /\ \A c \in B, d \in people \ B : Adjusted(c) >= Adjusted(d)}

\* selectSuggestionResults: one of those below the floor is added when there is
\* room, the one found through both channels or the best.
Selections(people) ==
  LET above == {c \in people : Fit[c] >= MIN_RECIPROCAL_SCORE}
      below == people \ above
  IN IF above = {} \/ below = {} \/ Cardinality(above) >= MAX_SUGGESTION_RESULTS
     THEN Best(IF above = {} THEN people ELSE above, MAX_SUGGESTION_RESULTS)
     ELSE {above \cup {c} : c \in below}

\* getActiveExposureTokens, which ranks as if nobody had been shown when it
\* fails, and rerankWithExposure.
Rank(h) ==
  /\ HandlerAt(h, "ranking")
  /\ \E chosen \in Selections(handler[h].people) : StepWith(h, "issuing", chosen)
  /\ UNCHANGED <<listed, pairState, tickets, exposure, budget, intro, offered>>

\* randomSuggestionRef: the refs are numbered as they are drawn.
NextRef == 1 + Cardinality({s \in Refs : tickets[s].status # "none"})

\* issueSuggestionTicket, for each candidate; the lifetime counts from here.
Issue(h) ==
  /\ HandlerAt(h, "issuing")
  /\ \E c \in handler[h].people :
       LET s == NextRef IN
       /\ s \in Refs
       /\ tickets' = [tickets EXCEPT ![s] =
            [status |-> "created", candidate |-> {c}, ttl |-> SUGGESTION_TTL]]
       /\ handler' = [handler EXCEPT
            ![h].people = @ \ {c}, ![h].refs = @ \cup {s},
            ![h].pc = IF handler[h].people = {c} THEN "recording" ELSE "issuing"]
  /\ UNCHANGED <<listed, pairState, exposure, budget, intro, offered>>

\* recordSuggestionExposure: one call for all of them.
Record(h) ==
  /\ HandlerAt(h, "recording")
  /\ RecordExposureTokens({CandidateOf(s) : s \in handler[h].refs})
  /\ Step(h, "showing")
  /\ UNCHANGED <<listed, pairState, tickets, budget, intro, offered>>

\* A message with buttons for each suggestion.
Show(h) ==
  /\ HandlerAt(h, "showing")
  /\ \E s \in handler[h].refs :
       /\ offered' = offered \cup {s}
       /\ IF handler[h].refs = {s} THEN Finish(h)
          ELSE handler' = [handler EXCEPT ![h].refs = @ \ {s}]
  /\ UNCHANGED <<listed, pairState, tickets, exposure, budget, intro>>

-----------------------------------------------------------------------------
(* The buttons of a suggestion, and the intro. *)

\* resolveSuggestionCapability at the start of a handler.
Resolves(h, s, pc) ==
  /\ HandlerAt(h, "idle") /\ "press" \in Tasks[h] /\ s \in offered
  /\ GetSuggestion(s)
  /\ handler' = IF Usable(s)
                THEN [handler EXCEPT ![h] = [Resting EXCEPT !.pc = pc, !.refs = {s},
                                             !.seen = tickets[s].status]]
                ELSE handler
  /\ UNCHANGED <<listed, pairState, exposure, budget, intro, offered>>

TheRef(h) == CHOOSE s \in Refs : s \in handler[h].refs

\* setSuggestionStatus of the client throws what the object refuses: the button
\* is answered with an error, and nothing of its handler follows.
SetOrEnd(h, next, pc) ==
  /\ SetSuggestionStatus(TheRef(h), next, handler[h].seen)
  /\ IF Accepts(TheRef(h), next, handler[h].seen) THEN Step(h, pc) ELSE Finish(h)

\* Mutant of DismissSets: a refusal is not heeded.
DismissSetsRegardless(h) ==
  /\ HandlerAt(h, "dismissing")
  /\ SetSuggestionStatus(TheRef(h), "dismissed", handler[h].seen)
  /\ Step(h, "cooling")
  /\ UNCHANGED <<listed, pairState, exposure, budget, intro, offered>>

\* dismissSuggestionTicket.  It reads the ticket once more before, for the tag of
\* the pair; that can write down an expiry, which Current tells as well.
DismissSets(h) ==
  /\ HandlerAt(h, "dismissing")
  /\ SetOrEnd(h, "dismissed", "cooling")
  /\ UNCHANGED <<listed, pairState, exposure, budget, intro, offered>>

DismissCools(h) ==
  /\ HandlerAt(h, "cooling")
  /\ LET c == CandidateOf(TheRef(h)) IN
     /\ SetPair(c, "cooldown", PAIR_DISMISS_COOLDOWN)
     /\ barred' = [barred EXCEPT ![c] = PAIR_DISMISS_COOLDOWN]
  /\ Finish(h)
  /\ UNCHANGED <<listed, tickets, exposure, budget, intro, offered>>

FoundViewed(h) == handler[h].seen = "viewed"

\* markSuggestionViewed, by the open and by the request button: what was found
\* viewed is not set again, and only the request button goes on.
ViewSets(h) ==
  /\ \/ /\ HandlerAt(h, "opening")
        /\ IF FoundViewed(h) THEN Step(h, "prompting") /\ UNCHANGED tickets
           ELSE SetOrEnd(h, "viewed", "prompting")
     \/ /\ HandlerAt(h, "viewing")
        /\ IF FoundViewed(h) THEN UNCHANGED tickets
           ELSE SetSuggestionStatus(TheRef(h), "viewed", handler[h].seen)
        /\ Finish(h)
  /\ UNCHANGED <<listed, pairState, exposure, budget, intro, offered>>

\* setDraft
Prompt(h) ==
  /\ HandlerAt(h, "prompting")
  /\ intro' = TheRef(h)
  /\ Finish(h)
  /\ UNCHANGED <<listed, pairState, tickets, exposure, budget, offered>>

\* handleConversationIntroInput: resolveSuggestionRoute; the draft is cleared
\* whatever the answer.
AskResolves(h) ==
  /\ HandlerAt(h, "idle") /\ "ask" \in Tasks[h] /\ intro # NoRef
  /\ GetSuggestion(intro)
  /\ handler' = [handler EXCEPT ![h] = [Resting EXCEPT !.refs = {intro},
                   !.pc = IF Usable(intro) THEN "locking" ELSE "clearing"]]
  /\ UNCHANGED <<listed, pairState, exposure, budget, intro, offered>>

\* An intro that is empty or too long, or whose author has no profile that is
\* ready, is refused; handleMessage clears the draft all the same.
AskRefused(h) ==
  /\ HandlerAt(h, "idle") /\ "ask" \in Tasks[h] /\ intro # NoRef
  /\ handler' = [handler EXCEPT ![h] = [Resting EXCEPT !.refs = {intro}, !.pc = "clearing"]]
  /\ UNCHANGED <<listed, pairState, tickets, exposure, budget, intro, offered>>

\* Mutant of AskLocks: the pair is not looked at.
AskLocksUnchecked(h) ==
  /\ HandlerAt(h, "locking")
  /\ SetPair(CandidateOf(TheRef(h)), "pending", PAIR_LOCK_TTL)
  /\ Step(h, "storing")
  /\ UNCHANGED <<listed, tickets, exposure, budget, intro, offered>>

\* createConversationRequest, up to acquirePairPending: another gate may refuse.
AskLocks(h) ==
  /\ HandlerAt(h, "locking")
  /\ LET c == CandidateOf(TheRef(h)) IN
     \/ /\ ~ PairBlocks(pairState[c])
        /\ SetPair(c, "pending", PAIR_LOCK_TTL)
        /\ Step(h, "storing")
     \/ Step(h, "clearing") /\ UNCHANGED pairState
  /\ UNCHANGED <<listed, tickets, exposure, budget, intro, offered>>

\* storeRequest, or its failure.
AskStores(h) ==
  /\ HandlerAt(h, "storing")
  /\ Step(h, "converting") \/ Step(h, "unlocking")
  /\ UNCHANGED <<listed, pairState, tickets, exposure, budget, intro, offered>>

AskUnlocks(h) ==
  /\ HandlerAt(h, "unlocking")
  /\ ReleasePair(CandidateOf(TheRef(h)))
  /\ Step(h, "clearing")
  /\ UNCHANGED <<listed, tickets, exposure, budget, intro, offered>>

\* markSuggestionConvertedToRequest; a failure is logged.
ConvertResolves(h) ==
  /\ HandlerAt(h, "converting")
  /\ GetSuggestion(TheRef(h))
  /\ handler' = [handler EXCEPT
       ![h].pc = IF Usable(TheRef(h)) THEN "marking" ELSE "clearing",
       ![h].seen = IF Usable(TheRef(h)) THEN tickets[TheRef(h)].status ELSE "none"]
  /\ UNCHANGED <<listed, pairState, exposure, budget, intro, offered>>

\* A refusal is logged too.
ConvertSets(h) ==
  /\ HandlerAt(h, "marking")
  /\ SetSuggestionStatus(TheRef(h), "converted_to_request", handler[h].seen)
  /\ Step(h, "clearing")
  /\ UNCHANGED <<listed, pairState, exposure, budget, intro, offered>>

\* clearDraft
ClearIntro(h) ==
  /\ HandlerAt(h, "clearing")
  /\ intro' = NoRef
  /\ Finish(h)
  /\ UNCHANGED <<listed, pairState, tickets, exposure, budget, offered>>

\* The invocation is lost, or its next call throws.
SuggestionLost(h) ==
  /\ ~ HandlerAt(h, "idle")
  /\ Finish(h)
  /\ UNCHANGED <<listed, pairState, tickets, exposure, budget, intro, offered>>

-----------------------------------------------------------------------------
(* Everything else. *)

\* A candidate shows or hides a profile.
Relist ==
  /\ \E c \in Candidates : listed' \in {listed \cup {c}, listed \ {c}}
  /\ UNCHANGED <<pairState, tickets, exposure, budget, intro, offered, handler, barred>>

\* The requests between the pair: locked by the other side, released, or
\* answered, with a cooldown that is no shorter than that of a dismissal.
PairMoves ==
  /\ \E c \in Candidates :
       \/ ~ PairBlocks(pairState[c]) /\ SetPair(c, "pending", PAIR_LOCK_TTL)
       \/ ReleasePair(c)
       \/ pairState[c].state = "pending" /\ SetPair(c, "cooldown", PAIR_DISMISS_COOLDOWN)
  /\ UNCHANGED <<listed, tickets, exposure, budget, intro, offered, handler, barred>>

Less(n) == IF n > 0 THEN n - 1 ELSE 0

\* Time passes, longer than the window of the search budget.
Pass ==
  /\ pairState' = [c \in Candidates |-> [pairState[c] EXCEPT !.ttl = Less(@)]]
  /\ tickets' = [s \in Refs |-> [tickets[s] EXCEPT !.ttl = Less(@)]]
  /\ exposure' = LET older == [i \in DOMAIN exposure |-> [exposure[i] EXCEPT !.ttl = @ - 1]]
                 IN SelectSeq(older, LAMBDA token : token.ttl > 0)
  /\ barred' = [c \in Candidates |-> Less(barred[c])]
  /\ budget' = [budget EXCEPT !.over = budget.tokens > 0]
  /\ UNCHANGED <<listed, intro, offered, handler>>

Search(h) ==
  \/ SearchStarts(h) \/ LoadProfiles(h) \/ ReadPairs(h) \/ Rank(h)
  \/ Issue(h) \/ Record(h) \/ Show(h)

Press(h) ==
  \/ \E s \in Refs, pc \in {"dismissing", "viewing", "opening"} : Resolves(h, s, pc)
  \/ DismissSets(h) \/ ViewSets(h) \/ Prompt(h)

Ask(h) ==
  \/ AskResolves(h) \/ AskRefused(h) \/ AskLocks(h) \/ AskStores(h) \/ AskUnlocks(h)
  \/ ConvertResolves(h) \/ ConvertSets(h) \/ ClearIntro(h)

Free(c) == barred[c] = 0 /\ ~ PairBlocks(pairState[c])

\* What a search might have found at some moment since it began.
WitnessSearch ==
  witnessed' = [h \in Handlers |->
    IF handler'[h].pc \notin SearchPC THEN [listed |-> {}, free |-> {}]
    ELSE [listed |-> witnessed[h].listed \cup listed,
          free |-> witnessed[h].free \cup {c \in Candidates : Free(c)}]]

Handling ==
  \/ \E h \in Handlers : (Search(h) \/ Press(h) \/ Ask(h)) /\ UNCHANGED barred
  \/ \E h \in Handlers : DismissCools(h)

Moving ==
  \/ \E h \in Handlers : SuggestionLost(h) /\ UNCHANGED barred
  \/ Relist \/ PairMoves \/ Pass

SuggestionsNext ==
  /\ \/ Handling /\ UNCHANGED moves
     \/ moves < MaxMoves /\ moves' = moves + 1 /\ Moving
  /\ WitnessSearch

SuggestionsSpec == SuggestionsInit /\ [][SuggestionsNext]_sgVars

-----------------------------------------------------------------------------
(* Correctness. *)

Issued(s) == tickets[s].status = "none" /\ tickets'[s].status # "none"

\* A person is suggested only if, at some moment since that search began, the
\* profile was discoverable and, at some moment, the pair was neither locked,
\* nor in a cooldown, nor dismissed: whatever changed while the search was
\* under way, nothing that was over before it counts
\* (docs/conversation-suggestions.md:120-137, but for the gates of that list
\* that the search leaves to the request: safety, and who can receive).
SuggestedWasEligible ==
  [][\A s \in Refs : Issued(s) =>
       \E h \in Handlers, c \in tickets'[s].candidate :
         /\ HandlerAt(h, "issuing") /\ c \in handler[h].people
         /\ c \in witnessed[h].listed \cap witnessed[h].free]_sgVars

\* Once a suggestion has been dismissed, the person is not asked again, not
\* even through another suggestion or an intro begun before, until the
\* cooldown has run out; and nobody is set aside by a dismissal that was
\* refused, because the suggestion had become a request or had expired since
\* the button was pressed (suggestion-service.ts:180-210).
DismissedIsLeftAlone ==
  [][\A c \in Candidates : barred[c] > 0 =>
       /\ pairState[c].state = "cooldown" /\ pairState'[c].state = "cooldown"
       /\ \E s \in Refs : tickets[s].status = "dismissed" /\ c \in tickets[s].candidate]_sgVars

\* A suggestion that was dismissed, that became a request, or whose time is up
\* keeps its fate: not even a button whose handler began before it expired, or
\* before another button settled it, changes what it has become.
SuggestionFateStands ==
  [][\A s \in Refs : Current(tickets[s]) \in SettledStatuses =>
       Current(tickets'[s]) = Current(tickets[s])]_sgVars
=============================================================================
