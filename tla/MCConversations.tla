---------------------------- MODULE MCConversations ----------------------------
(* Two calls on the two requests of a pair, and two invocations for the    *)
(* suggestions of a person with two candidates.  Suggestions lets the      *)
(* requests write the rows of the pairs at any time, so the two are        *)
(* explored apart.                                                         *)
EXTENDS RequestFlow, Suggestions, TLC

CONSTANTS r1, r2, c1, c2, p1, p2, s1, s2

VARIABLE part

mcVars == <<vars, sgVars, part>>

TwoRequests == {r1, r2}
TwoCallers == {c1, c2}
AllSymmetry == Permutations(TwoRequests) \cup Permutations(TwoCallers)

TwoCandidates == {p1, p2}
OneGoodFit == [c \in TwoCandidates |-> IF c = p1 THEN 60 ELSE 20]
TwoHandlers == {s1, s2}
SearchAndAsk ==
  [h \in TwoHandlers |-> {"press"} \cup IF h = s1 THEN {"search"} ELSE {"ask"}]

MCInit == Init /\ SuggestionsInit /\ listed = Candidates
          /\ part \in {"requests", "suggestions"}

MCNext ==
  \/ part = "requests" /\ Next /\ UNCHANGED <<sgVars, part>>
  \/ part = "suggestions" /\ SuggestionsNext /\ UNCHANGED <<vars, part>>

MCSpec == MCInit /\ [][MCNext]_mcVars

\* Every variable of both parts keeps its type: the type invariants of the
\* modules.
TypesOK == TypeOK /\ SuggestionsTypeOK
=============================================================================
