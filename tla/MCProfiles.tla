------------------------------ MODULE MCProfiles ------------------------------
(* The life of a person's profiles, and two buttons at a time of a         *)
(* questionnaire of two questions.  ProfileLife takes the session as begun *)
(* or not and may end it at any time, so the two are explored apart.       *)
EXTENDS MCProfileLife, Questionnaire

CONSTANTS h1, h2

VARIABLE part

mcVars == <<vars, questionnaireVars, part>>

TwoPresses == {h1, h2}

MCInit == Init /\ QuestionnaireInit /\ part \in {"profiles", "questionnaire"}

MCNext ==
  \/ part = "profiles" /\ Next /\ UNCHANGED <<questionnaireVars, part>>
  \/ part = "questionnaire" /\ QuestionnaireNext /\ UNCHANGED <<vars, part>>

MCSpec == MCInit /\ [][MCNext]_mcVars /\ WF_vars(Consume)

\* Every variable of both parts keeps its type: the type invariants of the
\* modules.
TypesOK == TypeOK /\ QuestionnaireTypeOK
=============================================================================
