----------------------------- MODULE SafetyState -----------------------------
(***************************************************************************)
(* The SafetyState Durable Object of one subject                           *)
(* (src/storage/safety-state.do.ts): the blind reports about it and the    *)
(* sanction they lead to.  Sanctions end by being looked at: refresh moves *)
(* an overdue sanction one phase on, whenever some call comes, and stamps  *)
(* the new phase with that moment.                                         *)
(*                                                                         *)
(* Times are ages: age of a report is now - created_at, phase is           *)
(* now - updated_at, both up to REPORT_EVENT_RETENTION; suspension and     *)
(* probation are the time left to suspended_until and probation_until.     *)
(* One tick is the least difference of two timestamps, so a report counts  *)
(* in the phase it begins.  create-blind-report.ts derives the tags of a   *)
(* report from who reports which ticket: the event tag from both, so that  *)
(* a report repeated is known, and the reporter's tag from the person      *)
(* alone, so that two tickets make one reporter.                           *)
(***************************************************************************)
EXTENDS Integers, FiniteSets

CONSTANTS
  Reports,        \* reports that can be made: pairs of actor and ticket
  FIRST_STRIKE_WINDOW, FIRST_STRIKE_UNIQUE_REPORTERS,
  FIRST_SUSPENSION_DURATION, PROBATION_DURATION,
  PROBATION_WINDOW, PROBATION_UNIQUE_REPORTERS,
  REPORT_EVENT_RETENTION

ASSUME SafetyAssumption ==
  /\ IsFiniteSet(Reports)
  /\ FIRST_STRIKE_WINDOW \in Nat /\ PROBATION_WINDOW \in Nat
  /\ FIRST_STRIKE_UNIQUE_REPORTERS \in Nat \ {0}
  /\ PROBATION_UNIQUE_REPORTERS \in Nat \ {0}
  /\ FIRST_SUSPENSION_DURATION \in Nat \ {0}
  /\ PROBATION_DURATION \in Nat \ {0}
  /\ REPORT_EVENT_RETENTION \in Nat \ {0}
  /\ FIRST_STRIKE_WINDOW < REPORT_EVENT_RETENTION
  /\ PROBATION_WINDOW < REPORT_EVENT_RETENTION

VARIABLES
  reports,    \* report_events: the age of each report, or Absent
  sanction,   \* sanction_state, and whether the row is stored
  valid,      \* history: reports of the present phase that may still count
  punished    \* history: suspended since an operator last cleared it

safetyVars == <<reports, sanction, valid, punished>>

\* createReporterSubjectTag; the event tag is the pair itself.
ReporterOf(e) == e[1]

Absent == -1
Ages == 0..REPORT_EVENT_RETENTION
Whole == FIRST_SUSPENSION_DURATION + PROBATION_DURATION

Older(age) == IF age < REPORT_EVENT_RETENTION THEN age + 1 ELSE age

SafetyTypeOK ==
  /\ reports \in [Reports -> Ages \cup {Absent}]
  /\ sanction \in [status : {"clear", "suspended", "probation", "banned"},
                   strikes : {0, 1}, stored : BOOLEAN, phase : Ages,
                   suspension : 0..FIRST_SUSPENSION_DURATION,
                   probation : 0..Whole]
  /\ valid \in SUBSET Reports
  /\ punished \in BOOLEAN

\* Nothing stored: clear, and the phase began long ago.
SafetyInit ==
  /\ reports = [e \in Reports |-> Absent]
  /\ sanction = [status |-> "clear", strikes |-> 0, stored |-> FALSE,
                 phase |-> REPORT_EVENT_RETENTION,
                 suspension |-> 0, probation |-> 0]
  /\ valid = {}
  /\ punished = FALSE

-----------------------------------------------------------------------------
\* saveSanction of a row in a new phase, with updated_at = now.
Phase(status, strikes, suspension, probation) ==
  [status |-> status, strikes |-> strikes, stored |-> TRUE, phase |-> 0,
   suspension |-> suspension, probation |-> probation]

\* Mutant of Refreshed: a suspension that ends keeps its updated_at.
RefreshedInPlace(s) ==
  IF s.status = "suspended" /\ s.suspension = 0
  THEN [s EXCEPT !.status = "probation"]
  ELSE IF s.status = "probation" /\ s.probation = 0
  THEN Phase("clear", s.strikes, 0, 0)
  ELSE s

\* refresh: one phase on, if the present one is overdue.
Refreshed(s) ==
  IF s.status = "suspended" /\ s.suspension = 0
  THEN Phase("probation", s.strikes, 0, s.probation)
  ELSE IF s.status = "probation" /\ s.probation = 0
  THEN Phase("clear", s.strikes, 0, 0)
  ELSE s

\* DELETE of the reports past their retention.
Retained ==
  [e \in Reports |-> IF reports[e] = REPORT_EVENT_RETENTION
                     THEN Absent ELSE reports[e]]

\* reportersSincePhase: distinct reporters in the window and in the phase.
ReportersSincePhase(rs, window, phase) ==
  {ReporterOf(e) : e \in {e \in Reports :
     rs[e] # Absent /\ rs[e] <= window /\ rs[e] <= phase}}

\* submitReport, probation.
OnProbation(s, rs) ==
  IF Cardinality(ReportersSincePhase(rs, PROBATION_WINDOW, s.phase))
       >= PROBATION_UNIQUE_REPORTERS
  THEN Phase("banned", s.strikes, 0, 0)
  ELSE s

\* submitReport, clear: the first report stores the beginning of the phase;
\* enough reporters earn a suspension, and a ban if there was one before.
OnClear(s, rs) ==
  LET begun == IF s.stored THEN s ELSE Phase("clear", s.strikes, 0, 0) IN
  IF Cardinality(ReportersSincePhase(rs, FIRST_STRIKE_WINDOW, begun.phase))
       < FIRST_STRIKE_UNIQUE_REPORTERS
  THEN begun
  ELSE IF s.strikes >= 1 THEN Phase("banned", s.strikes, 0, 0)
  ELSE Phase("suspended", 1, FIRST_SUSPENSION_DURATION, Whole)

Judged(s, rs) ==
  CASE s.status = "probation" -> OnProbation(s, rs)
    [] s.status = "clear" -> OnClear(s, rs)
    [] OTHER -> s

Rises(s, t) == t.status \in {"suspended", "banned"} /\ s.status # t.status

\* The reports of an instant that has passed are of an earlier phase.
Recent == {e \in valid : reports[e] = 0}

-----------------------------------------------------------------------------
\* getSafetyDecision, refreshExpiredSanction, and submitReport of a body that
\* is refused.
GetSafetyDecision ==
  /\ sanction' = Refreshed(sanction)
  /\ valid' = IF sanction' = sanction THEN valid ELSE Recent
  /\ UNCHANGED <<reports, punished>>

\* submitReport of an event tag that is known: a repeated report.
SubmitAgain(e) ==
  /\ Retained[e] # Absent
  /\ reports' = Retained
  /\ sanction' = Refreshed(sanction)
  /\ valid' = IF sanction' = sanction THEN valid ELSE Recent
  /\ UNCHANGED punished

\* submitReport of a new one.
SubmitReport(e) ==
  LET now == Refreshed(sanction) IN
  /\ Retained[e] = Absent
  /\ reports' = [Retained EXCEPT ![e] = 0]
  /\ sanction' = Judged(now, reports')
  /\ valid' = IF Rises(now, sanction') \/ now.status \in {"suspended", "banned"}
              THEN {}
              ELSE (IF now = sanction THEN valid ELSE Recent) \cup {e}
  /\ punished' = (punished \/ sanction'.status = "suspended")

\* createBlindReport: one person reports one ticket, perhaps again.
CreateBlindReport(e) == SubmitReport(e) \/ SubmitAgain(e)

\* operatorClearSanction: the only way back from a ban.
OperatorClearSanction ==
  /\ sanction' = Phase("clear", 0, 0, 0)
  /\ valid' = {e \in Reports : reports[e] = 0}
  /\ punished' = FALSE
  /\ UNCHANGED reports

SafetyTick ==
  /\ reports' = [e \in Reports |-> IF reports[e] = Absent THEN Absent
                                   ELSE Older(reports[e])]
  /\ sanction' = [sanction EXCEPT
       !.phase = Older(@),
       !.suspension = IF @ > 0 THEN @ - 1 ELSE 0,
       !.probation = IF @ > 0 THEN @ - 1 ELSE 0]
  /\ UNCHANGED <<valid, punished>>

SafetyNext ==
  \/ GetSafetyDecision
  \/ \E e \in Reports : CreateBlindReport(e)
  \/ OperatorClearSanction
  \/ SafetyTick

SafetySpec == SafetyInit /\ [][SafetyNext]_safetyVars

-----------------------------------------------------------------------------
(* Correctness. *)

\* A phase that is over: the next call ends it, and leaves it behind with
\* every report from before that call's instant.
Overdue ==
  \/ sanction.status = "suspended" /\ sanction.suspension = 0
  \/ sanction.status = "probation" /\ sanction.probation = 0

\* The next call finds the subject on probation.
OnTrial ==
  \/ sanction.status = "suspended" /\ sanction.suspension = 0
  \/ sanction.status = "probation" /\ sanction.probation > 0

\* Whoever reported within the window, the report e at hand included, and
\* whose report neither earned an earlier sanction, nor was made during a
\* suspension, nor is from before the present phase.
Fresh(e, window) ==
  {ReporterOf(f) : f \in {e} \cup
     {f \in IF Overdue THEN Recent ELSE valid : reports[f] \in 0..window}}

\* A sanction needs its own reporters: each suspension or ban is earned by
\* enough distinct people inside one phase and one window.  Nobody's second
\* ticket counts again, and no report counts toward two sanctions or from
\* before the sanction was lifted (safety-state.do.ts:193, 244-303).
SanctionNeedsReporters ==
  [][Rises(sanction, sanction') =>
       \E e \in Reports :
         /\ reports'[e] = 0
         /\ IF OnTrial
            THEN Cardinality(Fresh(e, PROBATION_WINDOW))
                   >= PROBATION_UNIQUE_REPORTERS
            ELSE Cardinality(Fresh(e, FIRST_STRIKE_WINDOW))
                   >= FIRST_STRIKE_UNIQUE_REPORTERS]_safetyVars

\* A subject is suspended once at most until an operator clears it: the
\* strike outlives the suspension and the probation, so the next time is a
\* ban, whichever calls happened to refresh the sanction in between.
OneSuspension ==
  [][sanction'.status = "suspended" /\ sanction.status # "suspended"
       => ~ punished]_safetyVars

\* Sanctions are earned, and are earned in turn.
SanctionIsEarned == SanctionNeedsReporters /\ OneSuspension
=============================================================================
