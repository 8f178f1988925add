----------------------------- MODULE PeopleProofs -----------------------------
(***************************************************************************)
(* Proofs about what people may do to each other: the sanctions of one     *)
(* subject (SafetyState), for every set of reports and all windows,        *)
(* thresholds and durations, the dialogs of everybody (Chat), for any      *)
(* people and any number of handlers at a time, the consumer of the outbox *)
(* queue (OutboxLanes), for any messages, batch size, number of retries    *)
(* and concurrency, and the three of them beside the ticket vault.         *)
(*                                                                         *)
(* Sanctions.  The code counts the reports that are no older than the      *)
(* phase; that these are reports that may still count (Covered) is what    *)
(* makes it right to stamp every new phase, the ones a late look begins    *)
(* included, with the present moment.                                      *)
(*                                                                         *)
(* Dialogs.  A handler decides by what it read some awaits before.  What   *)
(* it relies on at each step was so at some moment since it began (Terms), *)
(* whatever others wrote in between, because a block is kept under a tag   *)
(* that a reset does not change (blocks = refuses).                        *)
(*                                                                         *)
(* The consumer.  Marked says of every message that is out of its lane why: *)
(* it has its outcome, or it will be retried and so will the telegram jobs *)
(* behind it.                                                              *)
(***************************************************************************)
EXTENDS MCTicketVault, TicketVaultProofs, FiniteSetTheorems, SequenceTheorems

-----------------------------------------------------------------------------
(* Sanctions: the invariant. *)

\* What the code will count may count.
Covered ==
  sanction.status \in {"clear", "probation"} =>
    \A f \in Reports : reports[f] \in 0..(REPORT_EVENT_RETENTION - 1)
                       /\ reports[f] <= sanction.phase => f \in valid

\* Nobody has been heard in the instant in which a suspension runs out.
SilentEnd ==
  sanction.status = "suspended" /\ sanction.suspension = 0 =>
    \A f \in Reports : reports[f] # 0

\* The strike is remembered.
StrikeStands ==
  /\ sanction.status = "suspended" => punished
  /\ punished => sanction.strikes = 1

SafetyInv == SafetyTypeOK /\ Covered /\ SilentEnd /\ StrikeStands

Sanction ==
  [status : {"clear", "suspended", "probation", "banned"},
   strikes : {0, 1}, stored : BOOLEAN, phase : Ages,
   suspension : 0..FIRST_SUSPENSION_DURATION, probation : 0..Whole]

-----------------------------------------------------------------------------
(* What the operators return. *)

LEMMA PhaseType ==
  ASSUME NEW status \in {"clear", "suspended", "probation", "banned"},
         NEW strikes \in {0, 1},
         NEW suspension \in 0..FIRST_SUSPENSION_DURATION,
         NEW probation \in 0..Whole
  PROVE  /\ Phase(status, strikes, suspension, probation) \in Sanction
         /\ Phase(status, strikes, suspension, probation).status = status
         /\ Phase(status, strikes, suspension, probation).strikes = strikes
         /\ Phase(status, strikes, suspension, probation).phase = 0
         /\ Phase(status, strikes, suspension, probation).suspension = suspension
BY SafetyAssumption DEF Phase, Sanction, Ages

LEMMA Durations ==
  /\ 0 \in 0..FIRST_SUSPENSION_DURATION /\ 0 \in 0..Whole /\ Whole \in 0..Whole
  /\ FIRST_SUSPENSION_DURATION \in 0..FIRST_SUSPENSION_DURATION
  /\ FIRST_SUSPENSION_DURATION # 0
  /\ 0 \in Ages /\ Absent \notin Ages
BY SafetyAssumption DEF Whole, Ages, Absent

\* refresh either leaves a sanction that is not overdue alone, or begins the
\* phase that follows.
LEMMA RefreshedCases ==
  ASSUME NEW s \in Sanction
  PROVE  /\ Refreshed(s) \in Sanction /\ Refreshed(s).strikes = s.strikes
         /\ \/ /\ Refreshed(s) = s
               /\ ~ (s.status = "suspended" /\ s.suspension = 0)
               /\ ~ (s.status = "probation" /\ s.probation = 0)
            \/ /\ s.status = "suspended" /\ s.suspension = 0
               /\ Refreshed(s).status = "probation" /\ Refreshed(s).phase = 0
            \/ /\ s.status = "probation" /\ s.probation = 0
               /\ Refreshed(s).status = "clear" /\ Refreshed(s).phase = 0
<1>1. CASE s.status = "suspended" /\ s.suspension = 0
  <2>1. /\ s.strikes \in {0, 1} /\ s.probation \in 0..Whole
        /\ Refreshed(s) = Phase("probation", s.strikes, 0, s.probation)
    BY <1>1 DEF Refreshed, Sanction
  <2> QED BY <2>1, <1>1, PhaseType, Durations
<1>2. CASE s.status = "probation" /\ s.probation = 0
  <2>1. s.strikes \in {0, 1} /\ Refreshed(s) = Phase("clear", s.strikes, 0, 0)
    BY <1>2 DEF Refreshed, Sanction
  <2> QED BY <2>1, <1>2, PhaseType, Durations
<1>3. CASE /\ ~ (s.status = "suspended" /\ s.suspension = 0)
           /\ ~ (s.status = "probation" /\ s.probation = 0)
  BY <1>3 DEF Refreshed
<1> QED BY <1>1, <1>2, <1>3

Reporters == {ReporterOf(f) : f \in Reports}

LEMMA ReportersFinite == IsFiniteSet(Reporters)
<1> DEFINE by == [f \in Reports |-> ReporterOf(f)]
<1>1. by \in Surjection(Reports, Reporters)
  BY DEF Surjection, Reporters
<1> QED BY <1>1, FS_Surjection, SafetyAssumption

LEMMA MoreReporters ==
  ASSUME NEW S \in SUBSET Reporters, NEW T \in SUBSET S
  PROVE  Cardinality(T) \in Nat /\ Cardinality(S) \in Nat
         /\ Cardinality(T) <= Cardinality(S)
<1>1. IsFiniteSet(S)
  BY ReportersFinite, FS_Subset
<1>2. IsFiniteSet(T)
  BY <1>1, FS_Subset
<1> QED BY <1>1, <1>2, FS_Subset, FS_CardinalityType

\* What a judgement needs, and what it makes of a sanction: a rise is earned
\* inside the phase of the sanction that is judged, or in its first instant.
Enough(s, rs) ==
  IF s.status = "probation"
  THEN Cardinality(ReportersSincePhase(rs, PROBATION_WINDOW, s.phase))
         >= PROBATION_UNIQUE_REPORTERS
  ELSE \E phase \in {0, s.phase} :
         Cardinality(ReportersSincePhase(rs, FIRST_STRIKE_WINDOW, phase))
           >= FIRST_STRIKE_UNIQUE_REPORTERS

LEMMA JudgedCases ==
  ASSUME NEW s \in Sanction, NEW rs
  PROVE  /\ Judged(s, rs) \in Sanction
         /\ Judged(s, rs).status = s.status =>
              /\ Judged(s, rs).phase \in {0, s.phase}
              /\ Judged(s, rs).strikes = s.strikes
              /\ s.status # "clear" => Judged(s, rs) = s
         /\ Judged(s, rs).status # s.status =>
              /\ s.status \in {"clear", "probation"} /\ Enough(s, rs)
              /\ \/ Judged(s, rs).status = "banned" /\ Judged(s, rs).strikes = s.strikes
                 \/ /\ Judged(s, rs).status = "suspended" /\ s.strikes = 0
                    /\ Judged(s, rs).strikes = 1 /\ Judged(s, rs).suspension # 0
<1>0. s.strikes \in {0, 1} /\ s.phase \in Ages
  BY DEF Sanction
<1>1. CASE s.status = "probation"
  <2>1. Judged(s, rs) = OnProbation(s, rs)
    BY <1>1 DEF Judged
  <2>2. CASE Cardinality(ReportersSincePhase(rs, PROBATION_WINDOW, s.phase))
               >= PROBATION_UNIQUE_REPORTERS
    <3>1. Judged(s, rs) = Phase("banned", s.strikes, 0, 0)
      BY <2>1, <2>2 DEF OnProbation
    <3> QED BY <3>1, <1>0, <1>1, <2>2, PhaseType, Durations DEF Enough
  <2>3. CASE ~ (Cardinality(ReportersSincePhase(rs, PROBATION_WINDOW, s.phase))
                  >= PROBATION_UNIQUE_REPORTERS)
    BY <2>1, <2>3 DEF OnProbation
  <2> QED BY <2>2, <2>3
<1>2. CASE s.status = "clear"
  <2> DEFINE begun == IF s.stored THEN s ELSE Phase("clear", s.strikes, 0, 0)
             few == Cardinality(ReportersSincePhase(rs, FIRST_STRIKE_WINDOW, begun.phase))
                      < FIRST_STRIKE_UNIQUE_REPORTERS
  <2>1. Judged(s, rs) = OnClear(s, rs)
    BY <1>2 DEF Judged
  <2>2. /\ begun \in Sanction /\ begun.phase \in {0, s.phase}
        /\ begun.status = "clear" /\ begun.strikes = s.strikes
    BY <1>0, <1>2, PhaseType, Durations
  <2>3. CASE few
    BY <2>1, <2>2, <2>3, <1>2 DEF OnClear
  <2>4. CASE ~ few
    <3> DEFINE all == ReportersSincePhase(rs, FIRST_STRIKE_WINDOW, begun.phase)
    <3>0. all \in SUBSET Reporters
      BY DEF ReportersSincePhase, Reporters
    <3>1. Cardinality(all) \in Nat
      BY <3>0, MoreReporters
    <3>2. Cardinality(all) >= FIRST_STRIKE_UNIQUE_REPORTERS
      BY <3>1, <2>4, SafetyAssumption
    <3>3. Enough(s, rs)
      BY <3>2, <2>2, <1>2 DEF Enough
    <3>4. CASE s.strikes = 1
      <4>1. Judged(s, rs) = Phase("banned", s.strikes, 0, 0)
        BY <2>1, <2>4, <3>4 DEF OnClear
      <4> QED BY <4>1, <3>3, <1>0, <1>2, PhaseType, Durations
    <3>5. CASE s.strikes = 0
      <4>1. Judged(s, rs) = Phase("suspended", 1, FIRST_SUSPENSION_DURATION, Whole)
        BY <2>1, <2>4, <3>5 DEF OnClear
      <4> QED BY <4>1, <3>3, <3>5, <1>2, PhaseType, Durations
    <3> QED BY <3>4, <3>5, <1>0
  <2> QED BY <2>3, <2>4
<1>3. CASE s.status \notin {"clear", "probation"}
  BY <1>3 DEF Judged
<1> QED BY <1>1, <1>2, <1>3

LEMMA RetainedType ==
  ASSUME reports \in [Reports -> Ages \cup {Absent}], NEW f \in Reports
  PROVE  /\ Retained \in [Reports -> Ages \cup {Absent}]
         /\ Retained[f] # Absent =>
              Retained[f] = reports[f] /\ reports[f] \in 0..(REPORT_EVENT_RETENTION - 1)
BY SafetyAssumption DEF Retained, Ages, Absent

-----------------------------------------------------------------------------
(* The reports that count after a look at the sanction. *)

\* valid after the refresh that every call begins with.
StillValid == IF Refreshed(sanction) = sanction THEN valid ELSE Recent

LEMMA RefreshCovers ==
  ASSUME SafetyInv, Refreshed(sanction).status \in {"clear", "probation"},
         NEW f \in Reports, reports[f] \in 0..(REPORT_EVENT_RETENTION - 1),
         reports[f] <= Refreshed(sanction).phase
  PROVE  f \in StillValid /\ (Overdue => reports[f] = 0 /\ f \in Recent)
<1>0. sanction \in Sanction
  BY DEF SafetyInv, SafetyTypeOK, Sanction
<1>1. CASE /\ Refreshed(sanction) = sanction
           /\ ~ (sanction.status = "suspended" /\ sanction.suspension = 0)
           /\ ~ (sanction.status = "probation" /\ sanction.probation = 0)
  BY <1>1 DEF SafetyInv, Covered, StillValid, Overdue
<1>2. CASE sanction.status = "suspended" /\ sanction.suspension = 0
           /\ Refreshed(sanction).phase = 0
  BY <1>2, SafetyAssumption DEF SafetyInv, SilentEnd
<1>3. CASE sanction.status = "probation" /\ sanction.probation = 0
           /\ Refreshed(sanction).phase = 0 /\ Refreshed(sanction).status = "clear"
  <2>1. reports[f] = 0 /\ sanction.phase \in Nat
    BY <1>3, <1>0, SafetyAssumption DEF Sanction, Ages
  <2>2. f \in valid
    BY <1>3, <2>1 DEF SafetyInv, Covered
  <2>3. f \in Recent
    BY <2>1, <2>2 DEF Recent
  <2> QED BY <1>3, <2>1, <2>2, <2>3 DEF StillValid
<1> QED BY <1>0, <1>1, <1>2, <1>3, RefreshedCases

\* The sanction is refreshed, and the reports only lose what is past retention.
LEMMA Refreshes ==
  ASSUME SafetyInv, SafetyTypeOK', sanction' = Refreshed(sanction), valid' = StillValid,
         punished' = punished,
         \A f \in Reports : reports'[f] # Absent => reports'[f] = reports[f]
  PROVE  SafetyInv'
<1>0. sanction \in Sanction /\ sanction' \in Sanction
  BY DEF SafetyInv, SafetyTypeOK, Sanction
<1>1. Covered'
  <2> SUFFICES ASSUME sanction'.status \in {"clear", "probation"}, NEW f \in Reports,
                      reports'[f] \in 0..(REPORT_EVENT_RETENTION - 1),
                      reports'[f] <= sanction'.phase
               PROVE  f \in valid'
    BY DEF Covered
  <2>1. reports'[f] = reports[f]
    BY SafetyAssumption DEF Absent
  <2> QED BY <2>1, RefreshCovers
<1>2. SilentEnd'
  <2>1. sanction'.status = "suspended" => sanction' = sanction
    BY <1>0, RefreshedCases
  <2>2. \A f \in Reports : reports'[f] = 0 => reports[f] = 0
    BY DEF Absent
  <2> QED BY <2>1, <2>2 DEF SafetyInv, SilentEnd
<1>3. StrikeStands'
  BY <1>0, RefreshedCases DEF SafetyInv, StrikeStands
<1> QED BY <1>1, <1>2, <1>3 DEF SafetyInv

-----------------------------------------------------------------------------
LEMMA SafetyBegins == SafetyInit => SafetyInv
<1> SUFFICES ASSUME SafetyInit PROVE SafetyInv
  OBVIOUS
<1>1. REPORT_EVENT_RETENTION \in Ages
  BY SafetyAssumption DEF Ages
<1>2. SafetyTypeOK
  BY <1>1, Durations DEF SafetyInit, SafetyTypeOK
<1>3. Covered
  BY SafetyAssumption DEF SafetyInit, Covered, Absent
<1> QED BY <1>2, <1>3 DEF SafetyInit, SafetyInv, SilentEnd, StrikeStands

LEMMA ReportStep ==
  ASSUME SafetyInv, NEW e \in Reports, SubmitReport(e)
  PROVE  /\ SafetyInv'
         /\ sanction'.status = "suspended" /\ sanction.status # "suspended" => ~ punished
         /\ Rises(sanction, sanction') =>
              IF OnTrial
              THEN Cardinality(Fresh(e, PROBATION_WINDOW)) >= PROBATION_UNIQUE_REPORTERS
              ELSE Cardinality(Fresh(e, FIRST_STRIKE_WINDOW)) >= FIRST_STRIKE_UNIQUE_REPORTERS
<1> DEFINE now == Refreshed(sanction)
<1>0. /\ sanction \in Sanction /\ now \in Sanction /\ reports \in [Reports -> Ages \cup {Absent}]
      /\ valid \in SUBSET Reports /\ punished \in BOOLEAN
      /\ sanction' = Judged(now, reports')
      /\ reports' = [Retained EXCEPT ![e] = 0]
      /\ valid' = IF Rises(now, sanction') \/ now.status \in {"suspended", "banned"}
                  THEN {} ELSE StillValid \cup {e}
      /\ punished' = (punished \/ sanction'.status = "suspended")
  BY RefreshedCases DEF SafetyInv, SafetyTypeOK, Sanction, SubmitReport, StillValid
<1>1. /\ reports' \in [Reports -> Ages \cup {Absent}] /\ reports'[e] = 0
      /\ \A f \in Reports \ {e} : reports'[f] = Retained[f]
  BY <1>0, RetainedType, Durations
<1>2. \A f \in Reports \ {e} : reports'[f] # Absent =>
        reports'[f] = reports[f] /\ reports[f] \in 0..(REPORT_EVENT_RETENTION - 1)
  BY <1>0, <1>1, RetainedType
<1>3. sanction' \in Sanction
  BY <1>0, JudgedCases
<1>4. SafetyTypeOK'
  <2>1. Recent \in SUBSET Reports /\ StillValid \in SUBSET Reports
    BY <1>0 DEF Recent, StillValid
  <2>2. valid' \in SUBSET Reports
    BY <1>0, <2>1
  <2>3. punished' \in BOOLEAN
    BY <1>0
  <2> QED BY <1>1, <1>3, <2>2, <2>3 DEF SafetyTypeOK, Sanction
<1>5. CASE sanction'.status = now.status
  <2>1. ~ Rises(now, sanction')
    BY <1>5 DEF Rises
  <2>2. Covered'
    <3> SUFFICES ASSUME sanction'.status \in {"clear", "probation"}, NEW f \in Reports,
                        reports'[f] \in 0..(REPORT_EVENT_RETENTION - 1),
                        reports'[f] <= sanction'.phase
                 PROVE  f \in valid'
      BY DEF Covered
    <3>1. valid' = StillValid \cup {e}
      BY <1>0, <1>5, <2>1
    <3>2. CASE f = e
      BY <3>1, <3>2
    <3>3. CASE f # e
      <4>1. reports[f] = reports'[f] /\ reports[f] \in 0..(REPORT_EVENT_RETENTION - 1)
        BY <1>2, <3>3 DEF Absent
      <4>2. sanction'.phase \in {0, now.phase} /\ now.phase \in Nat
        BY <1>0, <1>5, JudgedCases, SafetyAssumption DEF Sanction, Ages
      <4>3. reports[f] <= now.phase
        BY <4>1, <4>2
      <4> QED BY <3>1, <4>1, <4>3, <1>5, RefreshCovers
    <3> QED BY <3>2, <3>3
  <2>3. SilentEnd' /\ ~ (sanction'.status = "suspended" /\ sanction.status # "suspended")
    <3>1. CASE now.status = "suspended"
      <4>1. now = sanction /\ sanction.suspension # 0
        BY <1>0, <3>1, RefreshedCases
      <4>2. sanction' = now
        BY <1>0, <1>5, <3>1, JudgedCases
      <4> QED BY <4>1, <4>2 DEF SilentEnd
    <3>2. CASE now.status # "suspended"
      BY <1>5, <3>2 DEF SilentEnd
    <3> QED BY <3>1, <3>2
  <2>4. sanction'.strikes = sanction.strikes
    BY <1>0, <1>5, JudgedCases, RefreshedCases
  <2>5. StrikeStands'
    <3>1. CASE sanction'.status = "suspended"
      <4>1. sanction.status = "suspended"
        BY <2>3, <3>1
      <4> QED BY <1>0, <2>4, <3>1, <4>1 DEF SafetyInv, StrikeStands
    <3>2. CASE sanction'.status # "suspended"
      BY <1>0, <2>4, <3>2 DEF SafetyInv, StrikeStands
    <3> QED BY <3>1, <3>2
  <2>6. ~ Rises(sanction, sanction')
    BY <1>0, <1>5, RefreshedCases DEF Rises
  <2> QED BY <1>4, <2>2, <2>3, <2>5, <2>6 DEF SafetyInv
<1>6. CASE sanction'.status # now.status
  <2>1. /\ now.status \in {"clear", "probation"} /\ Enough(now, reports')
        /\ \/ sanction'.status = "banned" /\ sanction'.strikes = now.strikes
           \/ /\ sanction'.status = "suspended" /\ now.strikes = 0
              /\ sanction'.strikes = 1 /\ sanction'.suspension # 0
    BY <1>0, <1>6, JudgedCases
  <2>2. now.strikes = sanction.strikes
    BY <1>0, RefreshedCases
  <2>3. Covered' /\ SilentEnd' /\ StrikeStands'
    BY <1>0, <2>1, <2>2 DEF SafetyInv, Covered, SilentEnd, StrikeStands
  <2>4. sanction'.status = "suspended" => ~ punished
    BY <2>1, <2>2 DEF SafetyInv, StrikeStands
  <2>5. OnTrial <=> now.status = "probation"
    <3>1. sanction.status = "probation" => sanction.probation \in Nat
      BY <1>0, SafetyAssumption DEF Sanction, Whole
    <3> QED BY <1>0, <2>1, <3>1, RefreshedCases DEF OnTrial
  <2>6. ASSUME NEW window \in Nat, NEW phase \in {0, now.phase}
        PROVE  ReportersSincePhase(reports', window, phase) \in SUBSET Fresh(e, window)
    <3> SUFFICES ASSUME NEW f \in Reports, reports'[f] # Absent,
                        reports'[f] <= window, reports'[f] <= phase
                 PROVE  ReporterOf(f) \in Fresh(e, window)
      BY DEF ReportersSincePhase
    <3>1. CASE f = e
      BY <3>1 DEF Fresh
    <3>2. CASE f # e
      <4>1. reports'[f] = reports[f] /\ reports[f] \in 0..(REPORT_EVENT_RETENTION - 1)
        BY <1>2, <3>2
      <4>2. now.phase \in Nat
        BY <1>0, SafetyAssumption DEF Sanction, Ages
      <4>3. reports[f] <= now.phase /\ reports[f] \in 0..window
        BY <4>1, <4>2
      <4>4. f \in StillValid /\ (Overdue => f \in Recent)
        BY <2>1, <4>1, <4>3, RefreshCovers
      <4>5. f \in IF Overdue THEN Recent ELSE valid
        BY <4>4, <1>0, RefreshedCases DEF StillValid, Overdue
      <4> QED BY <4>3, <4>5 DEF Fresh
    <3> QED BY <3>1, <3>2
  <2>7. \A window \in Nat : Fresh(e, window) \in SUBSET Reporters
    BY <1>0 DEF Fresh, Recent, Reporters
  <2>8. ASSUME NEW window \in Nat, NEW phase \in {0, now.phase}, NEW n \in Nat,
               Cardinality(ReportersSincePhase(reports', window, phase)) >= n
        PROVE  Cardinality(Fresh(e, window)) >= n
    <3> DEFINE S == Fresh(e, window)
               T == ReportersSincePhase(reports', window, phase)
    <3>1. S \in SUBSET Reporters /\ T \in SUBSET S
      BY <2>6, <2>7
    <3>2. Cardinality(T) \in Nat /\ Cardinality(S) \in Nat /\ Cardinality(T) <= Cardinality(S)
      BY <3>1, MoreReporters
    <3> QED BY <3>2, <2>8
  <2>9. ASSUME now.status = "probation"
        PROVE  Cardinality(Fresh(e, PROBATION_WINDOW)) >= PROBATION_UNIQUE_REPORTERS
    <3>1. Cardinality(ReportersSincePhase(reports', PROBATION_WINDOW, now.phase))
            >= PROBATION_UNIQUE_REPORTERS
      BY <2>1, <2>9 DEF Enough
    <3> QED BY <2>8, <3>1, SafetyAssumption
  <2>10. ASSUME now.status # "probation"
         PROVE  Cardinality(Fresh(e, FIRST_STRIKE_WINDOW)) >= FIRST_STRIKE_UNIQUE_REPORTERS
    <3>1. PICK phase \in {0, now.phase} :
            Cardinality(ReportersSincePhase(reports', FIRST_STRIKE_WINDOW, phase))
              >= FIRST_STRIKE_UNIQUE_REPORTERS
      BY <2>1, <2>10 DEF Enough
    <3> QED BY <2>8, <3>1, SafetyAssumption
  <2> QED BY <1>4, <2>3, <2>4, <2>5, <2>9, <2>10 DEF SafetyInv
<1> QED BY <1>5, <1>6

LEMMA SafetySteps == SafetyInv /\ [SafetyNext]_safetyVars => SafetyInv'
<1> SUFFICES ASSUME SafetyInv, [SafetyNext]_safetyVars PROVE SafetyInv'
  OBVIOUS
<1>0. /\ sanction \in Sanction /\ Refreshed(sanction) \in Sanction
      /\ reports \in [Reports -> Ages \cup {Absent}]
      /\ valid \in SUBSET Reports /\ punished \in BOOLEAN
      /\ StillValid \in SUBSET Reports
  BY RefreshedCases DEF SafetyInv, SafetyTypeOK, Sanction, StillValid, Recent
<1>1. CASE UNCHANGED safetyVars
  BY <1>1 DEF SafetyInv, SafetyTypeOK, Covered, SilentEnd, StrikeStands, safetyVars
<1>2. CASE GetSafetyDecision
  <2>1. /\ sanction' = Refreshed(sanction) /\ valid' = StillValid
        /\ reports' = reports /\ punished' = punished
    BY <1>2 DEF GetSafetyDecision, StillValid
  <2>2. SafetyTypeOK'
    BY <1>0, <2>1 DEF SafetyTypeOK, Sanction
  <2> QED BY <2>1, <2>2, Refreshes
<1>3. ASSUME NEW e \in Reports, SubmitAgain(e) PROVE SafetyInv'
  <2>1. /\ sanction' = Refreshed(sanction) /\ valid' = StillValid
        /\ reports' = Retained /\ punished' = punished
    BY <1>3 DEF SubmitAgain, StillValid
  <2>2. /\ reports' \in [Reports -> Ages \cup {Absent}]
        /\ \A f \in Reports : reports'[f] # Absent => reports'[f] = reports[f]
    BY <1>0, <2>1, RetainedType
  <2>3. SafetyTypeOK'
    BY <1>0, <2>1, <2>2 DEF SafetyTypeOK, Sanction
  <2> QED BY <2>1, <2>2, <2>3, Refreshes
<1>4. ASSUME NEW e \in Reports, SubmitReport(e) PROVE SafetyInv'
  BY <1>4, ReportStep
<1>5. CASE OperatorClearSanction
  <2>1. sanction' \in Sanction /\ sanction'.status = "clear" /\ sanction'.phase = 0
    BY <1>5, PhaseType, Durations DEF OperatorClearSanction
  <2>2. SafetyTypeOK'
    BY <1>0, <1>5, <2>1 DEF OperatorClearSanction, SafetyTypeOK, Sanction
  <2>3. Covered'
    BY <1>5, <2>1, SafetyAssumption DEF OperatorClearSanction, Covered
  <2> QED BY <1>5, <2>1, <2>2, <2>3 DEF OperatorClearSanction, SafetyInv, SilentEnd, StrikeStands
<1>6. CASE SafetyTick
  <2>1. \A age \in Ages : Older(age) \in Ages /\ Older(age) # 0
                         /\ (Older(age) < REPORT_EVENT_RETENTION => Older(age) = age + 1)
                         /\ (age = REPORT_EVENT_RETENTION => Older(age) = age)
    BY SafetyAssumption DEF Ages, Older
  <2>2. /\ reports' \in [Reports -> Ages \cup {Absent}]
        /\ \A f \in Reports : reports'[f] # 0
        /\ \A f \in Reports : reports[f] # Absent => reports'[f] = Older(reports[f])
        /\ \A f \in Reports : reports[f] = Absent => reports'[f] = Absent
    BY <1>0, <1>6, <2>1 DEF SafetyTick, Absent
  <2>3. /\ sanction' \in Sanction /\ sanction'.status = sanction.status
        /\ sanction'.strikes = sanction.strikes
        /\ sanction'.phase = Older(sanction.phase) /\ sanction.phase \in Ages
    <3>1. /\ sanction.suspension \in 0..FIRST_SUSPENSION_DURATION
          /\ sanction.probation \in 0..Whole /\ sanction.phase \in Ages
      BY <1>0 DEF Sanction
    <3>2. /\ (IF sanction.suspension > 0 THEN sanction.suspension - 1 ELSE 0)
               \in 0..FIRST_SUSPENSION_DURATION
          /\ (IF sanction.probation > 0 THEN sanction.probation - 1 ELSE 0) \in 0..Whole
          /\ Older(sanction.phase) \in Ages
      BY <2>1, <3>1, SafetyAssumption DEF Whole
    <3> QED BY <1>0, <1>6, <3>1, <3>2 DEF SafetyTick, Sanction
  <2>4. SafetyTypeOK'
    BY <1>0, <1>6, <2>2, <2>3 DEF SafetyTick, SafetyTypeOK, Sanction
  <2>5. Covered'
    <3> SUFFICES ASSUME sanction'.status \in {"clear", "probation"}, NEW f \in Reports,
                        reports'[f] \in 0..(REPORT_EVENT_RETENTION - 1),
                        reports'[f] <= sanction'.phase
                 PROVE  f \in valid
      BY <1>6 DEF SafetyTick, Covered
    <3>1. reports[f] \in Ages /\ reports'[f] = reports[f] + 1
      BY <1>0, <2>1, <2>2, SafetyAssumption DEF Absent
    <3>2. reports[f] \in 0..(REPORT_EVENT_RETENTION - 1) /\ reports[f] <= sanction.phase
      BY <2>1, <2>3, <3>1, SafetyAssumption DEF Ages, Older
    <3> QED BY <2>3, <3>2 DEF SafetyInv, Covered
  <2>6. SilentEnd' /\ StrikeStands'
    BY <1>6, <2>2, <2>3 DEF SafetyTick, SafetyInv, SilentEnd, StrikeStands
  <2> QED BY <2>4, <2>5, <2>6 DEF SafetyInv
<1> QED BY <1>1, <1>2, <1>3, <1>4, <1>5, <1>6 DEF SafetyNext, CreateBlindReport

\* Only a new report raises a sanction.
LEMMA Rise ==
  ASSUME SafetyInv, [SafetyNext]_safetyVars, Rises(sanction, sanction')
  PROVE  \E e \in Reports : SubmitReport(e)
<1>0. sanction \in Sanction
  BY DEF SafetyInv, SafetyTypeOK, Sanction
<1>1. CASE sanction' = sanction \/ sanction' = Refreshed(sanction)
  BY <1>0, <1>1, RefreshedCases DEF Rises
<1>2. CASE OperatorClearSanction \/ SafetyTick
  <2>1. OperatorClearSanction => sanction'.status = "clear"
    BY DEF OperatorClearSanction, Phase
  <2>2. SafetyTick => sanction'.status = sanction.status
    BY <1>0 DEF SafetyTick, Sanction
  <2> QED BY <1>2, <2>1, <2>2 DEF Rises
<1> QED BY <1>1, <1>2 DEF SafetyNext, safetyVars, GetSafetyDecision,
           CreateBlindReport, SubmitAgain

\* Every suspension and every ban is earned by enough distinct people inside
\* one phase and one window, and nobody is suspended twice without an
\* operator's pardon in between.
THEOREM SanctionTheorem == SafetySpec => SanctionIsEarned
<1>1. SafetyInv /\ [SafetyNext]_safetyVars =>
        (Rises(sanction, sanction') =>
           \E e \in Reports :
             /\ reports'[e] = 0
             /\ IF OnTrial
                THEN Cardinality(Fresh(e, PROBATION_WINDOW)) >= PROBATION_UNIQUE_REPORTERS
                ELSE Cardinality(Fresh(e, FIRST_STRIKE_WINDOW))
                       >= FIRST_STRIKE_UNIQUE_REPORTERS)
  <2> SUFFICES ASSUME SafetyInv, [SafetyNext]_safetyVars, Rises(sanction, sanction')
               PROVE  \E e \in Reports :
                        /\ reports'[e] = 0
                        /\ IF OnTrial
                           THEN Cardinality(Fresh(e, PROBATION_WINDOW))
                                  >= PROBATION_UNIQUE_REPORTERS
                           ELSE Cardinality(Fresh(e, FIRST_STRIKE_WINDOW))
                                  >= FIRST_STRIKE_UNIQUE_REPORTERS
    OBVIOUS
  <2>1. PICK e \in Reports : SubmitReport(e)
    BY Rise
  <2>2. reports'[e] = 0
    BY <2>1, RetainedType DEF SubmitReport, SafetyInv, SafetyTypeOK
  <2>3. IF OnTrial
        THEN Cardinality(Fresh(e, PROBATION_WINDOW)) >= PROBATION_UNIQUE_REPORTERS
        ELSE Cardinality(Fresh(e, FIRST_STRIKE_WINDOW)) >= FIRST_STRIKE_UNIQUE_REPORTERS
    BY <2>1, ReportStep
  <2> QED BY <2>2, <2>3
<1>2. SafetyInv /\ [SafetyNext]_safetyVars =>
        (sanction'.status = "suspended" /\ sanction.status # "suspended" => ~ punished)
  <2> SUFFICES ASSUME SafetyInv, [SafetyNext]_safetyVars,
                      sanction'.status = "suspended", sanction.status # "suspended"
               PROVE  ~ punished
    OBVIOUS
  <2>1. PICK e \in Reports : SubmitReport(e)
    BY Rise DEF Rises
  <2> QED BY <2>1, ReportStep
<1> QED BY <1>1, <1>2, SafetyBegins, SafetySteps, PTL
        DEF SafetySpec, SanctionIsEarned, SanctionNeedsReporters, OneSuspension

-----------------------------------------------------------------------------
(* Dialogs: the invariant. *)

\* A handler that a message began and that is not over, and one that a
\* confirmation began.
Busy == {"typed", "recipient", "gate", "store"}
Asked == {"tapped", "empty", "purge"}

\* A run at work is somebody's, and its dialog fits its step.
RunShape ==
  \A r \in ChatRuns :
    /\ run[r].step # "free" => run[r].who \in Accounts
    /\ run[r].step \in {"recipient", "gate", "store"} =>
         run[r].draft.mode \in Replies /\ run[r].draft.to \in Accounts
    /\ run[r].step = "label" => run[r].draft.mode = "nickname" /\ run[r].draft.to \in Accounts
    /\ run[r].step = "tapped" => run[r].draft = NoDraft \/ run[r].draft.mode \in Confirms

\* What a run relies on was so since it began.
Terms ==
  \A r \in ChatRuns :
    /\ run[r].step \in {"recipient", "gate", "store"} => run[r].draft.to \in since[r].meant
    /\ run[r].step = "store" => run[r].draft.to \in since[r].open
    /\ run[r].step = "empty" => "clearBlocks" \in since[r].asked
    /\ run[r].step = "purge" => "clearData" \in since[r].asked

ChatInv == ChatTypeOK /\ RunShape /\ blocks = refuses /\ Terms

Run == [who : Accounts \cup {NoOne},
        step : {"free", "prompt", "typed", "name", "label", "intro", "recipient",
                "gate", "store", "ack", "tapped", "empty", "purge", "rotate", "clear"},
        draft : Drafts \cup {NoDraft}]
Met == [open : SUBSET Accounts, meant : SUBSET Accounts, asked : SUBSET Confirms]

\* The rows of UserState.
Rows ==
  /\ account \in [People -> 0..MaxResets]
  /\ draft \in [People -> Drafts \cup {NoDraft}]
  /\ blocks \in [People -> SUBSET People]
  /\ paused \in [People -> BOOLEAN] /\ named \in [People -> BOOLEAN]
  /\ labels \in [People -> SUBSET People]
  /\ refuses \in [People -> SUBSET People]

\* Account a would have a message of person p.
Willing(a, p) == ~ IsActive(a) \/ (~ paused[a[1]] /\ p \notin refuses[a[1]])

LEMMA DraftShape ==
  \A d \in Drafts \cup {NoDraft} :
    /\ d.mode \in Replies \cup {"nickname"} => d.to \in Accounts
    /\ d.mode = "none" => d = NoDraft
    /\ d = NoDraft \/ d.mode \in Replies \cup Confirms
                        \cup {"nickname", "display_name", "conversation_intro"}
BY DEF Drafts, NoDraft, Replies, Confirms

LEMMA AccountOf ==
  /\ \A a \in Accounts : a[1] \in People
  /\ Rows => \A p \in People : Account(p) \in Accounts /\ Account(p)[1] = p
BY DEF Accounts, Rows, Account

\* What a run remembers: all it did, and what it meets now.
LEMMA Remembers ==
  ASSUME ChatTypeOK, Remember, Rows', run' \in [ChatRuns -> Run], RunShape', NEW r \in ChatRuns
  PROVE  /\ since'[r] \in Met
         /\ run'[r].step \in Busy \cup Asked =>
              /\ since[r].open \subseteq since'[r].open
              /\ since[r].meant \subseteq since'[r].meant
              /\ since[r].asked \subseteq since'[r].asked
         /\ run'[r].step \in Busy =>
              /\ \A a \in Accounts : Willing(a, Who(r))' => a \in since'[r].open
              /\ Mine(r)' /\ draft'[Who(r)'].mode \in Replies
                   => draft'[Who(r)'].to \in since'[r].meant
         /\ run'[r].step \in Asked /\ Mine(r)' /\ draft'[Who(r)'].mode \in Confirms
              => draft'[Who(r)'].mode \in since'[r].asked
<1> DEFINE p == Who(r)'
           asks == IF Mine(r)' THEN draft'[p].mode ELSE "none"
           new == Facts(r)'
<1>1. since[r] \in Met
  BY DEF ChatTypeOK, Met
<1>2. /\ run'[r].step \in Busy => new =
           [open |-> {a \in Accounts : Willing(a, Who(r))'},
            meant |-> {draft'[p].to : m \in {asks} \cap Replies}, asked |-> {}]
      /\ run'[r].step \in Asked => new =
           [open |-> {}, meant |-> {}, asked |-> {asks} \cap Confirms]
      /\ run'[r].step \notin Busy \cup Asked => new = Nothing
  BY DEF Facts, Busy, Asked, Nothing, Willing, IsActive, Who, Mine, Account
<1>3. run'[r].step \in Busy \cup Asked => p \in People
  BY AccountOf DEF RunShape, Busy, Asked, Who
<1>4. new \in Met
  <2>1. CASE run'[r].step \in Busy
    <3>1. asks \in Replies => draft'[p].to \in Accounts
      BY <1>3, <2>1, DraftShape DEF Rows, Replies
    <3> QED BY <1>2, <2>1, <3>1 DEF Met
  <2>2. CASE run'[r].step \in Asked
    BY <1>2, <2>2 DEF Met
  <2>3. CASE run'[r].step \notin Busy \cup Asked
    BY <1>2, <2>3 DEF Met, Nothing
  <2> QED BY <2>1, <2>2, <2>3
<1>5. since'[r] = IF new = Nothing /\ run'[r].step \notin Busy \cup Asked THEN Nothing
                  ELSE [k \in DOMAIN new |-> since[r][k] \cup new[k]]
  BY DEF Remember, Busy, Asked
<1> HIDE DEF new, p, asks
<1>6. [k \in DOMAIN new |-> since[r][k] \cup new[k]] =
        [open |-> since[r].open \cup new.open, meant |-> since[r].meant \cup new.meant,
         asked |-> since[r].asked \cup new.asked]
  BY <1>1, <1>4 DEF Met
<1>7. run'[r].step \notin Busy \cup Asked => since'[r] = Nothing
  BY <1>2, <1>5
<1>8. run'[r].step \in Busy \cup Asked => since'[r] =
        [open |-> since[r].open \cup new.open, meant |-> since[r].meant \cup new.meant,
         asked |-> since[r].asked \cup new.asked]
  BY <1>5, <1>6
<1>9. since'[r] \in Met
  BY <1>1, <1>4, <1>7, <1>8 DEF Met, Nothing
<1>10. run'[r].step \in Busy =>
         /\ \A a \in Accounts : Willing(a, Who(r))' => a \in since'[r].open
         /\ Mine(r)' /\ draft'[Who(r)'].mode \in Replies
              => draft'[Who(r)'].to \in since'[r].meant
  BY <1>2, <1>8 DEF p, asks
<1>11. run'[r].step \in Asked /\ Mine(r)' /\ draft'[Who(r)'].mode \in Confirms
         => draft'[Who(r)'].mode \in since'[r].asked
  BY <1>2, <1>8 DEF p, asks
<1> QED BY <1>8, <1>9, <1>10, <1>11

\* No run takes a step.
LEMMA RowsMove ==
  ASSUME ChatInv, Remember, Rows', blocks' = refuses', run' = run, may' = may
  PROVE  ChatInv'
<1> USE DEF ChatInv
<1>1. run' \in [ChatRuns -> Run]
  BY DEF ChatTypeOK, Run
<1>2. RunShape'
  BY DEF RunShape
<1>3. since' = [r \in ChatRuns |-> since'[r]]
  BY DEF Remember
<1>4. ChatTypeOK'
  <2>1. since' \in [ChatRuns -> Met]
    BY <1>1, <1>2, <1>3, Remembers
  <2> QED BY <1>1, <2>1 DEF ChatTypeOK, Rows, Run, Met
<1>5. Terms'
  BY <1>1, <1>2, Remembers DEF Terms, Busy, Asked
<1> QED BY <1>2, <1>4, <1>5

\* Run r becomes x, and what it relies on from here on is so.
LEMMA RunMoves ==
  ASSUME ChatInv, Remember, Rows', blocks' = refuses', may' = may,
         NEW r \in ChatRuns, NEW x \in Run, run' = [run EXCEPT ![r] = x],
         x.step # "free" => x.who \in Accounts,
         x.step = "label" => x.draft.mode = "nickname" /\ x.draft.to \in Accounts,
         x.step = "tapped" => x.draft = NoDraft \/ x.draft.mode \in Confirms,
         x.step = "recipient" =>
           x.draft.mode \in Replies /\ Mine(r)' /\ draft'[x.who[1]] = x.draft,
         x.step \in {"gate", "store"} =>
           run[r].step \in {"recipient", "gate"} /\ x.draft = run[r].draft,
         x.step = "store" => Willing(x.draft.to, x.who[1])',
         x.step = "empty" => Mine(r)' /\ draft'[x.who[1]].mode = "clearBlocks",
         x.step = "purge" => Mine(r)' /\ draft'[x.who[1]].mode = "clearData"
  PROVE  ChatInv'
<1> USE DEF ChatInv
<1>1. run' \in [ChatRuns -> Run] /\ run'[r] = x /\ \A q \in ChatRuns : q # r => run'[q] = run[q]
  BY DEF ChatTypeOK, Run
<1>2. RunShape'
  <2>1. x.step \in {"recipient", "gate", "store"} =>
          x.draft.mode \in Replies /\ x.draft.to \in Accounts
    BY DraftShape DEF RunShape, Run
  <2> QED BY <1>1, <2>1 DEF RunShape
<1>3. since' = [q \in ChatRuns |-> since'[q]]
  BY DEF Remember
<1>4. ChatTypeOK'
  <2>1. since' \in [ChatRuns -> Met]
    BY <1>1, <1>2, <1>3, Remembers
  <2> QED BY <1>1, <2>1 DEF ChatTypeOK, Rows, Run, Met
<1>5. ASSUME NEW q \in ChatRuns, q # r
      PROVE  /\ run'[q].step \in {"recipient", "gate", "store"}
                  => run'[q].draft.to \in since'[q].meant
             /\ run'[q].step = "store" => run'[q].draft.to \in since'[q].open
             /\ run'[q].step = "empty" => "clearBlocks" \in since'[q].asked
             /\ run'[q].step = "purge" => "clearData" \in since'[q].asked
  BY <1>1, <1>2, <1>5, Remembers DEF Terms, Busy, Asked
<1>6. Who(r)' = x.who[1]
  BY <1>1 DEF Who
<1>7. x.step \in {"recipient", "gate", "store"} => x.draft.to \in since'[r].meant
  <2>1. CASE x.step = "recipient"
    BY <1>1, <1>2, <1>6, <2>1, Remembers DEF Busy
  <2>2. CASE x.step \in {"gate", "store"}
    BY <1>1, <1>2, <2>2, Remembers DEF Busy, Terms
  <2> QED BY <2>1, <2>2
<1>8. x.step = "store" => x.draft.to \in since'[r].open
  <2> SUFFICES ASSUME x.step = "store" PROVE x.draft.to \in since'[r].open
    OBVIOUS
  <2>1. x.draft.to \in Accounts
    BY <1>1, <1>2 DEF RunShape
  <2>2. \A a \in Accounts : Willing(a, Who(r))' => a \in since'[r].open
    BY <1>1, <1>2, Remembers DEF Busy
  <2>3. Willing(x.draft.to, Who(r))'
    BY <1>6 DEF Willing, IsActive, Account
  <2> QED BY <2>1, <2>2, <2>3
<1>9. /\ x.step = "empty" => "clearBlocks" \in since'[r].asked
      /\ x.step = "purge" => "clearData" \in since'[r].asked
  BY <1>1, <1>2, <1>6, Remembers DEF Asked, Confirms
<1>10. Terms'
  BY <1>1, <1>5, <1>7, <1>8, <1>9 DEF Terms
<1> QED BY <1>2, <1>4, <1>10

LEMMA FreeRun == Free \in Run /\ Free.step = "free" /\ NoDraft \in Drafts \cup {NoDraft}
BY DEF Free, Run

\* A handler ends, whatever it wrote last.
LEMMA RunEnds ==
  ASSUME ChatInv, Remember, Rows', blocks' = refuses', may' = may,
         NEW r \in ChatRuns, Ends(r)
  PROVE  ChatInv'
BY FreeRun, RunMoves DEF Ends

\* A handler goes on to a step that relies on nothing, whatever it wrote last.
LEMMA RunGoesOn ==
  ASSUME ChatInv, Remember, Rows', blocks' = refuses', may' = may,
         NEW r \in ChatRuns, run[r].step # "free",
         NEW s \in {"ack", "clear", "rotate"}, Step(r, s)
  PROVE  ChatInv'
<1> DEFINE x == [run[r] EXCEPT !.step = s]
<1>1. run[r] \in Run /\ run[r].who \in Accounts
  BY DEF ChatInv, ChatTypeOK, Run, RunShape
<1>2. x \in Run /\ x.step = s /\ x.who \in Accounts
  BY <1>1 DEF Run
<1>3. run' = [run EXCEPT ![r] = x]
  BY DEF Step
<1> HIDE DEF x
<1> QED BY <1>2, <1>3, RunMoves

LEMMA RunBegins ==
  ASSUME ChatInv, Remember, NEW r \in ChatRuns, NEW p \in People, NEW op,
         NEW step \in {"prompt", "typed", "tapped"}, NEW d \in Drafts \cup {NoDraft},
         Begin(r, p, op, step, d),
         step = "tapped" => d = NoDraft \/ d.mode \in Confirms,
         UNCHANGED <<account, draft, blocks, paused, named, labels, refuses, may>>
  PROVE  ChatInv'
<1> DEFINE x == Begun(p, step, d)
<1>1. Rows /\ Rows'
  BY DEF ChatInv, ChatTypeOK, Rows
<1>2. x \in Run /\ x.step = step /\ x.who \in Accounts /\ x.draft = d
  BY <1>1, AccountOf DEF Begun, Run
<1>3. run' = [run EXCEPT ![r] = x]
  BY DEF Begin
<1> HIDE DEF x
<1> QED BY <1>1, <1>2, <1>3, RunMoves DEF ChatInv

LEMMA ToAccount ==
  ASSUME Rows, NEW q \in People, NEW mode \in Replies \cup {"nickname"}
  PROVE  [mode |-> mode, to |-> Account(q)] \in Drafts
BY AccountOf DEF Drafts

LEMMA ToNoOne ==
  ASSUME NEW mode \in {"display_name", "conversation_intro"} \cup Confirms
  PROVE  [mode |-> mode, to |-> NoOne] \in Drafts
BY DEF Drafts

LEMMA BeginStep ==
  ASSUME ChatInv, Remember, may' = may, NEW r \in ChatRuns, NEW p \in People, ChatBegin(r, p)
  PROVE  ChatInv'
<1>1. Rows
  BY DEF ChatInv, ChatTypeOK, Rows
<1>2. ASSUME NEW q \in People, StartCommand(r, p, q) PROVE ChatInv'
  BY <1>1, <1>2, ToAccount, RunBegins DEF StartCommand, Replies
<1>3. ASSUME NEW q \in People, ReplyAction(r, p, q) PROVE ChatInv'
  BY <1>1, <1>3, ToAccount, RunBegins DEF ReplyAction, Replies
<1>4. ASSUME NEW q \in People, NicknameAction(r, p, q) PROVE ChatInv'
  BY <1>1, <1>4, ToAccount, RunBegins DEF NicknameAction
<1>5. ASSUME NEW mode, AskText(r, p, mode) PROVE ChatInv'
  BY <1>5, ToNoOne, RunBegins DEF AskText
<1>6. ASSUME NEW mode, Tap(r, p, mode) PROVE ChatInv'
  <2>1. PICK button \in {NoDraft, [mode |-> mode, to |-> NoOne]} :
          Begin(r, p, mode, "tapped", button)
    BY <1>6 DEF Tap
  <2>2. mode \in Confirms /\ UNCHANGED <<account, draft, blocks, paused, named, labels, refuses>>
    BY <1>6 DEF Tap
  <2>3. button \in Drafts \cup {NoDraft} /\ (button = NoDraft \/ button.mode \in Confirms)
    <3>1. [mode |-> mode, to |-> NoOne] \in Drafts /\ [mode |-> mode, to |-> NoOne].mode = mode
      BY <2>2, ToNoOne
    <3>2. button = NoDraft \/ button = [mode |-> mode, to |-> NoOne]
      OBVIOUS
    <3> QED BY <2>2, <3>1, <3>2
  <2> QED BY <2>1, <2>2, <2>3, RunBegins
<1>7. CASE WarnClearBlocks(r, p)
  BY <1>7, ToNoOne, RunBegins DEF WarnClearBlocks, Confirms
<1>8. CASE WarnClearData(r, p)
  BY <1>8, ToNoOne, RunBegins DEF WarnClearData, Confirms
<1>9. CASE Message(r, p)
  BY <1>9, FreeRun, RunBegins DEF Message
<1> QED BY <1>2, <1>3, <1>4, <1>5, <1>6, <1>7, <1>8, <1>9 DEF ChatBegin

LEMMA HandlerStep ==
  ASSUME ChatInv, Remember, may' = may, NEW r \in ChatRuns, ChatStep(r)
  PROVE  ChatInv'
<1>1. /\ Rows /\ run[r] \in Run /\ run \in [ChatRuns -> Run] /\ blocks = refuses
      /\ run[r].step # "free" => run[r].who \in Accounts /\ Who(r) \in People
  BY AccountOf DEF ChatInv, ChatTypeOK, Rows, Run, RunShape, Who
<1> DEFINE p == Who(r)
<1>2. UNCHANGED <<account, draft, blocks, paused, named, labels, refuses>>
        => Rows' /\ blocks' = refuses'
  BY <1>1 DEF Rows
<1>3. ASSUME run[r].step # "free", NEW d \in Drafts \cup {NoDraft}, SetDraft(r, d),
             UNCHANGED <<account, blocks, paused, named, labels, refuses>>
      PROVE  Rows' /\ blocks' = refuses'
  BY <1>1, <1>3 DEF Rows, SetDraft
<1>4. CASE DraftSet(r)
  BY <1>1, <1>3, <1>4, RunEnds DEF DraftSet, Run
<1>5. CASE ClearDraft(r)
  BY <1>1, <1>3, <1>5, FreeRun, RunEnds DEF ClearDraft
<1>6. CASE GetDraft(r)
  <2> DEFINE d == IF Mine(r) THEN draft[p] ELSE NoDraft
             next == CASE d.mode = "display_name" -> "name"
                       [] d.mode = "conversation_intro" -> "intro"
                       [] d.mode = "nickname" -> "label"
                       [] d.mode \in Replies -> "recipient"
                       [] OTHER -> "free"
             x == [run[r] EXCEPT !.step = next, !.draft = d]
  <2>1. /\ run[r].step = "typed"
        /\ run' = [run EXCEPT ![r] = IF next = "free" THEN Free ELSE x]
        /\ UNCHANGED <<account, draft, blocks, paused, named, labels, refuses>>
    BY <1>6 DEF GetDraft
  <2>2. CASE next = "free"
    BY <1>2, <2>1, <2>2, RunEnds DEF Ends
  <2>3. CASE next # "free"
    <3>1. d \in Drafts \cup {NoDraft} /\ next \in {"name", "intro", "label", "recipient", "free"}
      BY <1>1, <2>1 DEF Rows
    <3>2. /\ next = "label" => d.mode = "nickname" /\ d.to \in Accounts
          /\ next = "recipient" => d.mode \in Replies /\ Mine(r) /\ d = draft[p]
      BY <3>1, DraftShape DEF NoDraft, Replies
    <3>3. x \in Run /\ x.step = next /\ x.who = run[r].who /\ x.draft = d
      BY <1>1, <3>1, <2>3 DEF Run
    <3> HIDE DEF x, next, d
    <3>4. run' = [run EXCEPT ![r] = x]
      BY <2>1, <2>3
    <3>5. Mine(r) => Mine(r)'
      BY <1>1, <2>1, <3>3, <3>4 DEF Mine, Who, Account
    <3> QED BY <1>1, <1>2, <2>1, <3>1, <3>2, <3>3, <3>4, <3>5, RunMoves DEF Who
  <2> QED BY <2>2, <2>3
<1>7. CASE CancelInput(r)
  BY <1>2, <1>7, RunGoesOn DEF CancelInput
<1>8. CASE DisplayNameInput(r)
  <2>1. Rows' /\ blocks' = refuses' /\ run[r].step # "free"
    BY <1>1, <1>8 DEF DisplayNameInput, Rows
  <2> QED BY <1>8, <2>1, RunGoesOn, RunEnds DEF DisplayNameInput
<1>9. CASE NicknameInput(r)
  <2>1. run[r].draft.to[1] \in People
    BY <1>9, AccountOf DEF NicknameInput, ChatInv, RunShape
  <2>2. Rows' /\ blocks' = refuses' /\ run[r].step # "free"
    BY <1>1, <1>9, <2>1 DEF NicknameInput, SetLabel, Rows
  <2> QED BY <1>9, <2>2, RunGoesOn, RunEnds DEF NicknameInput
<1>10. CASE IntroInput(r)
  BY <1>2, <1>10, RunGoesOn, RunEnds DEF IntroInput
<1>11. ASSUME NEW s \in {"gate", "store"}, Step(r, s), run[r].step \in {"recipient", "gate"},
              s = "store" => CanReceive(run[r].draft, p),
              UNCHANGED <<account, draft, blocks, paused, named, labels, refuses>>
       PROVE  ChatInv'
  <2>1. [run[r] EXCEPT !.step = s] \in Run
    BY <1>1 DEF Run
  <2>2. PICK x \in Run : x = [run[r] EXCEPT !.step = s]
    BY <2>1
  <2>3. x.step = s /\ x.who = run[r].who /\ x.draft = run[r].draft
    BY <1>1, <2>2 DEF Run
  <2>4. run' = [run EXCEPT ![r] = x]
    BY <1>11, <2>2 DEF Step
  <2>5. s = "store" => Willing(x.draft.to, x.who[1])
    BY <1>1, <1>11, <2>3 DEF CanReceive, Willing, Reborn, BlockTag, Who
  <2>6. Willing(x.draft.to, x.who[1])' = Willing(x.draft.to, x.who[1])
    BY <1>11 DEF Willing, IsActive, Account
  <2> QED BY <1>1, <1>2, <1>11, <2>3, <2>4, <2>5, <2>6, RunMoves
<1>12. CASE FindRecipient(r)
  BY <1>2, <1>11, <1>12, RunGoesOn, RunEnds DEF FindRecipient
<1>13. CASE ReceiveGate(r)
  BY <1>2, <1>11, <1>13, RunGoesOn, RunEnds DEF ReceiveGate
<1>14. CASE StoreMessage(r)
  BY <1>2, <1>14, RunGoesOn, RunEnds DEF StoreMessage
<1>15. CASE Acknowledge(r)
  BY <1>2, <1>15, RunGoesOn, RunEnds DEF Acknowledge
<1>16. CASE ReadState(r)
  <2> DEFINE b == run[r].draft
             next == IF b = NoDraft THEN "clear"
                     ELSE IF b.mode = "clearBlocks" THEN "empty" ELSE "purge"
             x == [run[r] EXCEPT !.step = next]
  <2>1. /\ run[r].step = "tapped"
        /\ UNCHANGED <<account, draft, blocks, paused, named, labels, refuses>>
    BY <1>16 DEF ReadState
  <2>2. CASE ~ Mine(r) \/ ~ Confirmed(r)
    BY <1>2, <1>16, <2>1, <2>2, RunEnds DEF ReadState
  <2>3. CASE Mine(r) /\ Confirmed(r)
    <3>1. Step(r, next)
      <4>1. CASE b = NoDraft
        <5>1. b.mode # "clearBlocks"
          BY <4>1 DEF NoDraft
        <5> QED BY <1>16, <2>3, <4>1, <5>1 DEF ReadState
      <4>2. CASE b # NoDraft /\ b.mode = "clearBlocks"
        BY <1>16, <2>3, <4>2 DEF ReadState
      <4>3. CASE b # NoDraft /\ b.mode # "clearBlocks"
        BY <1>16, <2>3, <4>3 DEF ReadState
      <4> QED BY <4>1, <4>2, <4>3
    <3>2. CASE b = NoDraft
      BY <1>2, <2>1, <3>1, <3>2, RunGoesOn
    <3>3. CASE b # NoDraft
      <4>1. b.mode \in Confirms /\ b = draft[p]
        BY <2>1, <2>3, <3>3 DEF Confirmed, ChatInv, RunShape
      <4>2. x \in Run /\ x.step = next /\ x.who = run[r].who
        BY <1>1, <3>3 DEF Run
      <4>3. next \in {"empty", "purge"} /\ (next = "purge" => b.mode = "clearData")
            /\ (next = "empty" => b.mode = "clearBlocks")
        BY <3>3, <4>1 DEF Confirms
      <4>4. run' = [run EXCEPT ![r] = x]
        BY <3>1 DEF Step
      <4> HIDE DEF x, next, b
      <4>5. Mine(r)'
        BY <1>1, <2>1, <2>3, <4>2, <4>4 DEF Mine, Who, Account
      <4> QED BY <1>1, <1>2, <2>1, <4>1, <4>2, <4>3, <4>4, <4>5, RunMoves DEF Who
    <3> QED BY <3>2, <3>3
  <2> QED BY <2>2, <2>3
<1>17. CASE ConfirmClearBlocks(r)
  <2>1. Rows' /\ blocks' = refuses' /\ run[r].step # "free"
    BY <1>1, <1>17 DEF ConfirmClearBlocks, Rows
  <2> QED BY <1>17, <2>1, RunGoesOn DEF ConfirmClearBlocks
<1>18. CASE Purge(r)
  <2>1. Rows' /\ blocks' = refuses' /\ run[r].step # "free"
    BY <1>1, <1>18, FreeRun DEF Purge, Rows, Emptied
  <2> QED BY <1>18, <2>1, RunGoesOn DEF Purge
<1>19. CASE Rotate(r)
  <2>1. run[r].step = "rotate" /\ p \in People
    BY <1>1, <1>19 DEF Rotate
  <2>2. account' \in [People -> 0..MaxResets]
    BY <1>1, <1>19, <2>1, ChatAssumption DEF Rotate, Rows
  <2>3. Rows' /\ blocks' = refuses'
    BY <1>1, <1>19, <2>1, <2>2, FreeRun DEF Rotate, Rows, Emptied
  <2> DEFINE x == [who |-> <<p, account'[p]>>, step |-> "clear", draft |-> NoDraft]
  <2>4. x \in Run /\ x.step = "clear" /\ x.who \in Accounts
    BY <2>1, <2>2, FreeRun DEF Run, Accounts
  <2>5. run' = [run EXCEPT ![r] = x]
    BY <1>19 DEF Rotate
  <2> HIDE DEF x
  <2> QED BY <2>3, <2>4, <2>5, RunMoves
<1>20. CASE ChatLost(r)
  BY <1>2, <1>20, RunEnds DEF ChatLost
<1> QED BY <1>4, <1>5, <1>6, <1>7, <1>8, <1>9, <1>10, <1>12, <1>13, <1>14, <1>15, <1>16, <1>17,
           <1>18, <1>19, <1>20 DEF ChatStep

LEMMA ChatSteps == ChatInv /\ [ChatNext]_chatVars => ChatInv'
<1> SUFFICES ASSUME ChatInv, [ChatNext]_chatVars PROVE ChatInv'
  OBVIOUS
<1>1. CASE UNCHANGED chatVars
  BY <1>1 DEF chatVars, ChatInv, ChatTypeOK, RunShape, Terms
<1>2. CASE ChatNext
  <2>1. Remember /\ may' = may /\ Rows /\ blocks = refuses
    BY <1>2 DEF ChatNext, ChatInv, ChatTypeOK, Rows
  <2>2. ASSUME NEW p \in People, DraftExpires(p) PROVE ChatInv'
    <3>1. Rows' /\ blocks' = refuses' /\ run' = run
      BY <2>1, <2>2, FreeRun DEF DraftExpires, Rows
    <3> QED BY <2>1, <3>1, RowsMove
  <2>3. ASSUME NEW p \in People, NEW on \in BOOLEAN, SetPaused(p, on) PROVE ChatInv'
    <3>1. Rows' /\ blocks' = refuses' /\ run' = run
      BY <2>1, <2>3 DEF SetPaused, Rows
    <3> QED BY <2>1, <3>1, RowsMove
  <2>4. ASSUME NEW p \in People, NEW q \in People, BlockAction(p, q) PROVE ChatInv'
    <3>1. Rows' /\ run' = run
      BY <2>1, <2>4 DEF BlockAction, Rows, BlockTag
    <3>2. blocks' = refuses'
      BY <2>1, <2>4 DEF BlockAction, BlockTag
    <3> QED BY <2>1, <3>1, <3>2, RowsMove
  <2>5. ASSUME NEW p \in People, NEW q \in People, UnblockAction(p, q) PROVE ChatInv'
    <3>1. Rows' /\ run' = run
      BY <2>1, <2>5 DEF UnblockAction, Rows, BlockTag
    <3>2. blocks' = refuses'
      BY <2>1, <2>5 DEF UnblockAction, BlockTag
    <3> QED BY <2>1, <3>1, <3>2, RowsMove
  <2> QED BY <1>2, <2>1, <2>2, <2>3, <2>4, <2>5, BeginStep, HandlerStep DEF ChatNext
<1> QED BY <1>1, <1>2

LEMMA ChatBegins == ChatInit => ChatInv
<1> SUFFICES ASSUME ChatInit PROVE ChatInv
  OBVIOUS
<1>1. ChatTypeOK
  BY FreeRun, ChatAssumption DEF ChatInit, ChatTypeOK, Run, Nothing
<1> QED BY <1>1, FreeRun DEF ChatInv, ChatInit, RunShape, Terms

\* A message is accepted only where its sender meant it to go, by somebody who
\* was willing to have it at some moment since it arrived.
THEOREM TermsTheorem == ChatSpec => AcceptedOnTerms
<1>1. ChatInv /\ [ChatNext]_chatVars =>
        [\A r \in ChatRuns :
           run[r].step = "store" /\ run'[r].step = "ack" =>
             run[r].draft.to \in since[r].open \cap since[r].meant]_chatVars
  BY DEF ChatInv, Terms
<1> QED BY <1>1, ChatBegins, ChatSteps, PTL DEF ChatSpec, AcceptedOnTerms

\* Whoever empties the block list or resets an account was shown that warning,
\* and it was open at some moment since the confirmation arrived.
THEOREM ConfirmTheorem == ChatSpec => ConfirmedOnly
<1>1. ChatInv /\ [ChatNext]_chatVars =>
        [\A r \in ChatRuns :
           /\ run[r].step = "empty" /\ run'[r].step = "clear"
                => "clearBlocks" \in since[r].asked
           /\ run[r].step = "purge" /\ run'[r].step = "rotate"
                => "clearData" \in since[r].asked]_chatVars
  BY DEF ChatInv, Terms
<1> QED BY <1>1, ChatBegins, ChatSteps, PTL DEF ChatSpec, ConfirmedOnly

-----------------------------------------------------------------------------
(* The consumer of the queue. *)

Post == [status : {"queued", "taken", "acked", "dead"}, tries : 0..OUTBOX_MAX_RETRIES]
Handling == [batch : Seq(Jobs), left : SUBSET (1..OUTBOX_MAX_BATCH),
             lost : SUBSET Chats, retries : SUBSET Jobs]

\* The marks of an invocation are on messages of its batch, which is as long as
\* the queue makes it.
Fits ==
  \A c \in Consumers :
    /\ DOMAIN consumer[c].batch \subseteq 1..OUTBOX_MAX_BATCH
    /\ consumer[c].left \subseteq Places(consumer[c].batch)
    /\ consumer[c].retries \subseteq JobsOf(consumer[c].batch)

\* A message that is taken is in one batch, at one place.
Taken ==
  \A c, d \in Consumers : \A i \in DOMAIN consumer[c].batch :
    /\ post[JobAt(c, i)].status = "taken"
    /\ \A k \in DOMAIN consumer[d].batch : JobAt(c, i) = JobAt(d, k) => c = d /\ i = k

\* A message that is out of its lane has its outcome or will be retried; when a
\* telegram job was retried, those behind it are too, up to one of another kind.
MarkedAt(c) ==
  \A i \in Places(consumer[c].batch) \ consumer[c].left :
    /\ JobAt(c, i) \in answered \cup consumer[c].retries
    /\ \A k \in consumer[c].left :
         /\ i < k /\ Kind(JobAt(c, i)) = "telegram" /\ Kind(JobAt(c, k)) = "telegram"
         /\ ChatOf(JobAt(c, i)) = ChatOf(JobAt(c, k))
         => JobAt(c, i) \in answered \/ Parted(c, i, k)

Marked == \A c \in Consumers : MarkedAt(c)

LanesInv == LanesTypeOK /\ Fits /\ Taken /\ Marked /\ NoneForgotten

\* What the invariant says of types.
LEMMA LanesTypes ==
  ASSUME LanesInv
  PROVE  /\ mail \in Mails /\ post \in [Jobs -> Post] /\ consumer \in [Consumers -> Handling]
         /\ \A j \in Jobs : Kind(j) \in {"telegram", "notification", "drain", "broken"}
         /\ \A c \in Consumers : \A i \in DOMAIN consumer[c].batch :
              JobAt(c, i) \in Jobs /\ i \in Nat
<1>1. /\ mail \in Mails /\ post \in [Jobs -> Post] /\ consumer \in [Consumers -> Handling]
      /\ \A j \in Jobs : Kind(j) \in {"telegram", "notification", "drain", "broken"}
  BY LanesAssumption DEF LanesInv, LanesTypeOK, Post, Handling, Kind
<1>2. ASSUME NEW c \in Consumers, NEW i \in DOMAIN consumer[c].batch
      PROVE  JobAt(c, i) \in Jobs /\ i \in Nat
  <2>1. consumer[c].batch \in Seq(Jobs)
    BY <1>1 DEF Handling
  <2> QED BY <2>1, ElementOfSeq, LenProperties DEF JobAt
<1> QED BY <1>1, <1>2

\* What the queue hands out.
LEMMA HandedOut ==
  ASSUME LanesInv, NEW batch \in Handouts
  PROVE  /\ batch \in Seq(Jobs) /\ DOMAIN batch \subseteq 1..OUTBOX_MAX_BATCH
         /\ JobsOf(batch) \subseteq Queued
         /\ \A i, k \in DOMAIN batch : batch[i] = batch[k] => i = k
<1>1. PICK n \in 1..OUTBOX_MAX_BATCH :
        batch \in [1..n -> Queued] /\ \A i, k \in 1..n : batch[i] = batch[k] => i = k
  BY DEF Handouts
<1>2. n \in Nat /\ 1..n \subseteq 1..OUTBOX_MAX_BATCH
  BY LanesAssumption
<1>3. batch \in [1..n -> Jobs]
  BY <1>1 DEF Queued
<1>4. batch \in Seq(Jobs)
  BY <1>2, <1>3, SeqDef
<1> QED BY <1>1, <1>2, <1>4 DEF JobsOf

LEMMA Nobody ==
  /\ NoConsumer \in Handling /\ DOMAIN NoConsumer.batch = {}
  /\ NoConsumer.left = {} /\ NoConsumer.retries = {}
  /\ Places(NoConsumer.batch) = {}
<1>1. <<>> \in Seq(Jobs) /\ DOMAIN <<>> = {}
  OBVIOUS
<1> QED BY <1>1 DEF NoConsumer, Handling, Places

\* What returns is not in a batch any more.
LEMMA Returns ==
  ASSUME NEW p \in Post
  PROVE  Returned(p) \in Post /\ Returned(p).status \in {"queued", "dead"}
BY LanesAssumption DEF Returned, Post

-----------------------------------------------------------------------------
\* An invocation whose state is not changed.
LEMMA MarksStay ==
  ASSUME LanesInv, NEW c \in Consumers, mail' = mail, consumer'[c] = consumer[c],
         answered \subseteq answered'
  PROVE  MarkedAt(c)'
<1>1. MarkedAt(c)
  BY DEF LanesInv, Marked
<1> QED BY <1>1 DEF MarkedAt, Parted, LaneAt, JobAt, LaneOf, Places, Kind, ChatOf

\* The state of invocation c once the messages of a group have no place in their
\* lanes any more and those of marked are to be retried.
Written(c, group, marked) ==
  /\ consumer' \in [Consumers -> Handling]
  /\ \A d \in Consumers : d # c => consumer'[d] = consumer[d]
  /\ consumer'[c].batch = consumer[c].batch /\ consumer'[c].lost = consumer[c].lost
  /\ consumer'[c].left = consumer[c].left \ group
  /\ consumer'[c].retries = consumer[c].retries \cup marked

\* One message, or the rest of a group, gets its mark.
Marks(c, group, marked) ==
  /\ group \subseteq consumer[c].left
  /\ Written(c, group, marked)
  /\ marked \subseteq {JobAt(c, p) : p \in group}
  /\ answered \subseteq answered' /\ answered' \subseteq Jobs
  /\ \A p \in group :
       /\ JobAt(c, p) \in answered' \cup marked
       /\ \A k \in consumer[c].left \ group :
            /\ p < k /\ Kind(JobAt(c, p)) = "telegram" /\ Kind(JobAt(c, k)) = "telegram"
            /\ ChatOf(JobAt(c, p)) = ChatOf(JobAt(c, k))
            => JobAt(c, p) \in answered' \/ Parted(c, p, k)
  /\ displayed' \subseteq Jobs /\ UNCHANGED <<mail, post, deleted, cuts>>

LEMMA AckWrites ==
  ASSUME LanesInv, NEW c \in Consumers, NEW i, Acked(c, i)
  PROVE  Written(c, {i}, {})
<1> DEFINE x == [consumer[c] EXCEPT !.left = @ \ {i}]
<1>1. consumer \in [Consumers -> Handling] /\ consumer[c] \in Handling
  BY LanesTypes
<1>2. /\ x \in Handling /\ x.batch = consumer[c].batch /\ x.lost = consumer[c].lost
      /\ x.left = consumer[c].left \ {i} /\ x.retries = consumer[c].retries
  BY <1>1 DEF Handling
<1>3. consumer' = [consumer EXCEPT ![c] = x]
  BY <1>1 DEF Acked
<1> HIDE DEF x
<1> QED BY <1>1, <1>2, <1>3 DEF Written

LEMMA RetryWrites ==
  ASSUME LanesInv, NEW c \in Consumers, NEW group \in SUBSET consumer[c].left,
         Retried(c, group)
  PROVE  Written(c, group, {JobAt(c, p) : p \in group})
<1> DEFINE marked == {JobAt(c, p) : p \in group}
           x == [consumer[c] EXCEPT !.left = @ \ group, !.retries = @ \cup marked]
<1>1. consumer \in [Consumers -> Handling] /\ consumer[c] \in Handling
      /\ marked \subseteq Jobs
  BY LanesTypes DEF LanesInv, Fits, Places
<1>2. consumer' = [consumer EXCEPT ![c] = x]
  BY <1>1 DEF Retried
<1> HIDE DEF marked
<1>3. /\ x \in Handling /\ x.batch = consumer[c].batch /\ x.lost = consumer[c].lost
      /\ x.left = consumer[c].left \ group /\ x.retries = consumer[c].retries \cup marked
  BY <1>1 DEF Handling
<1> HIDE DEF x
<1>4. Written(c, group, marked)
  BY <1>1, <1>2, <1>3 DEF Written
<1> QED BY <1>4 DEF marked

LEMMA MarkStep ==
  ASSUME LanesInv, NEW c \in Consumers, NEW group, NEW marked, Marks(c, group, marked)
  PROVE  LanesInv'
<1> DEFINE x == consumer'[c]
<1>1. /\ consumer \in [Consumers -> Handling] /\ consumer[c] \in Handling
      /\ consumer[c].left \subseteq Places(consumer[c].batch)
      /\ group \subseteq DOMAIN consumer[c].batch
      /\ consumer[c].retries \subseteq JobsOf(consumer[c].batch)
      /\ \A i \in DOMAIN consumer[c].batch : JobAt(c, i) \in Jobs
  BY LanesTypes DEF LanesInv, Fits, Places, Marks
<1>2. marked \subseteq Jobs /\ marked \subseteq JobsOf(consumer[c].batch)
  BY <1>1 DEF Marks, JobAt, JobsOf
<1>3. /\ x.batch = consumer[c].batch /\ x.lost = consumer[c].lost
      /\ x.left = consumer[c].left \ group /\ x.retries = consumer[c].retries \cup marked
  BY DEF Marks, Written
<1>4. /\ consumer' \in [Consumers -> Handling]
      /\ \A d \in Consumers : d # c => consumer'[d] = consumer[d]
      /\ mail' = mail /\ post' = post /\ answered \subseteq answered'
  BY DEF Marks, Written
<1>5. \A d \in Consumers : /\ consumer'[d].batch = consumer[d].batch
                           /\ consumer'[d].lost = consumer[d].lost
  BY <1>3, <1>4
<1>6. LanesTypeOK'
  BY <1>4 DEF LanesInv, LanesTypeOK, Marks, Handling, Chats
<1>7. Fits'
  BY <1>1, <1>2, <1>3, <1>4 DEF LanesInv, Fits, Places, Kind
<1>8. Taken'
  BY <1>4, <1>5 DEF LanesInv, Taken, JobAt
<1>9. MarkedAt(c)'
  <2> SUFFICES ASSUME NEW i \in Places(consumer[c].batch), i \notin x.left
               PROVE  /\ JobAt(c, i) \in answered' \cup x.retries
                      /\ \A k \in x.left :
                           /\ i < k /\ Kind(JobAt(c, i)) = "telegram"
                           /\ Kind(JobAt(c, k)) = "telegram"
                           /\ ChatOf(JobAt(c, i)) = ChatOf(JobAt(c, k))
                           => JobAt(c, i) \in answered' \/ Parted(c, i, k)
    BY <1>3, <1>4, <1>5 DEF MarkedAt, Parted, LaneAt, JobAt, LaneOf, Places, Kind, ChatOf
  <2>1. CASE i \in group
    BY <2>1, <1>1, <1>3 DEF Marks
  <2>2. CASE i \notin group
    <3>1. i \in Places(consumer[c].batch) \ consumer[c].left /\ MarkedAt(c)
      BY <1>3, <2>2 DEF LanesInv, Marked
    <3> QED BY <3>1, <1>3, <1>4 DEF MarkedAt
  <2> QED BY <2>1, <2>2
<1>10. Marked'
  BY <1>4, <1>9, MarksStay DEF Marked
<1>11. NoneForgotten'
  BY <1>4 DEF LanesInv, NoneForgotten, Kind
<1> QED BY <1>6, <1>7, <1>8, <1>10, <1>11 DEF LanesInv

LEMMA HandleStep ==
  ASSUME LanesInv, NEW c \in Consumers, NEW i \in consumer[c].left, HandleChatMessage(c, i)
  PROVE  LanesInv'
<1> DEFINE j == JobAt(c, i)
<1>1. /\ i \in Places(consumer[c].batch) /\ j \in Jobs /\ answered \subseteq Jobs
      /\ consumer[c].left \subseteq Places(consumer[c].batch)
      /\ Places(consumer[c].batch) \subseteq DOMAIN consumer[c].batch
      /\ consumer[c] \in Handling /\ consumer \in [Consumers -> Handling]
  BY LanesTypes DEF LanesInv, Fits, LanesTypeOK, Places
<1>2. /\ displayed' \subseteq Jobs /\ UNCHANGED <<mail, post, deleted, cuts>>
      /\ answered \subseteq answered' /\ answered' \subseteq Jobs
  BY <1>1 DEF HandleChatMessage, Sends, Fails, Shows, LanesInv, LanesTypeOK
<1>3. CASE Sends(j) /\ Acked(c, i)
  <2>1. j \in answered'
    BY <1>3 DEF Sends
  <2>2. Written(c, {i}, {})
    BY <1>3, AckWrites
  <2>3. Marks(c, {i}, {})
    BY <1>2, <2>1, <2>2 DEF Marks
  <2> QED BY <2>3, MarkStep
<1>4. CASE Fails(j) /\ Retried(c, Group(c, i))
  <2> DEFINE group == Group(c, i)
             marked == {JobAt(c, p) : p \in group}
  <2>1. group \subseteq consumer[c].left
    BY DEF Group
  <2>2. Written(c, group, marked)
    BY <1>4, <2>1, RetryWrites
  <2>3. ASSUME NEW p \in group, NEW k \in consumer[c].left \ group, p < k,
               Kind(JobAt(c, p)) = "telegram", Kind(JobAt(c, k)) = "telegram",
               ChatOf(JobAt(c, p)) = ChatOf(JobAt(c, k))
        PROVE  Parted(c, p, k)
    <3>1. LaneAt(c, k) = LaneAt(c, p) /\ LaneAt(c, p) = LaneAt(c, i)
      BY <2>3 DEF LaneAt, LaneOf, Group
    <3>2. PICK q \in consumer[c].left : /\ LaneAt(c, q) = LaneAt(c, i) /\ q <= k
                                        /\ Kind(JobAt(c, q)) # "telegram"
      BY <3>1 DEF Group
    <3>3. p \in Nat /\ q \in Nat /\ k \in Nat
      BY <1>1, <2>1, LanesTypes
    <3>4. ~ (q <= p)
      BY <3>2 DEF Group
    <3>5. q # k
      BY <3>2, <2>3
    <3>6. Kind(JobAt(c, q)) \in {"drain", "notification"}
      BY <1>1, <3>2, LanesTypes DEF Places, JobAt
    <3> QED BY <1>1, <3>1, <3>2, <3>3, <3>4, <3>5, <3>6 DEF Parted
  <2>4. Marks(c, group, marked)
    <3> HIDE DEF group
    <3> QED BY <1>2, <2>1, <2>2, <2>3 DEF Marks
  <2> QED BY <2>4, MarkStep
<1> QED BY <1>3, <1>4 DEF HandleChatMessage

LEMMA InboxJobStep ==
  ASSUME LanesInv, NEW c \in Consumers, NEW i \in consumer[c].left, HandleInboxJob(c, i)
  PROVE  LanesInv'
<1> DEFINE j == JobAt(c, i)
<1>1. /\ i \in DOMAIN consumer[c].batch /\ j \in Jobs /\ answered \subseteq Jobs
      /\ consumer[c] \in Handling /\ consumer \in [Consumers -> Handling]
      /\ displayed \subseteq Jobs
  BY LanesTypes DEF LanesInv, Fits, LanesTypeOK, Places
<1>2. /\ UNCHANGED <<mail, post, deleted, cuts, displayed>> /\ Kind(j) # "telegram"
      /\ answered \subseteq answered' /\ answered' \subseteq Jobs
  BY <1>1 DEF HandleInboxJob
<1>3. CASE answered' = answered \cup {j} /\ Acked(c, i)
  <2>1. Written(c, {i}, {})
    BY <1>3, AckWrites
  <2>2. Marks(c, {i}, {})
    BY <1>1, <1>2, <1>3, <2>1 DEF Marks
  <2> QED BY <2>2, MarkStep
<1>4. CASE Retried(c, {i})
  <2>1. Written(c, {i}, {j})
    BY <1>4, RetryWrites
  <2>2. Marks(c, {i}, {j})
    BY <1>1, <1>2, <2>1 DEF Marks
  <2> QED BY <2>2, MarkStep
<1> QED BY <1>3, <1>4 DEF HandleInboxJob

-----------------------------------------------------------------------------
\* A batch is handed out: its messages were in none.
LEMMA HandoutStep ==
  ASSUME LanesInv, NEW c \in Consumers, HandleOutboxBatch(c)
  PROVE  LanesInv'
<1>1. PICK batch \in Handouts :
        /\ post' = [j \in Jobs |-> IF j \in JobsOf(batch)
                                   THEN [post[j] EXCEPT !.status = "taken"] ELSE post[j]]
        /\ consumer' = [consumer EXCEPT ![c] =
             [batch |-> batch, left |-> Places(batch), lost |-> deleted, retries |-> {}]]
  BY DEF HandleOutboxBatch
<1> DEFINE x == [batch |-> batch, left |-> Places(batch), lost |-> deleted, retries |-> {}]
<1>2. /\ batch \in Seq(Jobs) /\ DOMAIN batch \subseteq 1..OUTBOX_MAX_BATCH
      /\ JobsOf(batch) \subseteq Queued
      /\ \A i, k \in DOMAIN batch : batch[i] = batch[k] => i = k
      /\ Places(batch) \subseteq DOMAIN batch
  BY <1>1, HandedOut DEF Places
<1>3. /\ consumer \in [Consumers -> Handling] /\ post \in [Jobs -> Post]
      /\ UNCHANGED <<mail, deleted, answered, displayed, cuts>> /\ deleted \subseteq Chats
  BY LanesTypes DEF HandleOutboxBatch, LanesInv, LanesTypeOK
<1>4. x \in Handling
  BY <1>2, <1>3 DEF Handling
<1>5. /\ consumer' \in [Consumers -> Handling] /\ consumer'[c] = x
      /\ \A d \in Consumers : d # c => consumer'[d] = consumer[d]
  BY <1>1, <1>3, <1>4
<1>6. post' \in [Jobs -> Post]
      /\ \A j \in Jobs : IF j \in JobsOf(batch) THEN post'[j].status = "taken"
                         ELSE post'[j] = post[j]
  BY <1>1, <1>3 DEF Post
<1>7. LanesTypeOK'
  BY <1>3, <1>5, <1>6 DEF LanesInv, LanesTypeOK, Handling, Post, Chats
<1>8. Fits'
  BY <1>2, <1>3, <1>5 DEF LanesInv, Fits, Places, Kind, JobsOf
<1>9. Taken'
  <2>1. \A d \in Consumers : \A i \in DOMAIN consumer[d].batch :
          JobAt(d, i) \in Jobs /\ JobAt(d, i) \notin JobsOf(batch)
    BY <1>2, LanesTypes DEF LanesInv, Taken, Queued
  <2>2. \A i \in DOMAIN batch : batch[i] \in JobsOf(batch) /\ batch[i] \in Jobs
    BY <1>2 DEF JobsOf, Queued
  <2> SUFFICES ASSUME NEW a \in Consumers, NEW b \in Consumers,
                      NEW i \in DOMAIN consumer'[a].batch
               PROVE  /\ post'[JobAt(a, i)'].status = "taken"
                      /\ \A k \in DOMAIN consumer'[b].batch :
                           JobAt(a, i)' = JobAt(b, k)' => a = b /\ i = k
    BY DEF Taken
  <2>3. \A d \in Consumers : \A k \in DOMAIN consumer'[d].batch :
          JobAt(d, k)' = IF d = c THEN batch[k] ELSE JobAt(d, k)
    BY <1>5 DEF JobAt
  <2>4. post'[JobAt(a, i)'].status = "taken"
    BY <1>5, <1>6, <2>1, <2>2, <2>3 DEF LanesInv, Taken
  <2>5. ASSUME NEW k \in DOMAIN consumer'[b].batch, JobAt(a, i)' = JobAt(b, k)'
        PROVE  a = b /\ i = k
    <3>1. CASE a = c /\ b = c
      BY <3>1, <2>3, <2>5, <1>2, <1>5
    <3>2. CASE a # c /\ b # c
      BY <3>2, <2>3, <2>5, <1>5 DEF LanesInv, Taken
    <3>3. CASE a = c /\ b # c
      BY <3>3, <2>1, <2>2, <2>3, <2>5, <1>5
    <3>4. CASE a # c /\ b = c
      BY <3>4, <2>1, <2>2, <2>3, <2>5, <1>5
    <3> QED BY <3>1, <3>2, <3>3, <3>4
  <2> QED BY <2>4, <2>5
<1>10. Marked'
  <2>1. MarkedAt(c)'
    BY <1>3, <1>5 DEF MarkedAt, Places, Kind
  <2> QED BY <1>3, <1>5, <2>1, MarksStay DEF Marked
<1>11. NoneForgotten'
  BY <1>3, <1>6 DEF LanesInv, NoneForgotten, Kind
<1> QED BY <1>7, <1>8, <1>9, <1>10, <1>11 DEF LanesInv

\* An invocation is over: its messages are in no batch.
LEMMA OverStep ==
  ASSUME LanesInv, NEW c \in Consumers, consumer' = [consumer EXCEPT ![c] = NoConsumer],
         post' \in [Jobs -> Post],
         \A j \in Jobs \ JobsOf(consumer[c].batch) : post'[j] = post[j],
         \A j \in JobsOf(consumer[c].batch) :
           post'[j].status = "acked" => j \in answered \/ Kind(j) = "broken",
         cuts' \in 0..MaxCuts, UNCHANGED <<mail, deleted, answered, displayed>>
  PROVE  LanesInv'
<1>1. /\ consumer \in [Consumers -> Handling]
      /\ consumer' \in [Consumers -> Handling] /\ consumer'[c] = NoConsumer
      /\ \A d \in Consumers : d # c => consumer'[d] = consumer[d]
  BY LanesTypes, Nobody
<1>2. LanesTypeOK'
  BY <1>1 DEF LanesInv, LanesTypeOK, Handling, Post, Chats
<1>3. Fits'
  BY <1>1, Nobody DEF LanesInv, Fits, Places, Kind
<1>4. Taken'
  <2>1. \A a, b \in Consumers : \A i \in DOMAIN consumer'[a].batch :
          /\ a # c /\ consumer'[a] = consumer[a] /\ JobAt(a, i)' = JobAt(a, i)
          /\ JobAt(a, i) \in Jobs
    BY <1>1, Nobody, LanesTypes DEF JobAt
  <2>2. \A a \in Consumers : \A i \in DOMAIN consumer'[a].batch :
          JobAt(a, i) \notin JobsOf(consumer[c].batch)
    BY <2>1 DEF LanesInv, Taken, JobsOf, JobAt
  <2> QED BY <2>1, <2>2 DEF LanesInv, Taken
<1>5. Marked'
  <2>1. MarkedAt(c)'
    BY <1>1, Nobody DEF MarkedAt, Places
  <2> QED BY <1>1, <2>1, MarksStay DEF Marked
<1>6. NoneForgotten'
  BY DEF LanesInv, NoneForgotten, Kind
<1> QED BY <1>2, <1>3, <1>4, <1>5, <1>6 DEF LanesInv

LEMMA EndStep ==
  ASSUME LanesInv, NEW c \in Consumers, BatchEnds(c) \/ BatchLost(c)
  PROVE  LanesInv'
<1>1. /\ post \in [Jobs -> Post] /\ JobsOf(consumer[c].batch) \subseteq Jobs
      /\ consumer[c].retries \subseteq JobsOf(consumer[c].batch)
      /\ cuts \in 0..MaxCuts
  BY LanesTypes DEF LanesInv, LanesTypeOK, Fits, JobsOf, JobAt
<1>2. CASE BatchEnds(c)
  <2>1. /\ consumer[c].left = {} /\ consumer' = [consumer EXCEPT ![c] = NoConsumer]
        /\ post' = [j \in Jobs |->
             IF j \in consumer[c].retries THEN Returned(post[j])
             ELSE IF j \in JobsOf(consumer[c].batch) THEN [post[j] EXCEPT !.status = "acked"]
             ELSE post[j]]
        /\ UNCHANGED <<mail, deleted, answered, displayed, cuts>>
    BY <1>2 DEF BatchEnds
  <2>2. \A j \in Jobs : /\ post[j] \in Post /\ Returned(post[j]) \in Post
                        /\ Returned(post[j]).status # "acked"
                        /\ [post[j] EXCEPT !.status = "acked"] \in Post
    BY <1>1, Returns DEF Post
  <2>3. post' \in [Jobs -> Post]
        /\ \A j \in Jobs \ JobsOf(consumer[c].batch) : post'[j] = post[j]
    BY <1>1, <2>1, <2>2
  <2>4. ASSUME NEW j \in JobsOf(consumer[c].batch), post'[j].status = "acked"
        PROVE  j \in answered \/ Kind(j) = "broken"
    <3>1. j \notin consumer[c].retries
      BY <1>1, <2>1, <2>2, <2>4
    <3>2. PICK i \in DOMAIN consumer[c].batch : j = JobAt(c, i)
      BY DEF JobsOf, JobAt
    <3>3. MarkedAt(c)
      BY DEF LanesInv, Marked
    <3> QED BY <2>1, <3>1, <3>2, <3>3 DEF MarkedAt, Places, JobAt
  <2> QED BY <1>1, <2>1, <2>3, <2>4, OverStep
<1>3. CASE BatchLost(c)
  <2>1. /\ cuts' \in 0..MaxCuts /\ consumer' = [consumer EXCEPT ![c] = NoConsumer]
        /\ post' = [j \in Jobs |-> IF j \in JobsOf(consumer[c].batch)
                                   THEN Returned(post[j]) ELSE post[j]]
        /\ UNCHANGED <<mail, deleted, answered, displayed>>
    BY <1>1, <1>3, LanesAssumption DEF BatchLost, AllReturned
  <2>2. \A j \in Jobs : /\ post[j] \in Post /\ Returned(post[j]) \in Post
                        /\ Returned(post[j]).status # "acked"
    BY <1>1, Returns
  <2> QED BY <1>1, <2>1, <2>2, OverStep
<1> QED BY <1>2, <1>3

LEMMA FailedLookupStep ==
  ASSUME LanesInv, NEW c \in Consumers, LookupFails(c)
  PROVE  LanesInv'
<1>1. PICK batch \in Handouts : post' = AllReturned(JobsOf(batch))
  BY DEF LookupFails
<1>2. /\ UNCHANGED <<mail, consumer, deleted, answered, displayed, cuts>>
      /\ post \in [Jobs -> Post] /\ JobsOf(batch) \subseteq Queued
  BY <1>1, HandedOut, LanesTypes DEF LookupFails
<1>3. /\ post' \in [Jobs -> Post]
      /\ \A j \in Jobs : post'[j] = post[j] \/ /\ post[j].status = "queued"
                                               /\ post'[j].status \in {"queued", "dead"}
  <2>1. \A j \in Jobs : post[j] \in Post /\ Returned(post[j]) \in Post
                        /\ Returned(post[j]).status \in {"queued", "dead"}
    BY <1>2, Returns
  <2> QED BY <1>1, <1>2, <2>1 DEF AllReturned, Queued
<1>4. LanesTypeOK' /\ Fits' /\ NoneForgotten'
  BY <1>2, <1>3 DEF LanesInv, LanesTypeOK, Fits, NoneForgotten, Places, Kind, Post, Chats
<1>5. Taken'
  BY <1>2, <1>3, LanesTypes DEF LanesInv, Taken, JobAt
<1>6. Marked'
  BY <1>2, MarksStay DEF Marked
<1> QED BY <1>4, <1>5, <1>6 DEF LanesInv

LEMMA LanesStep == LanesInv /\ [LanesNext]_lanesVars => LanesInv'
<1> SUFFICES ASSUME LanesInv, [LanesNext]_lanesVars PROVE LanesInv'
  OBVIOUS
<1>1. ASSUME NEW c \in Consumers,
             \/ HandleOutboxBatch(c) \/ LookupFails(c) \/ BatchEnds(c) \/ BatchLost(c)
             \/ \E i \in consumer[c].left : HandleChatMessage(c, i) \/ HandleInboxJob(c, i)
      PROVE  LanesInv'
  BY <1>1, HandoutStep, FailedLookupStep, EndStep, HandleStep, InboxJobStep
<1>2. CASE AccountGoes \/ UNCHANGED lanesVars
  <2>1. UNCHANGED <<mail, post, consumer, answered, displayed, cuts>>
    BY <1>2 DEF AccountGoes, lanesVars
  <2>2. deleted' \subseteq Chats
    BY <1>2 DEF AccountGoes, lanesVars, LanesInv, LanesTypeOK, Chats, ChatOf
  <2>3. LanesTypeOK' /\ Fits' /\ Taken' /\ NoneForgotten'
    BY <2>1, <2>2 DEF LanesInv, LanesTypeOK, Fits, Taken, NoneForgotten, Places, Kind,
                      JobAt, Chats
  <2>4. Marked'
    BY <2>1, MarksStay DEF Marked
  <2> QED BY <2>3, <2>4 DEF LanesInv
<1> QED BY <1>1, <1>2 DEF LanesNext

LEMMA LanesBegin == LanesInit => LanesInv
<1> SUFFICES ASSUME LanesInit PROVE LanesInv
  OBVIOUS
<1>1. \A c \in Consumers : consumer[c] = NoConsumer
  BY DEF LanesInit
<1>2. LanesTypeOK
  BY Nobody, LanesAssumption DEF LanesInit, LanesTypeOK, Handling
<1>3. Fits /\ Taken /\ Marked
  BY <1>1, Nobody DEF Fits, Taken, Marked, MarkedAt
<1>4. NoneForgotten
  BY DEF LanesInit, NoneForgotten
<1> QED BY <1>2, <1>3, <1>4 DEF LanesInv

\* Only the handling of a chat shows a message, and it takes the first of its lane.
LEMMA TurnStep ==
  ASSUME LanesInv, LanesNext, NEW c \in Consumers, NEW k \in DOMAIN consumer[c].batch,
         JobAt(c, k) \in displayed' \ displayed,
         NEW i \in DOMAIN consumer[c].batch, i < k, Kind(JobAt(c, i)) = "telegram",
         Kind(JobAt(c, k)) = "telegram", ChatOf(JobAt(c, i)) = ChatOf(JobAt(c, k))
  PROVE  JobAt(c, i) \in answered \/ Parted(c, i, k)
<1>1. PICK d \in Consumers : \E p \in consumer[d].left : HandleChatMessage(d, p)
  BY DEF LanesNext, HandleOutboxBatch, LookupFails, BatchEnds, BatchLost, HandleInboxJob,
         AccountGoes
<1> PICK p \in consumer[d].left : HandleChatMessage(d, p)
  BY <1>1
<1>2. JobAt(c, k) = JobAt(d, p)
  BY DEF HandleChatMessage, Sends, Fails, Shows
<1>3. c = d /\ k = p
  BY <1>2 DEF LanesInv, Fits, Taken, Places
<1>4. LaneAt(c, i) = LaneAt(c, k)
  BY DEF LaneAt, LaneOf
<1>5. i \in Nat /\ k \in Nat
  BY LanesTypes
<1>6. i \notin consumer[c].left /\ k \in consumer[c].left
  BY <1>3, <1>4, <1>5 DEF HandleChatMessage, AtWork
<1>7. i \in Places(consumer[c].batch)
  BY DEF Places, JobAt
<1> QED BY <1>6, <1>7 DEF LanesInv, Marked, MarkedAt

\* The consumer keeps the turns of a chat and forgets no message (LanesAreKept):
\* a telegram job goes out only when those before it have their outcome, unless
\* a job of another kind parts them, and none is acknowledged without an outcome.
THEOREM LanesTheorem == LanesSpec => LanesAreKept
<1>1. LanesInv /\ [LanesNext]_lanesVars =>
        [\A c \in Consumers : \A k \in DOMAIN consumer[c].batch :
           /\ Kind(JobAt(c, k)) = "telegram" /\ JobAt(c, k) \in displayed' \ displayed
           => \A i \in DOMAIN consumer[c].batch :
                /\ i < k /\ Kind(JobAt(c, i)) = "telegram"
                /\ ChatOf(JobAt(c, i)) = ChatOf(JobAt(c, k))
                => JobAt(c, i) \in answered \/ Parted(c, i, k)]_lanesVars
  BY TurnStep
<1>2. LanesInv => NoneForgotten
  BY DEF LanesInv
<1> QED BY <1>1, <1>2, LanesStep, LanesBegin, PTL DEF LanesSpec, LanesAreKept, TurnKept

-----------------------------------------------------------------------------
(***************************************************************************)
(* The ticket vault, the safety state, the dialogs and the consumer side   *)
(* by side, as the runs explore them: a step of one is no step of another, *)
(* so what is invariant in each is so in all.                              *)
(***************************************************************************)

LEMMA OnePartMoves ==
  [MCNext]_mcVars => /\ [Next]_vaultVars /\ [SafetyNext]_safetyVars
                     /\ [ChatNext]_chatVars /\ [LanesNext]_lanesVars
BY DEF MCNext, mcVars, lanesVars, vaultVars, safetyVars, chatVars

\* Every variable of the vault, of the safety state, of the dialogs and of the
\* consumer keeps its type.
THEOREM TypesTheorem == MCSpec => []TypesOK
<1> DEFINE Inv == IInv /\ SafetyInv /\ ChatInv /\ LanesInv
<1>1. MCInit => Inv
  BY InitInv, SafetyBegins, ChatBegins, LanesBegin DEF MCInit
<1>2. Inv /\ [MCNext]_mcVars => Inv'
  BY OnePartMoves, Inductive, SafetySteps, ChatSteps, LanesStep
<1>3. Inv => TypesOK
  BY DEF TypesOK, IInv, SafetyInv, ChatInv, LanesInv
<1> HIDE DEF Inv
<1> QED BY <1>1, <1>2, <1>3, PTL DEF MCSpec
=============================================================================
