----------------------------- MODULE Questionnaire -----------------------------
(***************************************************************************)
(* The questionnaire of the conversation profile: the one session row in   *)
(* UserState, and the buttons that read it, encrypt it anew and write it   *)
(* back (src/profile/profile-session-service.ts, profile-handlers.ts).     *)
(* Telegram updates of one person are handled at the same time when they   *)
(* come at the same time or are repeated, so a read and the write that     *)
(* follows it are steps of their own.  What a finalize does between the    *)
(* read of the answers and the end of the session is in ProfileLife.       *)
(*                                                                         *)
(* The person has been through the questionnaire before: the buttons of    *)
(* every question and of the submit prompt are in the chat.                *)
(***************************************************************************)
EXTENDS Integers, FiniteSets

CONSTANTS
  PROFILE_QUESTION_COUNT,
  Choices,       \* answers to a question
  NoAnswer,
  Presses,       \* buttons being handled at a time
  MaxRestarts    \* bound: sessions begun

ASSUME QuestionnaireAssumption ==
  /\ PROFILE_QUESTION_COUNT \in Nat \ {0}
  /\ NoAnswer \notin Choices
  /\ MaxRestarts \in Nat

Questions == 0..(PROFILE_QUESTION_COUNT - 1)
Answers == [Questions -> Choices \cup {NoAnswer}]

VARIABLES
  session,    \* profile_sessions: the row, or status "none"
  press,      \* program state of the invocations
  restarts,   \* sessions begun so far (bound)
  kept,       \* history: answers saved and not overlapped since
  overlapped  \* history: the session was written since the invocation read it

questionnaireVars == <<session, press, restarts, kept, overlapped>>

NoAnswers == [q \in Questions |-> NoAnswer]
NoSession == [status |-> "none", index |-> 0, answers |-> NoAnswers]
NoPress == [pc |-> "idle", question |-> 0, choice |-> NoAnswer, seen |-> NoAnswers]

QuestionnaireTypeOK ==
  /\ session \in [status : {"none", "active", "ready_to_submit"},
                  index : 0..PROFILE_QUESTION_COUNT, answers : Answers]
  /\ press \in [Presses -> [pc : {"idle", "saving", "moving", "starting", "clearing"},
                            question : Questions, choice : Choices \cup {NoAnswer},
                            seen : Answers]]
  /\ restarts \in 0..MaxRestarts
  /\ kept \in Answers /\ overlapped \in [Presses -> BOOLEAN]

QuestionnaireInit ==
  /\ session = NoSession /\ press = [h \in Presses |-> NoPress] /\ restarts = 0
  /\ kept = NoAnswers /\ overlapped = [h \in Presses |-> FALSE]

Live == session.status # "none"

PressedFor(h, pc) == press[h].pc = pc
Idle(h) == press' = [press EXCEPT ![h] = NoPress]

\* The session is written: who has read it before has read an old one.
Written == overlapped' = [h \in Presses |-> TRUE]
Reads(h) == overlapped' = [overlapped EXCEPT ![h] = FALSE]

-----------------------------------------------------------------------------

\* hasCompleteAnswers; the buttons offer valid answers only.
HasCompleteAnswers(answers) == \A q \in Questions : answers[q] # NoAnswer

StatusOf(answers) ==
  IF HasCompleteAnswers(answers) THEN "ready_to_submit" ELSE "active"

\* An answer: saveProfileAnswer reads the session.
ReadForAnswer(h) ==
  /\ PressedFor(h, "idle") /\ Live
  /\ \E q \in Questions, choice \in Choices :
       press' = [press EXCEPT ![h] =
         [pc |-> "saving", question |-> q, choice |-> choice, seen |-> session.answers]]
  /\ Reads(h)
  /\ UNCHANGED <<session, restarts, kept>>

\* Mutant of Merged: what was answered before is not written back.
MergedWithNothing(seen, q, choice) == [NoAnswers EXCEPT ![q] = choice]

Merged(seen, q, choice) == [seen EXCEPT ![q] = choice]

\* updateProfileSession of an answer; it throws when there is no session.
SaveAnswer(h) ==
  /\ PressedFor(h, "saving")
  /\ LET q == press[h].question
         answers == Merged(press[h].seen, q, press[h].choice) IN
     IF Live
     THEN /\ session' = [status |-> StatusOf(answers), index |-> q + 1,
                         answers |-> answers]
          /\ kept' = IF overlapped[h] THEN NoAnswers ELSE [kept EXCEPT ![q] = press[h].choice]
          /\ Written
     ELSE UNCHANGED <<session, kept, overlapped>>
  /\ Idle(h)
  /\ UNCHANGED restarts

\* The previous button; its index is the one it reads, less one.
ReadForPrevious(h) ==
  /\ PressedFor(h, "idle") /\ Live
  /\ press' = [press EXCEPT ![h] = [NoPress EXCEPT !.pc = "moving",
       !.question = IF session.index = 0 THEN 0 ELSE session.index - 1]]
  /\ Reads(h)
  /\ UNCHANGED <<session, restarts, kept>>

\* setProfileCurrentIndex; answers and status stay as they are by then.
SetCurrentIndex(h) ==
  /\ PressedFor(h, "moving")
  /\ session' = IF Live THEN [session EXCEPT !.index = press[h].question] ELSE session
  /\ Idle(h)
  /\ UNCHANGED <<restarts, kept, overlapped>>

\* The start button and the confirmed restart, and the continue button when
\* there is no session: prepareProfileRetake is in ProfileLife.
Start(h) ==
  /\ PressedFor(h, "idle") /\ restarts < MaxRestarts
  /\ press' = [press EXCEPT ![h].pc = "starting"]
  /\ restarts' = restarts + 1
  /\ UNCHANGED <<session, kept, overlapped>>

\* startProfileSession: the rows are deleted and a new one is inserted.
StartSession(h) ==
  /\ PressedFor(h, "starting")
  /\ session' = [NoSession EXCEPT !.status = "active"]
  /\ kept' = NoAnswers
  /\ Written /\ Idle(h)
  /\ UNCHANGED restarts

\* finalizeProfileSession: the answers are read, and a profile is built of
\* them in steps of ProfileLife.
ReadForSubmit(h) ==
  /\ PressedFor(h, "idle") /\ Live /\ HasCompleteAnswers(session.answers)
  /\ press' = [press EXCEPT ![h].pc = "clearing"]
  /\ Reads(h)
  /\ UNCHANGED <<session, restarts, kept>>

\* clearProfileSession, the last step: whatever session is there by then.
ClearProfileSession(h) ==
  /\ PressedFor(h, "clearing")
  /\ session' = NoSession /\ kept' = NoAnswers
  /\ Idle(h)
  /\ UNCHANGED <<restarts, overlapped>>

\* The session expires: the next look at the row deletes it.  A reset purges it.
SessionEnds ==
  /\ Live
  /\ session' = NoSession /\ kept' = NoAnswers
  /\ UNCHANGED <<press, restarts, overlapped>>

\* The invocation is lost, or a call of it throws.
PressLost(h) ==
  /\ ~ PressedFor(h, "idle")
  /\ Idle(h)
  /\ UNCHANGED <<session, restarts, kept, overlapped>>

QuestionnaireNext ==
  \/ SessionEnds
  \/ \E h \in Presses :
       \/ ReadForAnswer(h) \/ SaveAnswer(h) \/ ReadForPrevious(h) \/ SetCurrentIndex(h)
       \/ Start(h) \/ StartSession(h) \/ ReadForSubmit(h)
       \/ ClearProfileSession(h) \/ PressLost(h)

QuestionnaireSpec == QuestionnaireInit /\ [][QuestionnaireNext]_questionnaireVars

-----------------------------------------------------------------------------
(* Correctness. *)

\* The submit prompt is shown by the status, so the status of the stored row
\* must be right about the answers in it, whichever saves, steps back and
\* restarts overlap, and even when one save has undone another.
ReadyMeansComplete ==
  Live => (session.status = "ready_to_submit" <=> HasCompleteAnswers(session.answers))

\* An answer that was saved stays as it was given until it is changed, the
\* questionnaire is begun again, submitted or expires; only a save that
\* overlaps another write can undo it.
SavedAnswersStay ==
  Live => \A q \in Questions : kept[q] # NoAnswer => session.answers[q] = kept[q]

\* The stored session can be relied on: its status and its answers are right.
SessionIsTrue == ReadyMeansComplete /\ SavedAnswersStay
=============================================================================
