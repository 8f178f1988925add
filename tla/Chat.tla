-------------------------------- MODULE Chat --------------------------------
(***************************************************************************)
(* What people say to the bot, and what the bot makes of it: the draft     *)
(* that gives the next message its meaning, the handlers of messages,      *)
(* ticket buttons and settings (src/ticketing/handlers.ts, actions.ts,     *)
(* src/settings/settings-handlers.ts, the dialog half of                   *)
(* src/suggestions/suggestion-handlers.ts) and the rows of UserState they  *)
(* share: drafts, blocks, contact_labels, paused and the display name      *)
(* (src/storage/user-state.do.ts).                                         *)
(*                                                                         *)
(* Telegram updates of one person are handled concurrently, a second apart *)
(* at least: runs are handler invocations, and each await is a step        *)
(* boundary.  A run may be lost at any of them.  Handlers that make one    *)
(* call of UserState are one step.  An account is a person and the number  *)
(* of its resets; its public link lives and dies with it, and a run keeps  *)
(* the account it began with.  The outcome of storing the ticket and the   *)
(* unread row is a choice here: those are the modules of the inbox and of  *)
(* the vault.                                                              *)
(***************************************************************************)
EXTENDS Integers, FiniteSets

CONSTANTS
  People,
  ChatRuns,      \* handler invocations at a time
  Casts,         \* what each person may do: a bound of the instance
  LABEL_LIMIT,   \* contact labels an account may keep
  MaxResets      \* bound on the resets of one person

ASSUME ChatAssumption ==
  /\ MaxResets \in Nat /\ LABEL_LIMIT \in Nat
  /\ Casts \subseteq [People -> SUBSET {"start", "reply", "nickname", "display_name",
                                      "conversation_intro", "message", "block",
                                      "clearBlocks", "clearData", "pause"}]

VARIABLES
  account,   \* users, public_links: how often each person's account was reset
  draft,     \* drafts: the one dialog that waits for an answer
  blocks,    \* blocks: the tags of the senders refused
  paused,    \* user_state.paused
  named,     \* user_state.display_name_ciphertext was chosen
  labels,    \* contact_labels: whom the account has given a nickname
  run,       \* the handlers under way
  may,       \* the cast at hand
  refuses,   \* history: whom each person has blocked, whatever the tag
  since      \* history: what was so at some moment since a run began

chatVars == <<account, draft, blocks, paused, named, labels, run, may, refuses,
             since>>

Account(p) == <<p, account[p]>>
Accounts == People \X (0..MaxResets)
NoOne == <<>>

Replies == {"compose", "reply"}
Confirms == {"clearBlocks", "clearData"}

NoDraft == [mode |-> "none", to |-> NoOne]
Drafts ==
  [mode : Replies \cup {"nickname"}, to : Accounts] \cup
  [mode : {"display_name", "conversation_intro"} \cup Confirms, to : {NoOne}]

Free == [who |-> NoOne, step |-> "free", draft |-> NoDraft]
Nothing == [open |-> {}, meant |-> {}, asked |-> {}]
Begun(p, step, d) == [who |-> Account(p), step |-> step, draft |-> d]

ChatTypeOK ==
  /\ account \in [People -> 0..MaxResets]
  /\ draft \in [People -> Drafts \cup {NoDraft}]
  /\ blocks \in [People -> SUBSET People]
  /\ paused \in [People -> BOOLEAN] /\ named \in [People -> BOOLEAN]
  /\ labels \in [People -> SUBSET People]
  /\ run \in [ChatRuns ->
       [who : Accounts \cup {NoOne},
        step : {"free", "prompt", "typed", "name", "label", "intro", "recipient",
                "gate", "store", "ack", "tapped", "empty", "purge", "rotate", "clear"},
        draft : Drafts \cup {NoDraft}]]
  /\ may \in Casts
  /\ refuses \in [People -> SUBSET People]
  /\ since \in [ChatRuns -> [open : SUBSET Accounts, meant : SUBSET Accounts,
                             asked : SUBSET Confirms]]

ChatInit ==
  /\ account = [p \in People |-> 0]
  /\ draft = [p \in People |-> NoDraft]
  /\ blocks = [p \in People |-> {}]
  /\ paused = [p \in People |-> FALSE]
  /\ named = [p \in People |-> FALSE]
  /\ labels = [p \in People |-> {}]
  /\ run = [r \in ChatRuns |-> Free]
  /\ may \in Casts
  /\ refuses = [p \in People |-> {}]
  /\ since = [r \in ChatRuns |-> Nothing]

-----------------------------------------------------------------------------
(* Helpers. *)

Who(r) == run[r].who[1]
Mine(r) == run[r].who = Account(Who(r))
IsActive(a) == a = Account(a[1])
Step(r, step) == run' = [run EXCEPT ![r].step = step]
Ends(r) == run' = [run EXCEPT ![r] = Free]

\* createBlockTag: the sender's Telegram hash, so that it outlives a reset
\* of the sender; the recipient's id is the UserState it is stored in.
BlockTag(p) == p

\* ensureAccountState gives an account that was reset a fresh, open state.
Reborn(a) == ~ IsActive(a)

\* Mutant of CanReceive: no gate for an answer in a thread.
CanReceiveThread(d, p) ==
  \/ d.mode = "reply"
  \/ Reborn(d.to)
  \/ ~ paused[d.to[1]] /\ BlockTag(p) \notin blocks[d.to[1]]

\* checkCanReceive: the gate of the draft's recipient, as it is now.
CanReceive(d, p) ==
  \/ Reborn(d.to)
  \/ ~ paused[d.to[1]] /\ BlockTag(p) \notin blocks[d.to[1]]

\* setDraft and clearDraft reach the UserState of the account the run began
\* with; one that was reset is nobody's.
SetDraft(r, d) ==
  draft' = IF Mine(r) THEN [draft EXCEPT ![Who(r)] = d] ELSE draft

\* What the run's question meets at this moment: the recipients that accept
\* its person, the one the dialog names, and the warning the dialog shows.
Facts(r) ==
  LET p == Who(r)
      asks == IF Mine(r) THEN draft[p].mode ELSE "none"
  IN
  CASE run[r].step \in {"typed", "recipient", "gate", "store"} ->
         [open |-> {a \in Accounts : \/ ~ IsActive(a)
                                     \/ ~ paused[a[1]] /\ p \notin refuses[a[1]]},
          meant |-> {draft[p].to : m \in {asks} \cap Replies}, asked |-> {}]
    [] run[r].step \in {"tapped", "empty", "purge"} ->
         [Nothing EXCEPT !.asked = {asks} \cap Confirms]
    [] OTHER -> Nothing

\* History: every run remembers what it met since it began.
Remember ==
  since' = [r \in ChatRuns |->
    LET new == Facts(r)' IN
    IF new = Nothing /\ run'[r].step \notin {"typed", "recipient", "gate", "store",
                                            "tapped", "empty", "purge"}
    THEN Nothing
    ELSE [k \in DOMAIN new |-> since[r][k] \cup new[k]]]

Begin(r, p, op, step, d) ==
  /\ op \in may[p]
  /\ run[r] = Free
  /\ run' = [run EXCEPT ![r] = Begun(p, step, d)]

-----------------------------------------------------------------------------
(* Dialogs: a prompt, and the draft that goes with it. *)

\* handleStartCommand: somebody else's link, if its owner accepts messages.
StartCommand(r, p, q) ==
  LET d == [mode |-> "compose", to |-> Account(q)] IN
  /\ p # q /\ CanReceive(d, p)
  /\ Begin(r, p, "start", "prompt", d)
  /\ UNCHANGED <<account, draft, blocks, paused, named, labels, refuses>>

\* handleReplyAction: the sender of a ticket, through its present link.
ReplyAction(r, p, q) ==
  /\ p # q
  /\ Begin(r, p, "reply", "prompt", [mode |-> "reply", to |-> Account(q)])
  /\ UNCHANGED <<account, draft, blocks, paused, named, labels, refuses>>

\* handleNicknameAction: the contact of a ticket.
NicknameAction(r, p, q) ==
  /\ p # q
  /\ Begin(r, p, "nickname", "prompt", [mode |-> "nickname", to |-> Account(q)])
  /\ UNCHANGED <<account, draft, blocks, paused, named, labels, refuses>>

\* handleSettingsCallback, editName; handleSuggestionCallback, request.
AskText(r, p, mode) ==
  /\ mode \in {"display_name", "conversation_intro"}
  /\ Begin(r, p, mode, "prompt", [mode |-> mode, to |-> NoOne])
  /\ UNCHANGED <<account, draft, blocks, paused, named, labels, refuses>>

\* handleSettingsCallback, clearBlocks: the warning, if there is a block.
WarnClearBlocks(r, p) ==
  /\ blocks[p] # {}
  /\ Begin(r, p, "clearBlocks", "prompt", [mode |-> "clearBlocks", to |-> NoOne])
  /\ UNCHANGED <<account, draft, blocks, paused, named, labels, refuses>>

\* handleSettingsCallback, clearData: the warning.
WarnClearData(r, p) ==
  /\ Begin(r, p, "clearData", "prompt", [mode |-> "clearData", to |-> NoOne])
  /\ UNCHANGED <<account, draft, blocks, paused, named, labels, refuses>>

\* setDraft: the dialog replaces the one before.
DraftSet(r) ==
  /\ run[r].step = "prompt"
  /\ SetDraft(r, run[r].draft)
  /\ Ends(r)
  /\ UNCHANGED <<account, blocks, paused, named, labels, refuses>>

\* clearDraft: whichever dialog is open then.
ClearDraft(r) ==
  /\ run[r].step = "clear"
  /\ SetDraft(r, NoDraft)
  /\ Ends(r)
  /\ UNCHANGED <<account, blocks, paused, named, labels, refuses>>

\* The expiry of a draft: getDraft and getState do not see it any more.
DraftExpires(p) ==
  /\ draft[p] # NoDraft
  /\ draft' = [draft EXCEPT ![p] = NoDraft]
  /\ UNCHANGED <<account, blocks, paused, named, labels, run, refuses>>

-----------------------------------------------------------------------------
(* Messages. *)

\* handleMessage begins.
Message(r, p) ==
  /\ Begin(r, p, "message", "typed", NoDraft)
  /\ UNCHANGED <<account, draft, blocks, paused, named, labels, refuses>>

\* getDraft: the dialog says what the message is.  Without one of text input
\* the main menu answers.
GetDraft(r) ==
  LET d == IF Mine(r) THEN draft[Who(r)] ELSE NoDraft
      next == CASE d.mode = "display_name" -> "name"
                [] d.mode = "conversation_intro" -> "intro"
                [] d.mode = "nickname" -> "label"
                [] d.mode \in Replies -> "recipient"
                [] OTHER -> "free"
  IN
  /\ run[r].step = "typed"
  /\ run' = [run EXCEPT ![r] = IF next = "free" THEN Free
                              ELSE [@ EXCEPT !.step = next, !.draft = d]]
  /\ UNCHANGED <<account, draft, blocks, paused, named, labels, refuses>>

\* cancelActiveInput: the text of the cancel button.
CancelInput(r) ==
  /\ run[r].step = "typed" /\ Mine(r)
  /\ draft[Who(r)].mode \notin {"none"} \cup Confirms
  /\ Step(r, "clear")
  /\ UNCHANGED <<account, draft, blocks, paused, named, labels, refuses>>

\* handleDisplayNameInput: a name is kept and the dialog is over; anything
\* else is asked again.
DisplayNameInput(r) ==
  /\ run[r].step = "name"
  /\ \/ /\ named' = IF Mine(r) THEN [named EXCEPT ![Who(r)] = TRUE] ELSE named
        /\ Step(r, "clear")
     \/ Ends(r) /\ UNCHANGED named
  /\ UNCHANGED <<account, draft, blocks, paused, labels, refuses>>

\* setLabel: no more than LABEL_LIMIT contacts have one; an empty nickname
\* removes it.
SetLabel(r, q) ==
  \E on \in BOOLEAN :
    /\ on => q \in labels[Who(r)] \/ Cardinality(labels[Who(r)]) < LABEL_LIMIT
    /\ labels' = IF ~ Mine(r) THEN labels
                 ELSE [labels EXCEPT ![Who(r)] = IF on THEN @ \cup {q} ELSE @ \ {q}]

\* handleMessage, nickname: the limit and a message without text leave the
\* dialog open.
NicknameInput(r) ==
  /\ run[r].step = "label"
  /\ \/ SetLabel(r, run[r].draft.to[1]) /\ Step(r, "clear")
     \/ Ends(r) /\ UNCHANGED labels
  /\ UNCHANGED <<account, draft, blocks, paused, named, refuses>>

\* handleConversationIntroInput: any text ends the dialog, whether or not
\* the request was made.
IntroInput(r) ==
  /\ run[r].step = "intro"
  /\ Step(r, "clear") \/ Ends(r)
  /\ UNCHANGED <<account, draft, blocks, paused, named, labels, refuses>>

\* handleMessage: the recipient has to be active behind the link the dialog
\* names.  A message that cannot be delivered leaves the dialog open.
FindRecipient(r) ==
  /\ run[r].step = "recipient"
  /\ IF IsActive(run[r].draft.to) THEN Step(r, "gate") \/ Ends(r)
     ELSE Step(r, "clear")
  /\ UNCHANGED <<account, draft, blocks, paused, named, labels, refuses>>

\* createSealedTicket up to the receive gate: a sanctioned sender is refused
\* with the dialog open, a blocked one and a paused recipient end it.
ReceiveGate(r) ==
  /\ run[r].step = "gate"
  /\ \/ Step(r, IF CanReceive(run[r].draft, Who(r)) THEN "store" ELSE "clear")
     \/ Ends(r)
  /\ UNCHANGED <<account, draft, blocks, paused, named, labels, refuses>>

\* The ticket and the unread row are stored, or the inbox is full or a call
\* fails, with the dialog open.
StoreMessage(r) ==
  /\ run[r].step = "store"
  /\ Step(r, "ack") \/ Ends(r)
  /\ UNCHANGED <<account, draft, blocks, paused, named, labels, refuses>>

\* The answer to the sender: one that fails leaves the dialog open, and the
\* message is sent again if it is typed again.
Acknowledge(r) ==
  /\ run[r].step = "ack"
  /\ Step(r, "clear") \/ Ends(r)
  /\ UNCHANGED <<account, draft, blocks, paused, named, labels, refuses>>

-----------------------------------------------------------------------------
(* Settings. *)

\* A confirmation or the cancel button is tapped: handleSettingsCallback
\* begins.  run[r].draft is what the button confirms, NoDraft for cancel.
Tap(r, p, mode) ==
  /\ mode \in Confirms
  /\ \E button \in {NoDraft, [mode |-> mode, to |-> NoOne]} :
       Begin(r, p, mode, "tapped", button)
  /\ UNCHANGED <<account, draft, blocks, paused, named, labels, refuses>>

\* Mutant of Confirmed: any dialog of the settings confirms.
ConfirmedAny(r) ==
  LET d == IF Mine(r) THEN draft[Who(r)] ELSE NoDraft IN
  IF run[r].draft = NoDraft THEN d.mode \in Confirms ELSE d # NoDraft

\* The button is the one of the dialog toBotUser read.
Confirmed(r) ==
  LET d == IF Mine(r) THEN draft[Who(r)] ELSE NoDraft IN
  IF run[r].draft = NoDraft THEN d.mode \in Confirms ELSE d = run[r].draft

\* toBotUser: the state and its pendingSettings are read; an account without
\* a link is nobody's.
ReadState(r) ==
  /\ run[r].step = "tapped"
  /\ IF ~ Mine(r) \/ ~ Confirmed(r) THEN Ends(r)
     ELSE Step(r, CASE run[r].draft = NoDraft -> "clear"
                    [] run[r].draft.mode = "clearBlocks" -> "empty"
                    [] OTHER -> "purge")
  /\ UNCHANGED <<account, draft, blocks, paused, named, labels, refuses>>

\* confirmClearBlocks: clearBlocks.
ConfirmClearBlocks(r) ==
  /\ run[r].step = "empty"
  /\ LET p == Who(r) IN
     IF Mine(r) THEN /\ blocks' = [blocks EXCEPT ![p] = {}]
                     /\ refuses' = [refuses EXCEPT ![p] = {}]
     ELSE UNCHANGED <<blocks, refuses>>
  /\ Step(r, "clear")
  /\ UNCHANGED <<account, draft, paused, named, labels>>

Emptied(p) ==
  /\ draft' = [draft EXCEPT ![p] = NoDraft]
  /\ blocks' = [blocks EXCEPT ![p] = {}]
  /\ paused' = [paused EXCEPT ![p] = FALSE]
  /\ named' = [named EXCEPT ![p] = FALSE]
  /\ labels' = [labels EXCEPT ![p] = {}]
  /\ refuses' = [refuses EXCEPT ![p] = {}]

\* confirmClearData: purgeUserState.
Purge(r) ==
  /\ run[r].step = "purge"
  /\ IF Mine(r) THEN Emptied(Who(r))
     ELSE UNCHANGED <<draft, blocks, paused, named, labels, refuses>>
  /\ Step(r, "rotate")
  /\ UNCHANGED account

\* hardDeleteUserAccount and createUserFromTelegram: the account that was
\* confirmed is deleted; one already deleted finds its successor.
Rotate(r) ==
  LET p == Who(r) IN
  /\ run[r].step = "rotate"
  /\ IF Mine(r)
     THEN /\ account[p] < MaxResets
          /\ account' = [account EXCEPT ![p] = @ + 1]
          /\ Emptied(p)
     ELSE UNCHANGED <<account, draft, blocks, paused, named, labels, refuses>>
  /\ run' = [run EXCEPT ![r] = [who |-> <<p, account'[p]>>, step |-> "clear",
                                draft |-> NoDraft]]

\* handleSettingsCallback, pause and resume: setPaused.
SetPaused(p, on) ==
  /\ "pause" \in may[p] /\ paused[p] # on
  /\ paused' = [paused EXCEPT ![p] = on]
  /\ UNCHANGED <<account, draft, blocks, named, labels, run, refuses>>

\* handleBlockAction: addBlock of the sender of a ticket.
BlockAction(p, q) ==
  /\ "block" \in may[p] /\ p # q
  /\ blocks' = [blocks EXCEPT ![p] = @ \cup {BlockTag(q)}]
  /\ refuses' = [refuses EXCEPT ![p] = @ \cup {q}]
  /\ UNCHANGED <<account, draft, paused, named, labels, run>>

\* handleUnblockAction: removeBlock.
UnblockAction(p, q) ==
  /\ "block" \in may[p] /\ p # q
  /\ blocks' = [blocks EXCEPT ![p] = @ \ {BlockTag(q)}]
  /\ refuses' = [refuses EXCEPT ![p] = @ \ {q}]
  /\ UNCHANGED <<account, draft, paused, named, labels, run>>

-----------------------------------------------------------------------------
\* An invocation is lost, or a call it makes fails.
ChatLost(r) ==
  /\ run[r] # Free
  /\ Ends(r)
  /\ UNCHANGED <<account, draft, blocks, paused, named, labels, refuses>>

ChatStep(r) ==
  \/ DraftSet(r) \/ ClearDraft(r)
  \/ GetDraft(r) \/ CancelInput(r)
  \/ DisplayNameInput(r) \/ NicknameInput(r) \/ IntroInput(r)
  \/ FindRecipient(r) \/ ReceiveGate(r) \/ StoreMessage(r) \/ Acknowledge(r)
  \/ ReadState(r) \/ ConfirmClearBlocks(r) \/ Purge(r) \/ Rotate(r)
  \/ ChatLost(r)

ChatBegin(r, p) ==
  \/ \E q \in People : StartCommand(r, p, q) \/ ReplyAction(r, p, q)
                        \/ NicknameAction(r, p, q)
  \/ \E mode \in may[p] : AskText(r, p, mode) \/ Tap(r, p, mode)
  \/ WarnClearBlocks(r, p) \/ WarnClearData(r, p)
  \/ Message(r, p)

ChatNext ==
  /\ \/ \E r \in ChatRuns : ChatStep(r) \/ \E p \in People : ChatBegin(r, p)
     \/ \E p \in People :
          \/ DraftExpires(p)
          \/ \E on \in BOOLEAN : SetPaused(p, on)
          \/ \E q \in People : BlockAction(p, q) \/ UnblockAction(p, q)
  /\ Remember /\ UNCHANGED may

ChatSpec == ChatInit /\ [][ChatNext]_chatVars

-----------------------------------------------------------------------------
(* Correctness. *)

\* A message is accepted only where its sender meant it to go, by somebody who
\* was willing to have it: since it arrived there was a moment when the open
\* dialog named that recipient, and one when the recipient neither paused nor
\* refused that person.  A block that was in force all the time keeps every
\* message out, of threads opened before it too, and a reset of the sender
\* does not get round it (docs/sealed-ticketing.md:158, 342).
AcceptedOnTerms ==
  [][\A r \in ChatRuns :
       run[r].step = "store" /\ run'[r].step = "ack" =>
         run[r].draft.to \in since[r].open \cap since[r].meant]_chatVars

\* Nothing is destroyed that its owner was not warned about: whoever empties
\* the block list or resets an account was shown that very warning, and at
\* some moment since the confirmation arrived it was still open, neither
\* cancelled nor replaced by another dialog (settings-handlers.ts).
ConfirmedOnly ==
  [][\A r \in ChatRuns :
       /\ run[r].step = "empty" /\ run'[r].step = "clear"
            => "clearBlocks" \in since[r].asked
       /\ run[r].step = "purge" /\ run'[r].step = "rotate"
            => "clearData" \in since[r].asked]_chatVars
=============================================================================
