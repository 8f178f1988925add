---------------------------- MODULE MCTicketVault ----------------------------
(* One vault shard with three tickets and a sweep limit of one, the safety *)
(* state of one subject with four reports of three people, the dialogs of  *)
(* two people with two handlers at a time, and the outbox consumer with a  *)
(* batch of three messages, of one chat or two.  No method touches two of  *)
(* these states, so each behaviour explores one of them.                   *)
EXTENDS TicketVault, SafetyState, Chat, OutboxLanes

CONSTANTS t1, t2, t3, p1, p2, p3, k1, k2, r1, r2, c1

VARIABLE part

mcVars == <<vaultVars, safetyVars, chatVars, lanesVars, part>>

MCTickets == {t1, t2, t3}
MCReports == {<<p1, k1>>, <<p2, k1>>, <<p3, k1>>, <<p3, k2>>}

MCPeople == {p1, p2}
MCRuns == {r1, r2}

\* A writer who may reset and an owner who may refuse; and a person alone
\* with every dialog of its own.
MCCasts ==
  {[p \in MCPeople |-> IF p = p1 THEN {"start", "reply", "message", "clearData"}
                       ELSE {"block", "clearBlocks", "pause"}],
   [p \in MCPeople |-> IF p = p1
      THEN {"nickname", "display_name", "conversation_intro", "message",
            "block", "clearBlocks", "clearData"}
      ELSE {}]}

MCConsumers == {c1}
Job(kind, chat) == [kind |-> kind, chat |-> chat]

\* A chat with two messages next to another chat; a notification between two
\* messages; a drain before a message, with one that cannot be read; and more
\* chats than are worked on at a time.
MCMails ==
  {<<Job("telegram", 1), Job("telegram", 1), Job("telegram", 2)>>,
   <<Job("telegram", 1), Job("notification", 1), Job("telegram", 1)>>,
   <<Job("drain", 1), Job("telegram", 1), Job("broken", 2)>>,
   <<Job("drain", 1), Job("telegram", 2), Job("telegram", 3)>>}

MCInit ==
  /\ Init /\ SafetyInit /\ ChatInit /\ LanesInit
  /\ part \in {"vault", "safety", "chat", "lanes"}
  /\ part = "chat" \/ may = CHOOSE c \in Casts : TRUE
  /\ part = "lanes" \/ mail = CHOOSE m \in Mails : TRUE

\* The consumer's work ends: no other stop is allowed.
QueueIsEmpty == \A j \in Jobs : post[j].status \in {"acked", "dead"}

MCNext ==
  \/ part = "vault" /\ Next /\ UNCHANGED <<safetyVars, chatVars, lanesVars, part>>
  \/ part = "safety" /\ SafetyNext /\ UNCHANGED <<vaultVars, chatVars, lanesVars, part>>
  \/ part = "chat" /\ ChatNext /\ UNCHANGED <<vaultVars, safetyVars, lanesVars, part>>
  \/ part = "lanes" /\ LanesNext /\ UNCHANGED <<vaultVars, safetyVars, chatVars, part>>
  \/ part = "lanes" /\ QueueIsEmpty /\ UNCHANGED mcVars

MCSpec == MCInit /\ [][MCNext]_mcVars /\ WF_vaultVars(Sweep)

\* Every variable of the four parts keeps its type: the type invariants of
\* the modules.
TypesOK == TypeOK /\ SafetyTypeOK /\ ChatTypeOK /\ LanesTypeOK
=============================================================================
