------------------------------ MODULE OutboxLanes ------------------------------
(***************************************************************************)
(* The consumer of the outbox queue (src/queues/outbox-consumer.ts): it    *)
(* sorts the messages of a batch into lanes, one for each chat, works on a *)
(* few lanes at a time (src/utils/concurrency.ts), and acknowledges or     *)
(* retries every message on its own.  Marks are told to the queue when the *)
(* handler returns; a message that is not to be retried is acknowledged    *)
(* then, and the messages of a lost invocation are all delivered again.    *)
(*                                                                         *)
(* The outbox of a chat answers a job whose outcome it knows at once (see  *)
(* TelegramOutbox), and delays are left out: a retried message may join    *)
(* any later batch, of another invocation too.                             *)
(***************************************************************************)
EXTENDS Integers, FiniteSets, Sequences

CONSTANTS
  Jobs,                     \* messages of the queue
  Mails,                    \* kinds and chats of the messages, one for a behaviour
  Consumers,                \* invocations of the consumer at a time
  OUTBOX_CHAT_CONCURRENCY,  \* lanes worked on at a time
  OUTBOX_MAX_BATCH,         \* messages of a batch
  OUTBOX_MAX_RETRIES,       \* retries before a message is dead
  MaxCuts                   \* bound: invocations lost

ASSUME LanesAssumption ==
  /\ \A m \in Mails :
       \A j \in Jobs : m[j].kind \in {"telegram", "notification", "drain", "broken"}
  /\ {OUTBOX_CHAT_CONCURRENCY, OUTBOX_MAX_BATCH} \subseteq Nat \ {0}
  /\ OUTBOX_MAX_RETRIES \in Nat /\ MaxCuts \in Nat

VARIABLES
  mail,      \* what the messages are
  post,      \* the queue: where each message is
  consumer,  \* the invocations
  deleted,   \* chats whose account is gone
  answered,  \* jobs with an outcome: done, rejected, or needless
  displayed,     \* history: telegram jobs that Telegram has shown
  cuts       \* invocations lost so far (bound)

lanesVars == <<mail, post, consumer, deleted, answered, displayed, cuts>>

Kind(j) == mail[j].kind
ChatOf(j) == mail[j].chat
Chats == {mail[j].chat : j \in Jobs}

\* left: the places in the batch of the messages that have no mark yet.
NoConsumer == [batch |-> <<>>, left |-> {}, lost |-> {}, retries |-> {}]

LanesTypeOK ==
  /\ mail \in Mails
  /\ post \in [Jobs -> [status : {"queued", "taken", "acked", "dead"},
                        tries : 0..OUTBOX_MAX_RETRIES]]
  /\ consumer \in [Consumers -> [batch : Seq(Jobs), left : SUBSET (1..OUTBOX_MAX_BATCH),
                                 lost : SUBSET Chats, retries : SUBSET Jobs]]
  /\ deleted \subseteq Chats /\ answered \subseteq Jobs /\ displayed \subseteq Jobs
  /\ cuts \in 0..MaxCuts

LanesInit ==
  /\ mail \in Mails
  /\ post = [j \in Jobs |-> [status |-> "queued", tries |-> 0]]
  /\ consumer = [c \in Consumers |-> NoConsumer]
  /\ deleted = {} /\ answered = {} /\ displayed = {} /\ cuts = 0

-----------------------------------------------------------------------------
(* Lanes. *)

\* A message of an account that is gone has a lane apart (resolveAccountChatHash).
LaneOf(j, lost) ==
  <<IF Kind(j) # "telegram" /\ ChatOf(j) \in lost THEN "missing" ELSE "chat", ChatOf(j)>>

JobAt(c, i) == consumer[c].batch[i]
LaneAt(c, i) == LaneOf(JobAt(c, i), consumer[c].lost)
Places(batch) == {i \in DOMAIN batch : Kind(batch[i]) # "broken"}

\* The lanes come up in the order of their first messages.
ComesUp(c, i, k) ==
  \E p \in Places(consumer[c].batch) :
    /\ LaneAt(c, p) = LaneAt(c, i)
    /\ \A q \in Places(consumer[c].batch) : LaneAt(c, q) = LaneAt(c, k) => p < q

\* mapBounded: every worker takes the next lane when it is done with one.  A
\* message is at work when it is the first of its lane and few lanes that came
\* up before have messages left.
AtWork(c, i) ==
  LET left == consumer[c].left IN
  /\ i \in left /\ \A p \in left : LaneAt(c, p) = LaneAt(c, i) => i <= p
  /\ Cardinality({LaneAt(c, p) : p \in {q \in left : ComesUp(c, q, i)}})
       < OUTBOX_CHAT_CONCURRENCY

\* Mutant of Group: a retry does not hold back the jobs behind it.
GroupOfOne(c, i) == {i}

\* The telegram jobs that are left of the group of i, which handleChatMessages takes.
Group(c, i) ==
  LET lane == {p \in consumer[c].left : LaneAt(c, p) = LaneAt(c, i)} IN
  {p \in lane : \A q \in lane : q <= p => Kind(JobAt(c, q)) = "telegram"}

Acked(c, i) == consumer' = [consumer EXCEPT ![c].left = @ \ {i}]

Retried(c, group) ==
  consumer' = [consumer EXCEPT ![c].left = @ \ group,
                               ![c].retries = @ \cup {JobAt(c, p) : p \in group}]

\* What the outbox makes of a job: its outcome, once; or the call fails, after
\* which Telegram may have shown the message all the same.
Shows(j) == displayed' \in IF j \in answered THEN {displayed} ELSE {displayed, displayed \cup {j}}

Sends(j) == answered' = answered \cup {j} /\ Shows(j)

Fails(j) == answered' \in {answered, answered \cup {j}} /\ Shows(j)

-----------------------------------------------------------------------------
\* A message goes back to the queue, or to the dead letters.
Returned(p) ==
  IF p.tries = OUTBOX_MAX_RETRIES THEN [p EXCEPT !.status = "dead"]
  ELSE [status |-> "queued", tries |-> p.tries + 1]

AllReturned(js) == [j \in Jobs |-> IF j \in js THEN Returned(post[j]) ELSE post[j]]

Queued == {j \in Jobs : post[j].status = "queued"}
Handouts ==
  UNION {{b \in [1..n -> Queued] : \A i, k \in 1..n : b[i] = b[k] => i = k} :
           n \in 1..OUTBOX_MAX_BATCH}

JobsOf(batch) == {batch[i] : i \in DOMAIN batch}

\* The queue hands out a batch; its accounts are looked up and its messages
\* sorted into lanes.
HandleOutboxBatch(c) ==
  /\ consumer[c] = NoConsumer
  /\ \E batch \in Handouts :
       /\ post' = [j \in Jobs |-> IF j \in JobsOf(batch)
                                  THEN [post[j] EXCEPT !.status = "taken"] ELSE post[j]]
       /\ consumer' = [consumer EXCEPT ![c] =
            [batch |-> batch, left |-> Places(batch), lost |-> deleted, retries |-> {}]]
  /\ UNCHANGED <<mail, deleted, answered, displayed, cuts>>

\* A look-up fails, the handler throws, and the whole batch is retried.
LookupFails(c) ==
  /\ consumer[c] = NoConsumer
  /\ \E batch \in Handouts :
       /\ \E j \in JobsOf(batch) : Kind(j) \in {"drain", "notification"}
       /\ post' = AllReturned(JobsOf(batch))
  /\ UNCHANGED <<mail, consumer, deleted, answered, displayed, cuts>>

\* handleChatMessages: one call of the outbox; a retry is given to the whole
\* rest of the group at once.
HandleChatMessage(c, i) ==
  /\ AtWork(c, i) /\ Kind(JobAt(c, i)) = "telegram"
  /\ \/ Sends(JobAt(c, i)) /\ Acked(c, i)
     \/ Fails(JobAt(c, i)) /\ Retried(c, Group(c, i))
  /\ UNCHANGED <<mail, post, deleted, cuts>>

\* The account was there when the batch was handed out.
HasAccount(c, j) == ChatOf(j) \notin consumer[c].lost

\* handleInboxNotificationMessage and handleInboxDrainMessage: nothing to do
\* for an account that is gone; otherwise done, refused or needless, or to be
\* tried again (see InboxDelivery for what a drain does).
HandleInboxJob(c, i) ==
  LET j == JobAt(c, i) IN
  /\ AtWork(c, i) /\ Kind(j) \in {"drain", "notification"}
  /\ \/ answered' = answered \cup {j} /\ Acked(c, i)
     \/ HasAccount(c, j) /\ Retried(c, {i}) /\ UNCHANGED answered
  /\ UNCHANGED <<mail, post, deleted, displayed, cuts>>

\* The handler returns.
BatchEnds(c) ==
  LET me == consumer[c] IN
  /\ me # NoConsumer /\ me.left = {}
  /\ post' = [j \in Jobs |->
       IF j \in me.retries THEN Returned(post[j])
       ELSE IF j \in JobsOf(me.batch) THEN [post[j] EXCEPT !.status = "acked"]
       ELSE post[j]]
  /\ consumer' = [consumer EXCEPT ![c] = NoConsumer]
  /\ UNCHANGED <<mail, deleted, answered, displayed, cuts>>

\* The invocation is lost, and its marks with it.
BatchLost(c) ==
  /\ cuts < MaxCuts /\ cuts' = cuts + 1
  /\ consumer[c] # NoConsumer
  /\ post' = AllReturned(JobsOf(consumer[c].batch))
  /\ consumer' = [consumer EXCEPT ![c] = NoConsumer]
  /\ UNCHANGED <<mail, deleted, answered, displayed>>

\* An account with a drain or a notification is reset: its row in D1 goes.
AccountGoes ==
  /\ deleted = {}
  /\ \E j \in Jobs : Kind(j) \in {"drain", "notification"} /\ deleted' = {ChatOf(j)}
  /\ UNCHANGED <<mail, post, consumer, answered, displayed, cuts>>

LanesNext ==
  \/ \E c \in Consumers :
       \/ HandleOutboxBatch(c) \/ LookupFails(c) \/ BatchEnds(c) \/ BatchLost(c)
       \/ \E i \in consumer[c].left : HandleChatMessage(c, i) \/ HandleInboxJob(c, i)
  \/ AccountGoes

LanesSpec == LanesInit /\ [][LanesNext]_lanesVars

-----------------------------------------------------------------------------
(* Correctness. *)

\* Something other than a telegram job comes between the two in their lane.
Parted(c, i, k) ==
  \E p \in DOMAIN consumer[c].batch :
    /\ i < p /\ p < k /\ Kind(JobAt(c, p)) \in {"drain", "notification"}
    /\ LaneAt(c, p) = LaneAt(c, i)

\* Messages of a chat are not shown out of turn: a telegram job goes out only
\* when those before it in its batch have their outcome, however lanes overlap
\* and whatever fails, unless a drain or a notification parts them.
\* docs/architecture.md:238 speaks of FIFO order inside each chat; this is the
\* part of it that the consumer keeps.
TurnKept ==
  [][\A c \in Consumers : \A k \in DOMAIN consumer[c].batch :
       /\ Kind(JobAt(c, k)) = "telegram" /\ JobAt(c, k) \in displayed' \ displayed
       => \A i \in DOMAIN consumer[c].batch :
            /\ i < k /\ Kind(JobAt(c, i)) = "telegram"
            /\ ChatOf(JobAt(c, i)) = ChatOf(JobAt(c, k))
            => JobAt(c, i) \in answered \/ Parted(c, i, k)]_lanesVars

\* No message is acknowledged, in so many words or by the end of the handler,
\* before its job has an outcome; what is not, comes again or is a dead letter.
NoneForgotten ==
  \A j \in Jobs : post[j].status = "acked" => j \in answered \/ Kind(j) = "broken"

\* The consumer keeps the turns of a chat and answers every message.
LanesAreKept == TurnKept /\ []NoneForgotten
=============================================================================
