---------------------------- MODULE InboxDelivery ----------------------------
(***************************************************************************)
(* Sealed message delivery end to end: senders run createSealedTicket      *)
(* (src/ticketing/create-sealed-ticket.ts), drain jobs on the outbox queue *)
(* run drainUnreadInbox and deliverClaim (src/ticketing/inbox.ts), and     *)
(* both work on the UnreadInbox of the recipient, on the TicketVault and,  *)
(* through its promise, on the recipient's TelegramOutbox.  Every await on *)
(* another object is a step of its own, so steps of several invocations    *)
(* interleave; an invocation may also be lost between any two steps.       *)
(*                                                                         *)
(* A drain job works on one claim at a time, and a row is claimed only     *)
(* when no attempt is named in it, so the pair of job and ticket serves as *)
(* the fresh attempt id of a claim.                                        *)
(***************************************************************************)
EXTENDS Integers, FiniteSets

CONSTANTS
  Tickets, Drains,
  NoAttempt, NoTicket, NoAlarm,
  INBOX_MAX_UNREAD, INBOX_CLEANUP_LIMIT, INBOX_DELIVERY_LIMIT,
  EXPIRY_SWEEP_LIMIT, LEASE, TTL, RETENTION,
  MAX_RETRIES,    \* queue retries before a job goes to the dead-letter queue
  Repeatable,     \* tickets with a deterministic capability: request accepts
  Undeliverable,  \* tickets whose payload no Telegram method can carry
  Malformed,      \* tickets whose sealed capability cannot be parsed
  MaxFailures     \* bound: faults explored

ASSUME DeliveryAssumption ==
  /\ IsFiniteSet(Tickets) /\ NoTicket \notin Tickets
  /\ NoAttempt \notin Drains \X Tickets
  /\ NoAlarm \notin Int
  /\ {INBOX_MAX_UNREAD, INBOX_CLEANUP_LIMIT, EXPIRY_SWEEP_LIMIT} \subseteq Nat \ {0}
  /\ {LEASE, TTL} \subseteq Nat \ {0}
  /\ RETENTION \in Nat
  /\ INBOX_DELIVERY_LIMIT \in Nat \ {0}
  /\ MAX_RETRIES \in Nat
  /\ Repeatable \subseteq Tickets
  /\ Undeliverable \subseteq Tickets
  /\ Malformed \subseteq Tickets
  /\ MaxFailures \in Nat

VARIABLES
  inbox,                   \* UnreadInbox
  vault, alarm,            \* TicketVault
  ledger, shown,           \* OutboxPromise
  refused,                 \* history: tickets Telegram has refused for good
  drain,                   \* program state of each drain job
  sender,                  \* the createSealedTicket call of each ticket
  failures                 \* faults so far (bound)

vars == <<inbox, vault, alarm, ledger, shown, refused, drain, sender, failures>>
vaultVars == <<vault, alarm>>
outboxVars == <<ledger, shown, refused>>

\* The claims the inbox has handed out and that a drain job still works on.
Holding == {"claimed", "resolved", "sent", "viewed", "orphan", "orphanSealed",
            "release"}

Attempt(d) == <<d, drain[d].ticket>>

openClaims ==
  {<<drain[d].ticket, Attempt(d)>> :
     d \in {e \in Drains : drain[e].pc \in Holding}}

Inbox == INSTANCE UnreadInbox
           WITH Attempts <- Drains \X Tickets, claims <- openClaims
Vault == INSTANCE TicketVault WITH stores <- 0, MaxStores <- 0
Outbox == INSTANCE OutboxPromise WITH Keys <- Tickets

DrainPC == Holding \cup {"idle", "queued", "loop", "scrub", "retry"}
SenderPC == {"idle", "storing", "adding", "cleanup", "ok", "failed"}

TypeOK ==
  /\ Inbox!TypeOK /\ Vault!TypeOK /\ Outbox!TypeOK
  /\ drain \in [Drains -> [pc : DrainPC, ticket : Tickets \cup {NoTicket},
                           tries : 0..MAX_RETRIES,
                           left : 0..INBOX_DELIVERY_LIMIT]]
  /\ sender \in [Tickets -> [pc : SenderPC, created : BOOLEAN, ttl : 0..TTL]]
  /\ refused \subseteq Tickets
  /\ failures \in 0..MaxFailures

Init ==
  /\ drain = [d \in Drains |-> [pc |-> "idle", ticket |-> NoTicket,
                                tries |-> 0, left |-> 0]]
  /\ sender = [t \in Tickets |-> [pc |-> "idle", created |-> FALSE, ttl |-> 0]]
  /\ refused = {} /\ failures = 0
  /\ Inbox!Init /\ Vault!Init /\ Outbox!Init

Fault == failures < MaxFailures /\ failures' = failures + 1

-----------------------------------------------------------------------------
(* createSealedTicket.  It starts here once the safety and receive gates   *)
(* have passed.  A ticket is created by one call, of a fresh capability;   *)
(* only a request accept calls again for the same ticket, after its        *)
(* earlier call has ended and well within the life of the ticket: a        *)
(* request lives 3 days, a ticket 30.  The life of a message counts from   *)
(* its first call: a record or row that is found keeps its own expiry.     *)

SenderAt(t, pc) == sender[t].pc = pc
SenderGoto(t, pc) == sender' = [sender EXCEPT ![t].pc = pc]
Ended(t) == sender[t].pc \in {"ok", "failed"}

Begin(t) ==
  /\ SenderAt(t, "idle") \/ (t \in Repeatable /\ Ended(t) /\ sender[t].ttl > 0)
  /\ sender' = [sender EXCEPT ![t] = [pc |-> "storing", created |-> FALSE,
                                      ttl |-> IF @.pc = "idle" THEN TTL ELSE @.ttl]]
  /\ UNCHANGED <<inbox, vaultVars, outboxVars, drain>>

Store(t) ==
  /\ SenderAt(t, "storing")
  /\ \/ /\ Vault!StoreTicket(t)
        /\ sender' = [sender EXCEPT ![t].pc = "adding", ![t].created = TRUE]
     \/ /\ Vault!StoreExisting(t)
        /\ SenderGoto(t, "adding")
  /\ UNCHANGED <<inbox, outboxVars, drain>>

\* What finally does to a call whose unread item was not accepted.
GiveUp(t) == SenderGoto(t, IF sender[t].created THEN "cleanup" ELSE "failed")

AddUnread(t) ==
  /\ SenderAt(t, "adding")
  /\ \/ /\ Inbox!AddUnreadItem(t) \/ Inbox!AddDuplicate(t)
        /\ SenderGoto(t, "ok")
     \/ /\ Inbox!AddRefusedFull(t)
        /\ GiveUp(t)
  /\ UNCHANGED <<vaultVars, outboxVars, drain>>

\* The call throws, before or after the row was inserted.
AddThrows(t) ==
  /\ SenderAt(t, "adding")
  /\ UNCHANGED inbox \/ Inbox!AddUnreadItem(t)
  /\ GiveUp(t)
  /\ UNCHANGED <<vaultVars, outboxVars, drain>>

\* cleanupStoredTicket.
Cleanup(t) ==
  /\ SenderAt(t, "cleanup")
  /\ Vault!DeleteTicket(t)
  /\ SenderGoto(t, "failed")
  /\ UNCHANGED <<inbox, outboxVars, drain>>

\* The sender's invocation is lost, or its cleanup fails, which is ignored.
LoseSender(t) ==
  /\ sender[t].pc \in {"storing", "adding", "cleanup"}
  /\ SenderGoto(t, "failed")
  /\ UNCHANGED <<inbox, vaultVars, outboxVars, drain>>

-----------------------------------------------------------------------------
(* Drain jobs. *)

At(d, pc) == drain[d].pc = pc
Goto(d, pc) == drain' = [drain EXCEPT ![d].pc = pc]

\* requestUnreadDelivery: enqueue a drain job if anything is unread.
RequestDelivery(d) ==
  /\ At(d, "idle")
  /\ Inbox!CleanupExpiredUnreadItems
  /\ IF Inbox!CountedUnread(inbox') = {} THEN UNCHANGED drain
     ELSE drain' = [drain EXCEPT ![d] = [pc |-> "queued", ticket |-> NoTicket,
                                         tries |-> 0, left |-> 0]]
  /\ UNCHANGED <<vaultVars, outboxVars, sender>>

\* The consumer takes the job and starts its loop.
StartDrain(d) ==
  /\ At(d, "queued")
  /\ drain' = [drain EXCEPT ![d].pc = "loop",
                            ![d].left = INBOX_DELIVERY_LIMIT]
  /\ UNCHANGED <<inbox, vaultVars, outboxVars, sender>>

\* The loop is over: the job is acknowledged.
Acked == [pc |-> "idle", ticket |-> NoTicket, tries |-> 0, left |-> 0]

ClaimNext(d) ==
  /\ At(d, "loop") /\ drain[d].left > 0
  /\ \/ \E t \in Tickets :
          /\ Inbox!ClaimUnread(t, <<d, t>>)
          /\ drain' = [drain EXCEPT ![d].pc = "claimed", ![d].ticket = t,
                                    ![d].left = @ - 1]
     \/ /\ Inbox!ClaimNothing
        /\ drain' = [drain EXCEPT ![d] = Acked]
  /\ UNCHANGED <<vaultVars, outboxVars, sender>>

LimitReached(d) ==
  /\ At(d, "loop") /\ drain[d].left = 0
  /\ drain' = [drain EXCEPT ![d] = Acked]
  /\ UNCHANGED <<inbox, vaultVars, outboxVars, sender>>

\* openUnreadCapability and resolveTicketAction, up to the status check.
Resolve(d) ==
  LET t == drain[d].ticket IN
  /\ At(d, "claimed")
  /\ \/ /\ t \in Malformed
        /\ Goto(d, "orphanSealed")
        /\ UNCHANGED vaultVars
     \/ /\ t \notin Malformed
        /\ Vault!GetMissing(t) \/ Vault!GetExpired(t)
        /\ Goto(d, "orphan")
     \/ /\ t \notin Malformed
        /\ Vault!GetFound(t)
        /\ Goto(d, IF /\ vault[t].status = "active" /\ vault[t].payload
                      /\ t \notin Undeliverable
                   THEN "resolved" ELSE "orphan")
  /\ UNCHANGED <<inbox, outboxVars, sender>>

\* Mutant of ResolveThrows: an unknown error counts as permanent.
ResolveThrowsOrphan(d) ==
  /\ At(d, "claimed")
  /\ Goto(d, "orphan")
  /\ UNCHANGED <<inbox, vaultVars, outboxVars, sender>>

\* A throw while opening or resolving is caught: release and retry.
ResolveThrows(d) ==
  /\ At(d, "claimed")
  /\ Goto(d, "release")
  /\ UNCHANGED <<inbox, vaultVars, outboxVars, sender>>

\* sendViaOutboxDo, with the payload read before.  A rejection is the recorded
\* one, or it comes from an attempt that may no longer record it.
SendAnswered(d) ==
  LET t == drain[d].ticket IN
  /\ At(d, "resolved")
  /\ \/ /\ \/ Outbox!Send(t)
           \/ ledger[t].state = "sent" /\ UNCHANGED <<ledger, shown>>
        /\ Goto(d, "sent")
        /\ UNCHANGED refused
     \/ /\ Outbox!Refuse(t) \/ UNCHANGED <<ledger, shown>>
        /\ Goto(d, "orphan")
        /\ refused' = refused \cup {t}
  /\ UNCHANGED <<inbox, vaultVars, sender>>

\* Mutant of SendRetry: the answer is taken for a success.
SendRetryAsSent(d) ==
  /\ At(d, "resolved")
  /\ UNCHANGED outboxVars
  /\ Goto(d, "sent")
  /\ UNCHANGED <<inbox, vaultVars, sender>>

\* The send is answered with retry or throws; Telegram may have shown the
\* message, and the outbox may have recorded the outcome, all the same.  An
\* attempt that overran its lease shows the message even after another attempt
\* has recorded a rejection.
SendRetry(d) ==
  LET t == drain[d].ticket IN
  /\ At(d, "resolved")
  /\ \/ (UNCHANGED <<ledger, shown>> \/ Outbox!Show(t) \/ Outbox!Send(t))
          /\ UNCHANGED refused
     \/ Outbox!Refuse(t) /\ refused' = refused \cup {t}
  /\ Goto(d, "release")
  /\ UNCHANGED <<inbox, vaultVars, sender>>

\* markResolvedTicketViewed.
MarkViewed(d) ==
  /\ At(d, "sent")
  /\ Vault!MarkViewed(drain[d].ticket)
  /\ Goto(d, "viewed")
  /\ UNCHANGED <<inbox, outboxVars, sender>>

NextItem(d) == drain' = [drain EXCEPT ![d].pc = "loop", ![d].ticket = NoTicket]

CompleteDelivery(d) ==
  /\ At(d, "viewed")
  /\ Inbox!CompleteUnread(drain[d].ticket, Attempt(d))
  /\ NextItem(d)
  /\ UNCHANGED <<vaultVars, outboxVars, sender>>

\* Mutants of CompleteOrphan: the row is deleted by any attempt; the row is
\* released instead of completed.
CompleteOrphanByTicket(d) ==
  LET t == drain[d].ticket IN
  /\ drain[d].pc \in {"orphan", "orphanSealed"}
  /\ inbox' = [inbox EXCEPT ![t] = Inbox!NoRow]
  /\ NextItem(d)
  /\ UNCHANGED <<vaultVars, outboxVars, sender>>

CompleteOrphanReleased(d) ==
  /\ drain[d].pc \in {"orphan", "orphanSealed"}
  /\ Inbox!ReleaseUnread(drain[d].ticket, Attempt(d))
  /\ NextItem(d)
  /\ UNCHANGED <<vaultVars, outboxVars, sender>>

\* completeOrphan: give up the row first, and scrub the vault only if this
\* attempt still owned it.
CompleteOrphan(d) ==
  LET t == drain[d].ticket IN
  /\ drain[d].pc \in {"orphan", "orphanSealed"}
  /\ Inbox!CompleteUnread(t, Attempt(d))
  /\ IF At(d, "orphan") /\ Inbox!Owns(t, Attempt(d))
     THEN Goto(d, "scrub") ELSE NextItem(d)
  /\ UNCHANGED <<vaultVars, outboxVars, sender>>

ScrubVault(d) ==
  /\ At(d, "scrub")
  /\ Vault!DeleteTicket(drain[d].ticket)
  /\ NextItem(d)
  /\ UNCHANGED <<inbox, outboxVars, sender>>

\* A failed deletion is logged and forgotten.
ScrubFails(d) ==
  /\ At(d, "scrub")
  /\ NextItem(d)
  /\ UNCHANGED <<inbox, vaultVars, outboxVars, sender>>

ReleaseClaim(d) ==
  /\ At(d, "release")
  /\ Inbox!ReleaseUnread(drain[d].ticket, Attempt(d))
  /\ Goto(d, "retry")
  /\ UNCHANGED <<vaultVars, outboxVars, sender>>

\* An exception no catch of deliverClaim covers - the label lookup, or any of
\* the calls that claim, mark, complete or release - reaches the consumer.
Throws(d) ==
  /\ drain[d].pc \in {"loop", "resolved", "sent", "viewed", "orphan",
                      "orphanSealed", "release"}
  /\ Goto(d, "retry")
  /\ UNCHANGED <<inbox, vaultVars, outboxVars, sender>>

\* message.retry: back to the queue, or to the dead-letter queue.
Requeued(r) ==
  IF r.tries < MAX_RETRIES
  THEN [pc |-> "queued", ticket |-> NoTicket, tries |-> r.tries + 1, left |-> 0]
  ELSE Acked

Requeue(d) ==
  /\ At(d, "retry")
  /\ drain' = [drain EXCEPT ![d] = Requeued(drain[d])]
  /\ UNCHANGED <<inbox, vaultVars, outboxVars, sender>>

\* The invocation is lost; the queue delivers the job again.
LoseDrain(d) ==
  /\ drain[d].pc \notin {"idle", "queued"}
  /\ drain' = [drain EXCEPT ![d] = Requeued(drain[d])]
  /\ UNCHANGED <<inbox, vaultVars, outboxVars, sender>>

-----------------------------------------------------------------------------
(* Everything else that touches the shared state. *)

\* The notification consumer asks for the live count.
NotificationCount ==
  Inbox!GetUnreadSummary
  /\ UNCHANGED <<vaultVars, outboxVars, drain, sender>>

\* A button of a delivered message resolves its ticket.
ActOnTicket(t) ==
  /\ t \in shown
  /\ Vault!GetExpired(t) \/ Vault!GetFound(t) \/ Vault!GetMissing(t)
  /\ UNCHANGED <<inbox, outboxVars, drain, sender>>

VaultAlarm == Vault!Alarm /\ UNCHANGED <<inbox, outboxVars, drain, sender>>

OutboxForgets(t) ==
  /\ Outbox!Old(t) /\ Outbox!Forget({t})
  /\ UNCHANGED <<inbox, vaultVars, refused, drain, sender>>

Minute ==
  Inbox!Minute /\ UNCHANGED <<vaultVars, outboxVars, drain, sender>>

Day ==
  /\ Inbox!Day /\ Vault!Day /\ Outbox!Day
  /\ sender' = [t \in Tickets |->
                  [sender[t] EXCEPT !.ttl = IF @ > 0 THEN @ - 1 ELSE 0]]
  /\ UNCHANGED <<refused, drain>>

SenderWork(t) == Begin(t) \/ Store(t) \/ AddUnread(t) \/ Cleanup(t)

SenderFails(t) == AddThrows(t) \/ LoseSender(t)

DrainWork(d) ==
  \/ StartDrain(d) \/ ClaimNext(d) \/ LimitReached(d) \/ Resolve(d)
  \/ SendAnswered(d) \/ MarkViewed(d) \/ CompleteDelivery(d)
  \/ CompleteOrphan(d) \/ ScrubVault(d) \/ ReleaseClaim(d) \/ Requeue(d)

DrainFails(d) ==
  ResolveThrows(d) \/ SendRetry(d) \/ ScrubFails(d) \/ Throws(d) \/ LoseDrain(d)

Environment ==
  \/ NotificationCount
  \/ \E t \in Tickets : ActOnTicket(t) \/ OutboxForgets(t)
  \/ VaultAlarm \/ Minute \/ Day

Working ==
  \/ \E t \in Tickets : SenderWork(t)
  \/ \E d \in Drains : RequestDelivery(d) \/ DrainWork(d)
  \/ Environment

Failing ==
  (\E t \in Tickets : SenderFails(t)) \/ (\E d \in Drains : DrainFails(d))

Next == (Working /\ UNCHANGED failures) \/ (Failing /\ Fault)

Spec == Init /\ [][Next]_vars

\* A minute of a lease passes while the worker that holds it is still at work.
Overrun ==
  /\ \E d \in Drains :
       drain[d].pc \in Holding /\ Inbox!Owns(drain[d].ticket, Attempt(d))
  /\ Minute

\* Started work goes on, the queue hands over its jobs, leases run out and the
\* recipient keeps asking for the inbox; days need not pass.  From some time on
\* no worker overruns its lease: for ever slower than the lease, it would never
\* own the row when it completes it.
FairSpec ==
  /\ Spec
  /\ \A d \in Drains : WF_vars(DrainWork(d) /\ UNCHANGED failures)
  /\ \A d \in Drains : WF_vars(RequestDelivery(d) /\ UNCHANGED failures)
  /\ WF_vars(Minute /\ UNCHANGED failures)
  /\ <>[][~ Overrun]_vars

-----------------------------------------------------------------------------
(* Correctness. *)

\* Outcomes that settle a message.
Settled(t) == t \in shown \cup refused \cup Undeliverable \cup Malformed

\* No accepted message is lost: until Telegram has shown or refused it or it
\* expires, its unread row and its payload are both there, whatever is lost,
\* retried or overtaken (inbox.ts:245-486, create-sealed-ticket.ts:168-259).
Kept(t) ==
  SenderAt(t, "ok") /\ sender[t].ttl > 0 /\ ~ Settled(t)
    => inbox[t].state # "none" /\ vault[t].payload

NothingLost == \A t \in Tickets \ Repeatable : Kept(t)

\* The same of request accepts, which may be repeated with the same ticket
\* (docs/threat-model.md:180).
RepeatedIsKept == \A t \in Repeatable : Kept(t)

\* The step that costs a repeated message: a call that stored the ticket adds
\* the row as well but hears of a failure, and will delete the ticket under it
\* (create-sealed-ticket.ts:216).
AddedUnheard ==
  \E t \in Repeatable : sender[t].created /\ AddThrows(t) /\ inbox' # inbox

\* A payload is dropped as viewed only after Telegram has shown the message.
ViewedWasShown == \A t \in Tickets : vault[t].status = "viewed" => t \in shown

\* A worker about to scrub a vault record is the last one to own its row: no
\* newer attempt owns it (inbox.ts:251).  A request accept that is repeated may
\* add the row again before the scrub: see RepeatedIsKept.
ScrubIsOwned ==
  \A d, e \in Drains :
    At(d, "scrub") /\ drain[d].ticket \notin Repeatable /\ e # d
      => ~ (drain[e].pc \in Holding /\ drain[e].ticket = drain[d].ticket
            /\ Inbox!Owns(drain[d].ticket, Attempt(e)))

\* What a worker drops is its own and has served its purpose; and every variable
\* keeps its type.
DropsAreDue == TypeOK /\ ViewedWasShown /\ ScrubIsOwned

\* The inbox of the composition is the inbox of UnreadInbox: its capacity, its
\* attempt discipline and the exclusiveness of its leases carry over.
ImplementsUnreadInbox == Inbox!Spec

\* The buttons of a delivered message work until the ticket expires
\* (README.md:119, docs/sealed-ticketing.md:332).
RouteKept(t) ==
  t \in shown \ (refused \cup Undeliverable \cup Malformed)
  /\ SenderAt(t, "ok") /\ sender[t].ttl > 0 => vault[t].route

DeliveredKeepsRoute == \A t \in Tickets : RouteKept(t)

\* The two events that cost a route: a lease runs out while the worker that
\* holds it is still at work, or a worker is cut off between marking the record
\* as viewed and completing the row (inbox.ts:471-475).
LapsedAtWork ==
  /\ \E d \in Drains :
       /\ drain[d].pc \in Holding /\ Inbox!Owns(drain[d].ticket, Attempt(d))
       /\ inbox[drain[d].ticket].lease = 1
  /\ Minute

CutOffBeforeComplete ==
  \E d \in Drains : At(d, "viewed") /\ (Throws(d) \/ LoseDrain(d))

\* Every accepted message is settled in the end, or expires.
AcceptedIsSettled ==
  \A t \in Tickets \ Repeatable :
    SenderAt(t, "ok") ~> (Settled(t) \/ sender[t].ttl = 0)

\* No row stays in the inbox for ever: a message that cannot be opened or sent
\* neither blocks the rows behind it nor comes back after its orphan cleanup.
InboxDrains ==
  \A t \in Tickets : (inbox[t].state # "none") ~> (inbox[t].state = "none")

\* The delivery comes to an end: messages are settled and rows are cleared,
\* whichever worker, job or call is lost.
DeliverySettles == AcceptedIsSettled /\ InboxDrains
=============================================================================
