# A TLA+ model of Nekonymous

Nekonymous is an anonymous messenger that lives in Telegram and runs as one
Cloudflare Worker (`src/README.md`, `src/docs/architecture.md`).  This directory
holds TLA+ modules for the parts of it that are hard to get right and hard to
test, TLC configurations that check them on small instances, and proofs that
TLAPS checks for every value of the constants.  File names below are relative to
`src/src/`, the implementation inside the repository.

## 1. The system

State lives in Durable Objects.  An object runs one method at a time between
awaits, so a method without an await is atomic; everything that spans two
objects, Telegram or a queue is not.  Queues and alarms deliver at least once.

| Component | Source | State | Operations | Talks to |
|---|---|---|---|---|
| UserState: unread inbox | `storage/user-state.do.ts` | `unread_inbox_items` with leases | add, claim, complete, release, summary, cleanup, purge | called by ticket creation, drains, notifications |
| UserState: the rest | `storage/user-state.do.ts` | drafts, profile sessions, blocks, labels, pause, rate limits, `processed_events`, exposure tokens | one method each | webhook, screens, search |
| TicketVault | `storage/ticket-vault.do.ts` | sealed route and payload of a ticket, expiry, an alarm | store, get, mark viewed, delete, sweep | ticket creation, drains, buttons |
| TelegramOutbox | `storage/telegram-outbox.do.ts` | event rows with leases, one lock and pace per chat, an alarm | `sendJob`, alarm | Telegram; called by drains and the outbox consumer |
| Ticket creation | `ticketing/create-sealed-ticket.ts` | none | store, add unread, compensate | TicketVault, UserState, SafetyState |
| Inbox delivery | `ticketing/inbox.ts` | none | request, drain, deliver, orphan cleanup | UserState, TicketVault, TelegramOutbox |
| Outbox consumer | `queues/outbox-consumer.ts` | none | lanes per chat, notification, drain job | queue, UserState, TelegramOutbox |
| ConversationVault | `storage/conversation-vault.do.ts` | suggestions; requests with an accept lease | store, get, set status, claim, complete, fail | request and suggestion services |
| PairLedger | `storage/pair-ledger.do.ts` | one lock or cooldown per pair | acquire, release, upsert | request and suggestion services |
| Request service | `suggestions/request-service.ts` | none | create, cancel, decline, accept | ConversationVault, PairLedger, ticket creation |
| SafetyState | `storage/safety-state.do.ts` | report windows, phase, sanction | report, decide, clear | reports, ticket creation |
| Webhook intake | `bot/webhook.ts` | none (uses `processed_events`) | claim, handle, complete or fail an update | UserState |
| Message and settings handlers | `ticketing/handlers.ts`, `ticketing/actions.ts`, `settings/settings-handlers.ts` | none (use drafts, blocks, labels, pause) | start, message, reply, nickname, block, unblock, confirm, reset | UserState, ticket creation, identity |
| Suggestions | `suggestions/suggestion-service.ts`, `suggestion-search.ts`, `suggestion-handlers.ts` | none (use ConversationVault, PairLedger, exposure tokens) | search, show, dismiss, ask | UserState, ConversationVault, PairLedger, ProfileVault, Vectorize |
| Questionnaire | `profile/profile-session-service.ts`, `profile-handlers.ts` | none (uses `profile_sessions`) | start, answer, step back, submit | UserState |
| Statistics | `stats/stats-consumer.ts` | counters and receipts in D1 | fold a batch, remove receipts | queue, D1 |
| Profile index | `queues/profile-index-consumer.ts`, `storage/profile-vault.do.ts` | profile records, index versions | upsert, verify, delete | queue, Vectorize |
| Identity and reset | `identity/identity-service.ts` | D1 rows | create, clear and recreate | D1, every object above |
| Cryptography, screens | `ticketing/*`, `bot/*`, `i18n/*` | none | | |

### What is hard here, and what makes each part correct

* **Unread inbox.**  Leases lapse while a worker is still sending; the capacity
  counts rows that are out for delivery.  Correct: the capacity is never
  exceeded, a lease is exclusive, a late report changes nothing, the oldest row
  goes first.
* **Ticket vault.**  One alarm serves all records and each sweep is bounded;
  three methods compare with the expiry in three ways.  Correct: the material
  left fits the status, the alarm comes in time, a dropped payload never returns.
* **Telegram outbox.**  The object takes other calls while it awaits Telegram.
  Correct: one attempt within its lease at a time, a message is not shown again
  without cause, a lost attempt does not block the chat, outcomes are kept for
  the retention and then removed.
* **Creation and delivery.**  Two objects and a queue without a transaction;
  compensation races with delivery.  Correct: an accepted message is neither
  lost nor dropped before it was shown, and the inbox drains.
* **Requests.**  Status in one object, lock in another, the ticket in a third;
  several service calls at once.  Correct: one open request per pair, one accept
  at a time, the outcome fits the message, settled requests and cooldowns stand.
* **Profiles.**  The pointer to a profile in one object, the profile in another, the
  index work in a queue that repeats and overtakes; every write follows a read that
  may be stale.  Correct: who is shown to others knows it, a reset is final, indexing
  ends, retried work leaves nothing behind.
* **Intake.**  Telegram repeats an update until it is answered, and the lease of its
  handler may lapse.  Correct: no update is forgotten, none is handled twice without
  need, and with finitely many failures every one is acknowledged.
* **Safety state.**  Windows slide, phases end only when somebody looks.  Correct: each
  sanction has enough distinct reporters of its own, and the second one is a ban.
* **Handlers.**  A handler uses the draft, the block list or the confirmation it read
  some awaits ago.  Correct: a message goes where its sender meant it, to somebody who
  was willing to have it; nothing is destroyed unconfirmed.
* **Identity.**  A cache that may be stale, a unique row in D1, a state in another
  object.  Correct: a deleted account is not used again, nobody is left without a state.
* **Suggestions.**  A search reads profiles and pairs in turn and stores tickets later.
  Correct: who is suggested was eligible meanwhile, a dismissal and the fate of a ticket
  stand, and a dismissal that the vault refuses sets nobody aside.
* **Outbox consumer.**  Lanes at a time, partial retries.  Correct: a chat's messages
  keep their turns as far as the code promises, no message is forgotten.
* **Statistics, questionnaire.**  A batch that comes again; a row that is read, changed
  and written back.  Correct: an event counts once; status and answers agree.

`PROJECT.json` lists each hazard at its line with the properties that catch it.

## 2. The modules

| Module | Models | Checked by | Proved in |
|---|---|---|---|
| `UnreadInbox` | the table and its methods, with any number of workers | `MCUnreadInbox` | `UnreadInboxProofs` |
| `Intake` | the webhook and `processed_events`: requests at work on repeated updates | `MCUnreadInbox` | `IntakeProofs` |
| `Identity` | one person's account in KV, D1 and UserState: lookup, creation, reset, visitors of the link | `MCUnreadInbox` | `IntakeProofs` |
| `Stats` | messages, batches, receipts and tables of the statistics consumer | `MCUnreadInbox` | `IntakeProofs` |
| `TicketVault` | one shard with its alarm | `MCTicketVault` | `TicketVaultProofs` |
| `SafetyState` | reports, phases and sanctions of one subject | `MCTicketVault` | `PeopleProofs` |
| `Chat` | drafts, blocks, labels, pause and the handlers that use them | `MCTicketVault` | `PeopleProofs` |
| `OutboxLanes` | the outbox consumer: lanes, acknowledgements, retries, lost batches | `MCTicketVault` | `PeopleProofs` |
| `OutboxPromise` | abstract: what an outbox promises its callers | refined by `TelegramOutbox` | |
| `TelegramOutbox` | the object of one chat: `sendJob` in two parts, alarm, eviction | `MCTelegramOutbox` | `OutboxProofs` |
| `InboxDelivery` | composes inbox, vault and outbox promise with senders and drain jobs | `MCInboxDelivery` | `InboxDeliveryProofs` |
| `RequestFlow` | the requests of one pair: vault, ledger and the four service calls | `MCConversations`, `MCRequestFlow` | `ConversationProofs` |
| `Suggestions` | suggestion tickets of one person: search, ranking, show, dismiss, ask | `MCConversations` | `ConversationProofs` |
| `ProfileLife` | the profiles of one person: session, pointer, vault, the calls of the person, the index queue and its consumer | `MCProfiles`, `MCProfileLife` | `ProfileProofs` |
| `Questionnaire` | one questionnaire: answers, status and index under overlapping presses | `MCProfiles` | `ProfileProofs` |

`InboxDelivery` uses the other modules through `INSTANCE`: the actions of
`UnreadInbox`, `TicketVault` and `OutboxPromise` are the calls its processes
make.  It uses the abstract outbox, and `TelegramOutbox` is checked to implement
that abstraction under a refinement mapping (`ImplementsPromise`).  In the other
direction `ImplementsUnreadInbox` checks that the inbox inside the composition
still behaves as `UnreadInbox` does, so that what is proved of it carries over.

Some MC modules hold several modules side by side (`MCUnreadInbox`, `MCTicketVault`,
`MCConversations`, `MCProfiles`).  Their variable `part` picks one of them for each
behaviour and the others stand still.  This checks each part on its own, not their
interaction: the parts are different objects, rows or tables that no single method
touches together, and where code does go from one to the other, the module that goes
there takes the other's answer as a choice (in `Chat` whether a ticket is stored, in
`Suggestions` what requests do to a pair, in `ProfileLife` whether a session has
begun).

### Conventions

* One action per method or, in the composed modules, per await: a call on
  another object is a step, the code before it and after it are others.  A
  result that is read in one step and used in a later one is kept in the program
  state of its process (`drain`, `sender`, `calls`, `caller`).
* A deadline is the time left, 0 for "passed".  Where code compares with `<` in
  one place and `<=` in another (`TicketVault`), -1 is added.  Short times
  (leases, locks, pacing) and long ones (retention, lifetimes) tick on two
  independent clocks, which allows every real schedule and a few more.
* Random ids are drawn from what is not in use; ids that the code derives from a
  ticket or a request are that ticket or request.  In `InboxDelivery` the pair of
  drain job and ticket serves as attempt id, because a drain works on one claim
  at a time.
* A lost invocation may happen between any two steps.  A call that throws after
  it took effect is the step and then the loss.  `MaxFailures` bounds the faults
  of a behaviour; leases that lapse, slow workers and passing days are not faults
  and are not bounded.
* Encryption, proofs and wire formats are left out: material is there or not.
* `ProfileLife`: every finalize draws a new profile hash, so a profile keeps its one
  revision and its one index job, and the revision guards of the code always match.
  The calls of the person come one at a time and may be cut off anywhere; the
  consumer works on several messages at once, and the queue may deliver a message
  again after a failure or while it is still at work.  Vectorize answers late:
  `Check` may not find what is there.
* `Chat`, `Identity`, `Suggestions`: two updates of one person may be handled at a time.
  A property about a handler asks what was so *at some moment since it began*, which the
  history variables `since`, `live` and `witnessed` collect; no lock would give more,
  and the code promises no more.
* `Suggestions`: the similarity of a candidate is any order of those who are listed;
  score, penalty and boost of the ranking are numbers, as in the code.  A profile
  hash is drawn at every finalize, so dismissals, exposure and locks belong to a
  profile and do not survive a retake: a candidate in the model is one profile.
  `setSuggestionStatus` may refuse a change, because the ticket moved on or expired
  since the button was pressed; its client then throws (`conversation-vault.client.ts:45`),
  so the handler ends: no cooldown follows a refused dismissal, no draft a refused view
  (`SetOrEnd`).  The ranking, the exposure tokens and the budget of searches decide who
  is shown, in which order and how often; of them only the limit of the budget
  (`Budgeted`, among the types) is stated.
  `SuggestedWasEligible` is about the listing and the pair: whether the other side can
  receive, and the requester's safety, are asked by the request and not by the search.
* `Stats`: a receipt is kept longer than the queue keeps a message, as in
  `wrangler.jsonc` and the code; `StatsAssumption` says so.
* `InboxDelivery`: the life of a message counts from its first call.  A repeated call that
  finds the record or the row adopts it with its own expiry, so a repetition gives a
  message no more time than it had.
* `setAlarm` is taken to succeed together with the write it follows: the platform
  coalesces writes without an await in between, so a failure rolls both back.

### History variables

Variables that the modules comment as "history" (`shown`, `repeated`, `handled`,
`excused`, `disowned`, `valid`, `punished`, `since`, `live`, `barred`, `witnessed`,
`kept`, `overlapped`, `claims`, `lockOf`, `former` and others) record what happened for
the properties; no guard of the code reads them, except that `claims` and `lockOf` say
which ids are fresh.

## 3. The runs

| Run | Instance | What it shows |
|---|---|---|
| `unread_inbox` | 3 tickets, 2 places, 2 attempts, cleanup of 1 | `CapHolds`, `LeaseIsExclusive`, `OldestFirst` |
| | 2 updates, 2 requests at work, 2 mishaps | `HandledOnce`, `LeaseKeepsApart`, and live: `UpdatesSettle` |
| | 2 updates of a person, 2 ids | `ResolvedIsLive`, `NobodyLockedOut` |
| | 2 events, 2 batches of up to 2, 3 days | `EventsCountedOnce` |
| `ticket_vault` | 3 tickets, 2 days, sweep of 1, 4 stores | `AlarmCovers`, `NoRevival`, `ExpiryScrubs` (live) |
| | 4 reports of 3 people, thresholds 3 and 2 | `SanctionIsEarned` |
| | 2 people, 2 handlers, 1 reset, 1 label | `AcceptedOnTerms`, `ConfirmedOnly` |
| | 3 jobs of 1 to 3 chats, batches of up to 3, 2 lanes at a time, 1 retry, 1 lost batch | `LanesAreKept` |
| `telegram_outbox` | 2 keys, 2 attempts, 1 fault | `ChatIsHeld`, `ShownOnce`, `ImplementsPromise`, and live: `NothingWaits` |
| `delivery_race` | 1 ticket, 2 drains, 2 faults | `NothingLost`, `DropsAreDue`, `ImplementsUnreadInbox` |
| `delivery_live` | 2 tickets for 1 place, one repeated and malformed, 1 fault | live: `DeliverySettles` |
| `request_flow` | 2 requests of a pair, 2 calls at a time, 1 fault | `PairIsHeld`, `AcceptIsExclusive`, `OutcomeIsTrue`, `CooldownStands` |
| | 2 candidates, 2 handlers, 2 suggestions, 1 move of others | `SuggestedWasEligible`, `DismissedIsLeftAlone`, `SuggestionFateStands` |
| `profile_life` | 1 profile, 2 messages at work, 2 attempts, 1 fault | `OneVectorPair`, `CurrentIsSound`, `ResetStands`, and live: `IndexSettles` |
| | 2 questions of 2 answers, 2 presses, 2 restarts | `SessionIsTrue` |
| `route_lost` | 1 ticket, 1 drain, 1 fault | violation: `DeliveredKeepsRoute` |
| `repeat_lost` | 1 repeatable ticket, 1 drain, 2 faults | violation: `RepeatedIsKept` |
| `pending_kept` | 1 key, 2 attempts, 1 fault | violation: `EventsExpire` |
| `repeated_cancel` | as `request_flow` | violation: `RepeatedCancelReleases` |
| `reset_hides` | 2 profiles in turn, 1 message at work, no fault | violation: `ResetHides` |

Several invariants that belong together are one property: `TypesOK` (the type
invariants of all parts), `ChatIsHeld` (`TypeOK`, `ExclusiveSend`, `OwnerHoldsLock`),
`NothingWaits` (`EveryJobSettles`, `OutcomesExpire`), `DropsAreDue` (`TypeOK`,
`ViewedWasShown`, `ScrubIsOwned`), `DeliverySettles` (`AcceptedIsSettled`,
`InboxDrains`), `OutcomeIsTrue` (`AcceptedWasSealed`, `MessageMatchesOutcome`),
`PairIsHeld` (`PairIsExclusive`, `LockIsTimed`),
`CurrentIsSound` (`ListedIsKnown`, `CurrentIsQueued`), `SanctionIsEarned`
(`SanctionNeedsReporters`, `OneSuspension`), `SessionIsTrue` (`ReadyMeansComplete`,
`SavedAnswersStay`), `LanesAreKept` (`TurnKept`, `NoneForgotten`).

Why the bounds are enough: every race in these objects is between two workers on
one row (one owner and one that came too late), so two attempts, drains or calls
are needed and a third only repeats the second; a bounded cleanup or sweep shows
its limit as soon as two rows are due and one is taken, hence limits of 1 and two
or three rows; a capacity of n shows its edge at n + 1.  Lifetimes of one or two
units let everything expire at every point of every protocol; the two backoffs of
the outbox are one shorter and one longer than its lease.  One fault shows each
partial failure; `delivery_race` and `repeat_lost` take two, because there a
lost answer and a lost worker combine.  The unread inbox, the vault and the
requests are also proved without these bounds.  In `ProfileLife` profiles meet only
through the pointer, so the index races need one profile and two messages at work;
what takes two profiles is the change of the pointer, which `reset_hides` shows.
Two overlapping handlers, presses, requests or batches show every stale read; one move of
others between the reads of a search, one reset and one label limit show each edge of
their protocols; three jobs are a group of two and one that parts or overtakes it, and
three of different chats are one lane more than `mapBounded` works on at a time.
The limits of 2 attempts and 2 retries stand for 5 and 5: in both, the last verify
comes before the last delivery.

### Fairness

* `TicketVault!FairSpec`: the platform fires alarms.  No caller is assumed.
* `TelegramOutbox!SilentSpec`: calls to Telegram return or time out, alarms fire,
  seconds pass.  No job need come and no day need pass.  `EveryJobSettles` has a
  hypothesis of its own, stated in the property: whoever asked keeps asking, and
  from some time on no attempt is slower than its lease.
* `InboxDelivery!FairSpec`: a started drain goes on, the queue hands its jobs over,
  leases lapse and the recipient keeps asking for the inbox.  From some time on no
  worker overruns its lease; without this a drain slower than its lease never owns
  the row it has delivered.  Nothing makes a sender's call go on.
* `ProfileLife!Spec`: the queue hands its messages over and the consumer goes on.  One
  fairness condition is enough, since a message is processed in a bounded number of
  steps and retried a bounded number of times.  Nothing makes the person act.
  `IndexSettles` excepts faults and jobs that outlive their 15 minutes: both leave a
  profile in `indexing` for good, from where only the person can take it (retake or
  disable).
* `Intake!IntakeFairness`: Telegram repeats an update until it is acknowledged, a handler
  that is not lost comes to its end, leases lapse.  `MaxMishaps` bounds the losses and
  failures, so `UpdatesSettle` speaks of finitely many.
* The other modules: safety only.  A request that nobody touches again
  keeps its status, its intro and its lease: the vault has no alarm.

### Findings

1. `route_lost` (`ticketing/inbox.ts:392`).  A drain that is lost between marking a
   delivered ticket viewed and completing its row makes the next drain take the
   ticket for an orphan and delete it: the buttons of a delivered message are dead.
   The README and `docs/sealed-ticketing.md` promise them until expiry.  A drain slower than
   its lease has the same effect; `RouteTheorem` proves that there is no third way.
2. `repeat_lost` (`ticketing/create-sealed-ticket.ts:216`).  A repeated accept is
   told "duplicate" for a row whose vault record its first try deleted; the drain
   that holds the row then drops both.  The accept reports success.  It takes a first try
   that stored the ticket and added the row, but did not hear of it: `RepeatTheorem` proves
   that without such a try the message of a repeated accept is kept.
3. `pending_kept` (`storage/telegram-outbox.do.ts:525`).  A row left pending by an
   eviction is outside of every cleanup, although the docs give seven days.  The alarm is
   not to blame: `CleanupTheorem` proves that every outcome has one in time.
4. `repeated_cancel` (`suggestions/request-service.ts:302`).  A repeated cancel is
   refused before its early success can be reached, and does not release the lock
   that a lost first cancel left behind, although the docs call it idempotent.
   `ReleaseTheorem`: a cancel lost right before the release is the only cause, and by
   `LockTheorem` such a lock ends when the request would have ended.
5. `reset_hides` (`profile/profile-service.ts:193`).  During the questionnaire of a retake
   the old profile can still be made discoverable.  The finalize then replaces the
   pointer and leaves the old profile as it is, so neither the disable switch nor the
   reset reaches it: after the reset it is still offered to others.  The documents say
   that the reset invalidates the profile before the account is rotated.
   `HiddenTheorem`: whoever never turns discoverability on during a questionnaire is
   hidden by the reset, wherever its calls were cut off.

One remark without a run of its own: `docs/architecture.md:238` says that the consumer
preserves FIFO order inside each chat.  `LanesAreKept` is the part of it that holds.
After a retry, notifications and drains of the same lane go on, a telegram job behind
them goes out before the one that was postponed, and so do jobs of later batches.

A second one, seen in `Intake`: a handler slower than its lease that then fails deletes
the row of whoever came after it (`storage/user-state.do.ts:717`); the update is then
handled once more.  `HandledOnce` and `LeaseKeepsApart` say that this is the only way.

A message that Telegram shows twice after a crash is not a finding: the threat
model names it.  `ShownOnce` says that there is no other way.

## 4. The proofs

All theorems hold for every value of the constants that satisfies the named
assumptions, each of which TLC evaluates in a run.  Two of those say what the code's
constants do and the proofs need: no time is the value that stands for "no alarm"
(`OutboxAssumption`), and a search limit allows at least one search
(`SuggestionAssumption`).

Five properties are found violated in the runs.  For four of them a theorem says what
exactly the violation takes: it has the form `Spec /\ [][~ Cause]_vars => []Property`,
where `Cause` is the one step, or for `RouteTheorem` the two steps, that the finding
begins with.  Everything else, that is every other loss, retry, overlap and lapse, is
still allowed by the hypothesis, and the runs that show the property violated show that
the hypothesis cannot be dropped.

* `UnreadInboxProofs`.  `IInv` is the type invariant with `AttemptDiscipline` and
  `CapHolds`.  Every method except insertion and claiming only weakens rows, that
  is removes them or takes leases back, and weakening keeps `IInv`
  (`WeakeningStep`); insertion and claiming have a lemma each.  The capacity needs
  finite sets, hence the assumption that `Tickets` is finite.  The action properties
  rest on `PreparedAlive`: recovery and cleanup change no row that is alive, except
  that one whose lease has lapsed goes back to "active".  So a method that inserts or
  claims never meets a row under a lease (`LeaseStep`), and a lapsed row is among those
  the oldest of which is claimed (`OrderStep`).
* `TicketVaultProofs`.  `IInv` is the type invariant with `MaterialMatchesStatus` and
  `AlarmCovers`.  A step that writes a record resets the alarm, and a reset alarm
  covers every pending record (`Schedule`); marking a ticket viewed changes neither
  what is pending nor its expiry; a day moves alarm and expiries together.
  `NoRevival` is an action property that follows from the types alone.
* `ConversationProofs`, of `RequestFlow`, every property of its runs, for any number of requests and
  calls and without the bound on faults.  `Base` says which row each call is at work
  on (`Placed`): a create is alone with a request that is not stored yet, everyone
  else has found it stored.  Each method of the vault is a `RowStep`, a step on one
  row that closes, reopens for or keeps a request but never revives one; the lemmas
  `GetRow` ... `FailRow` say so once and the actions cite them.  On top of `Base`:
  - `PairInv` for `PairIsExclusive`: the pair covers every open request for at least
    the time the request has left, and a pending lock that covers it is its own.  It
    needs the cooldowns to be at least as long as a request lives, which is why
    `RequestAssumption` says so; in the code a request lives 72 hours and a
    cooldown lasts 14 or 30 days.
  - `AcceptInv` for `AcceptIsExclusive`: a request some accept is at work on holds its
    lease or has expired, so no claim succeeds and neither cancel nor decline can
    take it.
  - `SealInv` for `MessageMatchesOutcome`: from `AcceptInv`, a request whose intro was
    sent is settled as accepted or expired, or its accept is about to complete.
  - `LockInv` for `LockTheorem`: the lock keeps time with the request it was taken for, or
    with the create that is about to store it.  This bounds what a lost create leaves
    behind (`request-service.ts:197`).  `HeldTheorem` joins it with `PairInv`.
  - `CancelInv` for `ReleaseTheorem`: where the lock of a canceled request is still held,
    a call is about to release it.  Only the loss of that call breaks it.
* `ConversationProofs`, of `Suggestions`, for any candidates, invocations, scores and
  lifetimes (`SuggestionsInv`).  `Found`: whom a search still considers was found listed
  since it began, and from the ranking on found free as well, so whatever it issues was
  eligible (`EligibleTheorem`).  `Barred`: a dismissal that is in force has a cooldown at
  least as long, which no lock, release or cooldown of a request can end.  `Recorded`:
  who is about to set a pair aside has a ticket that says dismissed, and keeps it, so
  nobody is set aside by a refused dismissal.  Both give `DismissedTheorem`.  `Drawn`: the suggestions issued are the first ones, so a new one
  never overwrites another; together with the guards of `SetSuggestionStatus` this gives
  `FateTheorem`.  `Budgeted` is the type of the counters that a search writes: with the
  types in `SuggestionsInv` it gives `SuggestionTypesTheorem`, by which no search is
  counted beyond the limit.  The exposure tokens order the candidates and appear in no
  argument; their type is left to TLC.
* `OutboxProofs`, for any number of jobs and attempts and without the bound on
  faults.  `Held`: whoever is within a lease, as an attempt or in a row, has the lock for
  at least as long; a new attempt needs a lapsed lock, so there is one sender
  (`ChatTheorem`).  `Named` (a row names an attempt only while it has no outcome) and
  `Known` (an attempt that Telegram answered has shown its job) give the refinement
  `PromiseTheorem`: each step maps to a step of `OutboxPromise` or a stutter.  `OutcomeStandsTheorem`
  then carries the abstract properties over,
  which `OutboxPromise` implies by itself.  `Certain`: an attempt whose job is not in
  doubt is within its lease and named by the row, and a job that was shown has the row
  "sent", or the attempt that showed it is about to record that; so nobody sends it again
  without a fault (`ShownTheorem`).  `CleanupIsSet` is inductive as it stands, because
  every write that makes an outcome computes the alarm anew: an outcome has an alarm no
  later than it is due, or that of the chat lock, after which it is computed again
  (`CleanupTheorem`).
* `PeopleProofs`, of `OutboxLanes`, for any messages, batch size, number of consumers,
  lanes at a time, retries and lost invocations (`LanesInv`).  `Fits`: the marks of a
  consumer are on places of its batch.  `Taken`: a message that is being handled is in
  one batch, at one place.  `Marked`: a message out of its lane has its outcome or will be
  retried, and with a postponed telegram job those behind it are, up to a job of another
  kind.
* `IntakeProofs`, of `Intake`, for any number of updates and requests and any lease
  (`IntakeInv`).  `Covered`: a
  request within its lease finds its row processing under a lease at least as long, or
  done, and is alone with its update, unless the row was deleted by another one.
  `Once`: for an update none of whose requests failed or was slow, the row, the
  request at work and the number of handlers run agree.
* `IntakeProofs`, of `Stats`, for any number of events, batches at a time and days, any
  counts and any repetition (`StatsInv`).  `Booked`: the three tables have counted exactly
  the events a committed transaction applied, and keep the receipt of each that is young
  enough to be delivered again.  `Underway` says the same, event by event, of the tables
  as the transaction at work sees them, and `Held` that a batch holds only messages within
  the retention of the queue, which is shorter than that of the receipts: so cleaning
  forgets no receipt that may still be needed.  A count is the number of units of its
  events (`CountOf`), so that one event more adds its count (`UnitsGrow`) without a fold.
* `PeopleProofs`, of `SafetyState`, for every set of reports, and all windows, thresholds and
  durations.  The code counts the reports younger than the phase; `Covered` says that
  these are reports that may still count, `SilentEnd` that nobody is heard in the
  instant a suspension runs out, `StrikeStands` that the strike is remembered.
* `PeopleProofs`, of `Chat`, for any people and any number of handlers at a time
  (`ChatInv`).  `RunShape`: the dialog a handler carries fits its step.  `Terms`: what a
  handler relies on at its step is in its history, so it was so at some moment since it
  began; `Remembers` says once that a run forgets nothing while it is at work.  That a
  block meets its person rests on `blocks = refuses`: the tag a block is stored under is
  the person's, through any number of resets.
* `ProfileProofs`, of `ProfileLife`, for any number of profiles, messages at work,
  retries and faults (`ProfileInv`).  `CallShape` and `Unborn` say that a call of the
  person works on the current profile or on a new one that is nowhere yet, `Backed` that
  whatever speaks of vectors is known to the job; the consumer writes nothing else
  (`Consumed`), so each of its steps is one lemma away.  `Known` and `Queued` give
  `CurrentIsSound`, `OneAtWork` gives `OneVectorPair`, `Past` gives `ResetStands`.
  `HideInv` gives `HiddenTheorem`: only the current profile is shown, and nothing while a
  questionnaire is open or a call that has hidden the profile is about to replace it.
* `ProfileProofs`, of `Questionnaire`, for any number of questions, answers and presses.
  `HasRead`: a press that no write has overlapped has read everything that is kept, so
  writing back what was read keeps it.
* `InboxDeliveryProofs`, for any number of tickets and drain jobs, any capacity and any
  number of faults.  `Life` says, for a ticket no request accept repeats, where it is: not
  yet stored (`Unborn`), owed to its recipient (`Owed`: the vault has its material, the
  inbox its row or a drain is finishing it), or being scrubbed by the one who stored it
  (`Scrubbing`).  `Shape`, `Names` and `Seen` tie what each process remembers to the
  objects it asked.  The lemmas whose names end in `Calls` say once what a call on the
  inbox, the vault or the outbox may change; the actions of senders and drains cite them.
  `NothingLostTheorem` and `DropsTheorem` follow.  `InboxTheorem` is the refinement: each
  step of the composition is a step of `UnreadInbox` or leaves its variables alone, and
  `InboxCarries` brings the theorems of `UnreadInboxProofs` over.  `VaultCarries` and
  `OutboxCarries` do the same for `TicketVault`, whose every step keeps the invariant of
  `TicketVaultProofs`, and for `OutboxPromise`, whose specification the composition
  implements as `TelegramOutbox` does.
  - `RouteInv` for `RouteTheorem`: whoever holds a row holds it under its own running
    lease, so no two jobs are at work on one ticket, and a viewed record has no row any
    more or a job that completes it next.  An orphan cleanup then never meets a viewed
    record.
  - `RepeatInv` for `RepeatTheorem`, where `Life` does not hold: a repeated call may come
    at any time, with or without record and row.  `Repeated` says that what is there of a
    message lasts as long as the message, that nobody is about to give it up, and that a
    call which stored the record adds its row before anybody can see it.  So whenever a
    call deletes what it stored there is no row to delete it under, unless its own row was
    added unheard.
* `IntakeProofs`, of `Identity`, for any number of invocations and accounts
  (`IdentityInv`).  `Moved` says once what
  any step of a run does: who comes to have an account has just read its row or had it
  before, and who comes to read its state has just made sure of it or created it.
  `Found` and `Ready` then follow, because the history keeps what a run has found and
  notices every purge.
* `TypesTheorem` in `IntakeProofs`, `PeopleProofs` and `ProfileProofs`: a step of an MC
  module with several parts is a step of one part and leaves the others alone
  (`OnePartMoves`), so each part keeps its invariant, and with it the types that `TypesOK`
  joins.

Two properties became narrower when their proofs were tried, because they did not hold
beyond the instance: `CurrentIsQueued` failed once a message may fail in every delivery,
with more faults than retries, and now excepts such dead letters (`dead`); `ScrubIsOwned`
speaks of tickets that no accept repeats, for with a repeated one the compensation of a
lost call can meet a row of the next (finding 2).

Not proved, only checked: all liveness (`UpdatesSettle`, `ExpiryScrubs`, `NothingWaits`,
`DeliverySettles`, `IndexSettles`), which is out of the prover's reach, and
`MCConversations!TypesOK`.  The types of its two parts are proved except for one variable,
the list of exposure tokens: it is cut with `SelectSeq`, whose definition the prover does not
expand, and that a filtered sequence keeps its type takes an induction over its length.
`Stats` and `OutboxLanes` are written without folds, for what a fold computes for every
input would take an induction over data, which the prover cannot do.

## 5. What is not modelled

* Cryptography and encodings: a model would restate their assumptions.
* Screens, keyboards and texts; the pages of the statistics, which only read.
* The reset of the match history: `suggestions/pair-history.ts` does nothing.
* `runDelete` of the index consumer, for which no caller sends a job, and the delivery
  id in the route of a profile.
* Vectorize, D1, KV and Telegram beyond what the code relies on.
* The counters of rate limits other than the one of searches; the refresh of a stored
  chat id; the deletion of unread tickets before the purge of an account.
* The checks of a Report button before it calls `createBlindReport`.
* Overlapping calls of one person in `ProfileLife`: they come one at a time there and may
  be cut off anywhere.

Worth doing next: a composition of `Intake` with a handler that is run twice; one of
`ProfileLife` in which two calls of the person overlap; and one of `OutboxLanes` with the
drains of `InboxDelivery`, which meet only through the outbox so far.
