------------------------------ MODULE ProfileLife ------------------------------
(***************************************************************************)
(* The conversation profiles of one person: the session and the pointer to *)
(* the current profile in UserState (src/storage/user-state.do.ts), the    *)
(* profiles and index jobs in the ProfileVault                             *)
(* (src/storage/profile-vault.do.ts), the calls the person makes           *)
(* (src/profile/profile-service.ts, src/identity/identity-service.ts) and  *)
(* the consumer of the index queue                                         *)
(* (src/queues/profile-index-consumer.ts), which works on several          *)
(* messages at a time.  Every await on a Durable Object, the queue or      *)
(* Vectorize is a step of its own.                                         *)
(*                                                                         *)
(* A finalize draws a new profile hash, so each profile has one revision   *)
(* for life, one index job, and the revision guard of setProfileStatus     *)
(* always matches: revisions are left out.  The person's own calls come    *)
(* one at a time; any of them may be lost half way.  A pair of vectors     *)
(* (self and desired) is a number, 0 for none.                             *)
(***************************************************************************)
EXTENDS Integers, FiniteSets

CONSTANTS
  Profiles,            \* profile hashes, one for each finalize
  NoProfile,
  MAX_INDEX_ATTEMPTS,  \* deliveries after which a verify gives up
  MAX_RETRIES,         \* max_retries of the queue
  MaxPairs,            \* bound: vector pairs drawn for a profile
  MaxWork,             \* bound: messages being processed at the same time
  MaxFailures          \* bound: lost calls, crashes, double deliveries

ASSUME ProfileAssumption ==
  /\ NoProfile \notin Profiles
  /\ MAX_RETRIES \in Nat /\ MaxPairs \in Nat \ {0} /\ MaxWork \in Nat \ {0}
  /\ MaxFailures \in Nat
  /\ MAX_INDEX_ATTEMPTS \in 1..(MAX_RETRIES + 1)

VARIABLES
  profiles,   \* profiles: status and the sealed route
  jobs,       \* index_jobs, by the profile they are for
  vectors,    \* what became of each vector pair of a profile
  messages,   \* the index queue
  user,       \* profile part of the account's UserState
  call,       \* program state of the person's call
  work,       \* messages being processed, with the state of their processing
  failures,   \* faults so far (bound)
  former,     \* history: profiles of accounts that were reset
  halfOn,     \* history: a call that enabled discoverability was lost
  doubled,    \* history: a message was delivered while it was at work
  dead        \* history: profiles whose upsert failed in its last delivery

vars == <<profiles, jobs, vectors, messages, user, call, work, failures,
          former, halfOn, doubled, dead>>

Pairs == 1..MaxPairs

NoRecord == [status |-> "none", vectors |-> 0]
NoJob == [status |-> "none", vectors |-> 0, live |-> FALSE]
NewUser == [capability |-> NoProfile, discoverable |-> FALSE, session |-> FALSE]
NoCall == [op |-> "none", pc |-> "idle", profile |-> NoProfile, vectors |-> 0]

ProfileStatuses == {"none", "private", "indexing", "discoverable",
                    "index_failed", "invalidated"}
JobStatuses == {"none", "pending", "completed", "expired"}
CallPC == {"idle", "storeJob", "send", "status", "readRoute", "route", "delete",
           "discoverable", "capability", "clearSession", "startSession", "purge"}
WorkPC == {"loading", "expiring", "drawing", "marking", "naming",
             "upserting", "sending", "checking", "verified", "failed",
             "completing", "giving_up"}

Message == [action : {"upsert", "verify"}, profile : Profiles,
            attempt : 1..(MAX_RETRIES + 1)]

TypeOK ==
  /\ profiles \in [Profiles -> [status : ProfileStatuses,
                                vectors : 0..MaxPairs]]
  /\ jobs \in [Profiles -> [status : JobStatuses, vectors : 0..MaxPairs,
                            live : BOOLEAN]]
  /\ vectors \in [Profiles -> [Pairs -> {"none", "drawn", "present"}]]
  /\ messages \subseteq Message
  /\ user \in [capability : Profiles \cup {NoProfile}, discoverable : BOOLEAN,
               session : BOOLEAN]
  /\ call \in [op : {"none", "finalize", "retake", "enable", "disable", "reset"},
               pc : CallPC, profile : Profiles \cup {NoProfile},
               vectors : 0..MaxPairs]
  /\ work \subseteq [pc : WorkPC, message : Message, job : JobStatuses,
                     pair : 0..MaxPairs]
  /\ failures \in 0..MaxFailures
  /\ former \subseteq Profiles /\ dead \subseteq Profiles
  /\ halfOn \in BOOLEAN /\ doubled \in BOOLEAN

Init ==
  /\ profiles = [p \in Profiles |-> NoRecord]
  /\ jobs = [p \in Profiles |-> NoJob]
  /\ vectors = [p \in Profiles |-> [k \in Pairs |-> "none"]]
  /\ messages = {}
  /\ user = NewUser /\ call = NoCall
  /\ work = {}
  /\ failures = 0 /\ former = {} /\ halfOn = FALSE /\ doubled = FALSE
  /\ dead = {}

history == <<failures, former, halfOn, doubled, dead>>

-----------------------------------------------------------------------------
(* ProfileVault and UserState. *)

SetProfileStatus(p, s) == profiles' = [profiles EXCEPT ![p].status = s]

\* The id that requests are delivered to is left out of the route.
UpdateProfileRoute(p, pair) == profiles' = [profiles EXCEPT ![p].vectors = pair]

SetIndexJobStatus(p, s) == jobs' = [jobs EXCEPT ![p].status = s]

SetDiscoverable(on) == user' = [user EXCEPT !.discoverable = on]

READABLE_PROFILE_STATUSES == {"private", "indexing", "discoverable", "index_failed"}

Readable(p) == p # NoProfile /\ profiles[p].status \in READABLE_PROFILE_STATUSES

\* profileRouteIsSearchReady
SearchReady(p) ==
  profiles[p].status \in {"private", "discoverable"} /\ profiles[p].vectors # 0

-----------------------------------------------------------------------------
(* The person's calls.  Begin... reads, and every later step writes once. *)

AtWork(op, pc) == call.op = op /\ call.pc = pc
Goto(pc) == call' = [call EXCEPT !.pc = pc]

SessionExpires ==
  /\ call.pc = "idle" /\ user.session
  /\ user' = [user EXCEPT !.session = FALSE]
  /\ UNCHANGED <<profiles, jobs, vectors, messages, call, work, history>>

\* finalizeProfileSession up to storeProfileRecord; the answers of the session
\* are complete, or it throws.
BeginFinalize(p) ==
  /\ call.pc = "idle" /\ user.session
  /\ profiles[p] = NoRecord
  /\ profiles' = [profiles EXCEPT ![p].status = "private"]
  /\ call' = [op |-> "finalize", pc |-> "storeJob", profile |-> p, vectors |-> 0]
  /\ UNCHANGED <<jobs, vectors, messages, user, work, history>>

\* Mutant of StoreJob: the capability is replaced before the job is queued.
StoreJobAndCapability ==
  /\ AtWork("finalize", "storeJob")
  /\ jobs' = [jobs EXCEPT ![call.profile] =
                [status |-> "pending", vectors |-> 0, live |-> TRUE]]
  /\ user' = [user EXCEPT !.capability = call.profile]
  /\ Goto("send")
  /\ UNCHANGED <<profiles, vectors, messages, work, history>>

StoreJob ==
  /\ AtWork("finalize", "storeJob")
  /\ jobs' = [jobs EXCEPT ![call.profile] =
                [status |-> "pending", vectors |-> 0, live |-> TRUE]]
  /\ Goto("send")
  /\ UNCHANGED <<profiles, vectors, messages, user, work, history>>

SendUpsert ==
  /\ AtWork("finalize", "send")
  /\ messages' = messages \cup
       {[action |-> "upsert", profile |-> call.profile, attempt |-> 1]}
  /\ Goto("capability")
  /\ UNCHANGED <<profiles, jobs, vectors, user, work, history>>

\* prepareProfileRetake, and startProfileSession after it.
BeginRetake ==
  /\ call.pc = "idle"
  /\ LET p == user.capability IN
     call' = IF Readable(p)
             THEN [op |-> "retake", pc |-> "status", profile |-> p,
                   vectors |-> profiles[p].vectors]
             ELSE [NoCall EXCEPT !.op = "retake", !.pc = "discoverable"]
  /\ UNCHANGED <<profiles, jobs, vectors, messages, user, work, history>>

\* setConversationDiscoverability.
BeginSwitch(on) ==
  /\ call.pc = "idle" /\ Readable(user.capability)
  /\ on => SearchReady(user.capability)
  /\ call' = [NoCall EXCEPT !.op = IF on THEN "enable" ELSE "disable",
                !.pc = "status", !.profile = user.capability]
  /\ UNCHANGED <<profiles, jobs, vectors, messages, user, work, history>>

\* invalidateUserConversationProfile, first in clearUserAccountAndRecreate.
BeginReset ==
  /\ call.pc = "idle"
  /\ LET p == user.capability IN
     call' = IF p = NoProfile THEN [NoCall EXCEPT !.op = "reset", !.pc = "purge"]
             ELSE [op |-> "reset", profile |-> p, vectors |-> profiles[p].vectors,
                   pc |-> IF profiles[p].vectors # 0 THEN "delete" ELSE "route"]
  /\ UNCHANGED <<profiles, jobs, vectors, messages, user, work, history>>

\* deleteByIds; a failure of it is ignored.
DeleteVectors ==
  /\ AtWork("reset", "delete")
  /\ \/ /\ vectors' = [vectors EXCEPT ![call.profile][call.vectors] =
                         IF @ = "present" THEN "drawn" ELSE @]
        /\ UNCHANGED failures
     \/ /\ failures < MaxFailures /\ failures' = failures + 1
        /\ UNCHANGED vectors
  /\ Goto("route")
  /\ UNCHANGED <<profiles, jobs, messages, user, work, former, halfOn,
                 doubled, dead>>

StatusAfter == [retake |-> "private", enable |-> "discoverable",
                disable |-> "private", reset |-> "invalidated"]

AfterStatus == [retake |-> "route", enable |-> "readRoute",
                disable |-> "readRoute", reset |-> "discoverable"]

WriteStatus ==
  /\ call.pc = "status"
  /\ SetProfileStatus(call.profile, StatusAfter[call.op])
  /\ Goto(AfterStatus[call.op])
  /\ UNCHANGED <<jobs, vectors, messages, user, work, history>>

\* refreshProfileDeliveryRoute without a route of its caller's.
ReadRoute ==
  /\ call.pc = "readRoute"
  /\ call' = [call EXCEPT !.pc = "route", !.vectors = profiles[call.profile].vectors]
  /\ UNCHANGED <<profiles, jobs, vectors, messages, user, work, history>>

WriteRoute ==
  /\ call.pc = "route"
  /\ UpdateProfileRoute(call.profile, call.vectors)
  /\ call' = [call EXCEPT !.vectors = 0,
                !.pc = IF call.op = "reset" THEN "status" ELSE "discoverable"]
  /\ UNCHANGED <<jobs, vectors, messages, user, work, history>>

AfterDiscoverable == [finalize |-> "clearSession", retake |-> "clearSession",
                      enable |-> "idle", disable |-> "idle",
                      reset |-> "capability"]

WriteDiscoverable ==
  /\ call.pc = "discoverable"
  /\ SetDiscoverable(call.op = "enable")
  /\ IF AfterDiscoverable[call.op] = "idle" THEN call' = NoCall
     ELSE Goto(AfterDiscoverable[call.op])
  /\ UNCHANGED <<profiles, jobs, vectors, messages, work, history>>

\* setProfileCapabilityEnc
WriteCapability ==
  /\ call.pc = "capability"
  /\ user' = [user EXCEPT !.capability =
                IF call.op = "finalize" THEN call.profile ELSE NoProfile]
  /\ Goto(IF call.op = "finalize" THEN "discoverable" ELSE "purge")
  /\ UNCHANGED <<profiles, jobs, vectors, messages, work, history>>

ClearSession ==
  /\ call.pc = "clearSession"
  /\ user' = [user EXCEPT !.session = FALSE]
  /\ IF call.op = "retake" THEN Goto("startSession") ELSE call' = NoCall
  /\ UNCHANGED <<profiles, jobs, vectors, messages, work, history>>

StartProfileSession ==
  /\ call.pc = "startSession"
  /\ user' = [user EXCEPT !.session = TRUE]
  /\ call' = NoCall
  /\ UNCHANGED <<profiles, jobs, vectors, messages, work, history>>

\* purgeUserState, hardDeleteUserAccount and the new account: nothing that
\* another actor of this module does falls between them.
Purge ==
  /\ call.pc = "purge"
  /\ user' = NewUser /\ call' = NoCall
  /\ former' = {p \in Profiles : profiles[p].status # "none"}
  /\ UNCHANGED <<profiles, jobs, vectors, messages, work, failures, halfOn,
                 doubled, dead>>

\* The invocation ends between two steps.
CallLost ==
  /\ call.pc # "idle" /\ failures < MaxFailures
  /\ failures' = failures + 1
  /\ halfOn' = (halfOn \/ (call.op = "enable" /\ call.pc # "status"))
  /\ call' = NoCall
  /\ UNCHANGED <<profiles, jobs, vectors, messages, user, work, former,
                 doubled, dead>>

Calls ==
  \/ SessionExpires
  \/ \E p \in Profiles : BeginFinalize(p)
  \/ StoreJob \/ SendUpsert
  \/ BeginRetake \/ BeginReset
  \/ \E on \in BOOLEAN : BeginSwitch(on)
  \/ DeleteVectors \/ WriteStatus \/ ReadRoute \/ WriteRoute
  \/ WriteDiscoverable \/ WriteCapability \/ ClearSession
  \/ StartProfileSession \/ Purge \/ CallLost

-----------------------------------------------------------------------------
(* The consumer of the index queue. *)

\* INDEX_JOB_CAPABILITY_TTL_MS has passed; it shows on a pending job only.
JobExpires(p) ==
  /\ jobs[p].live /\ jobs[p].status = "pending"
  /\ jobs' = [jobs EXCEPT ![p].live = FALSE]
  /\ UNCHANGED <<profiles, vectors, messages, user, call, work, history>>

\* Mutant of Redelivered: a retry is sent as a new message with attempt 0.
SentAnew(m) == {[m EXCEPT !.attempt = 0]}

\* Message m after a retry; past max_retries it is a dead letter.
Redelivered(m) == {[m EXCEPT !.attempt = @ + 1]} \cap Message

DeadLetter(m) == m.action = "upsert" /\ Redelivered(m) = {}

Becomes(w, next) == work' = (work \ {w}) \cup {next}
Step(w, pc) == Becomes(w, [w EXCEPT !.pc = pc])
Ack(w) == work' = work \ {w}

\* processJob: getIndexJobRecord.
Take ==
  /\ Cardinality(work) < MaxWork
  /\ \E m \in messages :
       /\ messages' = messages \ {m}
       /\ work' = work \cup
            {[pc |-> "loading", message |-> m, job |-> jobs[m.profile].status,
              pair |-> jobs[m.profile].vectors]}
  /\ UNCHANGED <<profiles, jobs, vectors, user, call, history>>

JobOver(w) == w.job = "expired" \/ ~ jobs[w.message.profile].live

\* shouldAckIndexJobEarly
ShouldAckEarly(w) ==
  \/ w.job = "completed" \/ JobOver(w)
  \/ profiles[w.message.profile].status = "invalidated"

\* processJob: getProfileRecord, and what it decides before any write.
Load(w) ==
  LET skipped == profiles[w.message.profile].status = "discoverable"
      begin == IF w.message.action = "verify" THEN "checking"
               ELSE IF w.pair = 0 THEN "drawing" ELSE "marking" IN
  /\ w.pc = "loading"
  /\ \/ /\ ShouldAckEarly(w) /\ w.job # "completed" /\ JobOver(w)
        /\ Becomes(w, [w EXCEPT !.pc = "expiring", !.job = "none", !.pair = 0])
     \/ /\ ShouldAckEarly(w) /\ ~ (w.job # "completed" /\ JobOver(w))
        /\ Ack(w)
     \/ /\ ~ ShouldAckEarly(w) /\ skipped
        /\ Ack(w)
     \/ /\ ~ ShouldAckEarly(w) /\ ~ skipped
        /\ Becomes(w, [w EXCEPT !.pc = begin, !.job = "none"])
  /\ UNCHANGED <<profiles, jobs, vectors, messages, user, call, history>>

ExpireJob(w) ==
  /\ w.pc = "expiring"
  /\ SetIndexJobStatus(w.message.profile, "expired")
  /\ Ack(w)
  /\ UNCHANGED <<profiles, vectors, messages, user, call, history>>

\* Mutant of PersistJobVectors: the new pair is not stored with the job.
PersistNothing(p, k) == jobs' = [jobs EXCEPT ![p].status = "pending"]

\* persistJobVectors also sets the status of the job.
PersistJobVectors(p, k) ==
  jobs' = [jobs EXCEPT ![p].status = "pending", ![p].vectors = k]

Drawn(p) == {k \in Pairs : vectors[p][k] # "none"}

\* runUpsert: a job without vectors draws a fresh pair.
DrawVectors(w) ==
  LET p == w.message.profile
      k == Cardinality(Drawn(p)) + 1 IN
  /\ w.pc = "drawing" /\ k \in Pairs
  /\ vectors' = [vectors EXCEPT ![p][k] = "drawn"]
  /\ PersistJobVectors(p, k)
  /\ Becomes(w, [w EXCEPT !.pc = "marking", !.pair = k])
  /\ UNCHANGED <<profiles, messages, user, call, history>>

MarkIndexing(w) ==
  /\ w.pc = "marking"
  /\ SetProfileStatus(w.message.profile, "indexing")
  /\ Step(w, "naming")
  /\ UNCHANGED <<jobs, vectors, messages, user, call, history>>

\* saveVectorRoute for both vectors, whose rows are read only for vectors that
\* Vectorize returns, and persistProfileVectorIds.
NameVectors(w) ==
  /\ w.pc = "naming"
  /\ UpdateProfileRoute(w.message.profile, w.pair)
  /\ Step(w, "upserting")
  /\ UNCHANGED <<jobs, vectors, messages, user, call, history>>

UpsertVectors(w) ==
  /\ w.pc = "upserting"
  /\ vectors' = [vectors EXCEPT ![w.message.profile][w.pair] = "present"]
  /\ Step(w, "sending")
  /\ UNCHANGED <<profiles, jobs, messages, user, call, history>>

SendVerify(w) ==
  /\ w.pc = "sending"
  /\ messages' = messages \cup {[w.message EXCEPT !.action = "verify", !.attempt = 1]}
  /\ Ack(w)
  /\ UNCHANGED <<profiles, jobs, vectors, user, call, history>>

\* Mutant of Exhausted: the attempts of the queue are counted one too many.
ExhaustedAfterLast(attempt) == attempt > MAX_RETRIES + 1

Exhausted(attempt) == attempt >= MAX_INDEX_ATTEMPTS

\* runVerify: getByIds may not show yet what was upserted.
Check(w) ==
  /\ w.pc = "checking"
  /\ \/ /\ vectors[w.message.profile][w.pair] = "present"
        /\ Step(w, "verified") /\ UNCHANGED messages
     \/ /\ Exhausted(w.message.attempt)
        /\ Step(w, "failed") /\ UNCHANGED messages
     \/ /\ ~ Exhausted(w.message.attempt)
        /\ messages' = messages \cup Redelivered(w.message)
        /\ Ack(w)
  /\ UNCHANGED <<profiles, jobs, vectors, user, call, history>>

\* Mutant of MarkVerified: a verified profile is shown to others at once.
MarkVerifiedShown(w) ==
  /\ w.pc = "verified"
  /\ SetProfileStatus(w.message.profile, "discoverable")
  /\ Step(w, "completing")
  /\ UNCHANGED <<jobs, vectors, messages, user, call, history>>

MarkVerified(w) ==
  /\ w.pc = "verified"
  /\ SetProfileStatus(w.message.profile, "private")
  /\ Step(w, "completing")
  /\ UNCHANGED <<jobs, vectors, messages, user, call, history>>

MarkFailed(w) ==
  /\ w.pc = "failed"
  /\ SetProfileStatus(w.message.profile, "index_failed")
  /\ Step(w, "giving_up")
  /\ UNCHANGED <<jobs, vectors, messages, user, call, history>>

CloseJob(w) ==
  /\ w.pc \in {"completing", "giving_up"}
  /\ SetIndexJobStatus(w.message.profile,
       IF w.pc = "completing" THEN "completed" ELSE "expired")
  /\ Ack(w)
  /\ UNCHANGED <<profiles, vectors, messages, user, call, history>>

\* A step of the job throws, or the invocation ends: the message is retried.
WorkFails(w) ==
  /\ failures < MaxFailures /\ failures' = failures + 1
  /\ messages' = messages \cup Redelivered(w.message)
  /\ Ack(w)
  /\ dead' = IF DeadLetter(w.message) THEN dead \cup {w.message.profile} ELSE dead
  /\ UNCHANGED <<profiles, jobs, vectors, user, call, former, halfOn, doubled>>

\* The queue delivers at least once: again, while w is still at work.
DeliverTwice(w) ==
  /\ failures < MaxFailures /\ failures' = failures + 1
  /\ messages' = messages \cup Redelivered(w.message)
  /\ doubled' = TRUE
  /\ UNCHANGED <<profiles, jobs, vectors, user, call, work, former,
                 halfOn, dead>>

Continue(w) ==
  \/ Load(w) \/ ExpireJob(w)
  \/ DrawVectors(w) \/ MarkIndexing(w) \/ NameVectors(w)
  \/ UpsertVectors(w) \/ SendVerify(w)
  \/ Check(w) \/ MarkVerified(w) \/ MarkFailed(w) \/ CloseJob(w)

Consume == Take \/ \E w \in work : Continue(w)

Next ==
  \/ Calls
  \/ \E p \in Profiles : JobExpires(p)
  \/ Consume
  \/ \E w \in work : WorkFails(w) \/ DeliverTwice(w)

\* The queue goes on delivering and the consumer goes on working: one fairness
\* for all, as a message is processed in a bounded number of steps.
Spec == Init /\ [][Next]_vars /\ WF_vars(Consume)

-----------------------------------------------------------------------------
(* Properties. *)

\* Once an account is reset, no profile of it that others could not see can
\* be seen again, whatever index work was under way: the consumer may still
\* write to an invalidated profile, but nobody can enable it.
ResetStands ==
  [][\A p \in former : profiles[p].status # "discoverable"
                         => profiles'[p].status # "discoverable"]_vars

\* Between two calls, a person whose current profile others can see has it
\* shown as discoverable, index work in the background included.  (An enable
\* lost before setDiscoverable is the exception.)
ListedIsKnown ==
  call.pc = "idle" /\ user.capability # NoProfile /\ ~ halfOn
    => (profiles[user.capability].status = "discoverable" => user.discoverable)

\* A retried job goes on with the vectors it drew the first time: no pair is
\* left in Vectorize that the job does not know.
OneVectorPair == doubled \/ \A p \in Profiles : Cardinality(Drawn(p)) <= 1

\* A person's current profile is never one that was not handed to the queue,
\* wherever finalizeProfileSession is cut off; only when its message has failed
\* in every delivery is nobody at work on it.
CurrentIsQueued ==
  \A p \in Profiles :
    /\ user.capability = p /\ jobs[p].vectors = 0 /\ jobs[p].status = "pending"
    /\ profiles[p].status # "invalidated" /\ p \notin dead
    => \/ \E m \in messages : m.action = "upsert" /\ m.profile = p
       \/ \E w \in work : w.message.action = "upsert" /\ w.message.profile = p

\* The current profile of a person is at work for the person, and the person
\* knows of it.
CurrentIsSound == ListedIsKnown /\ CurrentIsQueued

\* A profile does not stay in the state "indexing" for ever, unless its job
\* ran out of time or a fault hit the work.
IndexSettles ==
  \A p \in Profiles :
    profiles[p].status = "indexing"
      ~> \/ profiles[p].status # "indexing"
         \/ ~ jobs[p].live \/ failures > 0

\* What the reset promises before it gives the account up: nothing of the old
\* account can be seen by others any more.
ResetHides == \A p \in former : profiles[p].status # "discoverable"

\* The step the finding reset_hides begins with: discoverability is turned on
\* while a questionnaire is open (profile-service.ts:422).
SwitchedOnInSession == user.session /\ BeginSwitch(TRUE)
=============================================================================
