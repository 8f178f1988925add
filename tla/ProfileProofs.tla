----------------------------- MODULE ProfileProofs -----------------------------
(***************************************************************************)
(* Proofs about a person's profiles, about the questionnaire they are made *)
(* from, and about the two beside each other.                              *)
(***************************************************************************)
EXTENDS MCProfiles, FiniteSetTheorems, TLAPS

(***************************************************************************)
(* Profiles: for every set of profiles, any number of messages at work and *)
(* of faults.  The consumer writes to a profile only what its job has      *)
(* drawn vectors for, and never the status that others see (Consumed), so  *)
(* that every step of it keeps what the person's calls rely on; a call     *)
(* works on the current profile, or on a new one that is nowhere yet       *)
(* (CallShape, Unborn).                                                    *)
(***************************************************************************)

\* The steps of each call, and where each stands.
StepOf(op, pc) ==
  \/ op = "none" /\ pc = "idle"
  \/ op = "finalize" /\ pc \in {"storeJob", "send", "capability", "discoverable",
                               "clearSession"}
  \/ op = "retake" /\ pc \in {"status", "route", "discoverable", "clearSession",
                             "startSession"}
  \/ op \in {"enable", "disable"} /\ pc \in {"status", "readRoute", "route",
                                          "discoverable"}
  \/ op = "reset" /\ pc \in {"delete", "route", "status", "discoverable",
                            "capability", "purge"}

\* A call is at one of its steps, and works on the current profile until it
\* has replaced it; a finalize works on a new one.
CallShape ==
  /\ StepOf(call.op, call.pc)
  /\ call.op = "none" => call = NoCall
  /\ call.pc \in {"status", "readRoute", "route", "delete"} \/ call.op = "finalize"
       => call.profile \in Profiles
  /\ call.pc = "delete" => call.vectors \in Pairs
  /\ call.op \in {"retake", "enable", "disable", "reset"} /\ call.pc # "purge"
     /\ call.profile # NoProfile => call.profile = user.capability
  /\ call.op = "finalize" /\ call.pc \in {"discoverable", "clearSession"}
       => user.capability = call.profile

\* Nobody is at work on profile p, and no message asks for it.
Free(p) ==
  /\ \A m \in messages : m.profile # p
  /\ \A w \in work : w.message.profile # p

\* Nothing of profile p has reached the queue.
Unsent(p) ==
  /\ Free(p)
  /\ \A k \in Pairs : vectors[p][k] = "none"
  /\ jobs[p].vectors = 0
  /\ user.capability # p

\* A profile that is not stored is nowhere; nor is one whose finalize has not
\* sent it.
Unborn ==
  /\ \A p \in Profiles : profiles[p].status = "none" =>
       Unsent(p) /\ jobs[p] = NoJob /\ call.profile # p /\ p \notin former
  /\ call.pc = "storeJob" => Unsent(call.profile) /\ jobs[call.profile] = NoJob
  /\ call.pc = "send" => Unsent(call.profile)

\* A job that has drawn its vectors.
Named(p) == jobs[p].vectors # 0

\* Whatever speaks of vectors of a profile, its job knows them.
Backed ==
  /\ \A p \in Profiles :
       \/ profiles[p].vectors # 0 \/ profiles[p].status = "discoverable"
       \/ jobs[p].status = "completed"
       => Named(p)
  /\ \A m \in messages : m.action = "verify" => Named(m.profile)
  /\ \A w \in work :
       /\ \/ w.message.action = "verify" \/ w.job = "completed" \/ w.pair # 0
          => Named(w.message.profile)
       /\ w.pc \notin {"loading", "expiring", "drawing"} => w.pair # 0
       /\ w.pc = "loading" /\ w.message.action = "verify" => w.pair # 0
       /\ w.pc = "drawing" => w.pair = 0
  /\ call.profile \in Profiles /\ (call.vectors # 0 \/ call.op = "enable")
       => Named(call.profile)

\* While no message was delivered twice, one message for a profile is waiting
\* or at work, and only the vectors the job knows were drawn.
OneAtWork ==
  /\ \A m, n \in messages : m.profile = n.profile => m = n
  /\ \A v, w \in work : v.message.profile = w.message.profile => v = w
  /\ \A m \in messages, w \in work : m.profile # w.message.profile
  /\ \A w \in work : w.pc # "expiring" => w.pair = jobs[w.message.profile].vectors
  /\ \A p \in Profiles : Drawn(p) \subseteq {jobs[p].vectors}

Listed ==
  user.capability # NoProfile /\ profiles[user.capability].status = "discoverable"

\* Who is listed knows it, or their own call is about to tell; nobody is listed
\* whose call is about to tell the contrary.
Known ==
  /\ call.op = "finalize" => profiles[call.profile].status # "discoverable"
  /\ call.pc \in {"readRoute", "route", "discoverable"}
     /\ call.op \in {"retake", "disable"} => ~ Listed
  /\ call.pc = "discoverable" /\ call.op = "reset" => ~ Listed
  /\ Listed => \/ halfOn \/ user.discoverable
               \/ call.op = "enable" /\ call.pc \in {"readRoute", "route", "discoverable"}

OnQueue(p) ==
  \/ \E m \in messages : m.action = "upsert" /\ m.profile = p
  \/ \E w \in work : w.message.action = "upsert" /\ w.message.profile = p

\* A current profile without vectors has its message, or had it to the end.
Queued ==
  /\ \A p \in Profiles :
       /\ \/ user.capability = p
          \/ call.op = "finalize" /\ call.pc = "capability" /\ call.profile = p
       /\ jobs[p].vectors = 0 /\ jobs[p].status = "pending"
       /\ profiles[p].status # "invalidated" /\ p \notin dead
       => OnQueue(p)
  /\ call.pc = "status" /\ call.op # "reset" => profiles[call.profile].status # "invalidated"

\* Nothing of a former account is current, or worked on by a call.
Past ==
  /\ user.capability \notin former
  /\ call.profile \notin former

ProfileInv ==
  /\ TypeOK /\ CallShape /\ Unborn /\ Backed /\ (doubled \/ OneAtWork)
  /\ Known /\ Queued /\ Past

-----------------------------------------------------------------------------
(* Types, and what the consumer of the queue does to everyone else. *)

Work == [pc : WorkPC, message : Message, job : JobStatuses, pair : 0..MaxPairs]

LEMMA Widths ==
  /\ MaxPairs \in Nat \ {0} /\ MAX_RETRIES \in Nat
  /\ Pairs \subseteq 0..MaxPairs /\ 0 \in 0..MaxPairs /\ 0 \notin Pairs
  /\ \A k \in 0..MaxPairs : k # 0 => k \in Pairs
  /\ 1 \in 1..(MAX_RETRIES + 1)
BY ProfileAssumption DEF Pairs

\* A redelivery asks for the same.
LEMMA Redelivery ==
  ASSUME NEW m \in Message
  PROVE  /\ Redelivered(m) \subseteq Message
         /\ \A n \in Redelivered(m) : n.profile = m.profile /\ n.action = m.action
         /\ \A n, o \in Redelivered(m) : n = o
         /\ ~ DeadLetter(m) /\ m.action = "upsert" => \E n \in Redelivered(m) : TRUE
BY DEF Redelivered, DeadLetter, Message

IndexJob == [status : JobStatuses, vectors : 0..MaxPairs, live : BOOLEAN]

\* Writing the status and the vectors of one job.
LEMMA JobWrite ==
  ASSUME NEW J \in [Profiles -> IndexJob], NEW p \in Profiles, NEW s \in JobStatuses,
         NEW k \in 0..MaxPairs
  PROVE  /\ [J EXCEPT ![p].status = s] \in [Profiles -> IndexJob]
         /\ [J EXCEPT ![p].status = s, ![p].vectors = k] \in [Profiles -> IndexJob]
<1>1. [J[p] EXCEPT !.status = s] \in IndexJob
  BY DEF IndexJob
<1>2. [J[p] EXCEPT !.status = s, !.vectors = k] \in IndexJob
  BY DEF IndexJob
<1> HIDE DEF IndexJob
<1>3. [J EXCEPT ![p] = [J[p] EXCEPT !.status = s]] \in [Profiles -> IndexJob]
  BY <1>1
<1>4. [J EXCEPT ![p] = [J[p] EXCEPT !.status = s, !.vectors = k]] \in [Profiles -> IndexJob]
  BY <1>2
<1> QED BY <1>3, <1>4

\* A step of the consumer, seen from the person.
Consumed ==
  /\ UNCHANGED <<user, call, former, halfOn>>
  /\ dead \subseteq dead'
  /\ \A p \in Profiles :
       /\ \/ profiles'[p].status = profiles[p].status
          \/ /\ profiles'[p].status \in {"indexing", "private", "index_failed"}
             /\ Named(p) /\ ~ Free(p)
       /\ profiles'[p].vectors = profiles[p].vectors \/ Named(p)
       /\ Named(p) => Named(p)'
       /\ Free(p) => /\ Free(p)' /\ vectors'[p] = vectors[p]
                     /\ jobs'[p].vectors = jobs[p].vectors
                     /\ jobs[p] = NoJob => jobs'[p] = NoJob

LEMMA ConsumedKeeps ==
  ASSUME ProfileInv, TypeOK', Consumed
  PROVE  /\ CallShape' /\ Unborn' /\ Known' /\ Past'
         /\ \A p \in Profiles : profiles'[p].vectors # 0 \/ profiles'[p].status = "discoverable"
               => Named(p)'
         /\ call'.profile \in Profiles /\ (call'.vectors # 0 \/ call'.op = "enable")
               => Named(call.profile)'
         /\ call'.pc = "status" /\ call'.op # "reset"
               => profiles'[call'.profile].status # "invalidated"
<1>1. CallShape'
  BY DEF ProfileInv, Consumed, CallShape
<1>2. Past'
  BY DEF ProfileInv, Consumed, Past
<1>3. ASSUME NEW p \in Profiles, Unsent(p)
      PROVE  Unsent(p)' /\ (jobs[p] = NoJob => jobs'[p] = NoJob)
  BY <1>3 DEF Consumed, Unsent
<1>4. Unborn'
  <2>1. ASSUME NEW p \in Profiles, profiles'[p].status = "none"
        PROVE  profiles[p].status = "none"
    BY <2>1 DEF Consumed
  <2>2. call.pc \in {"storeJob", "send"} => call.profile \in Profiles
    BY DEF ProfileInv, CallShape, StepOf, TypeOK
  <2> QED BY <1>3, <2>1, <2>2 DEF ProfileInv, Unborn, Consumed
<1>5. Known'
  <2>1. Listed' => Listed
    BY DEF Consumed, Listed, ProfileInv, TypeOK
  <2>2. call.op = "finalize" => profiles'[call.profile].status # "discoverable"
    BY DEF Consumed, ProfileInv, Known, CallShape
  <2> QED BY <2>1, <2>2 DEF ProfileInv, Known, Consumed
<1>6. \A p \in Profiles : profiles'[p].vectors # 0 \/ profiles'[p].status = "discoverable"
         => Named(p)'
  BY DEF Consumed, ProfileInv, Backed
<1>7. call'.profile \in Profiles /\ (call'.vectors # 0 \/ call'.op = "enable")
         => Named(call.profile)'
  BY DEF Consumed, ProfileInv, Backed
<1>8. call'.pc = "status" /\ call'.op # "reset"
         => profiles'[call'.profile].status # "invalidated"
  BY DEF Consumed, ProfileInv, Queued, CallShape
<1> QED BY <1>1, <1>2, <1>4, <1>5, <1>6, <1>7, <1>8

-----------------------------------------------------------------------------
(* The steps of the consumer. *)

LEMMA TakeInv == ASSUME ProfileInv, Take PROVE ProfileInv'
<1> USE DEF ProfileInv
<1>1. PICK m \in messages :
        /\ messages' = messages \ {m}
        /\ work' = work \cup
             {[pc |-> "loading", message |-> m, job |-> jobs[m.profile].status,
               pair |-> jobs[m.profile].vectors]}
  BY DEF Take
<1> DEFINE v == [pc |-> "loading", message |-> m, job |-> jobs[m.profile].status,
                 pair |-> jobs[m.profile].vectors]
<1>2. m \in Message /\ m.profile \in Profiles
  BY DEF TypeOK, Message
<1>3. v \in Work
  BY <1>2 DEF TypeOK, Work, WorkPC
<1>4. UNCHANGED <<profiles, jobs, vectors, user, call, history>>
  BY DEF Take
<1>5. TypeOK'
  BY <1>1, <1>3, <1>4 DEF TypeOK, Work, history
<1>6. Consumed
  BY <1>1, <1>2, <1>4 DEF Consumed, history, Named, Free
<1>7. Backed'
  BY <1>1, <1>2, <1>4, <1>5, <1>6, ConsumedKeeps DEF Backed, Named, TypeOK
<1>8. ASSUME ~ doubled, OneAtWork
      PROVE  OneAtWork'
  BY <1>1, <1>2, <1>4, <1>8 DEF OneAtWork, Drawn
<1>9. Queued'
  <2>1. \A p \in Profiles : OnQueue(p) => OnQueue(p)'
    <3>1. v \in work' /\ v.message = m
      BY <1>1
    <3>2. \A n \in messages : n = m \/ n \in messages'
      BY <1>1
    <3>3. work \subseteq work'
      BY <1>1
    <3> HIDE DEF v
    <3> QED BY <3>1, <3>2, <3>3 DEF OnQueue
  <2> QED BY <2>1, <1>4, <1>6, ConsumedKeeps, <1>5 DEF Queued, history
<1> QED BY <1>4, <1>5, <1>6, <1>7, <1>8, <1>9, ConsumedKeeps DEF history

\* What is known of a message at work.
LEMMA AtWorkOn ==
  ASSUME ProfileInv, NEW w \in work
  PROVE  /\ w \in Work /\ w.message \in Message /\ w.message.profile \in Profiles
         /\ w.pair \in 0..MaxPairs /\ w.pc \in WorkPC /\ w.message.action \in {"upsert", "verify"}
         /\ ~ Free(w.message.profile)
         /\ w.pair # 0 => (Named(w.message.profile) /\ w.pair \in Pairs)
BY Widths DEF ProfileInv, TypeOK, Work, Message, Free, Backed

\* The consumer goes on with w as v, and leaves jobs and messages alone.
LEMMA MovesOn ==
  ASSUME ProfileInv, NEW w \in work, NEW v \in Work, v.message = w.message,
         work' = (work \ {w}) \cup {v},
         UNCHANGED <<jobs, messages, user, call, history>>,
         TypeOK', Consumed,
         ~ doubled /\ OneAtWork =>
           \A p \in Profiles : Drawn(p)' \subseteq {jobs[p].vectors},
         v.job = "completed" => w.job = "completed",
         v.pair # 0 => w.pair # 0,
         v.pc \notin {"expiring", "drawing"} => v.pair # 0,
         v.pc = "drawing" => v.pair = 0,
         v.pc # "expiring" => w.pc # "expiring" /\ v.pair = w.pair
  PROVE  ProfileInv'
<1> USE DEF ProfileInv
<1>1. Backed'
  <2>1. ASSUME NEW x \in work'
        PROVE  /\ \/ x.message.action = "verify" \/ x.job = "completed" \/ x.pair # 0
                  => Named(x.message.profile)'
               /\ x.pc \notin {"loading", "expiring", "drawing"} => x.pair # 0
               /\ x.pc = "loading" /\ x.message.action = "verify" => x.pair # 0
               /\ x.pc = "drawing" => x.pair = 0
    <3>1. CASE x = v
      BY <3>1 DEF Backed, Named
    <3>2. CASE x \in work
      BY <3>2 DEF Backed, Named
    <3> QED BY <3>1, <3>2
  <2> QED BY <2>1, ConsumedKeeps DEF Backed, Named
<1>2. ASSUME ~ doubled, OneAtWork
      PROVE  OneAtWork'
  <2>1. \A x \in work' : x = v \/ (x \in work /\ x # w)
    OBVIOUS
  <2> QED BY <1>2, <2>1 DEF OneAtWork
<1>3. Queued'
  <2>1. \A p \in Profiles : OnQueue(p) => OnQueue(p)'
    BY DEF OnQueue
  <2> QED BY <2>1, ConsumedKeeps DEF Queued, history, Consumed, Named
<1> QED BY <1>1, <1>2, <1>3, ConsumedKeeps DEF history

\* The consumer acknowledges w and writes nothing.
LEMMA Acked ==
  ASSUME ProfileInv, NEW w \in work, Ack(w),
         UNCHANGED <<profiles, jobs, vectors, messages, user, call, history>>,
         Named(w.message.profile) \/ profiles[w.message.profile].status = "invalidated"
  PROVE  ProfileInv'
<1> USE DEF ProfileInv
<1>1. TypeOK'
  BY DEF TypeOK, Ack, history
<1>2. Consumed
  BY DEF Consumed, history, Named, Free, Ack
<1>3. Backed'
  BY <1>1, <1>2, ConsumedKeeps DEF Backed, Named, Ack
<1>4. ASSUME ~ doubled, OneAtWork
      PROVE  OneAtWork'
  BY <1>4 DEF OneAtWork, Drawn, Ack
<1>5. Queued'
  <2>1. \A p \in Profiles : p # w.message.profile /\ OnQueue(p) => OnQueue(p)'
    BY DEF OnQueue, Ack
  <2> QED BY <2>1, <1>2, ConsumedKeeps, <1>1 DEF Queued, history, Named
<1> QED BY <1>1, <1>2, <1>3, <1>4, <1>5, ConsumedKeeps DEF history

LEMMA LoadInv == ASSUME ProfileInv, NEW w \in work, Load(w) PROVE ProfileInv'
<1>1. w.pc = "loading" /\ UNCHANGED <<profiles, jobs, vectors, messages, user, call, history>>
  BY DEF Load
<1>2. ASSUME NEW v \in Work, Becomes(w, v), v.message = w.message,
             v.job = "completed" => w.job = "completed",
             v.pair # 0 => w.pair # 0,
             v.pc \notin {"expiring", "drawing"} => v.pair # 0,
             v.pc = "drawing" => v.pair = 0,
             v.pc # "expiring" => v.pair = w.pair
      PROVE  ProfileInv'
  <2>1. TypeOK' /\ Consumed
    BY <1>1, <1>2 DEF Becomes, TypeOK, Work, history, ProfileInv, Consumed, Named, Free
  <2>2. OneAtWork => \A p \in Profiles : Drawn(p)' \subseteq {jobs[p].vectors}
    BY <1>1 DEF Drawn, OneAtWork
  <2> QED BY <1>1, <1>2, <2>1, <2>2, MovesOn DEF Becomes
<1>3. CASE Ack(w) /\ profiles[w.message.profile].status = "discoverable"
  BY <1>1, <1>3, Acked, AtWorkOn DEF ProfileInv, Backed
<1>4. CASE Ack(w) /\ ShouldAckEarly(w) /\ ~ (w.job # "completed" /\ JobOver(w))
  BY <1>1, <1>4, Acked, AtWorkOn DEF ProfileInv, Backed, ShouldAckEarly
<1>5. CASE Becomes(w, [w EXCEPT !.pc = "expiring", !.job = "none", !.pair = 0])
  <2>1. [w EXCEPT !.pc = "expiring", !.job = "none", !.pair = 0] \in Work
    BY AtWorkOn, Widths DEF Work, WorkPC, JobStatuses
  <2> QED BY <1>1, <1>2, <1>5, <2>1, AtWorkOn DEF Work
<1>6. ASSUME Becomes(w, [w EXCEPT !.job = "none", !.pc =
               IF w.message.action = "verify" THEN "checking"
               ELSE IF w.pair = 0 THEN "drawing" ELSE "marking"])
      PROVE  ProfileInv'
  <2> DEFINE v == [w EXCEPT !.job = "none", !.pc =
               IF w.message.action = "verify" THEN "checking"
               ELSE IF w.pair = 0 THEN "drawing" ELSE "marking"]
  <2>1. /\ v \in Work /\ v.message = w.message /\ v.job = "none" /\ v.pair = w.pair
        /\ v.pc = IF w.message.action = "verify" THEN "checking"
                  ELSE IF w.pair = 0 THEN "drawing" ELSE "marking"
    BY AtWorkOn DEF Work, WorkPC, JobStatuses
  <2>2. w.message.action = "verify" => w.pair # 0
    BY <1>1 DEF ProfileInv, Backed
  <2>3. Becomes(w, v)
    BY <1>6
  <2> HIDE DEF v
  <2> QED BY <1>1, <1>2, <2>1, <2>2, <2>3
<1> QED BY <1>3, <1>4, <1>5, <1>6 DEF Load

\* w closes its job and is done.
LEMMA Closes ==
  ASSUME ProfileInv, NEW w \in work, Ack(w), NEW s \in {"expired", "completed"},
         s = "completed" => Named(w.message.profile),
         SetIndexJobStatus(w.message.profile, s),
         UNCHANGED <<profiles, vectors, messages, user, call, history>>
  PROVE  ProfileInv'
<1> USE DEF ProfileInv
<1>0. w.message.profile \in Profiles /\ ~ Free(w.message.profile)
  BY AtWorkOn
<1>1. TypeOK'
  <2>1. jobs' \in [Profiles -> [status : JobStatuses, vectors : 0..MaxPairs,
                               live : BOOLEAN]]
    <3>1. s \in JobStatuses /\ jobs \in [Profiles -> IndexJob] /\ 0 \in 0..MaxPairs
      BY Widths DEF JobStatuses, TypeOK, IndexJob
    <3>2. jobs' \in [Profiles -> IndexJob]
      BY <1>0, <3>1, JobWrite DEF SetIndexJobStatus
    <3> QED BY <3>2 DEF IndexJob
  <2> QED BY <2>1 DEF TypeOK, Ack, history
<1>2. /\ \A p \in Profiles : jobs'[p].vectors = jobs[p].vectors
      /\ \A p \in Profiles : p # w.message.profile => jobs'[p] = jobs[p]
      /\ jobs'[w.message.profile].status = s
  BY <1>0 DEF SetIndexJobStatus, TypeOK
<1>3. Consumed
  BY <1>2 DEF Consumed, history, Named, Free, Ack
<1>4. Backed'
  <2>1. \A m \in messages : m \in Message /\ m.profile \in Profiles
    BY DEF TypeOK, Message
  <2> QED BY <1>1, <1>2, <1>3, <2>1, AtWorkOn, ConsumedKeeps DEF Backed, Named, Ack
<1>5. ASSUME ~ doubled, OneAtWork
      PROVE  OneAtWork'
  BY <1>2, <1>5, AtWorkOn DEF OneAtWork, Drawn, Ack
<1>6. Queued'
  <2>1. \A p \in Profiles : p # w.message.profile /\ OnQueue(p) => OnQueue(p)'
    BY DEF OnQueue, Ack
  <2> QED BY <2>1, <1>2, <1>3, ConsumedKeeps, <1>1 DEF Queued, history, Named
<1> QED BY <1>1, <1>3, <1>4, <1>5, <1>6, ConsumedKeeps DEF history

LEMMA ExpireJobInv == ASSUME ProfileInv, NEW w \in work, ExpireJob(w) PROVE ProfileInv'
BY Closes DEF ExpireJob

LEMMA CloseJobInv == ASSUME ProfileInv, NEW w \in work, CloseJob(w) PROVE ProfileInv'
<1>1. Named(w.message.profile)
  BY DEF ProfileInv, Backed, CloseJob
<1> QED BY <1>1, Closes DEF CloseJob

\* w writes a status of its profile and goes on.
LEMMA Marks ==
  ASSUME ProfileInv, NEW w \in work, NEW s \in {"indexing", "private", "index_failed"},
         NEW pc \in WorkPC \ {"loading", "expiring", "drawing"}, Step(w, pc),
         w.pc \notin {"loading", "expiring", "drawing"},
         SetProfileStatus(w.message.profile, s),
         UNCHANGED <<jobs, vectors, messages, user, call, history>>
  PROVE  ProfileInv'
<1> USE DEF ProfileInv
<1> DEFINE v == [w EXCEPT !.pc = pc]
<1>1. v \in Work /\ v.pc = pc /\ v.message = w.message /\ v.job = w.job /\ v.pair = w.pair
  BY AtWorkOn DEF Work
<1>2. Becomes(w, v)
  BY DEF Step
<1> HIDE DEF v
<1>3. w.pair # 0 /\ Named(w.message.profile) /\ ~ Free(w.message.profile)
      /\ w.message.profile \in Profiles
  BY AtWorkOn DEF Backed
<1>4. profiles' \in [Profiles -> [status : ProfileStatuses, vectors : 0..MaxPairs]]
  BY <1>3 DEF TypeOK, SetProfileStatus, ProfileStatuses
<1>5. TypeOK'
  BY <1>1, <1>2, <1>4 DEF TypeOK, history, Becomes, Work
<1>6. \A p \in Profiles :
        /\ profiles'[p].vectors = profiles[p].vectors
        /\ profiles'[p].status = IF p = w.message.profile THEN s ELSE profiles[p].status
  BY <1>3 DEF SetProfileStatus, TypeOK
<1>7. Consumed
  BY <1>1, <1>2, <1>3, <1>6 DEF Consumed, history, Named, Free, Becomes
<1>8. OneAtWork => \A p \in Profiles : Drawn(p)' \subseteq {jobs[p].vectors}
  BY DEF Drawn, OneAtWork
<1> QED BY <1>1, <1>2, <1>3, <1>5, <1>7, <1>8, MovesOn DEF Becomes, history

LEMMA MarkIndexingInv == ASSUME ProfileInv, NEW w \in work, MarkIndexing(w) PROVE ProfileInv'
BY Marks DEF MarkIndexing, WorkPC

LEMMA MarkVerifiedInv == ASSUME ProfileInv, NEW w \in work, MarkVerified(w) PROVE ProfileInv'
BY Marks DEF MarkVerified, WorkPC

LEMMA MarkFailedInv == ASSUME ProfileInv, NEW w \in work, MarkFailed(w) PROVE ProfileInv'
BY Marks DEF MarkFailed, WorkPC

LEMMA NameVectorsInv == ASSUME ProfileInv, NEW w \in work, NameVectors(w) PROVE ProfileInv'
<1> USE DEF ProfileInv
<1> DEFINE v == [w EXCEPT !.pc = "upserting"]
<1>1. v \in Work /\ v.pc = "upserting" /\ v.message = w.message /\ v.job = w.job
      /\ v.pair = w.pair
  BY AtWorkOn DEF Work, WorkPC
<1>2. Becomes(w, v) /\ w.pc = "naming"
      /\ UNCHANGED <<jobs, vectors, messages, user, call, history>>
      /\ UpdateProfileRoute(w.message.profile, w.pair)
  BY DEF Step, NameVectors
<1> HIDE DEF v
<1>3. w.pair # 0 /\ Named(w.message.profile) /\ ~ Free(w.message.profile)
      /\ w.message.profile \in Profiles /\ w.pair \in 0..MaxPairs
  BY <1>2, AtWorkOn DEF Backed
<1>4. profiles' \in [Profiles -> [status : ProfileStatuses, vectors : 0..MaxPairs]]
  BY <1>2, <1>3 DEF TypeOK, UpdateProfileRoute
<1>5. TypeOK'
  BY <1>1, <1>2, <1>4 DEF TypeOK, history, Becomes, Work
<1>6. \A p \in Profiles :
        /\ profiles'[p].vectors = IF p = w.message.profile THEN w.pair ELSE profiles[p].vectors
        /\ profiles'[p].status = profiles[p].status
  BY <1>2, <1>3 DEF UpdateProfileRoute, TypeOK
<1>7. Consumed
  BY <1>1, <1>2, <1>3, <1>6 DEF Consumed, history, Named, Free, Becomes
<1>8. OneAtWork => \A p \in Profiles : Drawn(p)' \subseteq {jobs[p].vectors}
  BY <1>2 DEF Drawn, OneAtWork
<1> QED BY <1>1, <1>2, <1>3, <1>5, <1>7, <1>8, MovesOn DEF Becomes, history

LEMMA UpsertVectorsInv == ASSUME ProfileInv, NEW w \in work, UpsertVectors(w) PROVE ProfileInv'
<1> USE DEF ProfileInv
<1> DEFINE v == [w EXCEPT !.pc = "sending"]
<1>1. v \in Work /\ v.pc = "sending" /\ v.message = w.message /\ v.job = w.job
      /\ v.pair = w.pair
  BY AtWorkOn DEF Work, WorkPC
<1>2. Becomes(w, v) /\ w.pc = "upserting"
      /\ UNCHANGED <<profiles, jobs, messages, user, call, history>>
      /\ vectors' = [vectors EXCEPT ![w.message.profile][w.pair] = "present"]
  BY DEF Step, UpsertVectors
<1> HIDE DEF v
<1>3. w.pair # 0 /\ Named(w.message.profile) /\ ~ Free(w.message.profile)
      /\ w.message.profile \in Profiles /\ w.pair \in Pairs
  BY <1>2, AtWorkOn DEF Backed
<1>4. vectors' \in [Profiles -> [Pairs -> {"none", "drawn", "present"}]]
  BY <1>2, <1>3 DEF TypeOK
<1>5. TypeOK'
  BY <1>1, <1>2, <1>4 DEF TypeOK, history, Becomes, Work
<1>6. \A p \in Profiles : /\ p # w.message.profile => vectors'[p] = vectors[p]
                          /\ \A k \in Pairs : k # w.pair => vectors'[p][k] = vectors[p][k]
  BY <1>2, <1>3 DEF TypeOK
<1>7. Consumed
  BY <1>1, <1>2, <1>3, <1>6 DEF Consumed, history, Named, Free, Becomes
<1>8. OneAtWork => \A p \in Profiles : Drawn(p)' \subseteq {jobs[p].vectors}
  BY <1>2, <1>3, <1>6 DEF Drawn, OneAtWork
<1> QED BY <1>1, <1>2, <1>3, <1>5, <1>7, <1>8, MovesOn DEF Becomes, history

\* w draws its vectors: the job knows them from the same step on.
LEMMA DrawVectorsInv == ASSUME ProfileInv, NEW w \in work, DrawVectors(w) PROVE ProfileInv'
<1> USE DEF ProfileInv
<1> DEFINE p == w.message.profile
           k == Cardinality(Drawn(p)) + 1
           v == [w EXCEPT !.pc = "marking", !.pair = k]
<1>1. /\ w.pc = "drawing" /\ k \in Pairs
      /\ vectors' = [vectors EXCEPT ![p][k] = "drawn"]
      /\ jobs' = [jobs EXCEPT ![p].status = "pending", ![p].vectors = k]
      /\ work' = (work \ {w}) \cup {v}
      /\ UNCHANGED <<profiles, messages, user, call, history>>
  BY DEF DrawVectors, PersistJobVectors, Becomes
<1>2. v \in Work /\ v.pc = "marking" /\ v.message = w.message /\ v.job = w.job
      /\ v.pair = k
  BY <1>1, AtWorkOn, Widths DEF Work, WorkPC
<1>3. OneAtWork => k = 1 /\ Drawn(p) = {}
  <2>1. ASSUME OneAtWork
        PROVE  Drawn(p) = {}
    <3>1. w.pair = 0 /\ w.pair = jobs[p].vectors
      BY <1>1, <2>1 DEF OneAtWork, Backed
    <3>2. Drawn(p) \subseteq {0} /\ Drawn(p) \subseteq Pairs
      BY <2>1, <3>1, AtWorkOn DEF OneAtWork, Drawn
    <3> QED BY <3>2, Widths
  <2> QED BY <2>1, FS_EmptySet
<1> HIDE DEF k, v
<1>4. p \in Profiles /\ ~ Free(p) /\ k # 0 /\ k \in 0..MaxPairs
  BY <1>1, AtWorkOn, Widths
<1>5. vectors' \in [Profiles -> [Pairs -> {"none", "drawn", "present"}]]
  BY <1>1, <1>4 DEF TypeOK
<1>6. jobs' \in [Profiles -> [status : JobStatuses, vectors : 0..MaxPairs, live : BOOLEAN]]
  <2>1. "pending" \in JobStatuses /\ jobs \in [Profiles -> IndexJob]
    BY DEF JobStatuses, TypeOK, IndexJob
  <2>2. jobs' \in [Profiles -> IndexJob]
    BY <1>1, <1>4, <2>1, JobWrite
  <2> QED BY <2>2 DEF IndexJob
<1>7. TypeOK'
  BY <1>1, <1>2, <1>5, <1>6 DEF TypeOK, history, Work
<1>8. \A q \in Profiles :
        /\ jobs'[q].vectors = IF q = p THEN k ELSE jobs[q].vectors
        /\ jobs'[q].status = IF q = p THEN "pending" ELSE jobs[q].status
        /\ q # p => jobs'[q] = jobs[q] /\ vectors'[q] = vectors[q]
  BY <1>1, <1>4 DEF TypeOK
<1>9. Consumed
  <2>1. \A q \in Profiles : Named(q) => Named(q)'
    BY <1>4, <1>8 DEF Named
  <2>2. \A q \in Profiles : Free(q) => Free(q)' /\ q # p
    BY <1>1, <1>2, <1>4 DEF Free
  <2> QED BY <1>1, <1>8, <2>1, <2>2 DEF Consumed, history
<1>10. Backed'
  <2>1. ASSUME NEW x \in work'
        PROVE  /\ \/ x.message.action = "verify" \/ x.job = "completed" \/ x.pair # 0
                  => Named(x.message.profile)'
               /\ x.pc \notin {"loading", "expiring", "drawing"} => x.pair # 0
               /\ x.pc = "loading" /\ x.message.action = "verify" => x.pair # 0
               /\ x.pc = "drawing" => x.pair = 0
    <3>1. CASE x = v
      BY <1>2, <1>4, <1>8, <3>1 DEF Backed, Named
    <3>2. CASE x \in work
      BY <1>4, <1>8, <3>2, AtWorkOn DEF Backed, Named
    <3> QED BY <1>1, <3>1, <3>2
  <2>2. \A m \in messages' : m.action = "verify" => Named(m.profile)'
    <3>1. \A m \in messages : m.profile \in Profiles
      BY DEF TypeOK, Message
    <3> QED BY <1>1, <1>4, <1>8, <3>1 DEF Backed, Named
  <2>3. \A q \in Profiles : jobs'[q].status = "completed" => Named(q)'
    BY <1>4, <1>8 DEF Backed, Named
  <2> QED BY <1>7, <1>9, <2>1, <2>2, <2>3, ConsumedKeeps DEF Backed
<1>11. ASSUME ~ doubled, OneAtWork
       PROVE  OneAtWork'
  <2>1. \A x \in work' : x = v \/ (x \in work /\ x # w)
    BY <1>1
  <2>2. \A q \in Profiles : Drawn(q)' \subseteq {jobs'[q].vectors}
    BY <1>1, <1>3, <1>4, <1>5, <1>8, <1>11 DEF OneAtWork, Drawn, TypeOK
  <2>3. \A x \in work : x # w => x.message.profile # p /\ x.message.profile \in Profiles
    BY <1>11, AtWorkOn DEF OneAtWork
  <2>4. \A x, y \in work' : x.message.profile = y.message.profile => x = y
    BY <1>2, <1>11, <2>1, <2>3 DEF OneAtWork
  <2>5. \A m \in messages', x \in work' : m.profile # x.message.profile
    BY <1>1, <1>2, <1>11, <2>1 DEF OneAtWork
  <2>6. \A x \in work' : x.pc # "expiring" => x.pair = jobs'[x.message.profile].vectors
    BY <1>2, <1>4, <1>8, <1>11, <2>1, <2>3 DEF OneAtWork
  <2> QED BY <1>1, <1>11, <2>2, <2>4, <2>5, <2>6 DEF OneAtWork
<1>12. Queued'
  <2>1. \A q \in Profiles : OnQueue(q) => OnQueue(q)'
    BY <1>1, <1>2 DEF OnQueue
  <2> QED BY <1>1, <1>4, <1>7, <1>8, <1>9, <2>1, ConsumedKeeps DEF Queued, history
<1> QED BY <1>1, <1>7, <1>9, <1>10, <1>11, <1>12, ConsumedKeeps DEF history

\* The consumer acknowledges w, and at most one message for its profile is sent.
LEMMA Sends ==
  ASSUME ProfileInv, NEW w \in work, NEW M \in SUBSET Message, Ack(w),
         messages' = messages \cup M,
         UNCHANGED <<profiles, jobs, vectors, user, call, former, halfOn, doubled>>,
         failures' \in 0..MaxFailures, dead \subseteq dead', dead' \subseteq Profiles,
         \A n \in M : /\ n.profile = w.message.profile
                      /\ n.action = "verify" => Named(n.profile),
         \A n, o \in M : n = o,
         \/ Named(w.message.profile) \/ w.message.profile \in dead'
         \/ w.message.action # "upsert" \/ \E n \in M : n.action = "upsert"
  PROVE  ProfileInv'
<1> USE DEF ProfileInv
<1>1. TypeOK'
  BY DEF TypeOK, Ack
<1>2. \A p \in Profiles : Free(p) => Free(p)'
  BY DEF Free, Ack
<1>3. Consumed
  BY <1>2 DEF Consumed, Named
<1>4. Backed'
  BY <1>1, <1>3, ConsumedKeeps DEF Backed, Named, Ack
<1>5. ASSUME ~ doubled, OneAtWork
      PROVE  OneAtWork'
  <2>1. \A m \in messages' : m \in messages \/ m.profile = w.message.profile
    OBVIOUS
  <2>2. \A m, n \in messages' : m.profile = n.profile => m = n
    BY <1>5, <2>1 DEF OneAtWork
  <2>3. \A m \in messages', x \in work' : m.profile # x.message.profile
    BY <1>5, <2>1 DEF OneAtWork, Ack
  <2> QED BY <1>5, <2>2, <2>3 DEF OneAtWork, Drawn, Ack
<1>6. Queued'
  <2>1. \A p \in Profiles : p # w.message.profile /\ OnQueue(p) => OnQueue(p)'
    BY DEF OnQueue, Ack
  <2>2. LET p == w.message.profile IN
        OnQueue(p) => OnQueue(p)' \/ Named(p) \/ p \in dead'
    BY DEF OnQueue, Ack
  <2> QED BY <2>1, <2>2, <1>3, ConsumedKeeps, <1>1 DEF Queued, Named
<1> QED BY <1>1, <1>3, <1>4, <1>5, <1>6, ConsumedKeeps

LEMMA SendVerifyInv == ASSUME ProfileInv, NEW w \in work, SendVerify(w) PROVE ProfileInv'
<1> DEFINE n == [w.message EXCEPT !.action = "verify", !.attempt = 1]
<1>1. n \in Message /\ n.profile = w.message.profile /\ n.action = "verify"
  BY AtWorkOn, Widths DEF Message
<1>2. Named(w.message.profile)
  BY DEF SendVerify, ProfileInv, Backed
<1>3. failures \in 0..MaxFailures /\ dead \subseteq Profiles
  BY DEF ProfileInv, TypeOK
<1>4. messages' = messages \cup {n} /\ Ack(w)
      /\ UNCHANGED <<profiles, jobs, vectors, user, call, history>>
  BY DEF SendVerify
<1> HIDE DEF n
<1>5. {n} \in SUBSET Message /\ \A m, o \in {n} : m = o /\ m = n
  BY <1>1
<1> QED BY <1>1, <1>2, <1>3, <1>4, <1>5, Sends DEF history

LEMMA CheckInv == ASSUME ProfileInv, NEW w \in work, Check(w) PROVE ProfileInv'
<1>1. w.pc = "checking" /\ UNCHANGED <<profiles, jobs, vectors, user, call, history>>
      /\ Named(w.message.profile) /\ w.pair # 0
  BY DEF Check, ProfileInv, Backed
<1>2. ASSUME NEW pc \in {"verified", "failed"}, Step(w, pc), UNCHANGED messages
      PROVE  ProfileInv'
  <2> DEFINE v == [w EXCEPT !.pc = pc]
  <2>1. v \in Work /\ v.pc = pc /\ v.message = w.message /\ v.job = w.job /\ v.pair = w.pair
    BY AtWorkOn DEF Work, WorkPC
  <2>2. Becomes(w, v)
    BY <1>2 DEF Step
  <2> HIDE DEF v
  <2>3. TypeOK' /\ Consumed
    BY <1>1, <1>2, <2>1, <2>2
    DEF Becomes, TypeOK, Work, history, ProfileInv, Consumed, Named, Free
  <2>4. OneAtWork => \A p \in Profiles : Drawn(p)' \subseteq {jobs[p].vectors}
    BY <1>1 DEF Drawn, OneAtWork
  <2> QED BY <1>1, <1>2, <2>1, <2>2, <2>3, <2>4, MovesOn DEF Becomes
<1>3. ASSUME messages' = messages \cup Redelivered(w.message), Ack(w)
      PROVE  ProfileInv'
  <2>1. failures \in 0..MaxFailures /\ dead \subseteq Profiles
    BY DEF ProfileInv, TypeOK
  <2> QED BY <1>1, <1>3, <2>1, Redelivery, AtWorkOn, Sends DEF history
<1> QED BY <1>2, <1>3 DEF Check

LEMMA WorkFailsInv == ASSUME ProfileInv, NEW w \in work, WorkFails(w) PROVE ProfileInv'
<1>1. failures' \in 0..MaxFailures
  BY ProfileAssumption DEF WorkFails, ProfileInv, TypeOK
<1>2. dead \subseteq dead' /\ dead' \subseteq Profiles
  BY AtWorkOn DEF WorkFails, ProfileInv, TypeOK
<1>3. DeadLetter(w.message) => w.message.profile \in dead'
  BY DEF WorkFails
<1>4. w.message.action = "verify" => Named(w.message.profile)
  BY DEF ProfileInv, Backed
<1> QED BY <1>1, <1>2, <1>3, <1>4, Redelivery, AtWorkOn, Sends DEF WorkFails

\* A message comes again while it is at work: from here on two may be at work.
LEMMA DeliverTwiceInv == ASSUME ProfileInv, NEW w \in work, DeliverTwice(w) PROVE ProfileInv'
<1> USE DEF ProfileInv
<1>1. /\ messages' = messages \cup Redelivered(w.message) /\ doubled'
      /\ UNCHANGED <<profiles, jobs, vectors, user, call, work, former, halfOn, dead>>
  BY DEF DeliverTwice
<1>2. Redelivered(w.message) \subseteq Message
      /\ \A n \in Redelivered(w.message) :
           n.profile = w.message.profile /\ n.action = w.message.action
  BY Redelivery, AtWorkOn
<1>3. TypeOK'
  BY <1>1, <1>2, ProfileAssumption DEF TypeOK, DeliverTwice
<1>4. Consumed
  BY <1>1, <1>2, AtWorkOn DEF Consumed, Named, Free
<1>5. Backed'
  BY <1>1, <1>2, <1>3, <1>4, ConsumedKeeps DEF Backed, Named
<1>6. Queued'
  <2>1. \A p \in Profiles : OnQueue(p) => OnQueue(p)'
    BY <1>1 DEF OnQueue
  <2> QED BY <1>1, <1>3, <1>4, <2>1, ConsumedKeeps DEF Queued
<1> QED BY <1>1, <1>3, <1>4, <1>5, <1>6, ConsumedKeeps

LEMMA JobExpiresInv == ASSUME ProfileInv, NEW p \in Profiles, JobExpires(p) PROVE ProfileInv'
<1> USE DEF ProfileInv
<1>1. /\ jobs' = [jobs EXCEPT ![p].live = FALSE] /\ jobs[p] # NoJob
      /\ UNCHANGED <<profiles, vectors, messages, user, call, work, history>>
  BY DEF JobExpires, NoJob
<1>2. jobs' \in [Profiles -> [status : JobStatuses, vectors : 0..MaxPairs, live : BOOLEAN]]
  BY <1>1 DEF TypeOK
<1>3. TypeOK'
  BY <1>1, <1>2 DEF TypeOK, history
<1>4. \A q \in Profiles : /\ jobs'[q].vectors = jobs[q].vectors
                          /\ jobs'[q].status = jobs[q].status
                          /\ q # p => jobs'[q] = jobs[q]
  BY <1>1 DEF TypeOK
<1>5. Consumed
  BY <1>1, <1>4 DEF Consumed, history, Named, Free
<1>6. Backed'
  <2>1. \A m \in messages : m.profile \in Profiles
    BY DEF TypeOK, Message
  <2> QED BY <1>1, <1>3, <1>4, <1>5, <2>1, AtWorkOn, ConsumedKeeps DEF Backed, Named
<1>7. ASSUME ~ doubled, OneAtWork
      PROVE  OneAtWork'
  BY <1>1, <1>4, <1>7, AtWorkOn DEF OneAtWork, Drawn
<1>8. Queued'
  <2>1. \A q \in Profiles : OnQueue(q) => OnQueue(q)'
    BY <1>1 DEF OnQueue
  <2> QED BY <1>1, <1>3, <1>4, <1>5, <2>1, ConsumedKeeps DEF Queued, history
<1> QED BY <1>1, <1>3, <1>5, <1>6, <1>7, <1>8, ConsumedKeeps DEF history

-----------------------------------------------------------------------------
(* The steps of the person. *)

\* A step that leaves profiles, jobs and the queue alone.
LEMMA QuietKeeps ==
  ASSUME ProfileInv, UNCHANGED <<profiles, jobs, vectors, messages, work, doubled, dead>>
  PROVE  /\ (doubled \/ OneAtWork)'
         /\ \A p \in Profiles : (Named(p)' <=> Named(p)) /\ (OnQueue(p) => OnQueue(p)')
         /\ (call.profile \in Profiles /\ (call.vectors # 0 \/ call.op = "enable")
               => Named(call.profile))' => Backed'
         /\ \A p \in Profiles : Unsent(p) /\ user'.capability # p => Unsent(p)'
<1>1. (doubled \/ OneAtWork)'
  BY DEF ProfileInv, OneAtWork, Drawn
<1>2. \A p \in Profiles : (Named(p)' <=> Named(p)) /\ (OnQueue(p) => OnQueue(p)')
  BY DEF Named, OnQueue
<1>3. (call.profile \in Profiles /\ (call.vectors # 0 \/ call.op = "enable")
         => Named(call.profile))' => Backed'
  BY DEF ProfileInv, Backed, Named
<1>4. \A p \in Profiles : Unsent(p) /\ user'.capability # p => Unsent(p)'
  BY DEF Unsent, Free
<1> QED BY <1>1, <1>2, <1>3, <1>4

LEMMA NoCallType ==
  NoCall \in [op : {"none", "finalize", "retake", "enable", "disable", "reset"},
              pc : CallPC, profile : Profiles \cup {NoProfile}, vectors : 0..MaxPairs]
BY Widths DEF NoCall, CallPC

\* What an idle person, or one whose call ends, is at.
LEMMA Ended ==
  ASSUME ProfileInv, call' = NoCall, user'.capability = user.capability,
         UNCHANGED <<profiles, jobs, vectors, messages, work, doubled, dead, former>>,
         TypeOK', Listed' => halfOn' \/ user'.discoverable
  PROVE  ProfileInv'
<1> USE DEF ProfileInv
<1>1. CallShape'
  BY DEF CallShape, NoCall, StepOf
<1>2. Unborn'
  BY QuietKeeps, ProfileAssumption DEF Unborn, NoCall, Unsent
<1>3. Backed'
  BY QuietKeeps, ProfileAssumption DEF NoCall
<1>4. Known'
  BY DEF Known, NoCall
<1>5. Queued'
  BY QuietKeeps, ProfileAssumption DEF Queued, NoCall
<1>6. Past'
  BY ProfileAssumption DEF Past, NoCall, TypeOK
<1> QED BY <1>1, <1>2, <1>3, <1>4, <1>5, <1>6, QuietKeeps

LEMMA SessionExpiresInv == ASSUME ProfileInv, SessionExpires PROVE ProfileInv'
<1> USE DEF ProfileInv
<1>1. user' = [user EXCEPT !.session = FALSE] /\ call = NoCall /\ call.pc = "idle"
      /\ UNCHANGED <<profiles, jobs, vectors, messages, call, work, history>>
  BY DEF SessionExpires, CallShape, StepOf
<1>2. user'.capability = user.capability /\ user'.discoverable = user.discoverable
  BY <1>1 DEF TypeOK
<1>3. TypeOK'
  BY <1>1 DEF TypeOK, history
<1>4. Listed' => halfOn \/ user'.discoverable
  BY <1>1, <1>2 DEF Listed, Known
<1> QED BY <1>1, <1>2, <1>3, <1>4, Ended DEF history

LEMMA CallLostInv == ASSUME ProfileInv, CallLost PROVE ProfileInv'
<1> USE DEF ProfileInv
<1>1. /\ call' = NoCall /\ failures' = failures + 1 /\ failures < MaxFailures
      /\ halfOn' = (halfOn \/ (call.op = "enable" /\ call.pc # "status"))
      /\ UNCHANGED <<profiles, jobs, vectors, messages, user, work, former, doubled, dead>>
  BY DEF CallLost
<1>2. TypeOK'
  BY <1>1, ProfileAssumption DEF TypeOK, NoCall, CallPC
<1>3. Listed' => halfOn' \/ user'.discoverable
  BY <1>1 DEF Listed, Known
<1> QED BY <1>1, <1>2, <1>3, Ended

LEMMA BeginRetakeInv == ASSUME ProfileInv, BeginRetake PROVE ProfileInv'
<1> USE DEF ProfileInv
<1> DEFINE p == user.capability
<1>1. /\ call.pc = "idle" /\ call = NoCall
      /\ call' = IF Readable(p)
                 THEN [op |-> "retake", pc |-> "status", profile |-> p,
                       vectors |-> profiles[p].vectors]
                 ELSE [NoCall EXCEPT !.op = "retake", !.pc = "discoverable"]
      /\ UNCHANGED <<profiles, jobs, vectors, messages, user, work, history>>
  BY DEF BeginRetake, CallShape, StepOf
<1>2. Readable(p) => p \in Profiles /\ profiles[p].status \notin {"none", "invalidated"}
  BY DEF Readable, TypeOK, READABLE_PROFILE_STATUSES
<1>3. /\ call'.op = "retake"
      /\ Readable(p) => call'.pc = "status" /\ call'.profile = p
                        /\ call'.vectors = profiles[p].vectors
      /\ ~ Readable(p) => call'.pc = "discoverable" /\ call'.profile = NoProfile
                          /\ call'.vectors = 0
  BY <1>1 DEF NoCall
<1>4. TypeOK'
  BY <1>1, <1>2 DEF TypeOK, history, NoCall, CallPC
<1>5. CallShape'
  BY <1>1, <1>2, <1>3 DEF CallShape, StepOf
<1>6. Unborn'
  BY <1>1, <1>2, <1>3, QuietKeeps, ProfileAssumption DEF Unborn, history, Unsent
<1>7. Backed'
  BY <1>1, <1>2, <1>3, QuietKeeps, ProfileAssumption DEF history, Backed
<1>8. Known'
  BY <1>1, <1>3 DEF Known, Listed, history, Readable, READABLE_PROFILE_STATUSES
<1>9. Queued'
  BY <1>1, <1>2, <1>3, QuietKeeps DEF Queued, history
<1>10. Past'
  BY <1>1, <1>2, <1>3, ProfileAssumption DEF Past, history, TypeOK
<1> QED BY <1>1, <1>4, <1>5, <1>6, <1>7, <1>8, <1>9, <1>10, QuietKeeps DEF history

LEMMA BeginSwitchInv ==
  ASSUME ProfileInv, NEW on \in BOOLEAN, BeginSwitch(on) PROVE ProfileInv'
<1> USE DEF ProfileInv
<1> DEFINE p == user.capability
<1>1. /\ call.pc = "idle" /\ call = NoCall /\ Readable(p)
      /\ on => SearchReady(p)
      /\ call' = [NoCall EXCEPT !.op = IF on THEN "enable" ELSE "disable",
                    !.pc = "status", !.profile = p]
      /\ UNCHANGED <<profiles, jobs, vectors, messages, user, work, history>>
  BY DEF BeginSwitch, CallShape, StepOf
<1>2. p \in Profiles /\ profiles[p].status \notin {"none", "invalidated"}
  BY <1>1 DEF Readable, TypeOK, READABLE_PROFILE_STATUSES
<1>3. call'.op = (IF on THEN "enable" ELSE "disable") /\ call'.pc = "status"
      /\ call'.profile = p /\ call'.vectors = 0
  BY <1>1 DEF NoCall
<1>4. TypeOK'
  BY <1>1, <1>2, Widths DEF TypeOK, history, NoCall, CallPC
<1>5. CallShape'
  BY <1>1, <1>2, <1>3 DEF CallShape, StepOf
<1>6. Unborn'
  BY <1>1, <1>2, <1>3, QuietKeeps DEF Unborn, history, Unsent
<1>7. Backed'
  BY <1>1, <1>2, <1>3, QuietKeeps DEF history, Backed, SearchReady
<1>8. Known'
  BY <1>1, <1>3 DEF Known, Listed, history
<1>9. Queued'
  BY <1>1, <1>2, <1>3, QuietKeeps DEF Queued, history
<1>10. Past'
  BY <1>1, <1>2, <1>3 DEF Past, history
<1> QED BY <1>1, <1>4, <1>5, <1>6, <1>7, <1>8, <1>9, <1>10, QuietKeeps DEF history

LEMMA BeginResetInv == ASSUME ProfileInv, BeginReset PROVE ProfileInv'
<1> USE DEF ProfileInv
<1> DEFINE p == user.capability
<1>1. /\ call.pc = "idle" /\ call = NoCall
      /\ call' = IF p = NoProfile THEN [NoCall EXCEPT !.op = "reset", !.pc = "purge"]
                 ELSE [op |-> "reset", profile |-> p, vectors |-> profiles[p].vectors,
                       pc |-> IF profiles[p].vectors # 0 THEN "delete" ELSE "route"]
      /\ UNCHANGED <<profiles, jobs, vectors, messages, user, work, history>>
  BY DEF BeginReset, CallShape, StepOf
<1>2. p # NoProfile => p \in Profiles /\ profiles[p].vectors \in 0..MaxPairs
                      /\ profiles[p].status # "none"
  BY DEF TypeOK, Unborn, Unsent
<1>3. /\ call'.op = "reset" /\ call'.profile = p
      /\ p # NoProfile => call'.pc = (IF profiles[p].vectors # 0 THEN "delete" ELSE "route")
                          /\ call'.vectors = profiles[p].vectors
      /\ p = NoProfile => call'.pc = "purge" /\ call'.vectors = 0
  BY <1>1 DEF NoCall
<1>4. TypeOK'
  BY <1>1, <1>2 DEF TypeOK, history, NoCall, CallPC
<1>5. CallShape'
  BY <1>1, <1>2, <1>3, Widths DEF CallShape, StepOf
<1>6. Unborn'
  BY <1>1, <1>2, <1>3, QuietKeeps, ProfileAssumption DEF Unborn, history, Unsent
<1>7. Backed'
  BY <1>1, <1>2, <1>3, QuietKeeps, ProfileAssumption DEF history, Backed
<1>8. Known'
  BY <1>1, <1>2, <1>3 DEF Known, Listed, history
<1>9. Queued'
  BY <1>1, <1>2, <1>3, QuietKeeps DEF Queued, history
<1>10. Past'
  BY <1>1, <1>2, <1>3 DEF Past, history
<1> QED BY <1>1, <1>4, <1>5, <1>6, <1>7, <1>8, <1>9, <1>10, QuietKeeps DEF history

LEMMA ReadRouteInv == ASSUME ProfileInv, ReadRoute PROVE ProfileInv'
<1> USE DEF ProfileInv
<1>1. /\ call.pc = "readRoute" /\ call.profile \in Profiles
      /\ call.op \in {"enable", "disable"}
      /\ call' = [call EXCEPT !.pc = "route", !.vectors = profiles[call.profile].vectors]
      /\ UNCHANGED <<profiles, jobs, vectors, messages, user, work, history>>
  BY DEF ReadRoute, CallShape, StepOf
<1>2. /\ call'.op = call.op /\ call'.profile = call.profile /\ call'.pc = "route"
      /\ call'.vectors = profiles[call.profile].vectors
      /\ profiles[call.profile].vectors \in 0..MaxPairs
  BY <1>1 DEF TypeOK
<1>3. TypeOK'
  BY <1>1, <1>2 DEF TypeOK, history, CallPC
<1>4. CallShape'
  BY <1>1, <1>2 DEF CallShape, StepOf
<1>5. Unborn'
  BY <1>1, <1>2, QuietKeeps DEF Unborn, history, Unsent
<1>6. Backed'
  BY <1>1, <1>2, QuietKeeps DEF history, Backed
<1>7. Known'
  BY <1>1, <1>2 DEF Known, Listed, history
<1>8. Queued'
  BY <1>1, <1>2, QuietKeeps DEF Queued, history
<1>9. Past'
  BY <1>1, <1>2 DEF Past, history
<1> QED BY <1>1, <1>3, <1>4, <1>5, <1>6, <1>7, <1>8, <1>9, QuietKeeps DEF history

\* Where a call goes after it has written what the person sees.
LEMMA AfterDiscoverableIs ==
  /\ AfterDiscoverable["finalize"] = "clearSession" /\ AfterDiscoverable["retake"] = "clearSession"
  /\ AfterDiscoverable["enable"] = "idle" /\ AfterDiscoverable["disable"] = "idle"
  /\ AfterDiscoverable["reset"] = "capability"
BY DEF AfterDiscoverable

LEMMA WriteDiscoverableInv == ASSUME ProfileInv, WriteDiscoverable PROVE ProfileInv'
<1> USE DEF ProfileInv
<1>1. /\ call.pc = "discoverable"
      /\ call.op \in {"finalize", "retake", "enable", "disable", "reset"}
      /\ user' = [user EXCEPT !.discoverable = (call.op = "enable")]
      /\ UNCHANGED <<profiles, jobs, vectors, messages, work, history>>
  BY DEF WriteDiscoverable, SetDiscoverable, CallShape, StepOf
<1>2. user'.capability = user.capability /\ user'.discoverable = (call.op = "enable")
  BY <1>1 DEF TypeOK
<1>3. user' \in [capability : Profiles \cup {NoProfile}, discoverable : BOOLEAN,
                session : BOOLEAN]
  BY <1>1 DEF TypeOK
<1>4. Listed' => call.op = "enable"
  BY <1>1, <1>2 DEF Listed, Known, CallShape
<1>5. CASE call.op \in {"enable", "disable"}
  <2>1. call' = NoCall
    BY <1>1, <1>5, AfterDiscoverableIs DEF WriteDiscoverable
  <2>2. TypeOK'
    BY <1>1, <1>3, <2>1, NoCallType DEF TypeOK, history
  <2> QED BY <1>1, <1>2, <1>4, <2>1, <2>2, Ended DEF history
<1>6. CASE call.op \in {"finalize", "retake", "reset"}
  <2> DEFINE pc == IF call.op = "reset" THEN "capability" ELSE "clearSession"
  <2>1. call' = [call EXCEPT !.pc = pc]
    BY <1>1, <1>6, AfterDiscoverableIs DEF WriteDiscoverable, Goto
  <2>2. call'.op = call.op /\ call'.profile = call.profile /\ call'.pc = pc
        /\ call'.vectors = call.vectors
    BY <2>1 DEF TypeOK
  <2>3. TypeOK'
    BY <1>1, <1>3, <2>1 DEF TypeOK, history, CallPC
  <2>4. CallShape'
    BY <1>1, <1>2, <1>6, <2>2 DEF CallShape, StepOf
  <2>5. Unborn'
    BY <1>1, <1>2, <1>6, <2>2, QuietKeeps DEF Unborn, history, Unsent
  <2>6. Backed'
    BY <1>1, <1>6, <2>2, QuietKeeps DEF history, Backed
  <2>7. Known'
    BY <1>1, <1>2, <1>4, <1>6, <2>2 DEF Known, history
  <2>8. Queued'
    BY <1>1, <1>2, <1>6, <2>2, QuietKeeps DEF Queued, history, CallShape
  <2>9. Past'
    BY <1>1, <1>2, <1>6, <2>2 DEF Past, history
  <2> QED BY <1>1, <2>3, <2>4, <2>5, <2>6, <2>7, <2>8, <2>9, QuietKeeps DEF history
<1> QED BY <1>1, <1>5, <1>6

LEMMA WriteCapabilityInv == ASSUME ProfileInv, WriteCapability PROVE ProfileInv'
<1> USE DEF ProfileInv
<1> DEFINE cap == IF call.op = "finalize" THEN call.profile ELSE NoProfile
           pc == IF call.op = "finalize" THEN "discoverable" ELSE "purge"
<1>1. /\ call.pc = "capability" /\ call.op \in {"finalize", "reset"}
      /\ call.op = "finalize" => call.profile \in Profiles
      /\ user' = [user EXCEPT !.capability = cap]
      /\ call' = [call EXCEPT !.pc = pc]
      /\ UNCHANGED <<profiles, jobs, vectors, messages, work, history>>
  BY DEF WriteCapability, CallShape, StepOf, Goto
<1>2. /\ user'.capability = cap /\ user'.discoverable = user.discoverable
      /\ call'.op = call.op /\ call'.profile = call.profile /\ call'.pc = pc
      /\ call'.vectors = call.vectors
  BY <1>1 DEF TypeOK
<1>3. TypeOK'
  BY <1>1 DEF TypeOK, history, CallPC
<1>4. CallShape'
  BY <1>1, <1>2 DEF CallShape, StepOf
<1>5. Unborn'
  <2>1. \A p \in Profiles : profiles[p].status = "none" => cap # p
    BY <1>1, ProfileAssumption DEF Unborn
  <2>2. \A p \in Profiles : profiles'[p].status = "none" => Unsent(p)'
    BY <1>1, <1>2, <2>1, QuietKeeps DEF Unborn, history
  <2> QED BY <1>1, <1>2, <2>2 DEF Unborn, history
<1>6. Backed'
  BY <1>1, <1>2, QuietKeeps DEF history, Backed
<1>7. Known'
  BY <1>1, <1>2 DEF Known, Listed, history
<1>8. Queued'
  BY <1>1, <1>2, QuietKeeps, ProfileAssumption DEF Queued, history
<1>9. Past'
  BY <1>1, <1>2, ProfileAssumption DEF Past, history, TypeOK
<1> QED BY <1>1, <1>3, <1>4, <1>5, <1>6, <1>7, <1>8, <1>9, QuietKeeps DEF history

LEMMA ClearSessionInv == ASSUME ProfileInv, ClearSession PROVE ProfileInv'
<1> USE DEF ProfileInv
<1>1. /\ call.pc = "clearSession" /\ call.op \in {"finalize", "retake"}
      /\ user' = [user EXCEPT !.session = FALSE]
      /\ UNCHANGED <<profiles, jobs, vectors, messages, work, history>>
  BY DEF ClearSession, CallShape, StepOf
<1>2. user'.capability = user.capability /\ user'.discoverable = user.discoverable
  BY <1>1 DEF TypeOK
<1>3. Listed' => halfOn' \/ user'.discoverable
  BY <1>1, <1>2 DEF Listed, Known, history
<1>4. CASE call.op = "finalize"
  <2>1. call' = NoCall
    BY <1>4 DEF ClearSession
  <2>2. TypeOK'
    BY <1>1, <2>1, NoCallType DEF TypeOK, history
  <2> QED BY <1>1, <1>2, <1>3, <2>1, <2>2, Ended DEF history
<1>5. CASE call.op = "retake"
  <2>1. call' = [call EXCEPT !.pc = "startSession"]
    BY <1>5 DEF ClearSession, Goto
  <2>2. call'.op = call.op /\ call'.profile = call.profile /\ call'.pc = "startSession"
        /\ call'.vectors = call.vectors
    BY <2>1 DEF TypeOK
  <2>3. TypeOK'
    BY <1>1, <2>1 DEF TypeOK, history, CallPC
  <2>4. CallShape'
    BY <1>1, <1>2, <1>5, <2>2 DEF CallShape, StepOf
  <2>5. Unborn'
    BY <1>1, <1>2, <1>5, <2>2, QuietKeeps DEF Unborn, history, Unsent
  <2>6. Backed'
    BY <1>1, <1>5, <2>2, QuietKeeps DEF history, Backed
  <2>7. Known'
    BY <1>1, <1>2, <1>3, <1>5, <2>2 DEF Known, history
  <2>8. Queued'
    BY <1>1, <1>2, <1>5, <2>2, QuietKeeps DEF Queued, history
  <2>9. Past'
    BY <1>1, <1>2, <1>5, <2>2 DEF Past, history
  <2> QED BY <1>1, <2>3, <2>4, <2>5, <2>6, <2>7, <2>8, <2>9, QuietKeeps DEF history
<1> QED BY <1>1, <1>4, <1>5

LEMMA StartProfileSessionInv == ASSUME ProfileInv, StartProfileSession PROVE ProfileInv'
<1> USE DEF ProfileInv
<1>1. /\ call.pc = "startSession" /\ call' = NoCall
      /\ user' = [user EXCEPT !.session = TRUE]
      /\ UNCHANGED <<profiles, jobs, vectors, messages, work, history>>
  BY DEF StartProfileSession
<1>2. user'.capability = user.capability /\ user'.discoverable = user.discoverable
  BY <1>1 DEF TypeOK
<1>3. Listed' => halfOn' \/ user'.discoverable
  BY <1>1, <1>2 DEF Listed, Known, history
<1>4. TypeOK'
  BY <1>1, NoCallType DEF TypeOK, history
<1> QED BY <1>1, <1>2, <1>3, <1>4, Ended DEF history

LEMMA PurgeInv == ASSUME ProfileInv, Purge PROVE ProfileInv'
<1> USE DEF ProfileInv
<1>1. /\ call' = NoCall /\ user' = NewUser
      /\ former' = {p \in Profiles : profiles[p].status # "none"}
      /\ UNCHANGED <<profiles, jobs, vectors, messages, work, failures, halfOn, doubled, dead>>
  BY DEF Purge
<1>2. user'.capability = NoProfile /\ NoProfile \notin Profiles
  BY <1>1, ProfileAssumption DEF NewUser
<1>3. TypeOK'
  BY <1>1, NoCallType DEF TypeOK, NewUser
<1>4. CallShape'
  BY <1>1 DEF CallShape, NoCall, StepOf
<1>5. Unborn'
  BY <1>1, <1>2, QuietKeeps DEF Unborn, NoCall
<1>6. Backed'
  BY <1>1, <1>2, QuietKeeps DEF NoCall
<1>7. Known'
  BY <1>1, <1>2 DEF Known, Listed, NoCall
<1>8. Queued'
  BY <1>1, <1>2 DEF Queued, NoCall
<1>9. Past'
  BY <1>1, <1>2 DEF Past, NoCall
<1> QED BY <1>1, <1>3, <1>4, <1>5, <1>6, <1>7, <1>8, <1>9, QuietKeeps

\* What a step of the person that leaves the queue and the consumer alone keeps.
LEMMA CalledKeeps ==
  ASSUME ProfileInv, UNCHANGED <<messages, work, doubled, dead>>,
         \A p \in Profiles : jobs'[p].vectors = jobs[p].vectors,
         \A p \in Profiles : Drawn(p)' = Drawn(p)
  PROVE  /\ (doubled \/ OneAtWork)'
         /\ \A p \in Profiles : (Named(p)' <=> Named(p)) /\ (OnQueue(p) => OnQueue(p)')
                               /\ (Free(p) => Free(p)')
         /\ \A m \in messages : m.action = "verify" => Named(m.profile)'
         /\ \A w \in work :
              \/ w.message.action = "verify" \/ w.job = "completed" \/ w.pair # 0
              => Named(w.message.profile)'
         /\ \A w \in work :
              /\ w.pc \notin {"loading", "expiring", "drawing"} => w.pair # 0
              /\ w.pc = "loading" /\ w.message.action = "verify" => w.pair # 0
              /\ w.pc = "drawing" => w.pair = 0
<1> USE DEF ProfileInv
<1>1. (doubled \/ OneAtWork)'
  BY AtWorkOn DEF OneAtWork
<1>2. \A p \in Profiles : (Named(p)' <=> Named(p)) /\ (OnQueue(p) => OnQueue(p)')
                         /\ (Free(p) => Free(p)')
  BY DEF Named, OnQueue, Free
<1>3. \A m \in messages : m.profile \in Profiles
  BY DEF TypeOK, Message
<1>4. \A m \in messages : m.action = "verify" => Named(m.profile)'
  BY <1>2, <1>3 DEF Backed
<1>5. \A w \in work :
         \/ w.message.action = "verify" \/ w.job = "completed" \/ w.pair # 0
         => Named(w.message.profile)'
  BY <1>2, AtWorkOn DEF Backed
<1> QED BY <1>1, <1>2, <1>4, <1>5 DEF Backed

LEMMA StatusWrite ==
  ASSUME ProfileInv, NEW p \in Profiles, NEW s \in ProfileStatuses, SetProfileStatus(p, s)
  PROVE  /\ profiles' \in [Profiles -> [status : ProfileStatuses, vectors : 0..MaxPairs]]
         /\ \A q \in Profiles :
              /\ profiles'[q].vectors = profiles[q].vectors
              /\ profiles'[q].status = IF q = p THEN s ELSE profiles[q].status
BY DEF ProfileInv, TypeOK, SetProfileStatus

LEMMA BeginFinalizeInv ==
  ASSUME ProfileInv, NEW p \in Profiles, BeginFinalize(p) PROVE ProfileInv'
<1> USE DEF ProfileInv
<1>1. /\ call.pc = "idle" /\ call = NoCall /\ profiles[p].status = "none"
      /\ SetProfileStatus(p, "private")
      /\ call' = [op |-> "finalize", pc |-> "storeJob", profile |-> p, vectors |-> 0]
      /\ UNCHANGED <<jobs, vectors, messages, user, work, history>>
  BY DEF BeginFinalize, CallShape, StepOf, SetProfileStatus, NoRecord
<1>2. /\ profiles' \in [Profiles -> [status : ProfileStatuses, vectors : 0..MaxPairs]]
      /\ \A q \in Profiles :
           /\ profiles'[q].vectors = profiles[q].vectors
           /\ profiles'[q].status = IF q = p THEN "private" ELSE profiles[q].status
  BY <1>1, StatusWrite DEF ProfileStatuses
<1>3. Unsent(p) /\ jobs[p] = NoJob /\ p \notin former
  BY <1>1 DEF Unborn
<1>4. /\ (doubled \/ OneAtWork)'
      /\ \A q \in Profiles : (Named(q)' <=> Named(q)) /\ (OnQueue(q) => OnQueue(q)')
                            /\ (Unsent(q) => Unsent(q)')
  <2>1. \A q \in Profiles : Drawn(q)' = Drawn(q)
    BY <1>1 DEF Drawn
  <2> QED BY <1>1, <2>1, CalledKeeps DEF history, Unsent
<1>5. TypeOK'
  BY <1>1, <1>2, Widths DEF TypeOK, history, CallPC
<1>6. CallShape'
  BY <1>1 DEF CallShape, StepOf
<1>7. Unborn'
  BY <1>1, <1>2, <1>3, <1>4 DEF Unborn, history
<1>8. Backed'
  <2>1. \A q \in Profiles : profiles'[q].vectors # 0 \/ profiles'[q].status = "discoverable"
          \/ jobs'[q].status = "completed" => Named(q)'
    BY <1>1, <1>2, <1>4 DEF Backed
  <2> QED BY <1>1, <2>1 DEF Backed, Named, history
<1>9. Known'
  BY <1>1, <1>2 DEF Known, Listed, history, TypeOK
<1>10. Queued'
  <2>1. user.capability # p
    BY <1>3 DEF Unsent
  <2> QED BY <1>1, <1>2, <1>4, <2>1 DEF Queued, history
<1>11. Past'
  BY <1>1, <1>3 DEF Past, history
<1> QED BY <1>4, <1>5, <1>6, <1>7, <1>8, <1>9, <1>10, <1>11

\* The order of the writes of each call, and what each writes.
LEMMA WrittenInOrder ==
  /\ StatusAfter["retake"] = "private" /\ StatusAfter["enable"] = "discoverable"
  /\ StatusAfter["disable"] = "private" /\ StatusAfter["reset"] = "invalidated"
  /\ AfterStatus["retake"] = "route" /\ AfterStatus["enable"] = "readRoute"
  /\ AfterStatus["disable"] = "readRoute" /\ AfterStatus["reset"] = "discoverable"
BY DEF StatusAfter, AfterStatus

LEMMA WriteStatusInv == ASSUME ProfileInv, WriteStatus PROVE ProfileInv'
<1> USE DEF ProfileInv
<1> DEFINE p == call.profile
           s == StatusAfter[call.op]
           pc == AfterStatus[call.op]
<1>1. /\ call.pc = "status" /\ call.op \in {"retake", "enable", "disable", "reset"}
      /\ p \in Profiles /\ user.capability = p
      /\ SetProfileStatus(p, s) /\ call' = [call EXCEPT !.pc = pc]
      /\ UNCHANGED <<jobs, vectors, messages, user, work, history>>
  BY ProfileAssumption DEF WriteStatus, Goto, CallShape, StepOf
<1>2. /\ s = CASE call.op = "enable" -> "discoverable"
               [] call.op = "reset" -> "invalidated"
               [] call.op \in {"retake", "disable"} -> "private"
      /\ pc = CASE call.op = "retake" -> "route"
                [] call.op = "reset" -> "discoverable"
                [] call.op \in {"enable", "disable"} -> "readRoute"
  BY <1>1, WrittenInOrder
<1> HIDE DEF s, pc
<1>3. s \in {"discoverable", "invalidated", "private"} /\ s \in ProfileStatuses
      /\ pc \in {"route", "readRoute", "discoverable"} /\ pc \in CallPC
  BY <1>1, <1>2 DEF ProfileStatuses, CallPC
<1>4. /\ profiles' \in [Profiles -> [status : ProfileStatuses, vectors : 0..MaxPairs]]
      /\ \A q \in Profiles :
           /\ profiles'[q].vectors = profiles[q].vectors
           /\ profiles'[q].status = IF q = p THEN s ELSE profiles[q].status
  BY <1>1, <1>3, StatusWrite
<1>5. /\ (doubled \/ OneAtWork)'
      /\ \A q \in Profiles : (Named(q)' <=> Named(q)) /\ (OnQueue(q) => OnQueue(q)')
                            /\ (Unsent(q) => Unsent(q)')
  <2>1. \A q \in Profiles : Drawn(q)' = Drawn(q)
    BY <1>1 DEF Drawn
  <2> QED BY <1>1, <2>1, CalledKeeps DEF history, Unsent
<1>6. call'.op = call.op /\ call'.profile = p /\ call'.pc = pc
      /\ call'.vectors = call.vectors
  BY <1>1 DEF TypeOK
<1>7. TypeOK'
  BY <1>1, <1>3, <1>4 DEF TypeOK, history
<1>8. CallShape'
  BY <1>1, <1>2, <1>6 DEF CallShape, StepOf
<1>9. Unborn'
  <2>1. profiles[p].status # "none"
    BY <1>1 DEF Unborn
  <2> QED BY <1>1, <1>3, <1>4, <1>5, <1>6, <2>1 DEF Unborn, history
<1>10. Backed'
  <2>1. \A q \in Profiles : profiles'[q].vectors # 0 \/ profiles'[q].status = "discoverable"
          \/ jobs'[q].status = "completed" => Named(q)'
    BY <1>1, <1>2, <1>4, <1>5 DEF Backed
  <2> QED BY <1>1, <1>5, <1>6, <2>1 DEF Backed, Named, history
<1>11. Known'
  BY <1>1, <1>2, <1>4, <1>6 DEF Known, Listed, history
<1>12. Queued'
  <2>1. ASSUME NEW q \in Profiles, q = p, profiles'[q].status # "invalidated"
        PROVE  profiles[q].status # "invalidated"
    BY <1>1, <1>2, <1>4, <2>1 DEF Queued
  <2> QED BY <1>1, <1>3, <1>4, <1>5, <1>6, <2>1 DEF Queued, history
<1>13. Past'
  BY <1>1, <1>6 DEF Past, history
<1> QED BY <1>5, <1>7, <1>8, <1>9, <1>10, <1>11, <1>12, <1>13

LEMMA WriteRouteInv == ASSUME ProfileInv, WriteRoute PROVE ProfileInv'
<1> USE DEF ProfileInv
<1> DEFINE p == call.profile
           pc == IF call.op = "reset" THEN "status" ELSE "discoverable"
<1>1. /\ call.pc = "route" /\ call.op \in {"retake", "enable", "disable", "reset"}
      /\ p \in Profiles /\ user.capability = p
      /\ profiles' = [profiles EXCEPT ![p].vectors = call.vectors]
      /\ call' = [call EXCEPT !.vectors = 0, !.pc = pc]
      /\ UNCHANGED <<jobs, vectors, messages, user, work, history>>
  BY ProfileAssumption DEF WriteRoute, UpdateProfileRoute, CallShape, StepOf
<1>2. /\ profiles' \in [Profiles -> [status : ProfileStatuses, vectors : 0..MaxPairs]]
      /\ \A q \in Profiles :
           /\ profiles'[q].vectors = IF q = p THEN call.vectors ELSE profiles[q].vectors
           /\ profiles'[q].status = profiles[q].status
  BY <1>1 DEF TypeOK
<1>3. call'.op = call.op /\ call'.profile = p /\ call'.pc = pc /\ call'.vectors = 0
  BY <1>1 DEF TypeOK
<1>4. /\ (doubled \/ OneAtWork)'
      /\ \A q \in Profiles : (Named(q)' <=> Named(q)) /\ (OnQueue(q) => OnQueue(q)')
                            /\ (Unsent(q) => Unsent(q)')
  <2>1. \A q \in Profiles : Drawn(q)' = Drawn(q)
    BY <1>1 DEF Drawn
  <2> QED BY <1>1, <2>1, CalledKeeps DEF history, Unsent
<1>5. TypeOK'
  BY <1>1, <1>2, Widths DEF TypeOK, history, CallPC
<1>6. CallShape'
  BY <1>1, <1>3 DEF CallShape, StepOf
<1>7. Unborn'
  BY <1>1, <1>2, <1>3, <1>4 DEF Unborn, history
<1>8. Backed'
  <2>1. \A q \in Profiles : profiles'[q].vectors # 0 \/ profiles'[q].status = "discoverable"
          \/ jobs'[q].status = "completed" => Named(q)'
    BY <1>1, <1>2, <1>4 DEF Backed
  <2> QED BY <1>1, <1>3, <1>4, <2>1 DEF Backed, Named, history
<1>9. Known'
  BY <1>1, <1>2, <1>3 DEF Known, Listed, history
<1>10. Queued'
  BY <1>1, <1>2, <1>3, <1>4 DEF Queued, history
<1>11. Past'
  BY <1>1, <1>3 DEF Past, history
<1> QED BY <1>4, <1>5, <1>6, <1>7, <1>8, <1>9, <1>10, <1>11

LEMMA DeleteVectorsInv == ASSUME ProfileInv, DeleteVectors PROVE ProfileInv'
<1> USE DEF ProfileInv
<1> DEFINE p == call.profile
<1>1. /\ call.pc = "delete" /\ call.op = "reset" /\ p \in Profiles /\ call.vectors \in Pairs
      /\ \/ vectors' = [vectors EXCEPT ![p][call.vectors] =
                          IF @ = "present" THEN "drawn" ELSE @]
         \/ UNCHANGED vectors
      /\ failures' \in 0..MaxFailures
      /\ call' = [call EXCEPT !.pc = "route"]
      /\ UNCHANGED <<profiles, jobs, messages, user, work, former, halfOn, doubled, dead>>
  BY ProfileAssumption DEF DeleteVectors, AtWork, Goto, CallShape, TypeOK
<1> DEFINE Vectors == [Profiles -> [Pairs -> {"none", "drawn", "present"}]]
           x == IF vectors[p][call.vectors] = "present" THEN "drawn"
                ELSE vectors[p][call.vectors]
<1>a. /\ x \in {"none", "drawn", "present"} /\ vectors \in Vectors
      /\ x = "none" <=> vectors[p][call.vectors] = "none"
  BY <1>1 DEF TypeOK
<1>b. vectors' = [vectors EXCEPT ![p][call.vectors] = x] \/ vectors' = vectors
  BY <1>1
<1> HIDE DEF x
<1>2. vectors' \in Vectors
  BY <1>1, <1>a, <1>b
<1>3. \A q \in Profiles : \A k \in Pairs : vectors'[q][k] = "none" <=> vectors[q][k] = "none"
  BY <1>1, <1>a, <1>b
<1>4. /\ (doubled \/ OneAtWork)'
      /\ \A q \in Profiles : (Named(q)' <=> Named(q)) /\ (OnQueue(q) => OnQueue(q)')
                            /\ (Unsent(q) => Unsent(q)')
  <2>1. \A q \in Profiles : Drawn(q)' = Drawn(q)
    BY <1>3 DEF Drawn
  <2> QED BY <1>1, <1>3, <2>1, CalledKeeps DEF Unsent
<1>5. call'.op = call.op /\ call'.profile = p /\ call'.pc = "route"
      /\ call'.vectors = call.vectors
  BY <1>1 DEF TypeOK
<1>6. TypeOK'
  BY <1>1, <1>2 DEF TypeOK, CallPC
<1>7. CallShape'
  BY <1>1, <1>5 DEF CallShape, StepOf
<1>8. Unborn'
  BY <1>1, <1>4, <1>5 DEF Unborn
<1>9. Backed'
  <2>1. \A q \in Profiles : profiles'[q].vectors # 0 \/ profiles'[q].status = "discoverable"
          \/ jobs'[q].status = "completed" => Named(q)'
    BY <1>1, <1>4 DEF Backed
  <2> QED BY <1>1, <1>4, <1>5, <2>1 DEF Backed, Named
<1>10. Known'
  BY <1>1, <1>5 DEF Known, Listed
<1>11. Queued'
  BY <1>1, <1>4, <1>5 DEF Queued
<1>12. Past'
  BY <1>1, <1>5 DEF Past
<1> QED BY <1>4, <1>6, <1>7, <1>8, <1>9, <1>10, <1>11, <1>12

LEMMA StoreJobInv == ASSUME ProfileInv, StoreJob PROVE ProfileInv'
<1> USE DEF ProfileInv
<1> DEFINE p == call.profile
           job == [status |-> "pending", vectors |-> 0, live |-> TRUE]
<1>1. /\ call.pc = "storeJob" /\ call.op = "finalize" /\ p \in Profiles
      /\ jobs' = [jobs EXCEPT ![p] = job]
      /\ call' = [call EXCEPT !.pc = "send"]
      /\ UNCHANGED <<profiles, vectors, messages, user, work, history>>
      /\ Unsent(p)
  BY DEF StoreJob, AtWork, Goto, CallShape, Unborn
<1>2. /\ \A q \in Profiles : jobs'[q].vectors = jobs[q].vectors
      /\ \A q \in Profiles : q # p => jobs'[q] = jobs[q]
      /\ jobs'[p].status = "pending"
  BY <1>1 DEF TypeOK, Unsent
<1>3. jobs' \in [Profiles -> [status : JobStatuses, vectors : 0..MaxPairs, live : BOOLEAN]]
  BY <1>1, Widths DEF TypeOK, JobStatuses
<1>4. /\ (doubled \/ OneAtWork)'
      /\ \A q \in Profiles : (Named(q)' <=> Named(q)) /\ (OnQueue(q) => OnQueue(q)')
                            /\ (Unsent(q) => Unsent(q)')
  <2>1. \A q \in Profiles : Drawn(q)' = Drawn(q)
    BY <1>1 DEF Drawn
  <2> QED BY <1>1, <1>2, <2>1, CalledKeeps DEF history, Unsent
<1>5. call'.op = call.op /\ call'.profile = p /\ call'.pc = "send"
      /\ call'.vectors = call.vectors
  BY <1>1 DEF TypeOK
<1>6. TypeOK'
  BY <1>1, <1>3 DEF TypeOK, history, CallPC
<1>7. CallShape'
  BY <1>1, <1>5 DEF CallShape, StepOf
<1>8. Unborn'
  BY <1>1, <1>2, <1>4, <1>5 DEF Unborn, history
<1>9. Backed'
  <2>1. \A q \in Profiles : profiles'[q].vectors # 0 \/ profiles'[q].status = "discoverable"
          \/ jobs'[q].status = "completed" => Named(q)'
    BY <1>1, <1>2, <1>4 DEF Backed
  <2>2. UNCHANGED <<messages, work, doubled, dead>>
    BY <1>1 DEF history
  <2>3. \A q \in Profiles : Drawn(q)' = Drawn(q)
    BY <1>1 DEF Drawn
  <2> QED BY <1>2, <1>4, <1>5, <2>1, <2>2, <2>3, CalledKeeps DEF Backed
<1>10. Known'
  BY <1>1, <1>5 DEF Known, Listed, history
<1>11. Queued'
  BY <1>1, <1>2, <1>4, <1>5 DEF Queued, history, Unsent
<1>12. Past'
  BY <1>1, <1>5 DEF Past, history
<1> QED BY <1>4, <1>6, <1>7, <1>8, <1>9, <1>10, <1>11, <1>12

LEMMA SendUpsertInv == ASSUME ProfileInv, SendUpsert PROVE ProfileInv'
<1> USE DEF ProfileInv
<1> DEFINE p == call.profile
           n == [action |-> "upsert", profile |-> p, attempt |-> 1]
<1>1. /\ call.pc = "send" /\ call.op = "finalize" /\ p \in Profiles
      /\ messages' = messages \cup {n}
      /\ call' = [call EXCEPT !.pc = "capability"]
      /\ UNCHANGED <<profiles, jobs, vectors, user, work, history>>
      /\ Unsent(p)
  BY DEF SendUpsert, AtWork, Goto, CallShape, Unborn
<1>2. n \in Message /\ n.profile = p /\ n.action = "upsert"
  BY <1>1, Widths DEF Message
<1> HIDE DEF n
<1>3. call'.op = call.op /\ call'.profile = p /\ call'.pc = "capability"
      /\ call'.vectors = call.vectors
  BY <1>1 DEF TypeOK
<1>4. TypeOK'
  BY <1>1, <1>2 DEF TypeOK, history, CallPC
<1>5. CallShape'
  BY <1>1, <1>3 DEF CallShape, StepOf
<1>6. Unborn'
  <2>1. \A q \in Profiles : q # p /\ Unsent(q) => Unsent(q)'
    BY <1>1, <1>2 DEF Unsent, Free
  <2> QED BY <1>1, <1>3, <2>1 DEF Unborn, history
<1>7. Backed'
  BY <1>1, <1>2, <1>3 DEF Backed, Named
<1>8. ASSUME ~ doubled, OneAtWork
      PROVE  OneAtWork'
  BY <1>1, <1>2, <1>8 DEF OneAtWork, Drawn, Unsent, Free
<1>9. Known'
  BY <1>1, <1>3 DEF Known, Listed, history
<1>10. Queued'
  <2>1. \A q \in Profiles : OnQueue(q) => OnQueue(q)'
    BY <1>1 DEF OnQueue
  <2>2. OnQueue(p)'
    BY <1>1, <1>2 DEF OnQueue
  <2> QED BY <1>1, <1>3, <2>1, <2>2 DEF Queued, history
<1>11. Past'
  BY <1>1, <1>3 DEF Past, history
<1> QED BY <1>1, <1>4, <1>5, <1>6, <1>7, <1>8, <1>9, <1>10, <1>11 DEF history

-----------------------------------------------------------------------------
(* The invariant, and what follows from it. *)

LEMMA InitInv == Init => ProfileInv
<1> SUFFICES ASSUME Init PROVE ProfileInv
  OBVIOUS
<1> USE DEF Init
<1>1. /\ call = NoCall /\ user.capability = NoProfile /\ NoProfile \notin Profiles
      /\ messages = {} /\ work = {} /\ former = {} /\ doubled = FALSE
      /\ \A p \in Profiles : /\ profiles[p].status = "none" /\ profiles[p].vectors = 0
                             /\ jobs[p] = NoJob /\ jobs[p].vectors = 0 /\ jobs[p].status = "none"
                             /\ \A k \in Pairs : vectors[p][k] = "none"
  BY ProfileAssumption DEF NewUser, NoRecord, NoJob
<1>2. TypeOK
  <2>1. NoRecord \in [status : ProfileStatuses, vectors : 0..MaxPairs]
    BY Widths DEF NoRecord, ProfileStatuses
  <2>2. NoJob \in [status : JobStatuses, vectors : 0..MaxPairs, live : BOOLEAN]
    BY Widths DEF NoJob, JobStatuses
  <2>3. NewUser \in [capability : Profiles \cup {NoProfile}, discoverable : BOOLEAN,
                    session : BOOLEAN]
    BY DEF NewUser
  <2>4. failures \in 0..MaxFailures
    BY ProfileAssumption
  <2> QED BY <2>1, <2>2, <2>3, <2>4, NoCallType DEF TypeOK
<1>3. CallShape
  BY <1>1 DEF CallShape, NoCall, StepOf
<1>4. Unborn
  BY <1>1 DEF Unborn, Unsent, Free, NoCall
<1>5. Backed
  BY <1>1 DEF Backed, NoCall
<1>6. OneAtWork
  BY <1>1 DEF OneAtWork, Drawn
<1>7. Known
  BY <1>1 DEF Known, Listed, NoCall
<1>8. Queued
  BY <1>1 DEF Queued, NoCall
<1>9. Past
  BY <1>1 DEF Past
<1> QED BY <1>2, <1>3, <1>4, <1>5, <1>6, <1>7, <1>8, <1>9 DEF ProfileInv

LEMMA StepInv == ProfileInv /\ [Next]_vars => ProfileInv'
<1> SUFFICES ASSUME ProfileInv, [Next]_vars PROVE ProfileInv'
  OBVIOUS
<1>1. CASE UNCHANGED vars
  BY <1>1 DEF vars, ProfileInv, TypeOK, CallShape, Unborn, Unsent, Free, Backed, Named,
     OneAtWork, Drawn, Known, Listed, Queued, OnQueue, Past
<1>2. CASE Calls
  BY <1>2, SessionExpiresInv, BeginFinalizeInv, StoreJobInv, SendUpsertInv, BeginRetakeInv,
     BeginResetInv, BeginSwitchInv, DeleteVectorsInv, WriteStatusInv, ReadRouteInv,
     WriteRouteInv, WriteDiscoverableInv, WriteCapabilityInv, ClearSessionInv,
     StartProfileSessionInv, PurgeInv, CallLostInv DEF Calls
<1>3. CASE Consume
  BY <1>3, TakeInv, LoadInv, ExpireJobInv, DrawVectorsInv, MarkIndexingInv, NameVectorsInv,
     UpsertVectorsInv, SendVerifyInv, CheckInv, MarkVerifiedInv, MarkFailedInv, CloseJobInv
  DEF Consume, Continue
<1> QED BY <1>1, <1>2, <1>3, JobExpiresInv, WorkFailsInv, DeliverTwiceInv DEF Next

THEOREM ProfileInvariant == Spec => []ProfileInv
BY InitInv, StepInv, PTL DEF Spec

\* Between two calls a person whose current profile others can see has it shown
\* as discoverable, and a current profile without vectors is on the queue, at
\* work, or its message has failed in every delivery.
THEOREM CurrentTheorem == Spec => []CurrentIsSound
<1>1. ProfileInv => CurrentIsSound
  <2> SUFFICES ASSUME ProfileInv PROVE CurrentIsSound
    OBVIOUS
  <2>1. ListedIsKnown
    BY DEF ListedIsKnown, ProfileInv, Known, Listed, CallShape, StepOf
  <2>2. CurrentIsQueued
    BY DEF CurrentIsQueued, ProfileInv, Queued, OnQueue
  <2> QED BY <2>1, <2>2 DEF CurrentIsSound
<1> QED BY <1>1, ProfileInvariant, PTL

\* Unless a message was delivered while it was at work, a job that is retried
\* goes on with the vectors it drew first.
THEOREM PairTheorem == Spec => []OneVectorPair
<1>1. ProfileInv => OneVectorPair
  <2> SUFFICES ASSUME ProfileInv, ~ doubled, NEW p \in Profiles
               PROVE  Cardinality(Drawn(p)) <= 1
    BY DEF OneVectorPair
  <2>1. Drawn(p) \subseteq {jobs[p].vectors}
    BY DEF ProfileInv, OneAtWork
  <2>2. Drawn(p) = {} \/ Drawn(p) = {jobs[p].vectors}
    BY <2>1
  <2>3. Cardinality({jobs[p].vectors}) = 1
    BY FS_Singleton
  <2> QED BY <2>2, <2>3, FS_EmptySet
<1> QED BY <1>1, ProfileInvariant, PTL

\* What is hidden of a former account stays hidden: only a call of the person
\* shows a profile, and none is at work on a former one.
THEOREM ResetTheorem == Spec => ResetStands
<1>1. ASSUME ProfileInv, [Next]_vars
      PROVE  [\A p \in former : profiles[p].status # "discoverable"
                => profiles'[p].status # "discoverable"]_vars
  <2> SUFFICES ASSUME NEW p \in former, profiles[p].status # "discoverable"
               PROVE  profiles'[p].status # "discoverable"
    OBVIOUS
  <2>1. p \in Profiles /\ profiles \in [Profiles -> [status : ProfileStatuses,
                                                    vectors : 0..MaxPairs]]
    BY <1>1 DEF ProfileInv, TypeOK
  <2>2. CASE UNCHANGED profiles
    BY <2>2
  <2>3. ASSUME NEW q \in Profiles, NEW s, SetProfileStatus(q, s), q # p \/ s # "discoverable"
        PROVE  profiles'[p].status # "discoverable"
    BY <2>1, <2>3 DEF SetProfileStatus
  <2>4. ASSUME NEW q \in Profiles, NEW k, UpdateProfileRoute(q, k)
        PROVE  profiles'[p].status # "discoverable"
    BY <2>1, <2>4 DEF UpdateProfileRoute
  <2>5. CASE WriteStatus
    <3>1. call.profile \in Profiles /\ call.profile # p
      BY <1>1, <2>5 DEF WriteStatus, ProfileInv, CallShape, Past
    <3> QED BY <2>3, <2>5, <3>1 DEF WriteStatus
  <2>6. CASE WriteRoute
    BY <1>1, <2>4, <2>6 DEF WriteRoute, ProfileInv, CallShape
  <2>7. CASE \E q \in Profiles : BeginFinalize(q)
    BY <2>3, <2>7 DEF BeginFinalize, SetProfileStatus
  <2>8. ASSUME NEW w \in work, Continue(w)
        PROVE  profiles'[p].status # "discoverable"
    BY <1>1, <2>2, <2>3, <2>4, <2>8, AtWorkOn
    DEF Continue, Load, ExpireJob, DrawVectors, MarkIndexing, NameVectors, UpsertVectors,
        SendVerify, Check, MarkVerified, MarkFailed, CloseJob
  <2>9. CASE Calls
    BY <2>2, <2>5, <2>6, <2>7, <2>9 DEF Calls, SessionExpires, StoreJob, SendUpsert,
       BeginRetake, BeginReset, BeginSwitch, DeleteVectors, ReadRoute, WriteDiscoverable,
       WriteCapability, ClearSession, StartProfileSession, Purge, CallLost
  <2>10. CASE Consume
    BY <2>2, <2>8, <2>10 DEF Consume, Take
  <2> QED BY <1>1, <2>2, <2>9, <2>10 DEF Next, vars, JobExpires, WorkFails, DeliverTwice
<1> QED BY <1>1, ProfileInvariant, PTL DEF Spec, ResetStands

-----------------------------------------------------------------------------
(* Where the reset does hide the former account. *)

\* Calls that have hidden the current profile and are about to replace it.
Replacing ==
  \/ call.op = "finalize"
  \/ call.op = "retake" /\ call.pc # "status"
  \/ call.op = "reset" /\ call.pc \in {"discoverable", "capability", "purge"}

\* Only the current profile is ever shown, and nothing is shown while a
\* questionnaire is open or the profile is being replaced.
HideInv ==
  /\ \A p \in Profiles : profiles[p].status = "discoverable" =>
       p = user.capability /\ ~ user.session /\ ~ Replacing
  /\ call.op = "enable" => ~ user.session

LEMMA HideInit == Init => HideInv
BY DEF Init, HideInv, NoRecord, NewUser, NoCall, Replacing

\* The queue and its consumer show no profile, and touch neither person nor call.
LEMMA QueueHides ==
  ASSUME ProfileInv,
         Consume \/ \/ \E p \in Profiles : JobExpires(p)
                    \/ \E w \in work : WorkFails(w) \/ DeliverTwice(w)
  PROVE  /\ UNCHANGED <<user, call>>
         /\ \A p \in Profiles : profiles'[p].status = "discoverable" =>
              profiles[p].status = "discoverable"
<1>1. profiles \in [Profiles -> [status : ProfileStatuses, vectors : 0..MaxPairs]]
  BY DEF ProfileInv, TypeOK
<1>2. ASSUME NEW q \in Profiles, NEW s, SetProfileStatus(q, s), s # "discoverable"
      PROVE  \A p \in Profiles : profiles'[p].status = "discoverable" =>
               profiles[p].status = "discoverable"
  BY <1>1, <1>2 DEF SetProfileStatus
<1>3. ASSUME NEW q \in Profiles, NEW k, UpdateProfileRoute(q, k)
      PROVE  \A p \in Profiles : profiles'[p].status = "discoverable" =>
               profiles[p].status = "discoverable"
  BY <1>1, <1>3 DEF UpdateProfileRoute
<1>4. ASSUME NEW w \in work, Continue(w)
      PROVE  \A p \in Profiles : profiles'[p].status = "discoverable" =>
               profiles[p].status = "discoverable"
  BY <1>2, <1>3, <1>4, AtWorkOn
  DEF Continue, Load, ExpireJob, DrawVectors, MarkIndexing, NameVectors, UpsertVectors,
      SendVerify, Check, MarkVerified, MarkFailed, CloseJob
<1>5. ASSUME NEW w \in work, Continue(w) PROVE UNCHANGED <<user, call>>
  BY <1>5
  DEF Continue, Load, ExpireJob, DrawVectors, MarkIndexing, NameVectors, UpsertVectors,
      SendVerify, Check, MarkVerified, MarkFailed, CloseJob
<1> QED BY <1>4, <1>5 DEF Consume, Take, JobExpires, WorkFails, DeliverTwice

LEMMA HideCalls ==
  ASSUME ProfileInv, HideInv, Calls, ~ SwitchedOnInSession
  PROVE  HideInv'
<1>1. /\ profiles \in [Profiles -> [status : ProfileStatuses, vectors : 0..MaxPairs]]
      /\ user \in [capability : Profiles \cup {NoProfile}, discoverable : BOOLEAN,
                   session : BOOLEAN]
      /\ call \in [op : {"none", "finalize", "retake", "enable", "disable", "reset"},
                   pc : CallPC, profile : Profiles \cup {NoProfile},
                   vectors : 0..MaxPairs]
      /\ StepOf(call.op, call.pc)
  BY DEF ProfileInv, TypeOK, CallShape
<1> DEFINE Hidden == \A p \in Profiles : profiles[p].status # "discoverable"
<1>2. user.session \/ Replacing => Hidden
  BY DEF HideInv
<1>3. ASSUME UNCHANGED profiles, user'.capability = user.capability,
             user'.session => user.session,
             Replacing' => Replacing \/ Hidden,
             call'.op = "enable" => ~ user'.session
      PROVE  HideInv'
  BY <1>2, <1>3 DEF HideInv
<1>4. ASSUME UNCHANGED profiles, Hidden, call'.op # "enable" \/ ~ user'.session
      PROVE  HideInv'
  BY <1>4 DEF HideInv
<1>5. CASE SessionExpires \/ CallLost
  BY <1>1, <1>3, <1>5 DEF SessionExpires, CallLost, NoCall, Replacing, StepOf, HideInv
<1>6. ASSUME NEW p \in Profiles, BeginFinalize(p) PROVE HideInv'
  <2>1. Hidden
    BY <1>2, <1>6 DEF BeginFinalize
  <2>2. \A q \in Profiles : profiles'[q].status # "discoverable"
    BY <1>1, <1>6, <2>1 DEF BeginFinalize
  <2> QED BY <1>6, <2>2 DEF BeginFinalize, HideInv
<1>7. CASE StoreJob \/ SendUpsert \/ DeleteVectors
  BY <1>1, <1>3, <1>7 DEF StoreJob, SendUpsert, DeleteVectors, Goto, AtWork, Replacing,
     HideInv
<1>8. CASE BeginRetake
  <2>1. call'.op = "retake" /\ UNCHANGED <<profiles, user>>
    BY <1>8 DEF BeginRetake, NoCall
  <2>2. CASE Readable(user.capability)
    BY <1>3, <1>8, <2>1, <2>2 DEF BeginRetake, Replacing
  <2>3. CASE ~ Readable(user.capability)
    <3>1. Hidden
      BY <2>3, ProfileAssumption DEF Readable, READABLE_PROFILE_STATUSES, HideInv
    <3> QED BY <1>4, <2>1, <3>1
  <2> QED BY <2>2, <2>3
<1>9. CASE BeginReset
  <2>1. call'.op = "reset" /\ UNCHANGED <<profiles, user>>
    BY <1>9 DEF BeginReset, NoCall
  <2>2. CASE user.capability = NoProfile
    <3>1. Hidden
      BY <2>2, ProfileAssumption DEF HideInv
    <3> QED BY <1>4, <2>1, <3>1
  <2>3. CASE user.capability # NoProfile
    <3>1. call'.pc \in {"delete", "route"}
      BY <1>9, <2>3 DEF BeginReset
    <3> QED BY <1>3, <2>1, <3>1 DEF Replacing
  <2> QED BY <2>2, <2>3
<1>10. ASSUME NEW on \in BOOLEAN, BeginSwitch(on) PROVE HideInv'
  <2>1. /\ UNCHANGED <<profiles, user>> /\ call'.op = IF on THEN "enable" ELSE "disable"
    BY <1>10 DEF BeginSwitch, NoCall
  <2>2. on => ~ user.session
    BY <1>10 DEF SwitchedOnInSession
  <2> QED BY <1>3, <2>1, <2>2 DEF Replacing
<1>11. CASE WriteStatus
  <2>1. /\ call.profile = user.capability /\ call.profile \in Profiles
        /\ profiles' = [profiles EXCEPT ![call.profile].status = StatusAfter[call.op]]
        /\ call.op \in {"retake", "enable", "disable", "reset"}
        /\ call'.op = call.op /\ UNCHANGED user
    BY <1>1, <1>11, ProfileAssumption DEF WriteStatus, SetProfileStatus, Goto, StepOf,
       ProfileInv, CallShape
  <2>2. CASE call.op = "enable"
    BY <1>1, <2>1, <2>2 DEF HideInv, Replacing
  <2>3. CASE call.op # "enable"
    <3>1. StatusAfter[call.op] # "discoverable"
      BY <2>1, <2>3 DEF StatusAfter
    <3>2. \A q \in Profiles : profiles'[q].status # "discoverable"
      BY <1>1, <2>1, <3>1 DEF HideInv
    <3> QED BY <2>1, <2>3, <3>2 DEF HideInv
  <2> QED BY <2>2, <2>3
<1>12. CASE ReadRoute
  BY <1>1, <1>3, <1>12 DEF ReadRoute, StepOf, Replacing, HideInv
<1>13. CASE WriteRoute
  <2>1. /\ call.profile \in Profiles /\ UNCHANGED user /\ call'.op = call.op
        /\ profiles' = [profiles EXCEPT ![call.profile].vectors = call.vectors]
        /\ call.op \in {"retake", "enable", "disable", "reset"} /\ call.pc = "route"
        /\ call'.pc = IF call.op = "reset" THEN "status" ELSE "discoverable"
    BY <1>1, <1>13 DEF WriteRoute, UpdateProfileRoute, StepOf, ProfileInv, CallShape
  <2>2. \A q \in Profiles : profiles'[q].status = profiles[q].status
    BY <1>1, <2>1
  <2>3. Replacing' <=> Replacing
    BY <2>1 DEF Replacing
  <2> QED BY <2>1, <2>2, <2>3 DEF HideInv
<1>14. CASE WriteDiscoverable
  <2>1. /\ UNCHANGED profiles /\ user'.capability = user.capability
        /\ user'.session = user.session
        /\ call' = NoCall \/ (call'.op = call.op /\ call.pc = "discoverable"
             /\ call'.pc = AfterDiscoverable[call.op]
             /\ call.op \in {"finalize", "retake", "reset"})
    BY <1>1, <1>14 DEF WriteDiscoverable, SetDiscoverable, Goto, StepOf, AfterDiscoverable
  <2>2. Replacing' => Replacing
    BY <2>1 DEF Replacing, NoCall
  <2>3. call'.op # "enable"
    BY <2>1 DEF NoCall
  <2> QED BY <1>3, <2>1, <2>2, <2>3
<1>15. CASE WriteCapability
  <2>1. /\ UNCHANGED profiles /\ call'.op = call.op /\ call.op \in {"finalize", "reset"}
        /\ call.pc = "capability"
    BY <1>1, <1>15 DEF WriteCapability, Goto, StepOf
  <2>2. Replacing
    BY <2>1 DEF Replacing
  <2> QED BY <1>2, <1>4, <2>1, <2>2
<1>16. CASE ClearSession \/ StartProfileSession
  <2>1. /\ UNCHANGED profiles /\ call.op \in {"finalize", "retake"} /\ call.pc # "status"
        /\ call'.op \in {"none", "retake"}
    BY <1>1, <1>16 DEF ClearSession, StartProfileSession, Goto, NoCall, StepOf
  <2>2. Replacing
    BY <2>1 DEF Replacing
  <2> QED BY <1>2, <1>4, <2>1, <2>2
<1>17. CASE Purge
  <2>1. UNCHANGED profiles /\ call.op = "reset" /\ call.pc = "purge" /\ call' = NoCall
    BY <1>1, <1>17 DEF Purge, StepOf
  <2>2. Replacing /\ call'.op # "enable"
    BY <2>1 DEF Replacing, NoCall
  <2> QED BY <1>2, <1>4, <2>1, <2>2
<1> QED BY <1>5, <1>6, <1>7, <1>8, <1>9, <1>10, <1>11, <1>12, <1>13, <1>14, <1>15,
           <1>16, <1>17 DEF Calls

LEMMA HideStep ==
  ASSUME ProfileInv, HideInv, [Next]_vars, [~ SwitchedOnInSession]_vars
  PROVE  HideInv'
<1>1. CASE UNCHANGED vars
  BY <1>1 DEF vars, HideInv, Replacing
<1>2. CASE Next /\ ~ SwitchedOnInSession
  <2>1. CASE Calls
    BY <1>2, <2>1, HideCalls
  <2>2. CASE UNCHANGED <<user, call>>
             /\ \A p \in Profiles : profiles'[p].status = "discoverable" =>
                  profiles[p].status = "discoverable"
    BY <2>2 DEF HideInv, Replacing
  <2> QED BY <1>2, <2>1, <2>2, QueueHides DEF Next
<1> QED BY <1>1, <1>2

\* What the finding reset_hides rests on is all there is: unless a person turns
\* discoverability on while a questionnaire is open, nothing of a former account
\* can be seen, wherever its calls were cut off and however late its index work
\* ends.
THEOREM HiddenTheorem ==
  Spec /\ [][~ SwitchedOnInSession]_vars => []ResetHides
<1>1. ProfileInv /\ HideInv => ResetHides
  BY DEF ProfileInv, Past, TypeOK, HideInv, ResetHides
<1> QED BY <1>1, HideStep, HideInit, ProfileInvariant, PTL DEF Spec

(***************************************************************************)
(* The questionnaire, for any number of questions, answers and buttons at  *)
(* work.  The status follows the answers because it is never written       *)
(* without them.  An answer that was saved stays because an invocation     *)
(* that no write has overlapped since its read has read it (HasRead), so   *)
(* writing back what was read keeps it.                                    *)
(***************************************************************************)

\* What an invocation about to save has read still holds all that is kept.
HasRead ==
  \A h \in Presses : PressedFor(h, "saving") /\ ~ overlapped[h] =>
    \A q \in Questions : kept[q] # NoAnswer => press[h].seen[q] = kept[q]

\* Nothing is kept of a session that is over.
KeptIsLive == ~ Live => kept = NoAnswers

SessionInv == QuestionnaireTypeOK /\ SessionIsTrue /\ HasRead /\ KeptIsLive

LEMMA RangeOfQuestions ==
  /\ 0 \in Questions
  /\ \A q \in Questions : q \in Nat /\ q + 1 \in 0..PROFILE_QUESTION_COUNT
                          /\ q \in 0..PROFILE_QUESTION_COUNT
BY QuestionnaireAssumption DEF Questions

LEMMA Nothing ==
  /\ NoAnswers \in Answers
  /\ \A q \in Questions : NoAnswers[q] = NoAnswer
  /\ ~ HasCompleteAnswers(NoAnswers)
BY RangeOfQuestions DEF NoAnswers, Answers, HasCompleteAnswers

LEMMA NoPressType ==
  /\ NoPress \in [pc : {"idle", "saving", "moving", "starting", "clearing"},
                  question : Questions, choice : Choices \cup {NoAnswer},
                  seen : Answers]
  /\ NoPress.pc = "idle"
BY RangeOfQuestions, Nothing DEF NoPress

\* An answer merged into what was read.
LEMMA MergedType ==
  ASSUME NEW seen \in Answers, NEW q \in Questions, NEW choice \in Choices \cup {NoAnswer}
  PROVE  /\ Merged(seen, q, choice) \in Answers
         /\ Merged(seen, q, choice)[q] = choice
         /\ \A r \in Questions \ {q} : Merged(seen, q, choice)[r] = seen[r]
BY DEF Merged, Answers

LEMMA SessionBegins == QuestionnaireInit => SessionInv
<1> SUFFICES ASSUME QuestionnaireInit PROVE SessionInv
  OBVIOUS
<1>1. QuestionnaireTypeOK
  BY Nothing, NoPressType, QuestionnaireAssumption
  DEF QuestionnaireInit, QuestionnaireTypeOK, NoSession
<1>2. ~ Live
  BY DEF QuestionnaireInit, NoSession, Live
<1>3. SessionIsTrue
  BY <1>2 DEF SessionIsTrue, ReadyMeansComplete, SavedAnswersStay
<1>4. HasRead
  BY NoPressType DEF QuestionnaireInit, HasRead, PressedFor
<1> QED BY <1>1, <1>3, <1>4 DEF SessionInv, KeptIsLive, QuestionnaireInit

\* A step that leaves the session and what is kept alone, and in which nobody
\* begins to save.
LEMMA SessionKeeps ==
  ASSUME SessionInv, QuestionnaireTypeOK', UNCHANGED <<session, kept>>,
         \A h \in Presses : PressedFor(h, "saving")' /\ ~ overlapped'[h] =>
           PressedFor(h, "saving") /\ ~ overlapped[h] /\ press'[h] = press[h]
  PROVE  SessionInv'
<1>1. SessionIsTrue' /\ KeptIsLive'
  BY DEF SessionInv, SessionIsTrue, ReadyMeansComplete, SavedAnswersStay, KeptIsLive,
         Live, HasCompleteAnswers
<1>2. HasRead'
  BY DEF SessionInv, HasRead, PressedFor
<1> QED BY <1>1, <1>2 DEF SessionInv

\* A step that ends or begins the session.
LEMMA EndsSession ==
  ASSUME SessionInv, QuestionnaireTypeOK', kept' = NoAnswers,
         session' = NoSession \/ session' = [NoSession EXCEPT !.status = "active"]
  PROVE  SessionInv'
<1>1. \A q \in Questions : kept'[q] = NoAnswer
  BY Nothing
<1>2. SavedAnswersStay' /\ HasRead'
  BY <1>1 DEF SavedAnswersStay, HasRead
<1>3. ReadyMeansComplete'
  <2>1. CASE session' = NoSession
    BY <2>1 DEF ReadyMeansComplete, Live, NoSession
  <2>2. CASE session' = [NoSession EXCEPT !.status = "active"]
    BY <2>2, Nothing DEF ReadyMeansComplete, Live, NoSession, HasCompleteAnswers
  <2> QED BY <2>1, <2>2
<1> QED BY <1>2, <1>3 DEF SessionInv, SessionIsTrue, KeptIsLive

LEMMA SessionStep == SessionInv /\ [QuestionnaireNext]_questionnaireVars => SessionInv'
<1> SUFFICES ASSUME SessionInv, [QuestionnaireNext]_questionnaireVars PROVE SessionInv'
  OBVIOUS
<1> USE DEF PressedFor
<1>t. QuestionnaireTypeOK /\ SessionIsTrue /\ HasRead /\ KeptIsLive
  BY DEF SessionInv
<1>1. CASE UNCHANGED questionnaireVars
  <2>1. QuestionnaireTypeOK'
    BY <1>1, <1>t DEF QuestionnaireTypeOK, questionnaireVars
  <2> QED BY <2>1, <1>1, SessionKeeps DEF questionnaireVars
<1>2. CASE SessionEnds
  <2>1. QuestionnaireTypeOK'
    BY <1>2, <1>t, Nothing, QuestionnaireAssumption
    DEF SessionEnds, QuestionnaireTypeOK, NoSession
  <2> QED BY <2>1, <1>2, EndsSession DEF SessionEnds
<1>3. ASSUME NEW h \in Presses, ReadForAnswer(h) PROVE SessionInv'
  <2> PICK q \in Questions, choice \in Choices :
        press' = [press EXCEPT ![h] =
          [pc |-> "saving", question |-> q, choice |-> choice, seen |-> session.answers]]
    BY <1>3 DEF ReadForAnswer
  <2>1. QuestionnaireTypeOK'
    BY <1>3, <1>t DEF ReadForAnswer, Reads, QuestionnaireTypeOK
  <2>2. SessionIsTrue' /\ KeptIsLive'
    BY <1>3, <1>t DEF ReadForAnswer, SessionIsTrue, ReadyMeansComplete,
       SavedAnswersStay, KeptIsLive, Live, HasCompleteAnswers
  <2>3. HasRead'
    <3> SUFFICES ASSUME NEW g \in Presses, press'[g].pc = "saving", ~ overlapped'[g],
                        NEW r \in Questions, kept'[r] # NoAnswer
                 PROVE  press'[g].seen[r] = kept'[r]
      BY DEF HasRead
    <3>1. CASE g = h
      <4>1. press'[h].seen = session.answers
        BY <1>t DEF QuestionnaireTypeOK
      <4>2. kept' = kept /\ Live
        BY <1>3 DEF ReadForAnswer
      <4> QED BY <3>1, <4>1, <4>2, <1>t DEF SessionIsTrue, SavedAnswersStay
    <3>2. CASE g # h
      <4>1. press'[g] = press[g] /\ overlapped'[g] = overlapped[g] /\ kept' = kept
        BY <3>2, <1>3, <1>t DEF ReadForAnswer, Reads, QuestionnaireTypeOK
      <4> QED BY <4>1, <1>t DEF HasRead
    <3> QED BY <3>1, <3>2
  <2> QED BY <2>1, <2>2, <2>3 DEF SessionInv
<1>4. ASSUME NEW h \in Presses, SaveAnswer(h) PROVE SessionInv'
  <2> DEFINE q == press[h].question
             choice == press[h].choice
             answers == Merged(press[h].seen, q, choice)
  <2>0. q \in Questions /\ press[h].seen \in Answers /\ choice \in Choices \cup {NoAnswer}
    BY <1>t DEF QuestionnaireTypeOK
  <2>1. /\ answers \in Answers /\ answers[q] = choice
        /\ \A r \in Questions \ {q} : answers[r] = press[h].seen[r]
    BY <2>0, MergedType
  <2>2. /\ q + 1 \in 0..PROFILE_QUESTION_COUNT
        /\ StatusOf(answers) \in {"active", "ready_to_submit"}
        /\ StatusOf(answers) = "ready_to_submit" <=> HasCompleteAnswers(answers)
    BY <2>0, RangeOfQuestions DEF StatusOf
  <2>3. press' = [press EXCEPT ![h] = NoPress]
    BY <1>4 DEF SaveAnswer, Idle
  <2>4. CASE ~ Live
    <3>1. UNCHANGED <<session, kept, overlapped, restarts>>
      BY <1>4, <2>4 DEF SaveAnswer
    <3>2. QuestionnaireTypeOK'
      BY <3>1, <2>3, <1>t, NoPressType DEF QuestionnaireTypeOK
    <3>3. \A g \in Presses : press'[g].pc = "saving" => press'[g] = press[g]
      BY <2>3, <1>t, NoPressType DEF QuestionnaireTypeOK
    <3> QED BY <3>1, <3>2, <3>3, SessionKeeps
  <2>5. CASE Live
    <3>1. /\ session' = [status |-> StatusOf(answers), index |-> q + 1, answers |-> answers]
          /\ kept' = IF overlapped[h] THEN NoAnswers ELSE [kept EXCEPT ![q] = choice]
          /\ overlapped' = [g \in Presses |-> TRUE]
          /\ restarts' = restarts
      BY <1>4, <2>5 DEF SaveAnswer, Written
    <3>2. QuestionnaireTypeOK'
      BY <3>1, <2>0, <2>1, <2>2, <2>3, <1>t, Nothing, NoPressType
      DEF QuestionnaireTypeOK, Answers
    <3>3. HasRead'
      BY <3>1 DEF HasRead
    <3>4. Live' /\ ReadyMeansComplete'
      BY <3>1, <2>2 DEF Live, ReadyMeansComplete, HasCompleteAnswers
    <3>5. SavedAnswersStay'
      <4> SUFFICES ASSUME NEW r \in Questions, kept'[r] # NoAnswer
                   PROVE  answers[r] = kept'[r]
        BY <3>1 DEF SavedAnswersStay
      <4>1. ~ overlapped[h] /\ kept' = [kept EXCEPT ![q] = choice]
        BY <3>1, Nothing
      <4>2. CASE r = q
        BY <4>1, <4>2, <2>0, <2>1, <1>t DEF QuestionnaireTypeOK, Answers
      <4>3. CASE r # q
        <5>1. kept'[r] = kept[r]
          BY <4>1, <4>3, <2>0, <1>t DEF QuestionnaireTypeOK, Answers
        <5>2. press[h].seen[r] = kept[r]
          BY <5>1, <4>1, <1>4, <1>t DEF HasRead, SaveAnswer
        <5> QED BY <5>1, <5>2, <4>3, <2>1
      <4> QED BY <4>2, <4>3
    <3> QED BY <3>2, <3>3, <3>4, <3>5 DEF SessionInv, SessionIsTrue, KeptIsLive
  <2> QED BY <2>4, <2>5
<1>5. ASSUME NEW h \in Presses, ReadForPrevious(h) PROVE SessionInv'
  <2>1. (IF session.index = 0 THEN 0 ELSE session.index - 1) \in Questions
    BY <1>t, QuestionnaireAssumption DEF QuestionnaireTypeOK, Questions
  <2>2. QuestionnaireTypeOK'
    BY <1>5, <2>1, <1>t, Nothing DEF ReadForPrevious, Reads, QuestionnaireTypeOK, NoPress
  <2>3. \A g \in Presses : press'[g].pc = "saving" =>
          press'[g] = press[g] /\ overlapped'[g] = overlapped[g]
    BY <1>5, <1>t DEF ReadForPrevious, Reads, QuestionnaireTypeOK, NoPress
  <2> QED BY <1>5, <2>2, <2>3, SessionKeeps DEF ReadForPrevious
<1>6. ASSUME NEW h \in Presses, SetCurrentIndex(h) PROVE SessionInv'
  <2>1. press[h].question \in 0..PROFILE_QUESTION_COUNT
    BY <1>t, RangeOfQuestions DEF QuestionnaireTypeOK
  <2>2. QuestionnaireTypeOK'
    BY <1>6, <2>1, <1>t, NoPressType DEF SetCurrentIndex, Idle, QuestionnaireTypeOK
  <2>3. session'.status = session.status /\ session'.answers = session.answers
    BY <1>6, <1>t DEF SetCurrentIndex, QuestionnaireTypeOK
  <2>4. SessionIsTrue' /\ KeptIsLive'
    BY <1>6, <2>3, <1>t DEF SetCurrentIndex, SessionIsTrue, ReadyMeansComplete,
       SavedAnswersStay, KeptIsLive, Live, HasCompleteAnswers
  <2>5. HasRead'
    <3>1. \A g \in Presses : press'[g].pc = "saving" => press'[g] = press[g]
      BY <1>6, <1>t, NoPressType DEF SetCurrentIndex, Idle, QuestionnaireTypeOK
    <3> QED BY <3>1, <1>6, <1>t DEF HasRead, SetCurrentIndex
  <2> QED BY <2>2, <2>4, <2>5 DEF SessionInv
<1>7. ASSUME NEW h \in Presses, Start(h) PROVE SessionInv'
  <2>1. QuestionnaireTypeOK'
    BY <1>7, <1>t, QuestionnaireAssumption DEF Start, QuestionnaireTypeOK
  <2>2. \A g \in Presses : press'[g].pc = "saving" => press'[g] = press[g]
    BY <1>7, <1>t DEF Start, QuestionnaireTypeOK
  <2> QED BY <1>7, <2>1, <2>2, SessionKeeps DEF Start
<1>8. ASSUME NEW h \in Presses, StartSession(h) PROVE SessionInv'
  <2>1. QuestionnaireTypeOK'
    BY <1>8, <1>t, Nothing, NoPressType, QuestionnaireAssumption
    DEF StartSession, Written, Idle, QuestionnaireTypeOK, NoSession
  <2> QED BY <1>8, <2>1, EndsSession DEF StartSession
<1>9. ASSUME NEW h \in Presses, ReadForSubmit(h) PROVE SessionInv'
  <2>1. QuestionnaireTypeOK'
    BY <1>9, <1>t DEF ReadForSubmit, Reads, QuestionnaireTypeOK
  <2>2. \A g \in Presses : press'[g].pc = "saving" =>
          press'[g] = press[g] /\ overlapped'[g] = overlapped[g]
    BY <1>9, <1>t DEF ReadForSubmit, Reads, QuestionnaireTypeOK
  <2> QED BY <1>9, <2>1, <2>2, SessionKeeps DEF ReadForSubmit
<1>10. ASSUME NEW h \in Presses, ClearProfileSession(h) PROVE SessionInv'
  <2>1. QuestionnaireTypeOK'
    BY <1>10, <1>t, Nothing, NoPressType, QuestionnaireAssumption
    DEF ClearProfileSession, Idle, QuestionnaireTypeOK, NoSession
  <2> QED BY <1>10, <2>1, EndsSession DEF ClearProfileSession
<1>11. ASSUME NEW h \in Presses, PressLost(h) PROVE SessionInv'
  <2>1. QuestionnaireTypeOK'
    BY <1>11, <1>t, NoPressType DEF PressLost, Idle, QuestionnaireTypeOK
  <2>2. \A g \in Presses : press'[g].pc = "saving" => press'[g] = press[g]
    BY <1>11, <1>t, NoPressType DEF PressLost, Idle, QuestionnaireTypeOK
  <2> QED BY <1>11, <2>1, <2>2, SessionKeeps DEF PressLost
<1> QED BY <1>1, <1>2, <1>3, <1>4, <1>5, <1>6, <1>7, <1>8, <1>9, <1>10, <1>11
        DEF QuestionnaireNext

\* The stored session can be relied on, whichever buttons overlap: its status
\* is right about its answers, and a saved answer stays.
THEOREM SessionTheorem == QuestionnaireSpec => []SessionIsTrue
<1>1. SessionInv => SessionIsTrue
  BY DEF SessionInv
<1> QED BY <1>1, SessionBegins, SessionStep, PTL DEF QuestionnaireSpec

(***************************************************************************)
(* The two explored side by side, as the runs do: a step of the one is no  *)
(* step of the other, so what is invariant in each is so in both.          *)
(***************************************************************************)

LEMMA OnePartMoves ==
  [MCNext]_mcVars => [Next]_vars /\ [QuestionnaireNext]_questionnaireVars
BY DEF MCNext, mcVars

\* Every variable of a person's profiles and of the questionnaire keeps its
\* type, whatever the person, the consumer of the queue and time do.
THEOREM TypesTheorem == MCSpec => []TypesOK
<1>1. MCInit => ProfileInv /\ SessionInv
  BY InitInv, SessionBegins DEF MCInit
<1>2. ProfileInv /\ SessionInv /\ [MCNext]_mcVars => (ProfileInv /\ SessionInv)'
  BY OnePartMoves, StepInv, SessionStep
<1>3. ProfileInv /\ SessionInv => TypesOK
  BY DEF TypesOK, ProfileInv, SessionInv
<1> QED BY <1>1, <1>2, <1>3, PTL DEF MCSpec
=============================================================================
