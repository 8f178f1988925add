------------------------------ MODULE Identity ------------------------------
(***************************************************************************)
(* The account of one Telegram person (src/identity/identity-service.ts):  *)
(* found through the KV cache and D1, created on first contact, replaced   *)
(* by a hard reset, and looked up by visitors of its link.  An account is  *)
(* an id: its row in users and its public link come and go together, its   *)
(* UserState is another object under the same id.                          *)
(*                                                                         *)
(* Runs are the Worker invocations that handle an update, each await a     *)
(* step; one may be lost at any of them.  D1 is one database, with a       *)
(* unique telegram_user_hash.  KV is a hint: a put may fail, and a get may *)
(* fail or answer with any value that was ever put, so that its deletes    *)
(* are not modelled.                                                       *)
(***************************************************************************)
EXTENDS Integers, FiniteSets

CONSTANTS
  IdRuns,   \* invocations at a time
  MaxIds    \* bound on the ids generated

ASSUME IdentityAssumption == MaxIds \in Nat \ {0}

Ids == 1..MaxIds
NoId == 0

VARIABLES
  users,     \* D1: the ids with a row of this person, and so with a link
  used,      \* how many ids were generated
  tg,        \* KV: the ids a get of tg:<hash> may answer with
  state,     \* the UserState of each id: none, without a name, or with one
  visit,     \* the runs
  live,      \* history: the ids that had a row at some moment of a run
  emptied    \* history: the state a run made sure of was purged since

identityVars == <<users, used, tg, state, visit, live, emptied>>

Nobody == [step |-> "free", id |-> NoId, new |-> NoId, reset |-> NoId]

IdentityTypeOK ==
  /\ users \in SUBSET Ids /\ Cardinality(users) <= 1
  /\ used \in 0..MaxIds
  /\ tg \in SUBSET Ids
  /\ state \in [Ids -> {"none", "plain", "named"}]
  /\ visit \in [IdRuns ->
       [step : {"free", "kv", "check", "db", "insert", "again", "check2", "db2",
                "welcome", "leftover", "delete", "insert2", "cache", "init",
                "reread", "limit", "use", "purge", "hard"},
        id : Ids \cup {NoId}, new : Ids \cup {NoId}, reset : Ids \cup {NoId}]]
  /\ live \in [IdRuns -> SUBSET Ids]
  /\ emptied \in [IdRuns -> BOOLEAN]

IdentityInit ==
  /\ users = {} /\ used = 0 /\ tg = {}
  /\ state = [i \in Ids |-> "none"]
  /\ visit = [r \in IdRuns |-> Nobody]
  /\ live = [r \in IdRuns |-> {}]
  /\ emptied = [r \in IdRuns |-> FALSE]

-----------------------------------------------------------------------------
(* Helpers. *)

Is(r, step) == visit[r].step = step
Steps(r, step) == visit' = [visit EXCEPT ![r].step = step]
Finds(r, id, step) == visit' = [visit EXCEPT ![r].step = step, ![r].id = id]
Gone(r) == visit' = [visit EXCEPT ![r] = Nobody]

\* initState: a state that exists keeps its name if it has one.
InitState(id, name) ==
  state' = [state EXCEPT ![id] = IF name = "named" \/ @ = "none" THEN name ELSE @]

\* A run is done with a lookup: the one of an update goes through the rate
\* limit, the one of a reset straight on to its answer.
Onward(r) == IF visit[r].reset = NoId THEN "limit" ELSE "use"

\* Mutant of Validated: the cache is believed.
ValidatedByCache(id) == id # NoId

\* getUserById of what the cache says.
Validated(id) == id \in users

-----------------------------------------------------------------------------
(* resolveOrCreateUser *)

Update(r) ==
  /\ visit[r] = Nobody
  /\ Steps(r, "kv")
  /\ UNCHANGED <<users, used, tg, state>>

\* getUserByTelegramHash: the cached id, or the database.
KvGet(r) ==
  \E id \in tg \cup {NoId} :
    /\ \/ Is(r, "kv") /\ Finds(r, id, IF id = NoId THEN "db" ELSE "check")
       \/ Is(r, "again") /\ Finds(r, id, IF id = NoId THEN "db2" ELSE "check2")
    /\ UNCHANGED <<users, used, tg, state>>

CheckCached(r) ==
  LET ok == Validated(visit[r].id) IN
  /\ \/ Is(r, "check") /\ Steps(r, IF ok THEN Onward(r) ELSE "db")
     \/ Is(r, "check2") /\ Steps(r, IF ok THEN "welcome" ELSE "db2")
  /\ UNCHANGED <<users, used, tg, state>>

\* SELECT by hash: nobody is a first contact, or leads to the leftovers.
SelectByHash(r) ==
  /\ \/ /\ Is(r, "db")
        /\ IF users = {} THEN Steps(r, "insert")
           ELSE \E id \in users : Finds(r, id, Onward(r))
     \/ /\ Is(r, "db2")
        /\ IF users = {} THEN Steps(r, "leftover")
           ELSE \E id \in users : Finds(r, id, "welcome")
  /\ UNCHANGED <<users, used, tg, state>>

\* INSERT of a row and its link in one batch, under an id that is new.
InsertUserAndLink(r) ==
  /\ used < MaxIds
  /\ used' = used + 1
  /\ users' = {used'}
  /\ visit' = [visit EXCEPT ![r].step = "cache", ![r].new = used']

\* createUserFromTelegram: the row, or a conflict with the one there is.
Insert(r) ==
  /\ Is(r, "insert")
  /\ IF users = {} THEN InsertUserAndLink(r)
     ELSE Steps(r, "again") /\ UNCHANGED <<users, used>>
  /\ UNCHANGED <<tg, state>>

\* Mutant of Welcome: the existing account is returned as it is.
WelcomeUnready(r) ==
  /\ Is(r, "welcome")
  /\ Steps(r, Onward(r))
  /\ UNCHANGED <<users, used, tg, state>>

\* initUserState of an existing account, whose creator may not have come to it.
Welcome(r) ==
  /\ Is(r, "welcome")
  /\ InitState(visit[r].id, "plain")
  /\ Steps(r, Onward(r))
  /\ UNCHANGED <<users, used, tg>>

\* getUserByTelegramHashAnyStatus: a row that is in the way is deleted.
SelectAnyStatus(r) ==
  /\ Is(r, "leftover")
  /\ IF users = {} THEN Steps(r, "insert2")
     ELSE \E id \in users : Finds(r, id, "delete")
  /\ UNCHANGED <<users, used, tg, state>>

DeleteLeftover(r) ==
  /\ Is(r, "delete")
  /\ users' = users \ {visit[r].id}
  /\ Steps(r, "insert2")
  /\ UNCHANGED <<used, tg, state>>

InsertAgain(r) ==
  /\ Is(r, "insert2")
  /\ IF users = {} THEN InsertUserAndLink(r)
     ELSE Gone(r) /\ UNCHANGED <<users, used>>
  /\ UNCHANGED <<tg, state>>

\* cacheUserRouting: best effort.
CacheUserRouting(r) ==
  /\ Is(r, "cache")
  /\ tg' \in {tg, tg \cup {visit[r].new}}
  /\ Steps(r, "init")
  /\ UNCHANGED <<users, used, state>>

InitUserState(r) ==
  /\ Is(r, "init")
  /\ InitState(visit[r].new, "named")
  /\ Steps(r, "reread")
  /\ UNCHANGED <<users, used, tg>>

\* getUserById of the new account.
Reread(r) ==
  /\ Is(r, "reread")
  /\ IF visit[r].new \in users THEN Finds(r, visit[r].new, Onward(r)) ELSE Gone(r)
  /\ UNCHANGED <<users, used, tg, state>>

-----------------------------------------------------------------------------
(* What an update does with the account it resolved. *)

\* consumeRateLimit: ensureAccountState, and a limit that may be reached.
ConsumeRateLimit(r) ==
  /\ Is(r, "limit")
  /\ InitState(visit[r].id, "plain")
  /\ \/ Steps(r, "use") \/ Gone(r)
     \/ visit' = [visit EXCEPT ![r].step = "purge", ![r].reset = visit[r].id]
  /\ UNCHANGED <<users, used, tg>>

\* toBotUser: without a link or a state it throws.
ToBotUser(r) ==
  /\ Is(r, "use")
  /\ Gone(r)
  /\ UNCHANGED <<users, used, tg, state>>

\* clearUserAccountAndRecreate: the profile is invalidated, or nothing is
\* reset; then the state is purged, the row deleted, an account created.
PurgeUserState(r) ==
  /\ Is(r, "purge")
  /\ state' = [state EXCEPT ![visit[r].reset] = "none"]
  /\ Steps(r, "hard")
  /\ UNCHANGED <<users, used, tg>>

HardDeleteUserAccount(r) ==
  /\ Is(r, "hard")
  /\ users' = users \ {visit[r].reset}
  /\ Steps(r, "insert")
  /\ UNCHANGED <<used, tg, state>>

\* getUserByPublicSlug and getPublicContactState: a visitor of the link of an
\* account that is active, or was when the visitor asked.
VisitLink(id) ==
  /\ id <= used
  /\ InitState(id, "plain")
  /\ UNCHANGED <<users, used, tg, visit>>

IdentityLost(r) ==
  /\ visit[r] # Nobody
  /\ Gone(r)
  /\ UNCHANGED <<users, used, tg, state>>

\* History: what a run met while it looked for the account, from the deletion
\* on if it is a reset; and whether the account it has was purged meanwhile.
Witness ==
  LET step(r) == visit'[r].step
      settled == {"limit", "use"}
  IN
  /\ live' = [r \in IdRuns |->
       IF step(r) \in {"free", "purge", "hard"} THEN {}
       ELSE (live[r] \cup users') \cap
            (IF step(r) \in settled THEN {visit'[r].id} ELSE Ids)]
  /\ emptied' = [r \in IdRuns |->
       /\ step(r) \in settled \cup {"reread"}
       /\ \/ emptied[r] /\ visit[r].step # "limit"
          \/ LET id == IF step(r) = "reread" THEN visit[r].new ELSE visit'[r].id
             IN state[id] # "none" /\ state'[id] = "none"]

IdentityStep(r) ==
  \/ Update(r) \/ KvGet(r) \/ CheckCached(r) \/ SelectByHash(r)
  \/ Insert(r) \/ Welcome(r) \/ SelectAnyStatus(r) \/ DeleteLeftover(r)
  \/ InsertAgain(r) \/ CacheUserRouting(r) \/ InitUserState(r) \/ Reread(r)
  \/ ConsumeRateLimit(r) \/ ToBotUser(r)
  \/ PurgeUserState(r) \/ HardDeleteUserAccount(r)
  \/ IdentityLost(r)

IdentityNext ==
  /\ \/ \E r \in IdRuns : IdentityStep(r)
     \/ \E id \in Ids : VisitLink(id)
  /\ Witness

IdentitySpec == IdentityInit /\ [][IdentityNext]_identityVars

-----------------------------------------------------------------------------
(* Correctness. *)

\* What a lookup returns is an account that was active while it ran, and what
\* a reset returns is one that was active after the old account was deleted,
\* so never the old one: the cache may answer with accounts long gone, races
\* of creations and resets may be lost, but nobody acts for, and no link is
\* shown of, an account that was gone before
\* (identity-service.ts:172, 265, 408).
ResolvedIsLive ==
  \A r \in IdRuns : Is(r, "limit") \/ Is(r, "use") => visit[r].id \in live[r]

\* An account never lacks its UserState when somebody is about to read it,
\* whichever creation was lost between the row and the state, or was
\* overtaken by another run: only a purge since then takes it away
\* (toBotUser, which throws without it).
NobodyLockedOut ==
  \A r \in IdRuns :
    /\ Is(r, "use") /\ visit[r].id \in users
    => \/ state[visit[r].id] # "none"
       \/ emptied[r]
=============================================================================
