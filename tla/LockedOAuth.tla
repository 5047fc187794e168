---- MODULE LockedOAuth ----
(***************************************************************************)
(* The OAuth sources of Go (auth.go: oauthSource) and Java (Runtime.java:  *)
(* OAuthSource): every call runs under one lock, held through its requests *)
(* to Box and its saves to the refresh-token store.  What is hard is not   *)
(* the lock but what fails under it: the store, the request, the process.  *)
(* `runtime` is chosen once and selects the code.                          *)
(*                                                                         *)
(* Refresh and access tokens are numbered as Box issues them; 0 is none.   *)
(* An action is the code between two waits: for the lock, Box or the store.*)
(***************************************************************************)
EXTENDS OAuthSource

CONSTANT MaxCrashes  \* bound on the crashes of the process

ASSUME LockedAssumption == MaxCrashes \in Nat

VARIABLES
    runtime,  \* "go" or "java"
    kept,     \* the source has a store
    fresh,    \* the cached token is further than the refresh margin from its expiry
    unsaved,  \* Go's unsaved, Java's refreshTokenPersisted negated
    issued,   \* how many tokens Box has issued
    answer,   \* Box's answer on its way: the refresh token it carries
    told,     \* a call has failed since the newest rotation came in
    stranded, \* history: an answer or a process was lost with the token Box rotated to
    crashes

remembered == <<token, fresh, refresh, unsaved, revoked>>
beyond == <<store, box, issued, answer>>
lockedVars == <<runtime, kept, lock, at, op, got, remembered, beyond, told, stranded, crashes>>

Inside == {"entered", "retrying", "posting", "rotating", "revoking"}

\* A source resumes from a stored refresh token, or is made by the code
\* exchange, which saved the first one; Go keeps the access token that came
\* with it, Java does not count the seed as saved.
LockedInit ==
    /\ runtime \in {"go", "java"}
    /\ kept \in BOOLEAN
    /\ lock = Free
    /\ at = [t \in Task |-> "idle"]
    /\ op = [t \in Task |-> "none"]
    /\ got = [t \in Task |-> 0]
    /\ token \in IF runtime = "go" THEN {0, 1} ELSE {0}
    /\ fresh = (token # 0)
    /\ refresh = 1
    /\ unsaved = (runtime = "java" /\ kept)
    /\ revoked = FALSE
    /\ store = 1
    /\ box = 1
    /\ issued = 1
    /\ answer = 0
    /\ told = FALSE
    /\ stranded = FALSE
    /\ crashes = 0

----------------------------------------------------------------------------
\* A call: enter, perhaps save, perhaps ask Box, perhaps save, return.

Goes(t, where) == at' = [at EXCEPT ![t] = where]

Returns(t, result) ==
    /\ lock' = Free
    /\ Goes(t, "idle")
    /\ op' = [op EXCEPT ![t] = "none"]
    /\ got' = [got EXCEPT ![t] = result]

Stay(t, where) == Goes(t, where) /\ UNCHANGED <<lock, op, got>>

AskFor(t, o) ==
    /\ at[t] = "idle"
    /\ o = "force" => runtime = "java" /\ got[t] # 0
    /\ op' = [op EXCEPT ![t] = o]
    /\ Goes(t, "queued")
    /\ UNCHANGED <<runtime, kept, lock, got, remembered, beyond, told, stranded, crashes>>

Ask(t) == \E o \in {"access", "force", "revoke"} : AskFor(t, o)

Lock(t) ==
    /\ at[t] = "queued"
    /\ lock = Free
    /\ lock' = t
    /\ Goes(t, "entered")
    /\ UNCHANGED <<runtime, kept, op, got, remembered, beyond, told, stranded, crashes>>

\* The cached token answers: while fresh, or, forced, once it is not the one
\* the caller rejects.
CacheAnswers(t) == token # 0 /\ IF op[t] = "force" THEN token # got[t] ELSE fresh

MutMustSave(t) == kept /\ unsaved /\ runtime = "go"  \* Java spends it unsaved

\* Go saves before it looks at its cached token, Java only before it spends
\* the refresh token.
MustSave(t) == kept /\ unsaved /\ (runtime = "go" \/ ~CacheAnswers(t))

Proceed(t) == IF CacheAnswers(t) THEN Returns(t, token) ELSE Stay(t, "posting")

Entered(t) ==
    /\ at[t] = "entered" /\ op[t] \in {"access", "force"}
    /\ IF revoked THEN Returns(t, 0)
       ELSE IF MustSave(t) THEN Stay(t, "retrying")
       ELSE Proceed(t)
    /\ UNCHANGED <<runtime, kept, remembered, beyond, told, stranded, crashes>>

RetrySaves(t) ==
    /\ at[t] = "retrying"
    /\ store' = refresh
    /\ unsaved' = FALSE
    /\ Proceed(t)
    /\ UNCHANGED <<runtime, kept, token, fresh, refresh, revoked, box, issued, answer, told, stranded, crashes>>

\* A save may fail after it wrote.  Go goes on with what it has; Java's call
\* fails.
RetryFails(t) ==
    /\ at[t] = "retrying"
    /\ store' \in {store, refresh}
    /\ IF runtime = "go" THEN Proceed(t) /\ UNCHANGED told ELSE Returns(t, 0) /\ told' = TRUE
    /\ UNCHANGED <<runtime, kept, remembered, box, issued, answer, stranded, crashes>>

\* The request fails, perhaps after Box answered it: nobody reads the answer.
PostFails(t) ==
    /\ at[t] = "posting"
    /\ answer' = 0
    /\ stranded' = (stranded \/ answer \notin {0, refresh})
    /\ Returns(t, 0)
    /\ UNCHANGED <<runtime, kept, remembered, store, box, issued, told, crashes>>

MutPostOk(t) ==  \* takes the access token and drops the rotated refresh token
    /\ at[t] = "posting" /\ answer # 0
    /\ Returns(t, issued)
    /\ token' = issued /\ fresh' \in BOOLEAN
    /\ answer' = 0
    /\ UNCHANGED <<runtime, kept, refresh, unsaved, revoked, store, box, issued, told, stranded, crashes>>

\* The answer is read.  Go caches the access token at once, Java after the save.
PostOk(t) ==
    /\ at[t] = "posting" /\ answer # 0
    /\ LET rotated == answer # refresh
           saves == rotated /\ kept
       IN  /\ refresh' = answer
           /\ unsaved' = (unsaved \/ (rotated /\ runtime = "java"))
           /\ told' = (told /\ ~rotated)
           /\ IF saves THEN Stay(t, "rotating") ELSE Returns(t, issued)
           /\ IF saves /\ runtime = "java" THEN UNCHANGED <<token, fresh>>
              ELSE token' = issued /\ fresh' \in BOOLEAN
    /\ answer' = 0
    /\ UNCHANGED <<runtime, kept, revoked, store, box, issued, stranded, crashes>>

RotationSaves(t) ==
    /\ at[t] = "rotating"
    /\ store' = refresh
    /\ unsaved' = FALSE
    /\ token' = issued
    /\ IF runtime = "java" THEN fresh' \in BOOLEAN ELSE UNCHANGED fresh
    /\ Returns(t, issued)
    /\ UNCHANGED <<runtime, kept, refresh, revoked, box, issued, answer, told, stranded, crashes>>

MutRotationFails(t) ==  \* hands out the access token, for the next call to save
    /\ at[t] = "rotating"
    /\ store' \in {store, refresh}
    /\ unsaved' = TRUE
    /\ Returns(t, issued)
    /\ UNCHANGED <<runtime, kept, token, fresh, refresh, revoked, box, issued, answer, told, stranded, crashes>>

MutRotationFailsForgets(t) ==  \* reports the failure and does not note it
    /\ at[t] = "rotating"
    /\ store' \in {store, refresh}
    /\ Returns(t, 0)
    /\ told' = TRUE
    /\ UNCHANGED <<runtime, kept, remembered, box, issued, answer, stranded, crashes>>

RotationFails(t) ==
    /\ at[t] = "rotating"
    /\ store' \in {store, refresh}
    /\ unsaved' = TRUE
    /\ Returns(t, 0)
    /\ told' = TRUE
    /\ UNCHANGED <<runtime, kept, token, fresh, refresh, revoked, box, issued, answer, stranded, crashes>>

RevokeBegins(t) ==
    /\ at[t] = "entered" /\ op[t] = "revoke"
    /\ IF revoked THEN Returns(t, 0) ELSE Stay(t, "revoking")
    /\ UNCHANGED <<runtime, kept, remembered, beyond, told, stranded, crashes>>

RevokeConfirmed(t) ==
    /\ at[t] = "revoking" /\ box = 0
    /\ revoked' = TRUE
    /\ token' = 0 /\ fresh' = FALSE /\ refresh' = 0
    /\ Returns(t, 0)
    /\ UNCHANGED <<runtime, kept, unsaved, beyond, told, stranded, crashes>>

RevokeFails(t) ==
    /\ at[t] = "revoking"
    /\ Returns(t, 0)
    /\ UNCHANGED <<runtime, kept, remembered, beyond, told, stranded, crashes>>

----------------------------------------------------------------------------
\* Box, time and crashes.

\* Box exchanges the token it accepts, and usually rotates it.
BoxRotates(t) ==
    /\ at[t] = "posting" /\ answer = 0
    /\ refresh = box
    /\ issued < MaxTokens
    /\ issued' = issued + 1
    /\ box' \in {box, issued'}
    /\ answer' = box'
    /\ UNCHANGED <<runtime, kept, lock, at, op, got, remembered, store, told, stranded, crashes>>

BoxEndsGrant(t) ==
    /\ at[t] = "revoking"
    /\ refresh = box
    /\ box' = 0
    /\ UNCHANGED <<runtime, kept, lock, at, op, got, remembered, store, issued, answer, told, stranded, crashes>>

TimePasses ==
    /\ fresh
    /\ fresh' = FALSE
    /\ UNCHANGED <<runtime, kept, lock, at, op, got, token, refresh, unsaved, revoked, beyond, told, stranded, crashes>>

\* The process dies and starts again from what the store, or without one its
\* configuration, holds.  A rotation on its way or only in memory dies with it.
Restart ==
    /\ crashes < MaxCrashes
    /\ crashes' = crashes + 1
    /\ lock' = Free
    /\ at' = [t \in Task |-> "idle"]
    /\ op' = [t \in Task |-> "none"]
    /\ got' = [t \in Task |-> 0]
    /\ token' = 0 /\ fresh' = FALSE
    /\ refresh' = store
    /\ unsaved' = (runtime = "java" /\ kept)
    /\ revoked' = FALSE
    /\ told' = FALSE
    /\ stranded' = (stranded \/ box \in {refresh, answer} \ {0, store})
    /\ answer' = 0
    /\ UNCHANGED <<runtime, kept, store, box, issued>>

----------------------------------------------------------------------------
\* The call that holds the lock moves on: its requests end by their timeout.
Moves(t) ==
    \/ Entered(t) \/ RetrySaves(t) \/ RetryFails(t) \/ PostOk(t) \/ PostFails(t)
    \/ RotationSaves(t) \/ RotationFails(t) \/ RevokeBegins(t) \/ RevokeConfirmed(t) \/ RevokeFails(t)

Step(t) ==
    \/ Ask(t) \/ Lock(t) \/ Moves(t)
    \/ BoxRotates(t) \/ BoxEndsGrant(t)

LockedNext == (\E t \in Task : Step(t)) \/ TimePasses \/ Restart

LockedSpec == LockedInit /\ [][LockedNext]_lockedVars

\* Some thread goes on asking for tokens and gets the lock, time passes, and a
\* store that is asked to save again and again does so once.
LockedFairness ==
    /\ WF_lockedVars(\E t \in Task : Lock(t) \/ Moves(t))
    /\ SF_lockedVars(\E t \in Task : AskFor(t, "access"))
    /\ SF_lockedVars(\E t \in Task : op[t] = "access" /\ Lock(t))
    /\ SF_lockedVars(\E t \in Task : RetrySaves(t))
    /\ WF_lockedVars(TimePasses)

LockedFairSpec == LockedSpec /\ LockedFairness

----------------------------------------------------------------------------
\* Properties.

LockedTypeOK ==
    /\ runtime \in {"go", "java"} /\ kept \in BOOLEAN
    /\ lock \in Task \cup {Free}
    /\ at \in [Task -> {"idle", "queued"} \cup Inside]
    /\ op \in [Task -> {"none", "access", "force", "revoke"}]
    /\ got \in [Task -> 0..MaxTokens]
    /\ token \in 0..MaxTokens /\ refresh \in 0..MaxTokens
    /\ store \in 0..MaxTokens /\ box \in 0..MaxTokens /\ answer \in 0..MaxTokens
    /\ issued \in 1..MaxTokens
    /\ fresh \in BOOLEAN /\ unsaved \in BOOLEAN /\ revoked \in BOOLEAN /\ told \in BOOLEAN
    /\ stranded \in BOOLEAN
    /\ crashes \in 0..MaxCrashes

\* Only the task that holds the lock is past it.
OneInside == \A t \in Task : at[t] \in Inside <=> lock = t

\* The store holds the refresh token in memory unless the source knows it does
\* not, or is about to find out.
KnowsUnsaved ==
    kept /\ ~revoked /\ ~unsaved => store = refresh \/ \E t \in Task : at[t] = "rotating"

\* Where a call stands tells why: only a source with something to save saves, and
\* only one whose grant is not revoked goes on.
Standing ==
    \A t \in Task :
        /\ at[t] = "retrying" => kept /\ unsaved
        /\ at[t] = "rotating" => kept
        /\ at[t] \in Inside \ {"entered"} => ~revoked

\* An answer on its way carries the token Box accepts; of the tokens that can be
\* in memory and in the store, the one in memory is the newer.
Newest ==
    /\ answer # 0 => answer = box /\ \E t \in Task : at[t] = "posting"
    /\ box # 0 /\ store = box => refresh = box
    /\ store # 0 /\ (~revoked => refresh # 0)
    /\ store <= issued /\ refresh <= issued /\ box <= issued

\* No token Box rotated to is dropped by the source: the one Box accepts is in
\* memory, or in the answer a request waits for; it is out of reach exactly when
\* an answer was lost on its way or a crash took the memory that held it.
NothingDropped ==
    IF stranded THEN box \notin {0, refresh, store, answer} ELSE box \in {0, refresh, answer}

\* Unless it was stranded, the refresh token spent is the one Box accepts; Java's
\* is also durable first (Runtime.java:1669-1674).
SpendsNewest ==
    \A t \in Task : at[t] = "posting" =>
        /\ answer = 0 /\ ~stranded => box \in {0, refresh}
        /\ runtime = "java" /\ kept => store = refresh

\* A revoked grant answers nothing and is not spent.
RevokedEmpty == revoked => token = 0 /\ refresh = 0 /\ box = 0

\* The inductive invariant: what the locked sources rely on from call to call
\* (auth.go:372-431, Runtime.java:1613-1692).
LockedInv ==
    /\ LockedTypeOK /\ OneInside /\ KnowsUnsaved /\ Standing
    /\ Newest /\ NothingDropped /\ SpendsNewest /\ RevokedEmpty

\* A rotation the store does not hold was reported by a call that failed: "a
\* rotation is never treated as durable when it isn't" (auth.go:285-288).
RotationReported == kept /\ lock = Free /\ ~revoked => store = refresh \/ told

\* While threads go on calling, a rotation reaches the store once the store
\* works again: every later call retries (auth.go:378-380), or the next exchange
\* (Runtime.java:1671-1674); unless the grant is gone or the rotation was
\* stranded by a lost answer or a crash.
EventuallySaved == [](kept => <>(store = refresh \/ revoked \/ box = 0 \/ stranded))
====
