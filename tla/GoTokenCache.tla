---- MODULE GoTokenCache ----
(***************************************************************************)
(* The Go runtime's cachedToken (auth/auth.go), shared by the CCG and JWT  *)
(* flows: one access token behind a sync.Mutex held across the request to  *)
(* Box.  Goroutines call AccessToken and Revoke concurrently.  There is no *)
(* forced refresh, and no way to give up waiting for the mutex.            *)
(*                                                                         *)
(* Access tokens are numbered as Box mints them; 0 is the empty string.    *)
(***************************************************************************)
EXTENDS Integers

CONSTANTS
    Task,       \* the goroutines sharing the source
    Free,       \* the mutex's holder when it is unlocked
    MaxTokens   \* bound on the tokens Box mints

ASSUME TokenCacheAssumption == MaxTokens \in Nat /\ Free \notin Task

VARIABLES
    mu,       \* the goroutine holding cachedToken.mu, or Free
    op,       \* op[t]: the call t is in, "none" between calls
    at,       \* at[t]: "lock" until it has the mutex, "post" during its request
    got,      \* got[t]: the token t's last call returned, 0 when it returned none
    token,    \* cachedToken.token
    phase,    \* where cachedToken.expiry stands against the clock
    reply,    \* reply[t]: the token Box minted or revoked for t's request, 0 before
    issued,   \* tokens Box has minted
    live,     \* tokens Box accepts
    revoked   \* tokens whose Revoke returned nil (history)

cacheVars == <<mu, op, at, got, token, phase, reply, issued, live, revoked>>

Phases == {"fresh", "margin", "expired"}

\* Present, and further than refreshMargin from its expiry.
Fresh == token # 0 /\ phase = "fresh"

CacheInit ==
    /\ mu = Free
    /\ op = [t \in Task |-> "none"]
    /\ at = [t \in Task |-> "idle"]
    /\ got = [t \in Task |-> 0]
    /\ token = 0 /\ phase = "expired"
    /\ reply = [t \in Task |-> 0]
    /\ issued = 0 /\ live = {} /\ revoked = {}

\* The call returns; the deferred Unlock frees the mutex.
Return(t, result) ==
    /\ op' = [op EXCEPT ![t] = "none"]
    /\ at' = [at EXCEPT ![t] = "idle"]
    /\ got' = [got EXCEPT ![t] = result]
    /\ reply' = [reply EXCEPT ![t] = 0]
    /\ mu' = IF mu = t THEN Free ELSE mu

Enter(t, o) ==
    /\ op[t] = "none"
    /\ op' = [op EXCEPT ![t] = o]
    /\ at' = [at EXCEPT ![t] = "lock"]
    /\ UNCHANGED <<mu, got, token, phase, reply, issued, live, revoked>>

Locks(t, o) == at[t] = "lock" /\ op[t] = o /\ mu = Free

\* Box is asked with the mutex held.
Post(t) ==
    /\ mu' = t
    /\ at' = [at EXCEPT ![t] = "post"]
    /\ UNCHANGED <<op, got, token, phase, reply, issued, live, revoked>>

Hit(t) ==
    /\ Locks(t, "access") /\ Fresh
    /\ Return(t, token)
    /\ UNCHANGED <<token, phase, issued, live, revoked>>

MutBeginRefresh(t) ==
    /\ at[t] = "lock" /\ op[t] = "access" /\ ~Fresh
    /\ at' = [at EXCEPT ![t] = "post"]
    /\ UNCHANGED <<mu, op, got, token, phase, reply, issued, live, revoked>>

BeginRefresh(t) == Locks(t, "access") /\ ~Fresh /\ Post(t)

RefreshOk(t) ==
    /\ at[t] = "post" /\ op[t] = "access" /\ reply[t] # 0
    /\ token' = reply[t] /\ phase' \in Phases
    /\ Return(t, reply[t])
    /\ UNCHANGED <<issued, live, revoked>>

\* The exchange errs, or its context is cancelled: the cache is left alone.
RefreshFail(t) ==
    /\ at[t] = "post" /\ op[t] = "access"
    /\ Return(t, 0)
    /\ UNCHANGED <<token, phase, issued, live, revoked>>

MutRevokeEmpty(t) ==
    /\ Locks(t, "revoke") /\ (token = 0 \/ phase # "fresh")
    /\ token' = 0 /\ phase' = "expired"
    /\ Return(t, 0)
    /\ UNCHANGED <<issued, live, revoked>>

\* A missing or expired token is simply dropped.
RevokeEmpty(t) ==
    /\ Locks(t, "revoke") /\ (token = 0 \/ phase = "expired")
    /\ token' = 0 /\ phase' = "expired"
    /\ Return(t, 0)
    /\ UNCHANGED <<issued, live, revoked>>

BeginRevoke(t) == Locks(t, "revoke") /\ token # 0 /\ phase # "expired" /\ Post(t)

RevokeOk(t) ==
    /\ at[t] = "post" /\ op[t] = "revoke" /\ reply[t] # 0
    /\ revoked' = revoked \cup {token}
    /\ token' = 0 /\ phase' = "expired"
    /\ Return(t, 0)
    /\ UNCHANGED <<issued, live>>

\* A failed revoke: the token stays cached.
RevokeFail(t) ==
    /\ at[t] = "post" /\ op[t] = "revoke"
    /\ Return(t, 0)
    /\ UNCHANGED <<token, phase, issued, live, revoked>>

BoxMints(t) ==
    /\ at[t] = "post" /\ op[t] = "access" /\ reply[t] = 0
    /\ issued < MaxTokens
    /\ issued' = issued + 1
    /\ live' = live \cup {issued'}
    /\ reply' = [reply EXCEPT ![t] = issued']
    /\ UNCHANGED <<mu, op, at, got, token, phase, revoked>>

BoxRevokes(t) ==
    /\ at[t] = "post" /\ op[t] = "revoke" /\ reply[t] = 0
    /\ live' = live \ {token}
    /\ reply' = [reply EXCEPT ![t] = token]
    /\ UNCHANGED <<mu, op, at, got, token, phase, issued, revoked>>

\* Box stops accepting a token on its own.
BoxRejects(k) ==
    /\ k \in live
    /\ live' = live \ {k}
    /\ UNCHANGED <<mu, op, at, got, token, phase, reply, issued, revoked>>

\* The clock: the token nears its expiry, then expires, at Box too.
Age ==
    /\ token # 0
    /\ \/ phase = "fresh" /\ phase' = "margin" /\ UNCHANGED live
       \/ phase = "margin" /\ phase' = "expired" /\ live' = live \ {token}
    /\ UNCHANGED <<mu, op, at, got, token, reply, issued, revoked>>

CallStep(t) ==
    \/ Hit(t) \/ BeginRefresh(t) \/ RefreshOk(t) \/ RefreshFail(t)
    \/ RevokeEmpty(t) \/ BeginRevoke(t) \/ RevokeOk(t) \/ RevokeFail(t)

BoxStep ==
    \/ \E t \in Task : BoxMints(t) \/ BoxRevokes(t)
    \/ \E k \in live : BoxRejects(k)
    \/ Age

CacheNext ==
    \/ \E t \in Task, o \in {"access", "revoke"} : Enter(t, o)
    \/ \E t \in Task : CallStep(t)
    \/ BoxStep

CacheSpec == CacheInit /\ [][CacheNext]_cacheVars

-----------------------------------------------------------------------------
CacheTypeOK ==
    /\ mu \in Task \cup {Free}
    /\ op \in [Task -> {"none", "access", "revoke"}]
    /\ at \in [Task -> {"idle", "lock", "post"}]
    /\ got \in [Task -> 0..MaxTokens]
    /\ token \in 0..MaxTokens
    /\ phase \in Phases
    /\ reply \in [Task -> 0..MaxTokens]
    /\ issued \in 0..MaxTokens
    /\ live \subseteq 1..MaxTokens
    /\ revoked \subseteq 1..MaxTokens

\* A goroutine is in a call or it is not.
CallKinds == \A t \in Task : at[t] = "idle" <=> op[t] = "none"

\* The mutex is held exactly while a request is on the wire, and an exchange on
\* the wire is still needed: no other call has put a fresh token in the cache.
MutexGuardsRequest ==
    \A t \in Task :
        /\ mu = t <=> at[t] = "post"
        /\ at[t] = "post" /\ op[t] = "access" => ~Fresh

\* Everything the source knows, Box minted; what it waits for is newer than what
\* it holds and was never revoked.
Newer ==
    /\ token <= issued
    /\ \A k \in live \cup revoked : k <= issued
    /\ \A t \in Task :
          /\ got[t] <= issued /\ reply[t] <= issued
          /\ at[t] # "post" => reply[t] = 0
          /\ at[t] = "post" /\ op[t] = "access" /\ reply[t] # 0 =>
                reply[t] > token /\ reply[t] \notin revoked
          /\ at[t] = "post" /\ op[t] = "revoke" => token # 0

\* After Revoke returned nil the token it revoked is out of the cache for good.
RevokedGone == token \notin revoked

\* The inductive invariant: the mutex held across the request keeps what it
\* was sent for from changing (auth.go:91-117).
CacheInv == CacheTypeOK /\ CallKinds /\ MutexGuardsRequest /\ Newer /\ RevokedGone

\* A token leaves the cache only for a newer one, or because it has expired or
\* Box revoked it: Revoke never forgets a token Box would still accept.
NeverForgetsLive ==
    [][token' = 0 /\ token # 0 => phase = "expired" \/ token \in revoked']_cacheVars

\* Seen from outside every call happens at one instant: the same promise as
\* the Rust source, without forced refreshes.
Atomic == INSTANCE TokenSource

Linearizes == Atomic!Spec
====
