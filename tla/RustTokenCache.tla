---- MODULE RustTokenCache ----
(***************************************************************************)
(* The Rust runtime's cached token source (auth.rs: Cached, FormSource,    *)
(* JwtSource): one access token behind an async mutex that stays locked    *)
(* across the request to Box's token or revoke endpoint.  Tasks call       *)
(* access_token, force_refresh and revoke_token concurrently; a task's     *)
(* future can be dropped at every await.                                   *)
(*                                                                         *)
(* Access tokens are numbered in the order Box mints them; 0 is the empty  *)
(* string.  Time is abstracted to the cached token's phase: fresh, then    *)
(* within the refresh margin, then past its expiry.                        *)
(***************************************************************************)
EXTENDS Integers

CONSTANTS
    Task,       \* the tasks sharing the source
    Free,       \* the lock's holder when no task holds it
    MaxTokens   \* bound on the tokens Box mints

ASSUME TokenCacheAssumption == MaxTokens \in Nat /\ Free \notin Task

VARIABLES
    lock,     \* the task holding `cached: Mutex<Cached>`, or Free
    op,       \* op[t]: the call t is in, "none" between calls
    at,       \* at[t]: where it stands: queued on the lock, or posting
    got,      \* got[t]: the token t's last call returned, 0 when it returned none
    token,    \* Cached.token
    phase,    \* where Cached.expiry stands against the clock
    reply,    \* reply[t]: the token Box minted or revoked for t's request, 0 before
    issued,   \* tokens Box has minted
    live,     \* tokens Box accepts
    revoked   \* tokens whose revoke call returned Ok (history)

cacheVars == <<lock, op, at, got, token, phase, reply, issued, live, revoked>>

Phases == {"fresh", "margin", "expired"}

\* fresh_token: a token that is present and outside the refresh margin.
Fresh == token # 0 /\ phase = "fresh"

\* The check access_token and force_refresh make once they hold the lock.
Answers(t) == Fresh /\ (op[t] = "force" => token # got[t])

CacheInit ==
    /\ lock = Free
    /\ op = [t \in Task |-> "none"]
    /\ at = [t \in Task |-> "idle"]
    /\ got = [t \in Task |-> 0]
    /\ token = 0
    /\ phase = "expired"
    /\ reply = [t \in Task |-> 0]
    /\ issued = 0
    /\ live = {}
    /\ revoked = {}

\* t's call is over: it holds no lock and its request, if any, is forgotten.
Return(t, result) ==
    /\ op' = [op EXCEPT ![t] = "none"]
    /\ at' = [at EXCEPT ![t] = "idle"]
    /\ got' = [got EXCEPT ![t] = result]
    /\ reply' = [reply EXCEPT ![t] = 0]

Queued(t, ops) == at[t] = "lock" /\ op[t] \in ops /\ lock = Free

Posting(t, ops) == at[t] = "post" /\ op[t] \in ops

\* A call starts and queues on the lock.  force_refresh names the token its
\* caller was refused with.
Enter(t, o) ==
    /\ op[t] = "none"
    /\ o = "force" => got[t] # 0
    /\ op' = [op EXCEPT ![t] = o]
    /\ at' = [at EXCEPT ![t] = "lock"]
    /\ UNCHANGED <<lock, got, token, phase, reply, issued, live, revoked>>

\* access_token and force_refresh find a token to return: no await follows, so
\* the lock is taken and released in this step.
Hit(t) ==
    /\ Queued(t, {"access", "force"})
    /\ Answers(t)
    /\ Return(t, token)
    /\ UNCHANGED <<lock, token, phase, issued, live, revoked>>

\* t sends its request and suspends with the lock held.
Post(t) ==
    /\ lock' = t
    /\ at' = [at EXCEPT ![t] = "post"]
    /\ UNCHANGED <<op, got, token, phase, reply, issued, live, revoked>>

MutRefreshUnlocked(t) ==
    /\ Queued(t, {"access", "force"})
    /\ ~Answers(t)
    /\ at' = [at EXCEPT ![t] = "post"]
    /\ UNCHANGED <<lock, op, got, token, phase, reply, issued, live, revoked>>

\* refresh_locked sends the grant.
BeginRefresh(t) ==
    /\ Queued(t, {"access", "force"})
    /\ ~Answers(t)
    /\ Post(t)

\* The response arrives and is stored, with the lifetime Box states.
RefreshOk(t) ==
    /\ Posting(t, {"access", "force"})
    /\ reply[t] # 0
    /\ token' = reply[t]
    /\ phase' \in Phases
    /\ Return(t, reply[t])
    /\ lock' = Free
    /\ UNCHANGED <<issued, live, revoked>>

MutFailKeepsLock(t) ==
    /\ Posting(t, {"access", "force"})
    /\ Return(t, 0)
    /\ UNCHANGED <<lock, token, phase, issued, live, revoked>>

\* The exchange errs or its future is dropped, before or after Box minted a
\* token for it: the cache keeps what it had.
RefreshFail(t) ==
    /\ Posting(t, {"access", "force"})
    /\ Return(t, 0)
    /\ lock' = Free
    /\ UNCHANGED <<token, phase, issued, live, revoked>>

\* revoke with nothing to revoke at Box: the token is dropped.
RevokeEmpty(t) ==
    /\ Queued(t, {"revoke"})
    /\ token = 0 \/ phase = "expired"
    /\ token' = 0
    /\ phase' = "expired"
    /\ Return(t, 0)
    /\ UNCHANGED <<lock, issued, live, revoked>>

\* revoke posts the token to the revoke endpoint, holding the lock.
BeginRevoke(t) ==
    /\ Queued(t, {"revoke"})
    /\ token # 0 /\ phase # "expired"
    /\ Post(t)

MutRevokeKeepsToken(t) ==
    /\ Posting(t, {"revoke"})
    /\ reply[t] # 0
    /\ revoked' = revoked \cup {token}
    /\ Return(t, 0)
    /\ lock' = Free
    /\ UNCHANGED <<token, phase, issued, live>>

\* Box answered 2xx: the cached token is cleared.
RevokeOk(t) ==
    /\ Posting(t, {"revoke"})
    /\ reply[t] # 0
    /\ revoked' = revoked \cup {token}
    /\ token' = 0
    /\ phase' = "expired"
    /\ Return(t, 0)
    /\ lock' = Free
    /\ UNCHANGED <<issued, live>>

\* The revoke errs or its future is dropped, whether or not Box acted on it:
\* the token stays cached.
RevokeFail(t) ==
    /\ Posting(t, {"revoke"})
    /\ Return(t, 0)
    /\ lock' = Free
    /\ UNCHANGED <<token, phase, issued, live, revoked>>

\* A future dropped while it queues on the lock.
DropQueued(t) ==
    /\ at[t] = "lock"
    /\ Return(t, 0)
    /\ UNCHANGED <<lock, token, phase, issued, live, revoked>>

\* Box mints a token for the grant t posted.
BoxMints(t) ==
    /\ Posting(t, {"access", "force"})
    /\ reply[t] = 0
    /\ issued < MaxTokens
    /\ issued' = issued + 1
    /\ live' = live \cup {issued'}
    /\ reply' = [reply EXCEPT ![t] = issued']
    /\ UNCHANGED <<lock, op, at, got, token, phase, revoked>>

\* Box revokes the token t posted.
BoxRevokes(t) ==
    /\ Posting(t, {"revoke"})
    /\ reply[t] = 0
    /\ live' = live \ {token}
    /\ reply' = [reply EXCEPT ![t] = token]
    /\ UNCHANGED <<lock, op, at, got, token, phase, issued, revoked>>

\* Box stops accepting a token on its own: an administrator's action, or a
\* revoke this source gave up waiting for.
BoxRejects(k) ==
    /\ k \in live
    /\ live' = live \ {k}
    /\ UNCHANGED <<lock, op, at, got, token, phase, reply, issued, revoked>>

\* The clock: the cached token enters the margin, then expires, at Box too.
Age ==
    /\ token # 0
    /\ \/ phase = "fresh" /\ phase' = "margin" /\ UNCHANGED live
       \/ phase = "margin" /\ phase' = "expired" /\ live' = live \ {token}
    /\ UNCHANGED <<lock, op, at, got, token, reply, issued, revoked>>

\* The steps of a call that is under way.
CallStep(t) ==
    \/ Hit(t) \/ BeginRefresh(t) \/ RefreshOk(t) \/ RefreshFail(t)
    \/ RevokeEmpty(t) \/ BeginRevoke(t) \/ RevokeOk(t) \/ RevokeFail(t)
    \/ DropQueued(t)

BoxStep ==
    \/ \E t \in Task : BoxMints(t) \/ BoxRevokes(t)
    \/ \E k \in live : BoxRejects(k)
    \/ Age

CacheNext ==
    \/ \E t \in Task, o \in {"access", "force", "revoke"} : Enter(t, o)
    \/ \E t \in Task : CallStep(t)
    \/ BoxStep

CacheSpec == CacheInit /\ [][CacheNext]_cacheVars

-----------------------------------------------------------------------------
TypeOK ==
    /\ lock \in Task \cup {Free}
    /\ op \in [Task -> {"none", "access", "force", "revoke"}]
    /\ at \in [Task -> {"idle", "lock", "post"}]
    /\ got \in [Task -> 0..MaxTokens]
    /\ token \in 0..MaxTokens
    /\ phase \in Phases
    /\ reply \in [Task -> 0..MaxTokens]
    /\ issued \in 0..MaxTokens
    /\ live \subseteq 1..MaxTokens
    /\ revoked \subseteq 1..MaxTokens

\* A task whose request is on the wire holds the lock, and only such a task:
\* the mutex guard lives across the await and no path leaks it.
LockIsPosting == \A t \in Task : lock = t <=> at[t] = "post"

\* Everything the source knows, Box minted, and what it waits for is newer
\* than what it holds.
Newer ==
    /\ token <= issued
    /\ \A k \in live \cup revoked : k <= issued
    /\ \A t \in Task :
          /\ got[t] <= issued
          /\ reply[t] <= issued
          /\ at[t] # "post" => reply[t] = 0
          /\ Posting(t, {"access", "force"}) /\ reply[t] # 0 =>
                reply[t] > token /\ reply[t] > got[t] /\ reply[t] \notin revoked
          /\ Posting(t, {"revoke"}) => token # 0

\* A task is in a call or it is not.
CallKinds == \A t \in Task : at[t] = "idle" <=> op[t] = "none"

\* Single-flight: as long as an exchange is on the wire it is still needed.
\* No concurrent call has put a token in the cache that answers it
\* (force_refresh: "a concurrent 401 may already have replaced the token").
SingleFlight == \A t \in Task : Posting(t, {"access", "force"}) => ~Answers(t)

\* After revoke_token returned Ok the token it revoked is out of the cache for
\* good: no exchange that was under way, failed or was dropped brings it back.
RevokedGone == token \notin revoked

\* The inductive invariant.
CacheInv == TypeOK /\ LockIsPosting /\ CallKinds /\ Newer /\ SingleFlight /\ RevokedGone

\* The cached token is only ever replaced by a newer one, or cleared: replies
\* that arrive late never overwrite what a later call stored.
NewestWins == [][token' # token => token' = 0 \/ token' > token]_cacheVars

\* Seen from outside, every call happens at one instant (TokenSource).
Atomic == INSTANCE TokenSource

Linearizes == Atomic!Spec
====
