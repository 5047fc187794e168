---- MODULE RustOAuth ----
(***************************************************************************)
(* The Rust runtime's OAuth source (auth.rs: OAuthSource): an access token *)
(* and the refresh token that mints the next one.  Box invalidates the     *)
(* refresh token on each exchange, so every rotation is saved through a    *)
(* RefreshTokenStore, and a restarted process resumes from the store.      *)
(*                                                                         *)
(* One mutex is held across each exchange, save and revoke.  A future can  *)
(* be dropped at every await; the process can crash at any step.  The      *)
(* token pairs are numbered as Box mints them: pair 1 is the one the       *)
(* caller supplied, already stored; 0 is the empty string.                 *)
(***************************************************************************)
EXTENDS OAuthSource

VARIABLES
    phase,     \* where OAuthState.expiry stands against the clock
    persisted, \* OAuthState.refresh_token_persisted
    reply,     \* reply[t]: what Box or the store did for t's request, 0 before
    rotated,   \* rotated[t]: t's reply carries a new refresh token
    late,      \* saves of dropped futures that have yet to reach the store
    strayed,   \* this process has dropped a save that went on (history)
    minted,    \* the last pair Box minted
    lost       \* a rotation was lost with a response or a crash (history)

memory == <<token, phase, refresh, persisted, revoked>>
outside == <<store, late, strayed, minted, box, lost>>
vars == <<lock, op, at, got, reply, rotated, memory, outside>>

Phases == {"fresh", "margin", "expired"}

\* fresh_token, and the single-flight check of force_refresh.
Answers(t) == token # 0 /\ phase = "fresh" /\ (op[t] = "force" => token # got[t])

\* oauth_source, from the refresh token the caller has stored.
Init ==
    /\ lock = Free
    /\ op = [t \in Task |-> "none"]
    /\ at = [t \in Task |-> "idle"]
    /\ got = [t \in Task |-> 0]
    /\ reply = [t \in Task |-> 0]
    /\ rotated = [t \in Task |-> FALSE]
    /\ token = 0
    /\ phase = "expired"
    /\ persisted = TRUE
    /\ revoked = FALSE
    /\ refresh = 1 /\ store = 1 /\ box = 1 /\ minted = 1
    /\ late = {} /\ strayed = FALSE
    /\ lost = FALSE

\* t's call is over; it gives the lock back if it holds it.
Return(t, result) ==
    /\ lock' = IF lock = t THEN Free ELSE lock
    /\ op' = [op EXCEPT ![t] = "none"]
    /\ at' = [at EXCEPT ![t] = "idle"]
    /\ got' = [got EXCEPT ![t] = result]
    /\ reply' = [reply EXCEPT ![t] = 0]
    /\ rotated' = [rotated EXCEPT ![t] = FALSE]

\* t suspends at `place` with the lock held, its request not yet acted on.
Suspend(t, place) ==
    /\ lock' = t
    /\ at' = [at EXCEPT ![t] = place]
    /\ reply' = [reply EXCEPT ![t] = 0]
    /\ rotated' = [rotated EXCEPT ![t] = FALSE]
    /\ UNCHANGED <<op, got>>

Queued(t, ops) == at[t] = "lock" /\ op[t] \in ops /\ lock = Free

\* A call starts and queues on the lock.
Enter(t, o) ==
    /\ op[t] = "none"
    /\ o = "force" => got[t] # 0
    /\ op' = [op EXCEPT ![t] = o]
    /\ at' = [at EXCEPT ![t] = "lock"]
    /\ UNCHANGED <<lock, got, reply, rotated, memory, outside>>

\* The grant is revoked: access_token and force_refresh err, a second revoke
\* is a no-op.
AfterRevoke(t) ==
    /\ Queued(t, {"access", "force", "revoke"}) /\ revoked
    /\ Return(t, 0)
    /\ UNCHANGED <<memory, outside>>

\* retry_persist: an earlier save is retried before anything else.
BeginPersist(t) ==
    /\ Queued(t, {"access", "force"}) /\ ~revoked /\ ~persisted
    /\ Suspend(t, "persist")
    /\ UNCHANGED <<memory, outside>>

PersistOk(t) ==
    /\ at[t] = "persist" /\ reply[t] # 0
    /\ persisted' = TRUE
    /\ Suspend(t, "check")
    /\ UNCHANGED <<token, phase, refresh, revoked, outside>>

MutPersistFail(t) ==
    /\ at[t] = "persist"
    /\ persisted' = TRUE
    /\ Suspend(t, "check")
    /\ UNCHANGED <<token, phase, refresh, revoked, outside>>

MutPersistWaits(t) ==
    /\ at[t] = "persist" /\ reply[t] # 0
    /\ Suspend(t, "check")
    /\ UNCHANGED <<memory, outside>>

\* The retried save errs, silently.
PersistFail(t) ==
    /\ at[t] = "persist"
    /\ Suspend(t, "check")
    /\ UNCHANGED <<memory, outside>>

\* The lock is held, the grant alive, and retry_persist is done.
Ready(t) ==
    \/ Queued(t, {"access", "force"}) /\ ~revoked /\ persisted
    \/ at[t] = "check"

\* The cached token answers the call.
Hit(t) ==
    /\ Ready(t) /\ Answers(t)
    /\ Return(t, token)
    /\ UNCHANGED <<memory, outside>>

MutBeginExchange(t) ==
    /\ at[t] = "lock" /\ op[t] \in {"access", "force"} /\ ~revoked /\ ~Answers(t)
    /\ Suspend(t, "exchange")
    /\ UNCHANGED <<memory, outside>>

\* refresh_locked posts the refresh token.
BeginExchange(t) ==
    /\ Ready(t) /\ ~Answers(t)
    /\ Suspend(t, "exchange")
    /\ UNCHANGED <<memory, outside>>

MutExchangeOk(t) ==
    /\ at[t] = "exchange" /\ reply[t] # 0
    /\ token' = reply[t]
    /\ phase' \in Phases
    /\ IF rotated[t]
       THEN refresh' = reply[t] /\ Suspend(t, "save")
       ELSE UNCHANGED refresh /\ Return(t, reply[t])
    /\ UNCHANGED <<persisted, revoked, outside>>

\* The response arrives.  A rotated refresh token is unpersisted until the
\* store confirms it, and is saved before the call returns.
ExchangeOk(t) ==
    /\ at[t] = "exchange" /\ reply[t] # 0
    /\ token' = reply[t]
    /\ phase' \in Phases
    /\ IF rotated[t]
       THEN refresh' = reply[t] /\ persisted' = FALSE /\ Suspend(t, "save")
       ELSE UNCHANGED <<refresh, persisted>> /\ Return(t, reply[t])
    /\ UNCHANGED <<revoked, outside>>

\* The exchange errs or is dropped; the response, if there was one, is lost.
ExchangeFail(t) ==
    /\ at[t] = "exchange"
    /\ lost' = (lost \/ rotated[t])
    /\ Return(t, 0)
    /\ UNCHANGED <<memory, store, late, strayed, minted, box>>

SaveOk(t) ==
    /\ at[t] = "save" /\ reply[t] # 0
    /\ persisted' = TRUE
    /\ Return(t, token)
    /\ UNCHANGED <<token, phase, refresh, revoked, outside>>

\* The save errs, before or after the store took it: the rotating call errs.
SaveFail(t) ==
    /\ at[t] = "save"
    /\ Return(t, 0)
    /\ UNCHANGED <<memory, outside>>

\* The call is dropped inside a save.  What the save does outside the future
\* (spawn_blocking, as the trait advises) goes on without it.
DropSave(t) ==
    /\ at[t] \in {"persist", "save"}
    /\ \/ reply[t] = 0 /\ late' = late \cup {refresh} /\ strayed' = TRUE
       \/ UNCHANGED <<late, strayed>>
    /\ Return(t, 0)
    /\ UNCHANGED <<memory, store, minted, box, lost>>

\* revoke posts the refresh token: Box revokes the whole grant.
BeginRevoke(t) ==
    /\ Queued(t, {"revoke"}) /\ ~revoked
    /\ Suspend(t, "revoke")
    /\ UNCHANGED <<memory, outside>>

MutRevokeOk(t) ==
    /\ at[t] = "revoke" /\ reply[t] # 0
    /\ revoked' = TRUE
    /\ refresh' = 0
    /\ Return(t, 0)
    /\ UNCHANGED <<token, phase, persisted, outside>>

RevokeOk(t) ==
    /\ at[t] = "revoke" /\ reply[t] # 0
    /\ revoked' = TRUE
    /\ token' = 0
    /\ refresh' = 0
    /\ Return(t, 0)
    /\ UNCHANGED <<phase, persisted, outside>>

\* The revoke errs or is dropped, whether or not Box acted on it.
RevokeFail(t) ==
    /\ at[t] = "revoke"
    /\ Return(t, 0)
    /\ UNCHANGED <<memory, outside>>

\* A future dropped while it queues on the lock.
DropQueued(t) ==
    /\ at[t] = "lock"
    /\ Return(t, 0)
    /\ UNCHANGED <<memory, outside>>

\* Box mints a pair for the refresh token it accepts.  It rotates that token,
\* or leaves it in place (a response without refresh_token).
BoxExchanges(t) ==
    /\ at[t] = "exchange" /\ reply[t] = 0
    /\ box # 0 /\ refresh = box /\ minted < MaxTokens
    /\ minted' = minted + 1
    /\ reply' = [reply EXCEPT ![t] = minted']
    /\ \E r \in BOOLEAN :
          /\ rotated' = [rotated EXCEPT ![t] = r]
          /\ box' = IF r THEN minted' ELSE box
    /\ UNCHANGED <<lock, op, at, got, memory, store, late, strayed, lost>>

\* Box revokes the grant of the token it was sent.
BoxRevokes(t) ==
    /\ at[t] = "revoke" /\ reply[t] = 0
    /\ box \in {refresh, 0}
    /\ box' = 0
    /\ reply' = [reply EXCEPT ![t] = refresh]
    /\ UNCHANGED <<lock, op, at, got, rotated, memory, store, late, strayed, minted, lost>>

\* The store takes the token a save sent it.
StoreWrites(t) ==
    /\ at[t] \in {"persist", "save"} /\ reply[t] = 0
    /\ store' = refresh
    /\ reply' = [reply EXCEPT ![t] = refresh]
    /\ UNCHANGED <<lock, op, at, got, rotated, memory, late, strayed, minted, box, lost>>

\* The store takes a save whose future was dropped earlier.
StoreWritesLate(k) ==
    /\ k \in late
    /\ store' = k
    /\ late' = late \ {k}
    /\ UNCHANGED <<lock, op, at, got, reply, rotated, memory, strayed, minted, box, lost>>

\* The clock: the cached token enters the margin, then expires.
Age ==
    /\ token # 0
    /\ \/ phase = "fresh" /\ phase' = "margin"
       \/ phase = "margin" /\ phase' = "expired"
    /\ UNCHANGED <<lock, op, at, got, reply, rotated, token, refresh, persisted, revoked, outside>>

\* The process dies and restarts from the stored refresh token
\* (Auth::oauth_with_store).  A rotation that was not stored is gone.
Crash ==
    /\ lock' = Free
    /\ op' = [t \in Task |-> "none"]
    /\ at' = [t \in Task |-> "idle"]
    /\ got' = [t \in Task |-> 0]
    /\ reply' = [t \in Task |-> 0]
    /\ rotated' = [t \in Task |-> FALSE]
    /\ token' = 0 /\ phase' = "expired"
    /\ refresh' = store
    /\ persisted' = TRUE /\ revoked' = FALSE
    /\ late' = {} /\ strayed' = FALSE
    /\ lost' = (lost \/ (box # 0 /\ store # box))
    /\ UNCHANGED <<store, minted, box>>

CallStep(t) ==
    \/ AfterRevoke(t) \/ BeginPersist(t) \/ PersistOk(t) \/ PersistFail(t)
    \/ Hit(t) \/ BeginExchange(t) \/ ExchangeOk(t) \/ ExchangeFail(t)
    \/ SaveOk(t) \/ SaveFail(t) \/ DropSave(t)
    \/ BeginRevoke(t) \/ RevokeOk(t) \/ RevokeFail(t) \/ DropQueued(t)

Next ==
    \/ \E t \in Task, o \in {"access", "force", "revoke"} : Enter(t, o)
    \/ \E t \in Task : CallStep(t) \/ BoxExchanges(t) \/ BoxRevokes(t) \/ StoreWrites(t)
    \/ \E k \in late : StoreWritesLate(k)
    \/ Age
    \/ Crash

Spec == Init /\ [][Next]_vars

\* The mutex queues its waiters in order; the auth HTTP client times out, and
\* a save is assumed to return.  A call that has its lock runs on.
Fairness ==
    \A t \in Task :
        /\ SF_vars(AfterRevoke(t) \/ BeginPersist(t) \/ Hit(t) \/ BeginExchange(t) \/ BeginRevoke(t))
        /\ WF_vars(\/ PersistOk(t) \/ PersistFail(t) \/ ExchangeOk(t) \/ ExchangeFail(t)
                   \/ SaveOk(t) \/ SaveFail(t) \/ RevokeOk(t) \/ RevokeFail(t))

FairSpec == Spec /\ Fairness

-----------------------------------------------------------------------------
Places == {"idle", "lock", "persist", "check", "exchange", "save", "revoke"}

TypeOK ==
    /\ lock \in Task \cup {Free}
    /\ op \in [Task -> {"none", "access", "force", "revoke"}]
    /\ at \in [Task -> Places]
    /\ got \in [Task -> 0..MaxTokens]
    /\ token \in 0..MaxTokens
    /\ phase \in Phases
    /\ refresh \in 0..MaxTokens
    /\ persisted \in BOOLEAN /\ revoked \in BOOLEAN
    /\ reply \in [Task -> 0..MaxTokens]
    /\ rotated \in [Task -> BOOLEAN]
    /\ store \in 1..MaxTokens
    /\ late \subseteq 1..MaxTokens /\ strayed \in BOOLEAN
    /\ minted \in 1..MaxTokens
    /\ box \in 0..MaxTokens
    /\ lost \in BOOLEAN

\* The lock is held exactly by the task suspended past it.
LockIsHeld == \A t \in Task : lock = t <=> at[t] \notin {"idle", "lock"}

\* What the task holding the lock waits for.
Waiting ==
    \A t \in Task :
        /\ at[t] = "idle" <=> op[t] = "none"
        /\ at[t] \in {"idle", "lock", "check"} => reply[t] = 0
        /\ at[t] # "exchange" => ~rotated[t]
        /\ rotated[t] => reply[t] = minted /\ box = minted
        /\ at[t] \notin {"idle", "lock"} => ~revoked
        /\ at[t] = "revoke" /\ reply[t] # 0 => box = 0
        /\ at[t] \in {"persist", "save"} => 
              ~persisted /\ (reply[t] # 0 /\ ~strayed => store = refresh)

\* A refresh token the source takes to be durable is the one in the store: "a
\* rotation is never silently treated as durable when it is not", whichever
\* saves failed, were dropped or were retried in between.  A dropped save that
\* goes on is the exception: it can overwrite a later one.
Durable == persisted /\ ~revoked /\ ~strayed => store = refresh

\* A task has a rotation on the wire: Box has replaced the refresh token, and
\* the source does not have the new one yet.
Rotating == \E t \in Task : at[t] = "exchange" /\ rotated[t]

\* Unless a rotation was lost on the way, the source holds the refresh token
\* Box accepts: no two calls ever spend the same one, and no failed, dropped
\* or retried call puts an older one back.
HoldsTheGrant == box # 0 /\ ~lost => Rotating \/ (~revoked /\ refresh = box)

\* Once revoke_token returned Ok nothing of the grant is left, and no call
\* that was under way brings any of it back.
RevokedIsEmpty == revoked => token = 0 /\ refresh = 0 /\ box = 0

\* A restart resumes the grant unless the source knows that it would not:
\* Box accepts the stored refresh token, or the rotation is on the wire or
\* marked as not persisted.
RestartResumes ==
    box # 0 /\ ~lost /\ ~strayed /\ persisted => Rotating \/ store = box

\* The inductive invariant.
OAuthInv ==
    /\ TypeOK /\ LockIsHeld /\ Waiting /\ Durable /\ HoldsTheGrant /\ RevokedIsEmpty
    /\ refresh = 0 => revoked
    /\ ~strayed => late = {}

\* After a successful revoke no call returns a token, until a restart.
RevokeIsFinal ==
    [][revoked /\ revoked' => \A t \in Task : at[t] # "idle" /\ at'[t] = "idle" => got'[t] = 0]_vars

\* Every call returns, a store that keeps failing included ("these retries
\* stay silent so a still-down store can't wedge every call").
EveryCallReturns == \A t \in Task : op[t] # "none" ~> op[t] = "none"
====
