---- MODULE OAuthProofs ----
(***************************************************************************)
(* Proofs about the OAuth sources: RustOAuth, for any number of tasks and  *)
(* rotations, and LockedOAuth (Go's and Java's), for any set of threads    *)
(* and any number of tokens and crashes.  In both one call at a time is    *)
(* past the lock, so each step disturbs one call's facts and the state.    *)
(***************************************************************************)
EXTENDS RustOAuth, LockedOAuth, TLAPS

-----------------------------------------------------------------------------
\* RustOAuth.

LEMMA InitEstablishes == Init => OAuthInv
  <1> SUFFICES ASSUME Init PROVE OAuthInv
    OBVIOUS
  <1> USE OAuthAssumption DEF Init
  <1>1. TypeOK
    <2>1. persisted \in BOOLEAN /\ revoked \in BOOLEAN /\ lost \in BOOLEAN /\ strayed \in BOOLEAN
      OBVIOUS
    <2>2. rotated \in [Task -> BOOLEAN]
      OBVIOUS
    <2>3. /\ op \in [Task -> {"none", "access", "force", "revoke"}] /\ at \in [Task -> Places]
          /\ got \in [Task -> 0..MaxTokens] /\ reply \in [Task -> 0..MaxTokens]
          /\ lock \in Task \cup {Free} /\ phase \in Phases
      BY DEF Places, Phases
    <2>4. /\ token \in 0..MaxTokens /\ refresh \in 0..MaxTokens /\ box \in 0..MaxTokens
          /\ store \in 1..MaxTokens /\ late \subseteq 1..MaxTokens /\ minted \in 1..MaxTokens
      OBVIOUS
    <2> QED
      BY ONLY <2>1, <2>2, <2>3, <2>4 DEF TypeOK
  <1>2. LockIsHeld /\ Waiting
    BY DEF LockIsHeld, Waiting
  <1>3. Durable /\ HoldsTheGrant /\ RevokedIsEmpty
    BY DEF Durable, HoldsTheGrant, RevokedIsEmpty
  <1> QED
    BY <1>1, <1>2, <1>3 DEF OAuthInv

\* The end of a call that changes nothing else keeps the invariant, as long as
\* no rotation goes with it.
LEMMA ReturnPreserves ==
    ASSUME OAuthInv, NEW t \in Task, NEW result \in 0..MaxTokens, at[t] # "idle",
           Return(t, result), UNCHANGED <<memory, store, minted, box>>,
           lost' = (lost \/ rotated[t]),
           late' \subseteq 1..MaxTokens, strayed' \in BOOLEAN,
           strayed => strayed', ~strayed' => late' = late
    PROVE  OAuthInv'
  <1> USE OAuthAssumption DEF OAuthInv, TypeOK, Places
  <1>1. \A u \in Task \ {t} :
           /\ op'[u] = op[u] /\ at'[u] = at[u] /\ reply'[u] = reply[u]
           /\ rotated'[u] = rotated[u]
    BY DEF Return
  <1>2. op'[t] = "none" /\ at'[t] = "idle" /\ reply'[t] = 0 /\ ~rotated'[t]
    BY DEF Return
  <1>3. /\ token' = token /\ phase' = phase /\ refresh' = refresh /\ persisted' = persisted
        /\ revoked' = revoked
    BY DEF memory
  <1>4. TypeOK'
    BY <1>3 DEF Return
  <1>5. LockIsHeld'
    BY <1>1, <1>2 DEF Return, LockIsHeld
  <1>6. Waiting'
    BY <1>1, <1>2, <1>3 DEF Waiting
  <1>7. Durable' /\ RevokedIsEmpty' /\ (refresh' = 0 => revoked') /\ (~strayed' => late' = {})
    BY <1>3 DEF Durable, RevokedIsEmpty
  <1>8. HoldsTheGrant'
    BY <1>1, <1>2, <1>3 DEF HoldsTheGrant, Rotating
  <1> QED
    BY <1>4, <1>5, <1>6, <1>7, <1>8

\* Suspending, with nothing else changed and no rotation on the wire.
LEMMA SuspendPreserves ==
    ASSUME OAuthInv, NEW t \in Task, at[t] # "idle", lock \in {t, Free},
           NEW place \in {"persist", "check", "exchange", "revoke"},
           ~revoked, place = "persist" => ~persisted,
           ~rotated[t],
           Suspend(t, place), UNCHANGED <<memory, outside>>
    PROVE  OAuthInv'
  <1> USE OAuthAssumption DEF OAuthInv, TypeOK, Places
  <1>1. \A u \in Task \ {t} :
           /\ op'[u] = op[u] /\ at'[u] = at[u] /\ reply'[u] = reply[u]
           /\ rotated'[u] = rotated[u]
    BY DEF Suspend
  <1>2. op'[t] = op[t] /\ at'[t] = place /\ reply'[t] = 0 /\ ~rotated'[t]
    BY DEF Suspend
  <1>3. /\ token' = token /\ phase' = phase /\ refresh' = refresh /\ persisted' = persisted
        /\ revoked' = revoked /\ store' = store /\ late' = late /\ strayed' = strayed /\ minted' = minted
        /\ box' = box /\ lost' = lost
    BY DEF memory, outside
  <1>4. TypeOK'
    BY <1>3 DEF Suspend
  <1>5. LockIsHeld'
    BY <1>1, <1>2 DEF Suspend, LockIsHeld
  <1>6. Waiting'
    BY <1>1, <1>2, <1>3 DEF Waiting
  <1>7. Durable' /\ RevokedIsEmpty' /\ (refresh' = 0 => revoked') /\ (~strayed' => late' = {})
    BY <1>3 DEF Durable, RevokedIsEmpty
  <1>8. HoldsTheGrant'
    BY <1>1, <1>2, <1>3 DEF HoldsTheGrant, Rotating
  <1> QED
    BY <1>4, <1>5, <1>6, <1>7, <1>8

\* The task past the mutex is the only one, so only it can be rotating.
LEMMA OneHolder ==
    ASSUME OAuthInv, NEW t \in Task, at[t] \notin {"idle", "lock"}
    PROVE  /\ lock = t
           /\ \A u \in Task \ {t} : at[u] \in {"idle", "lock"} /\ reply[u] = 0 /\ ~rotated[u]
  BY DEF OAuthInv, LockIsHeld, Waiting

\* Every step preserves OAuthInv.
LEMMA StepPreserves == OAuthInv /\ [Next]_vars => OAuthInv'
  <1> SUFFICES ASSUME OAuthInv, [Next]_vars PROVE OAuthInv'
    OBVIOUS
  <1> USE OAuthAssumption DEF OAuthInv, TypeOK, Places
  <1>1. ASSUME NEW t \in Task, NEW o \in {"access", "force", "revoke"}, Enter(t, o)
        PROVE  OAuthInv'
    <2>1. /\ op' = [op EXCEPT ![t] = o] /\ at' = [at EXCEPT ![t] = "lock"] /\ op[t] = "none"
          /\ UNCHANGED <<lock, got, reply, rotated, token, phase, refresh, persisted, revoked,
                         store, late, strayed, minted, box, lost>>
      BY <1>1 DEF Enter, memory, outside
    <2>2. TypeOK' /\ LockIsHeld' /\ Waiting'
      BY <2>1 DEF LockIsHeld, Waiting
    <2>3. HoldsTheGrant'
      BY <2>1 DEF HoldsTheGrant, Rotating, Waiting
    <2> QED
      BY <2>1, <2>2, <2>3 DEF Durable, RevokedIsEmpty
  <1>2. ASSUME NEW t \in Task,
               \/ AfterRevoke(t) \/ Hit(t) \/ ExchangeFail(t) \/ SaveFail(t) \/ DropSave(t)
               \/ RevokeFail(t) \/ DropQueued(t)
        PROVE  OAuthInv'
    <2>1. PICK result \in 0..MaxTokens : Return(t, result)
      BY <1>2 DEF AfterRevoke, Hit, ExchangeFail, SaveFail, DropSave, RevokeFail, DropQueued
    <2>2. /\ at[t] # "idle" /\ lost' = (lost \/ rotated[t])
          /\ late' \subseteq 1..MaxTokens /\ strayed' \in BOOLEAN
          /\ (strayed => strayed') /\ (~strayed' => late' = late)
          /\ UNCHANGED <<memory, store, minted, box>>
      <3>1. CASE DropSave(t)
        <4>1. /\ at[t] \in {"persist", "save"} /\ ~rotated[t]
              /\ UNCHANGED <<memory, store, minted, box, lost>>
          BY <3>1 DEF DropSave, Waiting
        <4>2. CASE reply[t] = 0 /\ late' = late \cup {refresh} /\ strayed' = TRUE
          <5>1. refresh \in 1..MaxTokens
            BY <4>1 DEF Waiting
          <5> QED
            BY <4>1, <4>2, <5>1
        <4>3. CASE UNCHANGED <<late, strayed>>
          BY <4>1, <4>3
        <4> QED
          BY <3>1, <4>2, <4>3 DEF DropSave
      <3>2. CASE ~DropSave(t)
        BY <1>2, <3>2 DEF AfterRevoke, Hit, Ready, Queued, ExchangeFail, SaveFail, RevokeFail,
                    DropQueued, Waiting, outside
      <3> QED
        BY ONLY <3>1, <3>2
    <2> QED
      BY <2>1, <2>2, ReturnPreserves
  <1>3. ASSUME NEW t \in Task,
               BeginPersist(t) \/ PersistFail(t) \/ BeginExchange(t) \/ BeginRevoke(t)
        PROVE  OAuthInv'
    <2>1. PICK place \in {"persist", "check", "exchange", "revoke"} :
             Suspend(t, place) /\ (place = "persist" => ~persisted)
      BY <1>3 DEF BeginPersist, PersistFail, BeginExchange, BeginRevoke
    <2>2. /\ at[t] \notin {"idle", "exchange"} /\ lock \in {t, Free} /\ ~revoked
          /\ UNCHANGED <<memory, outside>>
      BY <1>3 DEF BeginPersist, PersistFail, BeginExchange, BeginRevoke, Ready, Queued,
                  LockIsHeld, Waiting
    <2> QED
      BY <2>1, <2>2, SuspendPreserves DEF Waiting
  <1>4. ASSUME NEW t \in Task, PersistOk(t) \/ SaveOk(t) PROVE OAuthInv'
    <2>1. /\ at[t] \in {"persist", "save"} /\ reply[t] # 0 /\ persisted'
          /\ UNCHANGED <<token, phase, refresh, revoked, store, late, strayed, minted, box, lost>>
      BY <1>4 DEF PersistOk, SaveOk, outside
    <2>2. (~strayed => store = refresh) /\ ~rotated[t] /\ lock = t /\ ~revoked
      BY <2>1 DEF Waiting, LockIsHeld
    <2>3. /\ \A u \in Task \ {t} :
                /\ op'[u] = op[u] /\ at'[u] = at[u] /\ reply'[u] = reply[u]
                /\ rotated'[u] = rotated[u]
          /\ reply'[t] = 0 /\ ~rotated'[t]
          /\ \/ at'[t] = "check" /\ op'[t] = op[t] /\ lock' = t
             \/ at'[t] = "idle" /\ op'[t] = "none" /\ lock' = Free
          /\ op' \in [Task -> {"none", "access", "force", "revoke"}] /\ at' \in [Task -> Places]
          /\ got' \in [Task -> 0..MaxTokens] /\ reply' \in [Task -> 0..MaxTokens]
          /\ rotated' \in [Task -> BOOLEAN]
      <3>1. CASE PersistOk(t)
        BY <2>1, <2>2, <3>1 DEF PersistOk, Suspend
      <3>2. CASE SaveOk(t)
        BY <2>1, <2>2, <3>2 DEF SaveOk, Return
      <3> QED
        BY ONLY <1>4, <3>1, <3>2
    <2>4. LockIsHeld' /\ Waiting'
      BY <2>1, <2>2, <2>3, OneHolder DEF LockIsHeld, Waiting
    <2>5. HoldsTheGrant'
      BY <2>1, <2>2, <2>3, OneHolder DEF HoldsTheGrant, Rotating
    <2> QED
      BY <1>4, <2>1, <2>2, <2>3, <2>4, <2>5 DEF Durable, RevokedIsEmpty, PersistOk, SaveOk
  <1>5. ASSUME NEW t \in Task, ExchangeOk(t) PROVE OAuthInv'
    <2>1. /\ at[t] = "exchange" /\ reply[t] # 0 /\ token' = reply[t]
          /\ UNCHANGED <<revoked, store, late, strayed, minted, box, lost>>
      BY <1>5 DEF ExchangeOk, outside
    <2>2. lock = t /\ ~revoked
      BY <2>1 DEF Waiting, LockIsHeld
    <2>3. \A u \in Task \ {t} :
             /\ op'[u] = op[u] /\ at'[u] = at[u] /\ reply'[u] = reply[u]
             /\ rotated'[u] = rotated[u]
      BY <1>5 DEF ExchangeOk, Suspend, Return
    <2>4. CASE rotated[t]
      <3>1. refresh' = reply[t] /\ persisted' = FALSE /\ Suspend(t, "save") /\ phase' \in Phases
        BY <1>5, <2>4 DEF ExchangeOk
      <3>2. TypeOK'
        <4>1. persisted' \in BOOLEAN /\ revoked' \in BOOLEAN /\ lost' \in BOOLEAN
          BY <2>1, <3>1
        <4>2. refresh' \in 0..MaxTokens /\ token' \in 0..MaxTokens
          BY <2>1, <3>1
        <4>3. /\ lock' \in Task /\ at' \in [Task -> Places] /\ reply' \in [Task -> 0..MaxTokens]
              /\ rotated' \in [Task -> BOOLEAN] /\ UNCHANGED <<op, got>>
          BY <3>1 DEF Suspend
        <4> QED
          BY <2>1, <3>1, <4>1, <4>2, <4>3
      <3>3. op'[t] = op[t] /\ at'[t] = "save" /\ reply'[t] = 0 /\ ~rotated'[t] /\ lock' = t
        BY <3>1 DEF Suspend
      <3>4. LockIsHeld' /\ Waiting'
        BY <2>1, <2>2, <2>3, <3>1, <3>3, OneHolder DEF LockIsHeld, Waiting
      <3>5. HoldsTheGrant'
        BY <2>1, <2>2, <2>4, <3>1 DEF HoldsTheGrant, Waiting
      <3> QED
        BY <2>1, <2>2, <3>1, <3>2, <3>4, <3>5 DEF Durable, RevokedIsEmpty
    <2>5. CASE ~rotated[t]
      <3>1. UNCHANGED <<refresh, persisted>> /\ Return(t, reply[t]) /\ phase' \in Phases
        BY <1>5, <2>5 DEF ExchangeOk
      <3>2. TypeOK'
        BY <1>5, <2>1, <2>5, <3>1 DEF ExchangeOk, Return
      <3>3. op'[t] = "none" /\ at'[t] = "idle" /\ reply'[t] = 0 /\ ~rotated'[t] /\ lock' = Free
        BY <2>2, <3>1 DEF Return
      <3>4. LockIsHeld' /\ Waiting'
        BY <2>1, <2>2, <2>3, <3>1, <3>3, OneHolder DEF LockIsHeld, Waiting
      <3>5. HoldsTheGrant'
        BY <2>1, <2>2, <2>5, <3>1, OneHolder DEF HoldsTheGrant, Rotating
      <3> QED
        BY <2>1, <2>2, <3>1, <3>2, <3>4, <3>5 DEF Durable, RevokedIsEmpty
    <2> QED
      BY ONLY <2>4, <2>5
  <1>6. ASSUME NEW t \in Task, RevokeOk(t) PROVE OAuthInv'
    <2>1. /\ at[t] = "revoke" /\ reply[t] # 0 /\ revoked' /\ token' = 0 /\ refresh' = 0
          /\ Return(t, 0)
          /\ UNCHANGED <<phase, persisted, store, late, strayed, minted, box, lost>>
      BY <1>6 DEF RevokeOk, outside
    <2>2. box = 0 /\ lock = t
      BY <2>1 DEF Waiting, LockIsHeld
    <2>3. /\ \A u \in Task \ {t} :
                /\ op'[u] = op[u] /\ at'[u] = at[u] /\ reply'[u] = reply[u]
                /\ rotated'[u] = rotated[u]
          /\ op'[t] = "none" /\ at'[t] = "idle" /\ reply'[t] = 0 /\ ~rotated'[t] /\ lock' = Free
      BY <2>1, <2>2 DEF Return
    <2>4. TypeOK'
      BY <1>6, <2>1 DEF RevokeOk, Return
    <2>5. LockIsHeld' /\ Waiting'
      BY <2>1, <2>2, <2>3, OneHolder DEF LockIsHeld, Waiting
    <2> QED
      BY <2>1, <2>2, <2>4, <2>5 DEF Durable, HoldsTheGrant, RevokedIsEmpty
  <1>7. ASSUME NEW t \in Task, BoxExchanges(t) PROVE OAuthInv'
    <2>1. /\ at[t] = "exchange" /\ reply[t] = 0 /\ box # 0 /\ refresh = box
          /\ minted' = minted + 1 /\ minted' \in 1..MaxTokens
          /\ reply' = [reply EXCEPT ![t] = minted']
          /\ UNCHANGED <<lock, op, at, got, token, phase, refresh, persisted, revoked, store,
                         late, strayed, lost>>
      BY <1>7 DEF BoxExchanges, memory
    <2>2. PICK r \in BOOLEAN : /\ rotated' = [rotated EXCEPT ![t] = r]
                               /\ box' = IF r THEN minted' ELSE box
      BY <1>7 DEF BoxExchanges
    <2>3. TypeOK'
      BY <2>1, <2>2
    <2>4. LockIsHeld'
      BY <2>1 DEF LockIsHeld
    <2>5. Waiting'
      BY <2>1, <2>2, OneHolder DEF Waiting
    <2>6. HoldsTheGrant'
      BY <2>1, <2>2 DEF HoldsTheGrant, Rotating, Waiting
    <2>7. Durable' /\ RevokedIsEmpty'
      BY <2>1, <2>2 DEF Durable, RevokedIsEmpty, Waiting
    <2> QED
      BY <2>1, <2>3, <2>4, <2>5, <2>6, <2>7
  <1>8. ASSUME NEW t \in Task, BoxRevokes(t) PROVE OAuthInv'
    <2>1. /\ at[t] = "revoke" /\ reply[t] = 0 /\ box' = 0
          /\ reply' = [reply EXCEPT ![t] = refresh]
          /\ UNCHANGED <<lock, op, at, got, rotated, token, phase, refresh, persisted, revoked,
                         store, late, strayed, minted, lost>>
      BY <1>8 DEF BoxRevokes, memory
    <2>2. TypeOK' /\ LockIsHeld'
      BY <2>1 DEF LockIsHeld
    <2>3. Waiting'
      BY <2>1, OneHolder DEF Waiting
    <2> QED
      BY <2>1, <2>2, <2>3 DEF Durable, HoldsTheGrant, RevokedIsEmpty
  <1>9. ASSUME NEW t \in Task, StoreWrites(t) PROVE OAuthInv'
    <2>1. /\ at[t] \in {"persist", "save"} /\ reply[t] = 0 /\ store' = refresh
          /\ reply' = [reply EXCEPT ![t] = refresh]
          /\ UNCHANGED <<lock, op, at, got, rotated, token, phase, refresh, persisted, revoked,
                         late, strayed, minted, box, lost>>
      BY <1>9 DEF StoreWrites, memory
    <2>2. ~revoked /\ refresh \in 1..MaxTokens
      BY <2>1 DEF Waiting
    <2>3. TypeOK' /\ LockIsHeld'
      BY <2>1, <2>2 DEF LockIsHeld
    <2>4. Waiting'
      BY <2>1, OneHolder DEF Waiting
    <2>5. HoldsTheGrant'
      BY <2>1 DEF HoldsTheGrant, Rotating
    <2> QED
      BY <2>1, <2>3, <2>4, <2>5 DEF Durable, RevokedIsEmpty
  <1>10. ASSUME NEW k \in late, StoreWritesLate(k) PROVE OAuthInv'
    <2>1. /\ strayed /\ strayed' = strayed /\ store' = k /\ late' = late \ {k}
          /\ UNCHANGED <<lock, op, at, got, reply, rotated, token, phase, refresh, persisted,
                         revoked, minted, box, lost>>
      BY <1>10 DEF StoreWritesLate, memory
    <2>2. TypeOK' /\ LockIsHeld' /\ Waiting'
      BY <2>1 DEF LockIsHeld, Waiting
    <2> QED
      BY <2>1, <2>2 DEF Durable, HoldsTheGrant, Rotating, RevokedIsEmpty
  <1>11. CASE Age
    BY <1>11 DEF Age, Phases, outside, LockIsHeld, Waiting, Durable, HoldsTheGrant, Rotating,
                 RevokedIsEmpty
  <1>12. CASE Crash
    <2>1. persisted' /\ ~revoked' /\ persisted' \in BOOLEAN /\ revoked' \in BOOLEAN
      BY <1>12 DEF Crash
    <2>2. lost' \in BOOLEAN /\ (~lost' => box' = 0 \/ store' = box')
      BY <1>12 DEF Crash
    <2>3. rotated' \in [Task -> BOOLEAN] /\ \A t \in Task : ~rotated'[t]
      BY <1>12 DEF Crash
    <2>4. /\ op' \in [Task -> {"none", "access", "force", "revoke"}] /\ at' \in [Task -> Places]
          /\ got' \in [Task -> 0..MaxTokens] /\ reply' \in [Task -> 0..MaxTokens]
          /\ lock' = Free /\ phase' \in Phases
          /\ \A t \in Task : op'[t] = "none" /\ at'[t] = "idle" /\ reply'[t] = 0
      BY <1>12 DEF Crash, Phases
    <2>5. /\ token' = 0 /\ refresh' = store' /\ late' = {} /\ strayed' = FALSE
          /\ UNCHANGED <<store, minted, box>>
      BY <1>12 DEF Crash
    <2>6. TypeOK'
      <3>1. strayed' \in BOOLEAN
        BY <2>5
      <3>2. /\ token' \in 0..MaxTokens /\ refresh' \in 0..MaxTokens /\ box' \in 0..MaxTokens
            /\ store' \in 1..MaxTokens /\ late' \subseteq 1..MaxTokens /\ minted' \in 1..MaxTokens
        BY <2>5
      <3> QED
        BY ONLY <2>1, <2>2, <2>3, <2>4, <3>1, <3>2 DEF TypeOK
    <2>7. LockIsHeld' /\ Waiting'
      BY <2>1, <2>3, <2>4 DEF LockIsHeld, Waiting
    <2>8. Durable' /\ HoldsTheGrant' /\ RevokedIsEmpty' /\ (refresh' = 0 => revoked')
      BY <2>1, <2>2, <2>5 DEF Durable, HoldsTheGrant, RevokedIsEmpty
    <2> QED
      BY <2>5, <2>6, <2>7, <2>8
  <1>13. CASE UNCHANGED vars
    BY <1>13 DEF vars, memory, outside, LockIsHeld, Waiting, Durable, HoldsTheGrant, Rotating,
                 RevokedIsEmpty
  <1> QED
    BY <1>1, <1>2, <1>3, <1>4, <1>5, <1>6, <1>7, <1>8, <1>9, <1>10, <1>11, <1>12, <1>13
    DEF Next, CallStep

\* Whatever saves fail, are dropped or retried and wherever the process dies,
\* the source never takes a rotation for durable that the store does not have,
\* and it spends no refresh token twice.
THEOREM OAuthInvariant == Spec => []OAuthInv
  BY InitEstablishes, StepPreserves, PTL DEF Spec

\* A process that restarts while nothing is marked unpersisted resumes the
\* grant Box holds.
THEOREM RestartAlwaysResumes == Spec => []RestartResumes
  <1>1. OAuthInv => RestartResumes
    BY DEF OAuthInv, Durable, HoldsTheGrant, RestartResumes
  <1> QED
    BY <1>1, OAuthInvariant, PTL

\* No call returns a token between a successful revoke and a restart.
THEOREM RevokedIsFinal == Spec => RevokeIsFinal
  <1> DEFINE Quiet == revoked /\ revoked' =>
                \A t \in Task : at[t] # "idle" /\ at'[t] = "idle" => got'[t] = 0
  <1>1. OAuthInv /\ [Next]_vars => [Quiet]_vars
    <2> SUFFICES ASSUME OAuthInv, [Next]_vars, revoked, revoked', NEW t \in Task,
                        at[t] # "idle", at'[t] = "idle"
                 PROVE  got'[t] = 0 \/ UNCHANGED vars
      OBVIOUS
    <2> USE DEF OAuthInv, TypeOK, Waiting
    <2>1. at[t] = "lock" /\ \A u \in Task : at[u] \in {"idle", "lock"}
      BY DEF LockIsHeld, Places
    <2>2. ASSUME NEW u \in Task, CallStep(u) PROVE got'[t] = 0
      <3>1. AfterRevoke(u) \/ DropQueued(u)
        BY <2>1, <2>2 DEF CallStep, BeginPersist, PersistOk, PersistFail, Hit, BeginExchange, Ready,
                          ExchangeOk, ExchangeFail, SaveOk, SaveFail, DropSave, BeginRevoke,
                          RevokeOk, RevokeFail
      <3>2. Return(u, 0)
        BY <3>1 DEF AfterRevoke, DropQueued
      <3> QED
        BY <3>2, <2>1 DEF Return
    <2>3. ASSUME NEW u \in Task, NEW o \in {"access", "force", "revoke"}, Enter(u, o) PROVE FALSE
      BY <2>1, <2>3 DEF Enter
    <2>4. ASSUME NEW u \in Task, BoxExchanges(u) \/ BoxRevokes(u) \/ StoreWrites(u) PROVE FALSE
      BY <2>1, <2>4 DEF BoxExchanges, BoxRevokes, StoreWrites
    <2>5. ASSUME NEW k \in late, StoreWritesLate(k) PROVE FALSE
      BY <2>1, <2>5 DEF StoreWritesLate
    <2>6. CASE Age
      BY <2>1, <2>6 DEF Age
    <2>7. CASE Crash
      BY <2>7 DEF Crash
    <2> QED
      BY <2>2, <2>3, <2>4, <2>5, <2>6, <2>7 DEF Next
  <1> QED
    BY <1>1, OAuthInvariant, PTL DEF Spec, RevokeIsFinal

-----------------------------------------------------------------------------
\* LockedOAuth: Standing and Newest say what the call past the lock may rely on
\* through its requests and its saves.

LEMMA LockedInitEstablishes == LockedInit => LockedInv
  <1> SUFFICES ASSUME LockedInit PROVE LockedInv
    OBVIOUS
  <1> USE OAuthAssumption, LockedAssumption DEF LockedInit, Inside
  <1>1. LockedTypeOK
    <2>1. token \in {0, 1}
      OBVIOUS
    <2>2. fresh \in BOOLEAN /\ unsaved \in BOOLEAN
      OBVIOUS
    <2>3. kept \in BOOLEAN /\ revoked \in BOOLEAN /\ told \in BOOLEAN /\ stranded \in BOOLEAN
      BY Zenon
    <2> QED
      BY <2>1, <2>2, <2>3 DEF LockedTypeOK
  <1>4. OneInside
    BY DEF OneInside
  <1>2. KnowsUnsaved /\ Standing /\ RevokedEmpty
    BY DEF KnowsUnsaved, Standing, RevokedEmpty
  <1>3. Newest /\ NothingDropped /\ SpendsNewest
    BY DEF Newest, NothingDropped, SpendsNewest
  <1> QED
    BY <1>1, <1>2, <1>3, <1>4 DEF LockedInv

\* Every step of a call, of Box and of the clock preserves LockedInv, and so does a
\* crash.
LEMMA LockedStepPreserves == LockedInv /\ [LockedNext]_lockedVars => LockedInv'
  <1> SUFFICES ASSUME LockedInv, [LockedNext]_lockedVars PROVE LockedInv'
    OBVIOUS
  <1> USE OAuthAssumption, LockedAssumption DEF LockedInv, LockedTypeOK, OneInside,
              KnowsUnsaved, Standing, Newest, SpendsNewest,
              RevokedEmpty, NothingDropped, Inside, remembered, beyond,
              Goes, Stay, Returns
  <1>1. ASSUME NEW t \in Task, NEW o \in {"access", "force", "revoke"}, AskFor(t, o)
        PROVE LockedInv'
    BY <1>1 DEF AskFor
  <1>2. ASSUME NEW t \in Task, Lock(t) PROVE LockedInv'
    BY <1>2 DEF Lock
  <1>3. ASSUME NEW t \in Task, Entered(t) PROVE LockedInv'
    <2> USE <1>3 DEF Entered, MustSave, Proceed, CacheAnswers
    <2>1. LockedTypeOK'
      <3>1. /\ fresh' \in BOOLEAN /\ unsaved' \in BOOLEAN /\ revoked' \in BOOLEAN
            /\ told' \in BOOLEAN /\ stranded' \in BOOLEAN /\ kept' \in BOOLEAN
        OBVIOUS
      <3>2. store' \in 0..MaxTokens
        OBVIOUS
      <3>3. /\ at' \in [Task -> {"idle", "queued"} \cup Inside]
            /\ op' \in [Task -> {"none", "access", "force", "revoke"}]
            /\ got' \in [Task -> 0..MaxTokens]
        OBVIOUS
      <3> QED
        BY <3>1, <3>2, <3>3
    <2>2. OneInside'
      OBVIOUS
    <2>3. KnowsUnsaved'
      OBVIOUS
    <2>4. Standing' /\ RevokedEmpty'
      OBVIOUS
    <2>5. Newest'
      OBVIOUS
    <2>6. NothingDropped' /\ SpendsNewest'
      OBVIOUS
    <2> QED
      BY <2>1, <2>2, <2>3, <2>4, <2>5, <2>6
  <1>4. ASSUME NEW t \in Task, RetrySaves(t) PROVE LockedInv'
    <2> USE <1>4 DEF RetrySaves, Proceed, CacheAnswers
    <2>1. LockedTypeOK'
      <3>1. /\ fresh' \in BOOLEAN /\ unsaved' \in BOOLEAN /\ revoked' \in BOOLEAN
            /\ told' \in BOOLEAN /\ stranded' \in BOOLEAN /\ kept' \in BOOLEAN
        OBVIOUS
      <3>2. store' \in 0..MaxTokens
        OBVIOUS
      <3>3. /\ at' \in [Task -> {"idle", "queued"} \cup Inside]
            /\ op' \in [Task -> {"none", "access", "force", "revoke"}]
            /\ got' \in [Task -> 0..MaxTokens]
        OBVIOUS
      <3> QED
        BY <3>1, <3>2, <3>3
    <2>2. OneInside'
      OBVIOUS
    <2>3. KnowsUnsaved'
      OBVIOUS
    <2>4. Standing' /\ RevokedEmpty'
      OBVIOUS
    <2>5. Newest'
      OBVIOUS
    <2>6. NothingDropped' /\ SpendsNewest'
      OBVIOUS
    <2> QED
      BY <2>1, <2>2, <2>3, <2>4, <2>5, <2>6
  <1>5. ASSUME NEW t \in Task, RetryFails(t) PROVE LockedInv'
    <2> USE <1>5 DEF RetryFails, Proceed, CacheAnswers
    <2>1. LockedTypeOK'
      <3>1. /\ fresh' \in BOOLEAN /\ unsaved' \in BOOLEAN /\ revoked' \in BOOLEAN
            /\ told' \in BOOLEAN /\ stranded' \in BOOLEAN /\ kept' \in BOOLEAN
        OBVIOUS
      <3>2. store' \in 0..MaxTokens
        OBVIOUS
      <3>3. /\ at' \in [Task -> {"idle", "queued"} \cup Inside]
            /\ op' \in [Task -> {"none", "access", "force", "revoke"}]
            /\ got' \in [Task -> 0..MaxTokens]
        OBVIOUS
      <3> QED
        BY <3>1, <3>2, <3>3
    <2>2. OneInside'
      OBVIOUS
    <2>3. KnowsUnsaved'
      OBVIOUS
    <2>4. Standing' /\ RevokedEmpty'
      OBVIOUS
    <2>5. Newest'
      OBVIOUS
    <2>6. NothingDropped' /\ SpendsNewest'
      OBVIOUS
    <2> QED
      BY <2>1, <2>2, <2>3, <2>4, <2>5, <2>6
  <1>6. ASSUME NEW t \in Task, PostFails(t) PROVE LockedInv'
    <2> USE <1>6 DEF PostFails
    <2>1. LockedTypeOK'
      <3>1. /\ fresh' \in BOOLEAN /\ unsaved' \in BOOLEAN /\ revoked' \in BOOLEAN
            /\ told' \in BOOLEAN /\ stranded' \in BOOLEAN /\ kept' \in BOOLEAN
        OBVIOUS
      <3>2. store' \in 0..MaxTokens
        OBVIOUS
      <3>3. /\ at' \in [Task -> {"idle", "queued"} \cup Inside]
            /\ op' \in [Task -> {"none", "access", "force", "revoke"}]
            /\ got' \in [Task -> 0..MaxTokens]
        OBVIOUS
      <3> QED
        BY <3>1, <3>2, <3>3
    <2>2. OneInside'
      OBVIOUS
    <2>3. KnowsUnsaved'
      OBVIOUS
    <2>4. Standing' /\ RevokedEmpty'
      OBVIOUS
    <2>5. Newest'
      OBVIOUS
    <2>6. NothingDropped' /\ SpendsNewest'
      OBVIOUS
    <2> QED
      BY <2>1, <2>2, <2>3, <2>4, <2>5, <2>6
  <1>7. ASSUME NEW t \in Task, PostOk(t) PROVE LockedInv'
    <2> USE <1>7 DEF PostOk
    <2>1. LockedTypeOK'
      <3>1. /\ fresh' \in BOOLEAN /\ unsaved' \in BOOLEAN /\ revoked' \in BOOLEAN
            /\ told' \in BOOLEAN /\ stranded' \in BOOLEAN /\ kept' \in BOOLEAN
        OBVIOUS
      <3>2. store' \in 0..MaxTokens
        OBVIOUS
      <3>3. /\ at' \in [Task -> {"idle", "queued"} \cup Inside]
            /\ op' \in [Task -> {"none", "access", "force", "revoke"}]
            /\ got' \in [Task -> 0..MaxTokens]
        OBVIOUS
      <3> QED
        BY <3>1, <3>2, <3>3
    <2>2. OneInside'
      OBVIOUS
    <2>3. KnowsUnsaved'
      OBVIOUS
    <2>4. Standing' /\ RevokedEmpty'
      OBVIOUS
    <2>5. Newest'
      OBVIOUS
    <2>6. NothingDropped' /\ SpendsNewest'
      OBVIOUS
    <2> QED
      BY <2>1, <2>2, <2>3, <2>4, <2>5, <2>6
  <1>8. ASSUME NEW t \in Task, RotationSaves(t) PROVE LockedInv'
    <2> USE <1>8 DEF RotationSaves
    <2>1. LockedTypeOK'
      <3>1. /\ fresh' \in BOOLEAN /\ unsaved' \in BOOLEAN /\ revoked' \in BOOLEAN
            /\ told' \in BOOLEAN /\ stranded' \in BOOLEAN /\ kept' \in BOOLEAN
        OBVIOUS
      <3>2. store' \in 0..MaxTokens
        OBVIOUS
      <3>3. /\ at' \in [Task -> {"idle", "queued"} \cup Inside]
            /\ op' \in [Task -> {"none", "access", "force", "revoke"}]
            /\ got' \in [Task -> 0..MaxTokens]
        OBVIOUS
      <3> QED
        BY <3>1, <3>2, <3>3
    <2>2. OneInside'
      OBVIOUS
    <2>3. KnowsUnsaved'
      OBVIOUS
    <2>4. Standing' /\ RevokedEmpty'
      OBVIOUS
    <2>5. Newest'
      OBVIOUS
    <2>6. NothingDropped' /\ SpendsNewest'
      OBVIOUS
    <2> QED
      BY <2>1, <2>2, <2>3, <2>4, <2>5, <2>6
  <1>9. ASSUME NEW t \in Task, RotationFails(t) PROVE LockedInv'
    <2> USE <1>9 DEF RotationFails
    <2>1. LockedTypeOK'
      <3>1. /\ fresh' \in BOOLEAN /\ unsaved' \in BOOLEAN /\ revoked' \in BOOLEAN
            /\ told' \in BOOLEAN /\ stranded' \in BOOLEAN /\ kept' \in BOOLEAN
        OBVIOUS
      <3>2. store' \in 0..MaxTokens
        OBVIOUS
      <3>3. /\ at' \in [Task -> {"idle", "queued"} \cup Inside]
            /\ op' \in [Task -> {"none", "access", "force", "revoke"}]
            /\ got' \in [Task -> 0..MaxTokens]
        OBVIOUS
      <3> QED
        BY <3>1, <3>2, <3>3
    <2>2. OneInside'
      OBVIOUS
    <2>3. KnowsUnsaved'
      OBVIOUS
    <2>4. Standing' /\ RevokedEmpty'
      OBVIOUS
    <2>5. Newest'
      OBVIOUS
    <2>6. NothingDropped' /\ SpendsNewest'
      OBVIOUS
    <2> QED
      BY <2>1, <2>2, <2>3, <2>4, <2>5, <2>6
  <1>10. ASSUME NEW t \in Task, RevokeBegins(t) PROVE LockedInv'
    BY <1>10 DEF RevokeBegins
  <1>11. ASSUME NEW t \in Task, RevokeConfirmed(t) PROVE LockedInv'
    BY <1>11 DEF RevokeConfirmed
  <1>12. ASSUME NEW t \in Task, RevokeFails(t) PROVE LockedInv'
    BY <1>12 DEF RevokeFails
  <1>13. ASSUME NEW t \in Task, BoxRotates(t) PROVE LockedInv'
    BY <1>13 DEF BoxRotates
  <1>14. ASSUME NEW t \in Task, BoxEndsGrant(t) PROVE LockedInv'
    BY <1>14 DEF BoxEndsGrant
  <1>15. CASE TimePasses
    BY <1>15 DEF TimePasses
  <1>16. CASE Restart
    <2> USE <1>16 DEF Restart
    <2>1. LockedTypeOK'
      <3>1. /\ fresh' \in BOOLEAN /\ unsaved' \in BOOLEAN /\ revoked' \in BOOLEAN
            /\ told' \in BOOLEAN /\ stranded' \in BOOLEAN /\ kept' \in BOOLEAN
        OBVIOUS
      <3>2. store' \in 0..MaxTokens
        OBVIOUS
      <3>3. /\ at' \in [Task -> {"idle", "queued"} \cup Inside]
            /\ op' \in [Task -> {"none", "access", "force", "revoke"}]
            /\ got' \in [Task -> 0..MaxTokens]
        OBVIOUS
      <3> QED
        BY <3>1, <3>2, <3>3
    <2>2. OneInside'
      OBVIOUS
    <2>3. KnowsUnsaved'
      OBVIOUS
    <2>4. Standing' /\ RevokedEmpty'
      OBVIOUS
    <2>5. Newest'
      OBVIOUS
    <2>6. NothingDropped' /\ SpendsNewest'
      OBVIOUS
    <2> QED
      BY <2>1, <2>2, <2>3, <2>4, <2>5, <2>6
  <1>17. CASE UNCHANGED lockedVars
    BY <1>17 DEF lockedVars
  <1> QED
    BY ONLY [LockedNext]_lockedVars, <1>1, <1>2, <1>3, <1>4, <1>5, <1>6, <1>7, <1>8, <1>9, <1>10, <1>11,
            <1>12, <1>13, <1>14, <1>15, <1>16, <1>17
    DEF LockedNext, Step, Moves, Ask

\* One call at a time is past the lock; until an answer or a crash loses the token Box
\* rotated to, that token is in memory or in an answer being waited for, and the one
\* spent; Java's is durable first, and what is not marked unsaved is in the store.
THEOREM LockedInvariant == LockedSpec => []LockedInv
  BY LockedInitEstablishes, LockedStepPreserves, PTL DEF LockedSpec

-----------------------------------------------------------------------------
\* Also while calls are under way: the newest rotation is in the store, being saved,
\* or was reported.
Reported == kept /\ ~revoked => store = refresh \/ told \/ \E t \in Task : at[t] = "rotating"

LEMMA ReportedStep == LockedInv /\ Reported /\ [LockedNext]_lockedVars => Reported'
  <1> SUFFICES ASSUME LockedInv, Reported, [LockedNext]_lockedVars PROVE Reported'
    OBVIOUS
  <1> USE DEF LockedInv, LockedTypeOK, OneInside, Standing, Reported,
              Inside, remembered, beyond,
              Goes, Stay, Returns
  <1>1. ASSUME NEW t \in Task, NEW o \in {"access", "force", "revoke"}, AskFor(t, o)
        PROVE Reported'
    BY <1>1 DEF AskFor
  <1>2. ASSUME NEW t \in Task, Lock(t) PROVE Reported'
    BY <1>2 DEF Lock
  <1>3. ASSUME NEW t \in Task, Entered(t) \/ RevokeBegins(t) PROVE Reported'
    BY <1>3 DEF Entered, RevokeBegins, Proceed
  <1>4. ASSUME NEW t \in Task, RetrySaves(t) \/ RetryFails(t) PROVE Reported'
    BY <1>4 DEF RetrySaves, RetryFails, Proceed
  <1>5. ASSUME NEW t \in Task, PostFails(t) \/ PostOk(t) PROVE Reported'
    BY <1>5 DEF PostFails, PostOk
  <1>6. ASSUME NEW t \in Task, RotationSaves(t) \/ RotationFails(t) PROVE Reported'
    BY <1>6 DEF RotationSaves, RotationFails
  <1>7. ASSUME NEW t \in Task, RevokeConfirmed(t) \/ RevokeFails(t) PROVE Reported'
    BY <1>7 DEF RevokeConfirmed, RevokeFails
  <1>8. ASSUME NEW t \in Task, BoxRotates(t) \/ BoxEndsGrant(t) PROVE Reported'
    BY <1>8 DEF BoxRotates, BoxEndsGrant
  <1>9. CASE TimePasses
    BY <1>9 DEF TimePasses
  <1>10. CASE Restart
    BY <1>10 DEF Restart
  <1>11. CASE UNCHANGED lockedVars
    BY <1>11 DEF lockedVars
  <1> QED
    BY ONLY [LockedNext]_lockedVars, <1>1, <1>2, <1>3, <1>4, <1>5, <1>6, <1>7, <1>8, <1>9, <1>10, <1>11
    DEF LockedNext, Step, Moves, Ask

\* A rotation that is not durable was reported by a call that failed.
THEOREM RotationIsReported == LockedSpec => []RotationReported
  <1>1. LockedInit => Reported
    BY DEF LockedInit, Reported
  <1>2. LockedInv /\ Reported => RotationReported
    BY OAuthAssumption DEF LockedInv, OneInside, Reported, RotationReported, Inside
  <1> QED
    BY <1>1, <1>2, ReportedStep, LockedInvariant, PTL DEF LockedSpec
====
