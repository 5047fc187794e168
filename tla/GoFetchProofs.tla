---- MODULE GoFetchProofs ----
(***************************************************************************)
(* Proofs about the Go token cache and about GoFetch, which composes it,   *)
(* for any number of goroutines, tokens and retries.                       *)
(*                                                                         *)
(* The mutex is held by the one goroutine whose request is on the wire     *)
(* (MutexGuardsRequest), so what a request was sent for still holds when   *)
(* it is answered; that makes CacheInv inductive, and every call atomic.   *)
(* Fetch drives the source through its calls alone, so this carries over;  *)
(* FetchInv adds what Fetch knows where it is blocked.  A write's or a     *)
(* stream's retry follows only an answer that leaves it undone.            *)
(***************************************************************************)
EXTENDS GoFetch, TLAPS

LEMMA CacheInitEstablishes == CacheInit => CacheInv
  BY TokenCacheAssumption
  DEF CacheInit, CacheInv, CacheTypeOK, CallKinds, MutexGuardsRequest, Newer, RevokedGone, Phases

\* Every step of a call, of Box and of the clock preserves CacheInv.
LEMMA CacheStepPreserves == CacheInv /\ [CacheNext]_cacheVars => CacheInv'
  <1> SUFFICES ASSUME CacheInv, [CacheNext]_cacheVars PROVE CacheInv'
    OBVIOUS
  <1> USE TokenCacheAssumption
          DEF CacheInv, CacheTypeOK, CallKinds, MutexGuardsRequest, Newer, RevokedGone,
              Fresh, Phases
  <1>1. ASSUME NEW t \in Task, NEW o \in {"access", "revoke"}, Enter(t, o) PROVE CacheInv'
    BY <1>1 DEF Enter
  <1>2. ASSUME NEW t \in Task, Hit(t) PROVE CacheInv'
    BY <1>2 DEF Hit, Locks, Return
  <1>3. ASSUME NEW t \in Task, BeginRefresh(t) PROVE CacheInv'
    BY <1>3 DEF BeginRefresh, Locks, Post
  <1>4. ASSUME NEW t \in Task, RefreshOk(t) PROVE CacheInv'
    BY <1>4 DEF RefreshOk, Return
  <1>5. ASSUME NEW t \in Task, RefreshFail(t) PROVE CacheInv'
    BY <1>5 DEF RefreshFail, Return
  <1>6. ASSUME NEW t \in Task, RevokeEmpty(t) PROVE CacheInv'
    BY <1>6 DEF RevokeEmpty, Locks, Return
  <1>7. ASSUME NEW t \in Task, BeginRevoke(t) PROVE CacheInv'
    BY <1>7 DEF BeginRevoke, Locks, Post
  <1>8. ASSUME NEW t \in Task, RevokeOk(t) PROVE CacheInv'
    BY <1>8 DEF RevokeOk, Return
  <1>9. ASSUME NEW t \in Task, RevokeFail(t) PROVE CacheInv'
    BY <1>9 DEF RevokeFail, Return
  <1>10. ASSUME NEW t \in Task, BoxMints(t) PROVE CacheInv'
    BY <1>10 DEF BoxMints
  <1>11. ASSUME NEW t \in Task, BoxRevokes(t) PROVE CacheInv'
    BY <1>11 DEF BoxRevokes
  <1>12. ASSUME NEW k \in live, BoxRejects(k) PROVE CacheInv'
    BY <1>12 DEF BoxRejects
  <1>13. CASE Age
    BY <1>13 DEF Age
  <1>14. CASE UNCHANGED cacheVars
    BY <1>14 DEF cacheVars
  <1> QED
    BY <1>1, <1>2, <1>3, <1>4, <1>5, <1>6, <1>7, <1>8, <1>9, <1>10, <1>11, <1>12, <1>13, <1>14
    DEF CacheNext, CallStep, BoxStep

\* The mutex guards every request, and a revoked token stays out of the cache, in
\* every reachable state.
THEOREM CacheInvariant == CacheSpec => []CacheInv
  BY CacheInitEstablishes, CacheStepPreserves, PTL DEF CacheSpec

\* No step of the source forgets a token that Box still accepts: a failed Revoke
\* keeps it.
THEOREM LiveTokensAreKept == CacheSpec => NeverForgetsLive
  <1>1. CacheInv /\ [CacheNext]_cacheVars
          => [token' = 0 /\ token # 0 => phase = "expired" \/ token \in revoked']_cacheVars
    <2> SUFFICES ASSUME CacheInv, CacheNext, token' = 0, token # 0
                 PROVE  phase = "expired" \/ token \in revoked'
      OBVIOUS
    <2>1. CASE \E t \in Task : RefreshOk(t)
      BY <2>1 DEF RefreshOk
    <2>2. CASE \E t \in Task : RevokeEmpty(t) \/ RevokeOk(t)
      BY <2>2 DEF RevokeEmpty, RevokeOk
    <2> QED
      BY <2>1, <2>2
      DEF CacheNext, CallStep, BoxStep, Enter, Hit, BeginRefresh, RefreshFail, BeginRevoke,
          RevokeFail, BoxMints, BoxRevokes, BoxRejects, Age, Post
  <1>2. QED
    BY <1>1, CacheInvariant, PTL DEF CacheSpec, NeverForgetsLive

-----------------------------------------------------------------------------
LEMMA AtomicInit == CacheInit => Atomic!Init
  BY DEF CacheInit, Atomic!Init

\* A call takes effect as it returns; entering the wait for the mutex, the request
\* and whatever Box does meanwhile are invisible to the atomic source.
LEMMA AtomicStep == CacheInv /\ [CacheNext]_cacheVars => [Atomic!Next]_(Atomic!vars)
  <1> SUFFICES ASSUME CacheInv, [CacheNext]_cacheVars PROVE [Atomic!Next]_(Atomic!vars)
    OBVIOUS
  <1> USE TokenCacheAssumption
          DEF CacheInv, CacheTypeOK, Return, Atomic!Finish, Phases, Atomic!Phases
  <1>1. ASSUME NEW t \in Task, NEW o \in {"access", "revoke"}, Enter(t, o) PROVE Atomic!Ask(t, o)
    BY <1>1 DEF Enter, Atomic!Ask
  <1>2. ASSUME NEW t \in Task, Hit(t) PROVE Atomic!Hand(t)
    BY <1>2 DEF Hit, Locks, Fresh, Atomic!Hand, Atomic!Usable, Atomic!Rejects
  <1>3. ASSUME NEW t \in Task, RefreshOk(t) PROVE Atomic!Renew(t)
    <2>1. op[t] = "access" /\ ~Fresh
      BY <1>3 DEF RefreshOk, MutexGuardsRequest
    <2>2. reply[t] \in (1..MaxTokens) \ revoked /\ reply[t] > token
      BY <1>3 DEF RefreshOk, Newer
    <2> QED
      BY <1>3, <2>1, <2>2 DEF RefreshOk, Fresh, Atomic!Renew, Atomic!Usable
  <1>4. ASSUME NEW t \in Task, RefreshFail(t) \/ RevokeFail(t) PROVE Atomic!Fail(t)
    BY <1>4 DEF RefreshFail, RevokeFail, Atomic!Fail
  <1>5. ASSUME NEW t \in Task, RevokeEmpty(t) PROVE Atomic!Revoke(t)
    BY <1>5 DEF RevokeEmpty, Locks, Atomic!Revoke
  <1>6. ASSUME NEW t \in Task, RevokeOk(t) PROVE Atomic!Revoke(t)
    <2>1. {token} \ {0} = {token}
      BY <1>6 DEF RevokeOk, Newer
    <2> QED
      BY <1>6, <2>1 DEF RevokeOk, Atomic!Revoke
  <1>7. ASSUME Age PROVE Atomic!Age
    BY <1>7 DEF Age, Atomic!Age
  <1>8. ASSUME NEW t \in Task, BeginRefresh(t) \/ BeginRevoke(t) PROVE UNCHANGED Atomic!vars
    BY <1>8 DEF BeginRefresh, BeginRevoke, Post, Atomic!vars
  <1>9. ASSUME NEW t \in Task, BoxMints(t) \/ BoxRevokes(t) PROVE UNCHANGED Atomic!vars
    BY <1>9 DEF BoxMints, BoxRevokes, Atomic!vars
  <1>10. ASSUME NEW k \in live, BoxRejects(k) PROVE UNCHANGED Atomic!vars
    BY <1>10 DEF BoxRejects, Atomic!vars
  <1>11. CASE UNCHANGED cacheVars
    BY <1>11 DEF cacheVars, Atomic!vars
  <1> QED
    BY <1>1, <1>2, <1>3, <1>4, <1>5, <1>6, <1>7, <1>8, <1>9, <1>10, <1>11
    DEF CacheNext, CallStep, BoxStep, Atomic!Next

\* The source that holds a mutex across its requests implements the atomic one.
THEOREM CacheIsAtomic == CacheSpec => Linearizes
  BY AtomicInit, AtomicStep, CacheInvariant, PTL DEF CacheSpec, Linearizes, Atomic!Spec

-----------------------------------------------------------------------------
\* Every step of Fetch is a step of the token source, or leaves it alone.
LEMMA FetchDrivesCache == [Next]_vars => [CacheNext]_cacheVars
  <1> SUFFICES ASSUME [Next]_vars PROVE [CacheNext]_cacheVars
    OBVIOUS
  <1>1. ASSUME NEW t \in Task, \E i, s \in BOOLEAN : Fetch(t, i, s) PROVE CacheNext
    BY <1>1 DEF Fetch, CacheNext
  <1>2. ASSUME NEW t \in Task, RevokeToken(t) \/ Refresh401(t) PROVE CacheNext
    BY <1>2 DEF RevokeToken, Refresh401, CacheNext
  <1>3. ASSUME NEW t \in Task, CallStep(t) PROVE CacheNext
    BY <1>3 DEF CacheNext
  <1>4. ASSUME NEW t \in Task,
               \/ TokenArrives(t) \/ TransportError(t) \/ BodyError(t) \/ RetryStatus(t)
               \/ Answered(t) \/ CancelWait(t) \/ Resend(t) \/ BoxServes(t)
        PROVE UNCHANGED cacheVars
    BY <1>4 DEF TokenArrives, TransportError, BodyError, RetryStatus, Answered, CancelWait,
                Resend, BoxServes, BackOff
  <1>5. CASE BoxStep
    BY <1>5 DEF CacheNext
  <1>6. CASE UNCHANGED vars
    BY <1>6 DEF vars
  <1> QED
    BY <1>1, <1>2, <1>3, <1>4, <1>5, <1>6 DEF Next, FetchStep

\* The source under Fetch satisfies everything proved of the source alone.
THEOREM FetchUsesCache == Spec => CacheSpec
  BY FetchDrivesCache, PTL DEF Spec, Init, CacheSpec

LEMMA FetchInitEstablishes == Init => FetchInv
  BY TokenCacheAssumption, MaxRetriesAssumption
  DEF Init, CacheInit, FetchInv, FetchTypeOK, Locals, WriteAtMostOnce, RefusedWriteUndone,
      PendingWriteUndone, StreamSentOnce, Statuses

\* A Fetch that returns forgets its locals.
LEMMA FinishPreserves ==
    ASSUME FetchInv, NEW t \in Task, op[t] = "none", Finish(t), UNCHANGED cacheVars
    PROVE  FetchInv'
  <1>1. FetchTypeOK'
    BY TokenCacheAssumption, MaxRetriesAssumption DEF FetchInv, FetchTypeOK, Finish, Statuses
  <1>2. \A u \in Task \ {t} :
           /\ stage'[u] = stage[u] /\ idempotent'[u] = idempotent[u] /\ stream'[u] = stream[u]
           /\ attempt'[u] = attempt[u] /\ refreshed'[u] = refreshed[u] /\ bearer'[u] = bearer[u]
           /\ answer'[u] = answer[u] /\ sends'[u] = sends[u] /\ commits'[u] = commits[u]
    BY DEF FetchInv, FetchTypeOK, Finish
  <1>3. /\ stage'[t] = "idle" /\ idempotent'[t] /\ ~stream'[t] /\ attempt'[t] = 0
        /\ ~refreshed'[t] /\ sends'[t] = 0 /\ commits'[t] = 0
    BY DEF FetchInv, FetchTypeOK, Finish
  <1>4. op' = op /\ got' = got
    BY DEF cacheVars
  <1>5. Locals'
    BY <1>2, <1>3, <1>4 DEF FetchInv, Locals
  <1>6. WriteAtMostOnce' /\ RefusedWriteUndone' /\ PendingWriteUndone' /\ StreamSentOnce'
    BY <1>2, <1>3, <1>4
    DEF FetchInv, WriteAtMostOnce, RefusedWriteUndone, PendingWriteUndone, StreamSentOnce
  <1> QED
    BY <1>1, <1>5, <1>6 DEF FetchInv

\* An attempt that goes out, with the token that the last call returned.
LEMMA AttemptPreserves ==
    ASSUME CacheInv, FetchInv, NEW t \in Task, NEW n \in {0, 1}, Attempt(t, n), UNCHANGED cacheVars,
           \/ stage[t] = "backoff" /\ n = 1
           \/ /\ stage[t] = "token" /\ op[t] = "none" /\ got[t] # 0
              /\ n = IF refreshed[t] THEN 1 ELSE 0
    PROVE  FetchInv'
  <1> USE TokenCacheAssumption, MaxRetriesAssumption
      DEF CacheInv, CacheTypeOK, FetchInv, FetchTypeOK, Locals, WriteAtMostOnce,
          RefusedWriteUndone, PendingWriteUndone, StreamSentOnce, Statuses
  <1>1. op[t] = "none"
    OBVIOUS
  <1>2. CASE stream[t] /\ sends[t] > 0
    BY <1>1, <1>2, FinishPreserves DEF Attempt
  <1>3. CASE ~(stream[t] /\ sends[t] > 0)
    <2>1. sends[t] = attempt[t] + n /\ attempt[t] + n <= MaxRetries /\ got[t] # 0
      OBVIOUS
    <2>2. /\ stage' = [stage EXCEPT ![t] = "sent"]
          /\ attempt' = [attempt EXCEPT ![t] = attempt[t] + n]
          /\ sends' = [sends EXCEPT ![t] = sends[t] + 1]
          /\ bearer' = [bearer EXCEPT ![t] = got[t]]
          /\ UNCHANGED <<idempotent, stream, refreshed, answer, commits, refused, op, got>>
      BY <1>3 DEF Attempt, cacheVars
    <2>3. FetchTypeOK'
      BY <2>1, <2>2
    <2>4. Locals'
      BY <1>1, <2>1, <2>2
    <2>5. WriteAtMostOnce' /\ RefusedWriteUndone' /\ PendingWriteUndone'
      BY <2>2
    <2>6. StreamSentOnce'
      BY <1>3, <2>1, <2>2
    <2> QED
      BY <2>3, <2>4, <2>5, <2>6
  <1> QED
    BY <1>2, <1>3

\* Every step preserves FetchInv, given the token source's own invariant.
LEMMA FetchStepPreserves == CacheInv /\ FetchInv /\ [Next]_vars => FetchInv'
  <1> SUFFICES ASSUME CacheInv, FetchInv, [Next]_vars PROVE FetchInv'
    OBVIOUS
  <1> USE TokenCacheAssumption, MaxRetriesAssumption
          DEF CacheInv, CacheTypeOK, CallKinds, FetchInv, FetchTypeOK, Locals, WriteAtMostOnce,
              RefusedWriteUndone, PendingWriteUndone, StreamSentOnce, Statuses
  <1>1. ASSUME NEW t \in Task, NEW i \in BOOLEAN, NEW s \in BOOLEAN, Fetch(t, i, s)
        PROVE FetchInv'
    <2>1. FetchTypeOK'
      BY <1>1 DEF Fetch
    <2>2. \A u \in Task \ {t} :
             /\ stage'[u] = stage[u] /\ idempotent'[u] = idempotent[u] /\ stream'[u] = stream[u]
             /\ op'[u] = op[u]
      BY <1>1 DEF Fetch, Enter
    <2>3. /\ stage'[t] = "token" /\ op'[t] = "access" /\ stage[t] = "idle"
          /\ UNCHANGED <<attempt, refreshed, bearer, answer, sends, commits, refused, got>>
      BY <1>1 DEF Fetch, Enter
    <2>4. attempt[t] = 0 /\ sends[t] = 0 /\ commits[t] = 0 /\ ~refreshed[t]
      BY <2>3
    <2>5. Locals'
      BY <2>2, <2>3, <2>4
    <2>6. WriteAtMostOnce' /\ RefusedWriteUndone' /\ PendingWriteUndone'
      <3>1. commits' = commits /\ answer' = answer
        BY <2>3
      <3>2. \A u \in Task \ {t} : stage'[u] = stage[u] /\ idempotent'[u] = idempotent[u]
        BY <2>2
      <3>3. stage'[t] = "token" /\ commits[t] = 0
        BY <2>3, <2>4
      <3> QED
        BY ONLY FetchInv, <3>1, <3>2, <3>3
        DEF FetchInv, FetchTypeOK, WriteAtMostOnce, RefusedWriteUndone, PendingWriteUndone
    <2>7. StreamSentOnce'
      BY <2>2, <2>3, <2>4
    <2> QED
      BY <2>1, <2>5, <2>6, <2>7
  <1>2. ASSUME NEW t \in Task, TokenArrives(t) PROVE FetchInv'
    <2>1. CASE got[t] = 0
      BY <1>2, <2>1, FinishPreserves DEF TokenArrives
    <2>2. CASE got[t] # 0
      BY <1>2, <2>2, AttemptPreserves DEF TokenArrives
    <2> QED
      BY <2>1, <2>2
  <1>3. ASSUME NEW t \in Task, BoxServes(t) PROVE FetchInv'
    BY <1>3 DEF BoxServes, cacheVars
  <1>4. ASSUME NEW t \in Task, TransportError(t) PROVE FetchInv'
    <2>1. CASE attempt[t] = MaxRetries \/ ~idempotent[t]
      BY <1>4, <2>1, FinishPreserves DEF TransportError
    <2>2. CASE ~(attempt[t] = MaxRetries \/ ~idempotent[t])
      <3>1. attempt[t] < MaxRetries /\ idempotent[t]
        BY <2>2
      <3>2. /\ stage' = [stage EXCEPT ![t] = "backoff"]
            /\ UNCHANGED <<idempotent, stream, attempt, refreshed, bearer, answer, sends, commits,
                           refused, op, got>>
        BY <1>4, <2>2 DEF TransportError, BackOff, cacheVars
      <3>3. stage[t] \in {"sent", "served"}
        BY <1>4 DEF TransportError
      <3>4. FetchTypeOK' /\ Locals'
        BY <3>1, <3>2, <3>3
      <3>5. WriteAtMostOnce' /\ RefusedWriteUndone' /\ PendingWriteUndone' /\ StreamSentOnce'
        BY <3>1, <3>2
      <3> QED
        BY <3>4, <3>5
    <2> QED
      BY ONLY <2>1, <2>2
  <1>5. ASSUME NEW t \in Task, BodyError(t) \/ Answered(t) \/ CancelWait(t) PROVE FetchInv'
    BY <1>5, FinishPreserves DEF BodyError, Answered, CancelWait
  <1>6. ASSUME NEW t \in Task, Refresh401(t) PROVE FetchInv'
    BY <1>6 DEF Refresh401, Refreshable, Enter
  <1>7. ASSUME NEW t \in Task, RetryStatus(t) PROVE FetchInv'
    BY <1>7 DEF RetryStatus, Retries, Refreshable, Retriable, BackOff, cacheVars
  <1>8. ASSUME NEW t \in Task, Resend(t) PROVE FetchInv'
    BY <1>8, AttemptPreserves DEF Resend
  <1>9. ASSUME NEW t \in Task, RevokeToken(t) PROVE FetchInv'
    BY <1>9 DEF RevokeToken, Enter, fetchVars
  <1>10. ASSUME NEW t \in Task, CallStep(t), UNCHANGED fetchVars PROVE FetchInv'
    <2>1. CASE Hit(t)
      BY <1>10, <2>1 DEF Hit, Locks, Return, fetchVars
    <2>2. CASE RefreshOk(t) \/ RefreshFail(t)
      BY <1>10, <2>2 DEF RefreshOk, RefreshFail, Return, fetchVars
    <2>3. CASE RevokeEmpty(t) \/ RevokeOk(t) \/ RevokeFail(t)
      BY <1>10, <2>3 DEF RevokeEmpty, RevokeOk, RevokeFail, Locks, Return, fetchVars
    <2>4. CASE BeginRefresh(t) \/ BeginRevoke(t)
      BY <1>10, <2>4 DEF BeginRefresh, BeginRevoke, Post, fetchVars
    <2> QED
      BY <1>10, <2>1, <2>2, <2>3, <2>4 DEF CallStep
  <1>11. CASE BoxStep /\ UNCHANGED fetchVars
    BY <1>11 DEF BoxStep, BoxMints, BoxRevokes, BoxRejects, Age, fetchVars
  <1>12. CASE UNCHANGED vars
    BY <1>12 DEF vars, cacheVars, fetchVars
  <1> QED
    BY ONLY [Next]_vars, <1>1, <1>2, <1>3, <1>4, <1>5, <1>6, <1>7, <1>8, <1>9, <1>10, <1>11, <1>12
    DEF Next, FetchStep

\* However its attempts fail, a write is carried out at most once and a stream sent
\* at most once, and the answer of a refused write can be relied on.
THEOREM FetchInvariant == Spec => []FetchInv
  BY FetchInitEstablishes, FetchStepPreserves, FetchUsesCache, CacheInvariant, PTL DEF Spec

\* A write is carried out at most once.
THEOREM WritesAreNotRepeated == Spec => []WriteAtMostOnce
  <1>1. FetchInv => WriteAtMostOnce
    BY DEF FetchInv
  <1> QED
    BY <1>1, FetchInvariant, PTL
====
