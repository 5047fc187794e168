---- MODULE RustFetchProofs ----
(***************************************************************************)
(* Proofs about the Rust token cache and about RustFetch, which composes   *)
(* it, for any number of tasks, tokens and retries.                        *)
(*                                                                         *)
(* CacheInv is inductive: the lock tells which single task has a request   *)
(* on the wire (LockIsPosting), so nothing but the clock and Box touches   *)
(* the cached token until that request ends, and what it brings back is    *)
(* newer than the token it replaces (Newer).  A fetch only drives the      *)
(* token source through its calls, so CacheInv carries over; FetchInv adds *)
(* what a fetch knows at each await.                                       *)
(***************************************************************************)
EXTENDS RustFetch, TLAPS

\* Nothing has been cached, minted or revoked when the source is built.
LEMMA CacheInitEstablishes == CacheInit => CacheInv
  <1> SUFFICES ASSUME CacheInit PROVE CacheInv
    OBVIOUS
  <1> USE TokenCacheAssumption DEF CacheInit
  <1>1. TypeOK
    BY DEF TypeOK, Phases
  <1>2. LockIsPosting
    BY DEF LockIsPosting
  <1>3. CallKinds /\ Newer
    BY DEF CallKinds, Newer, Posting
  <1>4. SingleFlight
    BY DEF SingleFlight, Posting
  <1>5. RevokedGone
    BY DEF RevokedGone
  <1> QED
    BY <1>1, <1>2, <1>3, <1>4, <1>5 DEF CacheInv

\* Every step of the source, of Box and of the clock preserves CacheInv.
LEMMA CacheStepPreserves == CacheInv /\ [CacheNext]_cacheVars => CacheInv'
  <1> SUFFICES ASSUME CacheInv, [CacheNext]_cacheVars PROVE CacheInv'
    OBVIOUS
  <1> USE TokenCacheAssumption
          DEF CacheInv, TypeOK, LockIsPosting, CallKinds, Newer, SingleFlight,
              RevokedGone, Posting, Answers, Fresh, Phases
  <1>1. ASSUME NEW t \in Task, NEW o \in {"access", "force", "revoke"}, Enter(t, o)
        PROVE CacheInv'
    BY <1>1 DEF Enter
  <1>2. ASSUME NEW t \in Task, Hit(t) PROVE CacheInv'
    BY <1>2 DEF Hit, Queued, Return
  <1>3. ASSUME NEW t \in Task, BeginRefresh(t) PROVE CacheInv'
    BY <1>3 DEF BeginRefresh, Queued, Post
  <1>4. ASSUME NEW t \in Task, RefreshOk(t) PROVE CacheInv'
    BY <1>4 DEF RefreshOk, Return
  <1>5. ASSUME NEW t \in Task, RefreshFail(t) PROVE CacheInv'
    BY <1>5 DEF RefreshFail, Return
  <1>6. ASSUME NEW t \in Task, RevokeEmpty(t) PROVE CacheInv'
    BY <1>6 DEF RevokeEmpty, Queued, Return
  <1>7. ASSUME NEW t \in Task, BeginRevoke(t) PROVE CacheInv'
    BY <1>7 DEF BeginRevoke, Queued, Post
  <1>8. ASSUME NEW t \in Task, RevokeOk(t) PROVE CacheInv'
    BY <1>8 DEF RevokeOk, Return
  <1>9. ASSUME NEW t \in Task, RevokeFail(t) PROVE CacheInv'
    BY <1>9 DEF RevokeFail, Return
  <1>10. ASSUME NEW t \in Task, DropQueued(t) PROVE CacheInv'
    BY <1>10 DEF DropQueued, Return
  <1>11. ASSUME NEW t \in Task, BoxMints(t) PROVE CacheInv'
    BY <1>11 DEF BoxMints
  <1>12. ASSUME NEW t \in Task, BoxRevokes(t) PROVE CacheInv'
    BY <1>12 DEF BoxRevokes
  <1>13. ASSUME NEW k \in live, BoxRejects(k) PROVE CacheInv'
    BY <1>13 DEF BoxRejects
  <1>14. CASE Age
    BY <1>14 DEF Age
  <1>15. CASE UNCHANGED cacheVars
    BY <1>15 DEF cacheVars
  <1> QED
    BY <1>1, <1>2, <1>3, <1>4, <1>5, <1>6, <1>7, <1>8, <1>9, <1>10, <1>11, <1>12,
       <1>13, <1>14, <1>15 DEF CacheNext, CallStep, BoxStep

\* The source's types, the lock's meaning, single-flight and the finality of a
\* revoke hold in every reachable state.
THEOREM CacheInvariant == CacheSpec => []CacheInv
  <1>1. QED
    BY CacheInitEstablishes, CacheStepPreserves, PTL DEF CacheSpec

\* The cached token only moves forward: a late reply never overwrites a newer
\* token.
THEOREM CacheMovesForward == CacheSpec => NewestWins
  <1>1. CacheInv /\ [CacheNext]_cacheVars
          => [token' # token => token' = 0 \/ token' > token]_cacheVars
    <2> SUFFICES ASSUME CacheInv, [CacheNext]_cacheVars
                 PROVE token' # token => token' = 0 \/ token' > token
      OBVIOUS
    <2>1. CASE \E t \in Task : RefreshOk(t)
      BY <2>1 DEF RefreshOk, CacheInv, Newer
    <2>2. CASE \E t \in Task : RevokeEmpty(t) \/ RevokeOk(t)
      BY <2>2 DEF RevokeEmpty, RevokeOk
    <2> QED
      BY <2>1, <2>2
      DEF CacheNext, CallStep, BoxStep, Enter, Hit, BeginRefresh, RefreshFail, BeginRevoke,
          RevokeFail, DropQueued, BoxMints, BoxRevokes, BoxRejects, Age, Post, cacheVars
  <1>2. QED
    BY <1>1, CacheInvariant, PTL DEF CacheSpec, NewestWins

-----------------------------------------------------------------------------
\* A freshly built source is a freshly built atomic source.
LEMMA AtomicInit == CacheInit => Atomic!Init
  BY DEF CacheInit, Atomic!Init

\* Every step is one step of the atomic source or invisible to it: a call takes
\* effect when the lock is released, and queueing, posting and whatever Box
\* does in between show nothing.
LEMMA AtomicStep == CacheInv /\ [CacheNext]_cacheVars => [Atomic!Next]_(Atomic!vars)
  <1> SUFFICES ASSUME CacheInv, [CacheNext]_cacheVars PROVE [Atomic!Next]_(Atomic!vars)
    OBVIOUS
  <1> USE TokenCacheAssumption
          DEF CacheInv, TypeOK, Posting, Atomic!Finish, Phases, Atomic!Phases
  <1>1. ASSUME NEW t \in Task, NEW o \in {"access", "force", "revoke"}, Enter(t, o)
        PROVE Atomic!Ask(t, o)
    BY <1>1 DEF Enter, Atomic!Ask
  <1>2. ASSUME NEW t \in Task, Hit(t) PROVE Atomic!Hand(t)
    BY <1>2 DEF Hit, Queued, Return, Answers, Fresh, Atomic!Hand, Atomic!Usable, Atomic!Rejects
  <1>3. ASSUME NEW t \in Task, RefreshOk(t) PROVE Atomic!Renew(t)
    <2>1. op[t] \in {"access", "force"} /\ ~Answers(t)
      BY <1>3 DEF RefreshOk, SingleFlight
    <2>2. reply[t] \in (1..MaxTokens) \ revoked /\ reply[t] > token
      BY <1>3 DEF RefreshOk, Newer
    <2> QED
      BY <1>3, <2>1, <2>2
      DEF RefreshOk, Return, Answers, Fresh, Atomic!Renew, Atomic!Usable, Atomic!Rejects
  <1>4. ASSUME NEW t \in Task, RefreshFail(t) \/ RevokeFail(t) \/ DropQueued(t)
        PROVE Atomic!Fail(t)
    <2>1. op[t] # "none"
      BY <1>4 DEF RefreshFail, RevokeFail, DropQueued, CallKinds
    <2> QED
      BY <1>4, <2>1 DEF RefreshFail, RevokeFail, DropQueued, Return, Atomic!Fail
  <1>5. ASSUME NEW t \in Task, RevokeEmpty(t) \/ RevokeOk(t) PROVE Atomic!Revoke(t)
    <2>1. CASE RevokeEmpty(t)
      BY <2>1 DEF RevokeEmpty, Queued, Return, Atomic!Revoke
    <2>2. CASE RevokeOk(t)
      <3>1. token # 0
        BY <2>2 DEF RevokeOk, Newer
      <3>2. {token} \ {0} = {token}
        BY <3>1
      <3> QED
        BY <2>2, <3>2 DEF RevokeOk, Return, Atomic!Revoke
    <2> QED
      BY <1>5, <2>1, <2>2
  <1>6. ASSUME Age PROVE Atomic!Age
    BY <1>6 DEF Age, Atomic!Age
  <1>7. ASSUME NEW t \in Task, BeginRefresh(t) \/ BeginRevoke(t) PROVE UNCHANGED Atomic!vars
    BY <1>7 DEF BeginRefresh, BeginRevoke, Post, Atomic!vars
  <1>8. ASSUME NEW t \in Task, BoxMints(t) \/ BoxRevokes(t) PROVE UNCHANGED Atomic!vars
    BY <1>8 DEF BoxMints, BoxRevokes, Atomic!vars
  <1>9. ASSUME NEW k \in live, BoxRejects(k) PROVE UNCHANGED Atomic!vars
    BY <1>9 DEF BoxRejects, Atomic!vars
  <1>10. CASE UNCHANGED cacheVars
    BY <1>10 DEF cacheVars, Atomic!vars
  <1> QED
    BY <1>1, <1>2, <1>3, <1>4, <1>5, <1>6, <1>7, <1>8, <1>9, <1>10
    DEF CacheNext, CallStep, BoxStep, Atomic!Next

\* The lock-across-await source implements the atomic one.
THEOREM CacheIsAtomic == CacheSpec => Linearizes
  <1>1. QED
    BY AtomicInit, AtomicStep, CacheInvariant, PTL DEF CacheSpec, Linearizes, Atomic!Spec

-----------------------------------------------------------------------------
\* Every step of a fetch is a step of the token source, or leaves it alone.
LEMMA FetchDrivesCache == [Next]_vars => [CacheNext]_cacheVars
  <1> SUFFICES ASSUME [Next]_vars PROVE [CacheNext]_cacheVars
    OBVIOUS
  <1>1. ASSUME NEW t \in Task, \E i \in BOOLEAN : Fetch(t, i) PROVE CacheNext
    BY <1>1 DEF Fetch, CacheNext
  <1>2. ASSUME NEW t \in Task, RevokeToken(t) \/ Refresh401(t) PROVE CacheNext
    BY <1>2 DEF RevokeToken, Refresh401, CacheNext
  <1>3. ASSUME NEW t \in Task, CallStep(t) PROVE CacheNext
    BY <1>3 DEF CacheNext
  <1>4. ASSUME NEW t \in Task,
               \/ Send(t) \/ NoToken(t) \/ TransportError(t) \/ BodyError(t)
               \/ RetryStatus(t) \/ Answered(t) \/ Resend(t) \/ DropFetch(t) \/ BoxServes(t)
        PROVE UNCHANGED cacheVars
    BY <1>4 DEF Send, NoToken, TransportError, BodyError, RetryStatus, Answered, Resend,
                DropFetch, BoxServes, BackOff
  <1>5. CASE BoxStep
    BY <1>5 DEF CacheNext
  <1>6. CASE UNCHANGED vars
    BY <1>6 DEF vars
  <1> QED
    BY <1>1, <1>2, <1>3, <1>4, <1>5, <1>6 DEF Next, FetchStep

\* A fetch's source satisfies everything proved of the source alone.
THEOREM FetchUsesCache == Spec => CacheSpec
  BY FetchDrivesCache, PTL DEF Spec, Init, CacheSpec

LEMMA FetchInitEstablishes == Init => FetchInv
  BY TokenCacheAssumption, MaxRetriesAssumption
  DEF Init, CacheInit, FetchInv, FetchTypeOK, Locals, WriteAtMostOnce, RefusedWriteUndone,
      PendingWriteUndone, NoResendOfRefused, RefusedIsStale, Statuses

\* A fetch that returns or is dropped forgets its locals.
LEMMA FinishPreserves ==
    ASSUME FetchInv, NEW t \in Task, op[t] = "none", Finish(t), UNCHANGED cacheVars
    PROVE  FetchInv'
  <1>1. FetchTypeOK'
    BY TokenCacheAssumption, MaxRetriesAssumption DEF FetchInv, FetchTypeOK, Finish, Statuses
  <1>2. \A u \in Task \ {t} :
           /\ stage'[u] = stage[u] /\ idempotent'[u] = idempotent[u] /\ attempt'[u] = attempt[u]
           /\ refreshed'[u] = refreshed[u] /\ bearer'[u] = bearer[u] /\ answer'[u] = answer[u]
           /\ commits'[u] = commits[u] /\ refused'[u] = refused[u]
    BY DEF FetchInv, FetchTypeOK, Finish
  <1>3. /\ stage'[t] = "idle" /\ idempotent'[t] /\ attempt'[t] = 0 /\ ~refreshed'[t]
        /\ commits'[t] = 0 /\ refused'[t] = {}
    BY DEF FetchInv, FetchTypeOK, Finish
  <1>4. op' = op /\ got' = got
    BY DEF cacheVars
  <1>5. Locals'
    BY <1>2, <1>3, <1>4 DEF FetchInv, Locals
  <1>6. WriteAtMostOnce' /\ RefusedWriteUndone' /\ PendingWriteUndone'
    BY <1>2, <1>3, <1>4 DEF FetchInv, WriteAtMostOnce, RefusedWriteUndone, PendingWriteUndone
  <1>7. NoResendOfRefused' /\ RefusedIsStale'
    BY <1>2, <1>3, <1>4 DEF FetchInv, NoResendOfRefused, RefusedIsStale
  <1> QED
    BY <1>1, <1>5, <1>6, <1>7 DEF FetchInv

\* Every step preserves FetchInv, given the token source's own invariant.
LEMMA FetchStepPreserves == CacheInv /\ FetchInv /\ [Next]_vars => FetchInv'
  <1> SUFFICES ASSUME CacheInv, FetchInv, [Next]_vars PROVE FetchInv'
    OBVIOUS
  <1> USE TokenCacheAssumption, MaxRetriesAssumption
          DEF CacheInv, TypeOK, CallKinds, FetchInv, FetchTypeOK, Locals, WriteAtMostOnce,
              RefusedWriteUndone, PendingWriteUndone, NoResendOfRefused, RefusedIsStale,
              Statuses
  <1>1. ASSUME NEW t \in Task, NEW i \in BOOLEAN, Fetch(t, i) PROVE FetchInv'
    <2>1. FetchTypeOK'
      BY <1>1 DEF Fetch
    <2>2. \A u \in Task \ {t} :
             stage'[u] = stage[u] /\ idempotent'[u] = idempotent[u] /\ op'[u] = op[u]
      BY <1>1 DEF Fetch, Enter
    <2>3. /\ stage'[t] = "token" /\ op'[t] = "access" /\ stage[t] = "idle"
          /\ UNCHANGED <<attempt, refreshed, bearer, answer, commits, refused, got>>
      BY <1>1 DEF Fetch, Enter
    <2> QED
      BY <2>1, <2>2, <2>3
  <1>2. ASSUME NEW t \in Task, Send(t) PROVE FetchInv'
    BY <1>2 DEF Send, cacheVars
  <1>3. ASSUME NEW t \in Task, NoToken(t) PROVE FetchInv'
    BY <1>3, FinishPreserves DEF NoToken
  <1>4. ASSUME NEW t \in Task, BoxServes(t) PROVE FetchInv'
    BY <1>4 DEF BoxServes, cacheVars
  <1>5. ASSUME NEW t \in Task, TransportError(t) PROVE FetchInv'
    <2>1. CASE attempt[t] = MaxRetries \/ ~idempotent[t]
      BY <1>5, <2>1, FinishPreserves DEF TransportError
    <2>2. CASE ~(attempt[t] = MaxRetries \/ ~idempotent[t])
      <3>1. attempt[t] < MaxRetries /\ idempotent[t]
        BY <2>2
      <3> QED
        BY <1>5, <2>2, <3>1 DEF TransportError, BackOff, cacheVars
    <2> QED
      BY ONLY <2>1, <2>2
  <1>6. ASSUME NEW t \in Task, BodyError(t) \/ Answered(t) \/ DropFetch(t) PROVE FetchInv'
    BY <1>6, FinishPreserves DEF BodyError, Answered, DropFetch
  <1>7. ASSUME NEW t \in Task, Refresh401(t) PROVE FetchInv'
    BY <1>7 DEF Refresh401, Refreshable, Enter
  <1>8. ASSUME NEW t \in Task, RetryStatus(t) PROVE FetchInv'
    BY <1>8 DEF RetryStatus, Retriable, Refreshable, ShouldRetry, BackOff, cacheVars
  <1>9. ASSUME NEW t \in Task, Resend(t) PROVE FetchInv'
    BY <1>9 DEF Resend, cacheVars
  <1>10. ASSUME NEW t \in Task, RevokeToken(t) PROVE FetchInv'
    BY <1>10 DEF RevokeToken, Enter, fetchVars
  <1>11. ASSUME NEW t \in Task, CallStep(t), UNCHANGED fetchVars PROVE FetchInv'
    <2>1. CASE Hit(t)
      BY <1>11, <2>1 DEF Hit, Queued, Answers, Fresh, Return, fetchVars
    <2>2. CASE RefreshOk(t)
      BY <1>11, <2>2 DEF RefreshOk, Posting, Newer, Return, fetchVars
    <2>3. CASE RefreshFail(t) \/ RevokeEmpty(t) \/ RevokeOk(t) \/ RevokeFail(t) \/ DropQueued(t)
      <3>1. Return(t, 0) /\ op[t] # "none"
        BY <2>3 DEF RefreshFail, RevokeEmpty, RevokeOk, RevokeFail, DropQueued, Posting, Queued
      <3>2. /\ op'[t] = "none" /\ got'[t] = 0
            /\ \A u \in Task \ {t} : op'[u] = op[u] /\ got'[u] = got[u]
        BY <3>1 DEF Return
      <3>3. 0 \notin refused[t]
        OBVIOUS
      <3>4. UNCHANGED <<stage, idempotent, attempt, refreshed, bearer, answer, commits, refused>>
        BY <1>11 DEF fetchVars
      <3> QED
        BY <3>1, <3>2, <3>3, <3>4
    <2>4. CASE BeginRefresh(t) \/ BeginRevoke(t)
      BY <1>11, <2>4 DEF BeginRefresh, BeginRevoke, Post, fetchVars
    <2> QED
      BY <1>11, <2>1, <2>2, <2>3, <2>4 DEF CallStep
  <1>12. CASE BoxStep /\ UNCHANGED fetchVars
    BY <1>12 DEF BoxStep, BoxMints, BoxRevokes, BoxRejects, Age, fetchVars
  <1>13. CASE UNCHANGED vars
    BY <1>13 DEF vars, cacheVars, fetchVars
  <1> QED
    BY <1>1, <1>2, <1>3, <1>4, <1>5, <1>6, <1>7, <1>8, <1>9, <1>10, <1>11, <1>12, <1>13
    DEF Next, FetchStep

\* Writes are carried out at most once and a refused write not at all; a retry
\* never repeats a refused token.
THEOREM FetchInvariant == Spec => []FetchInv
  BY FetchInitEstablishes, FetchStepPreserves, FetchUsesCache, CacheInvariant, PTL DEF Spec

\* The attempt that follows a 401 never carries a token its request was refused
\* with, whichever task refreshed or revoked meanwhile.
THEOREM RefusedIsNotResent == Spec => []NoResendOfRefused
  BY FetchInvariant, PTL DEF FetchInv
====
