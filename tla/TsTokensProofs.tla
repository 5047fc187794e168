---- MODULE TsTokensProofs ----
(***************************************************************************)
(* Proofs about TsTokens, for any number of callers and tokens, whichever  *)
(* flow is behind the cache.  One exchange is in flight at a time, so the  *)
(* token Box mints for it is newer than all that callers, revocations and  *)
(* the cache hold (NewestInFlight); that is why a forced refresh resolves  *)
(* to another token, and why a revoked one cannot come back.               *)
(***************************************************************************)
EXTENDS TsTokens, TLAPS

\* TsInv, what the flow holds of its grant, and that revoked tokens are gone:
\* together they are inductive.
TsIndInv == TsInv /\ HoldsTheGrant /\ RevokedGone

LEMMA InitEstablishes == Init => TsIndInv
  <1> SUFFICES ASSUME Init PROVE TsIndInv
    OBVIOUS
  <1> USE TsAssumption DEF Init
  <1>1. TypeOK
    <2>1. 0 \in 0..MaxTokens /\ 1 \in 0..MaxTokens
      OBVIOUS
    <2>2. /\ refresh \in 0..MaxTokens /\ issued \in 0..MaxTokens /\ box \in 0..MaxTokens
      BY <2>1
    <2>3. /\ got \in [Task -> 0..MaxTokens] /\ sent \in [Task -> 0..MaxTokens]
      BY <2>1
    <2> QED
      BY <2>1, <2>2, <2>3 DEF TypeOK, Phases
  <1>2. AwaitsAFlight /\ Calls
    BY DEF AwaitsAFlight, Calls
  <1>3. NewestInFlight /\ RevokedGone
    BY DEF NewestInFlight, RevokedGone
  <1>4. HoldsTheGrant
    BY DEF HoldsTheGrant
  <1> QED
    BY <1>1, <1>2, <1>3, <1>4 DEF TsIndInv, TsInv

\* A caller that is handed the cached token.
LEMMA HandsOutPreserves ==
    ASSUME TsIndInv, NEW t \in Task, op[t] = "none", got' = [got EXCEPT ![t] = token],
           UNCHANGED <<oauth, op, at, cache, flow, sent, served, outside>>
    PROVE  TsIndInv'
  <1> USE TsAssumption DEF TsIndInv, TsInv, TypeOK, Phases, cache, flow, outside
  <1>1. /\ got' \in [Task -> 0..MaxTokens]
        /\ got'[t] = token /\ \A u \in Task \ {t} : got'[u] = got[u]
    OBVIOUS
  <1>2. TypeOK' /\ AwaitsAFlight' /\ Calls'
    BY <1>1 DEF AwaitsAFlight, Calls
  <1>3. NewestInFlight' /\ RevokedGone'
    BY <1>1 DEF NewestInFlight, RevokedGone
  <1>4. HoldsTheGrant'
    BY DEF HoldsTheGrant
  <1> QED
    BY <1>2, <1>3, <1>4

\* A caller that awaits the exchange in flight, or starts one, changes nothing
\* that others rely on.
LEMMA JoinPreserves ==
    ASSUME TsIndInv, NEW t \in Task, NEW o \in {"access", "force"},
           op[t] = "none", o = "force" => got[t] # 0, Join(t, o), UNCHANGED oauth
    PROVE  TsIndInv'
  <1> USE TsAssumption
          DEF TsIndInv, TsInv, TypeOK, Phases, AwaitsAFlight, Calls, NewestInFlight, HoldsTheGrant,
              RevokedGone, Join, flow, outside
  <1>1. TypeOK' /\ AwaitsAFlight'
    OBVIOUS
  <1>2. Calls'
    OBVIOUS
  <1>3. NewestInFlight' /\ RevokedGone'
    OBVIOUS
  <1>4. HoldsTheGrant'
    OBVIOUS
  <1> QED
    BY <1>1, <1>2, <1>3, <1>4

\* An exchange that settles wakes its callers with a token that is none they hold,
\* or with an error.
LEMMA SettlePreserves ==
    ASSUME TsIndInv, NEW r \in {0, minted}, Settle(r), UNCHANGED oauth
    PROVE  /\ Calls' /\ AwaitsAFlight'
           /\ op' \in [Task -> {"none", "access", "force", "revoke"}]
           /\ at' \in [Task -> {"idle", "flight", "landing", "landed", "post", "revoked"}]
           /\ got' \in [Task -> 0..MaxTokens]
           /\ \A t \in Task : got'[t] <= issued /\ (op[t] = "force" => got'[t] # got[t] \/ op'[t] # "none")
  <1> USE TsAssumption DEF TsIndInv, TsInv, TypeOK, AwaitsAFlight, Calls, NewestInFlight, Settle
  <1>1. r \in 0..MaxTokens /\ r <= issued /\ minted \in 0..MaxTokens
    OBVIOUS
  <1>2. op' \in [Task -> {"none", "access", "force", "revoke"}]
    OBVIOUS
  <1>3. at' \in [Task -> {"idle", "flight", "landing", "landed", "post", "revoked"}]
    OBVIOUS
  <1>4. got' \in [Task -> 0..MaxTokens]
    BY <1>1
  <1>5. Calls' /\ AwaitsAFlight'
    BY <1>2, <1>3, <1>4
  <1>6. \A t \in Task : got'[t] <= issued /\ (op[t] = "force" => got'[t] # got[t] \/ op'[t] # "none")
    BY <1>1
  <1> QED
    BY <1>2, <1>3, <1>4, <1>5, <1>6

\* Every step of a call, of the exchange, of Box and of the clock preserves the
\* invariant.
LEMMA StepPreserves == TsIndInv /\ [Next]_vars => TsIndInv'
  <1> SUFFICES ASSUME TsIndInv, [Next]_vars PROVE TsIndInv'
    OBVIOUS
  <1> USE TsAssumption
          DEF TsIndInv, TsInv, TypeOK, Phases, AwaitsAFlight, Calls, NewestInFlight, HoldsTheGrant,
              RevokedGone, flow, cache, outside
  <1>1. ASSUME NEW t \in Task, AccessToken(t), UNCHANGED oauth PROVE TsIndInv'
    <2>1. CASE Fresh
      BY <1>1, <2>1, HandsOutPreserves DEF AccessToken, Fresh
    <2>2. CASE ~Fresh
      BY ONLY TsIndInv, <1>1, <2>2, JoinPreserves DEF AccessToken
    <2> QED
      BY ONLY <2>1, <2>2
  <1>2. ASSUME NEW t \in Task, ForceRefresh(t), UNCHANGED oauth PROVE TsIndInv'
    <2>1. CASE token # 0 /\ token # got[t]
      BY <1>2, <2>1, HandsOutPreserves DEF ForceRefresh
    <2>2. CASE ~(token # 0 /\ token # got[t])
      BY ONLY TsIndInv, <1>2, <2>2, JoinPreserves DEF ForceRefresh
    <2> QED
      BY ONLY <2>1, <2>2
  <1>3. ASSUME NEW t \in Task, RevokeToken(t), UNCHANGED oauth PROVE TsIndInv'
    BY <1>3 DEF RevokeToken
  <1>4. ASSUME NEW t \in Task, RevokeNothing(t), UNCHANGED oauth PROVE TsIndInv'
    BY <1>4 DEF RevokeNothing
  <1>5. ASSUME NEW t \in Task, RevokePosts(t), UNCHANGED oauth PROVE TsIndInv'
    <2>1. ToRevoke \in 0..MaxTokens /\ ToRevoke <= issued /\ (~oauth => ToRevoke \in {0, token})
      BY DEF ToRevoke
    <2>2. /\ sent' = [sent EXCEPT ![t] = ToRevoke] /\ ToRevoke # 0
          /\ at' = [at EXCEPT ![t] = "post"] /\ at[t] = "landed"
          /\ UNCHANGED <<op, got, cache, flow, served, outside, oauth>>
      BY <1>5 DEF RevokePosts
    <2>3. TypeOK' /\ AwaitsAFlight' /\ Calls'
      BY <2>1, <2>2
    <2>4. NewestInFlight' /\ RevokedGone' /\ HoldsTheGrant'
      BY <2>1, <2>2
    <2> QED
      BY <2>3, <2>4
  <1>6. ASSUME NEW t \in Task, RevokeReturns(t), UNCHANGED oauth PROVE TsIndInv'
    <2>1. /\ sent[t] \in 0..issued /\ (minted # 0 /\ ~oauth => sent[t] < minted)
          /\ issued \in 0..MaxTokens
      OBVIOUS
    <2>2. gone' \subseteq 1..issued /\ (minted # 0 => minted \notin gone')
      <3>1. gone \subseteq 1..issued /\ (minted # 0 => minted \notin gone)
        OBVIOUS
      <3>2. CASE oauth \/ sent[t] = 0
        BY <1>6, <3>1, <3>2 DEF RevokeReturns, Confirmed
      <3>3. CASE ~oauth /\ sent[t] # 0
        <4>1. gone' = gone \cup {sent[t]}
          BY <1>6, <3>3 DEF RevokeReturns, Confirmed
        <4>2. sent[t] \in 1..issued /\ (minted # 0 => minted # sent[t])
          BY <2>1, <3>3
        <4> QED
          BY ONLY <3>1, <4>1, <4>2
      <3> QED
        BY ONLY <3>2, <3>3
    <2>3. TypeOK' /\ AwaitsAFlight' /\ Calls'
      BY <1>6, <2>1, <2>2 DEF RevokeReturns, Return, Clear
    <2>4. NewestInFlight'
      BY <1>6, <2>1, <2>2 DEF RevokeReturns, Return, Clear
    <2>5. RevokedGone' /\ HoldsTheGrant'
      BY <1>6, <2>2 DEF RevokeReturns, Clear
    <2> QED
      BY <2>3, <2>4, <2>5
  <1>7. ASSUME NEW t \in Task, RevokeOk(t), UNCHANGED oauth PROVE TsIndInv'
    BY <1>7 DEF RevokeOk
  <1>8. ASSUME NEW t \in Task, RevokeFails(t), UNCHANGED oauth PROVE TsIndInv'
    BY <1>8 DEF RevokeFails, Return
  <1>9. ASSUME NEW t \in Task, BoxRevokes(t), UNCHANGED oauth PROVE TsIndInv'
    BY <1>9 DEF BoxRevokes
  <1>10. ASSUME ExchangeOk, UNCHANGED oauth PROVE TsIndInv'
    BY <1>10, SettlePreserves DEF ExchangeOk, Settle
  <1>11. ASSUME OnRefreshThrows, UNCHANGED oauth PROVE TsIndInv'
    BY <1>11, SettlePreserves DEF OnRefreshThrows, Settle
  <1>12. ASSUME ExchangeFails, UNCHANGED oauth PROVE TsIndInv'
    BY <1>12, SettlePreserves DEF ExchangeFails, Settle
  <1>13. ASSUME BoxMints, UNCHANGED oauth PROVE TsIndInv'
    BY <1>13 DEF BoxMints
  <1>14. ASSUME Age, UNCHANGED oauth PROVE TsIndInv'
    BY <1>14 DEF Age
  <1>15. CASE UNCHANGED vars
    BY <1>15 DEF vars
  <1> QED
    BY ONLY [Next]_vars, <1>1, <1>2, <1>3, <1>4, <1>5, <1>6, <1>7, <1>8, <1>9, <1>10, <1>11, <1>12, <1>13,
            <1>14, <1>15
    DEF Next, Step, RevokeStep

LEMMA IndInvariant == Spec => []TsIndInv
  BY InitEstablishes, StepPreserves, PTL DEF Spec

\* Every caller that joined an exchange is woken by it, and what it brings is newer
\* than every token in use.
THEOREM TsInvariant == Spec => []TsInv
  BY IndInvariant, PTL DEF TsIndInv

\* The flow keeps hold of the refresh token Box accepts, and spends no other.
THEOREM GrantIsHeld == Spec => []HoldsTheGrant
  BY IndInvariant, PTL DEF TsIndInv

\* A token confirmed revoked is never cached again.
THEOREM RevokedStaysGone == Spec => []RevokedGone
  BY IndInvariant, PTL DEF TsIndInv

\* A forced refresh never resolves to the token it was called to replace.
THEOREM ForcedGetsAnother == Spec => ForcedIsAnother
  <1>1. TsIndInv /\ [Next]_vars
          => [\A t \in Task : op[t] = "force" /\ op'[t] = "none" => got'[t] # got[t]]_vars
    <2> SUFFICES ASSUME TsIndInv, [Next]_vars, NEW t \in Task, op[t] = "force", op'[t] = "none"
                 PROVE  got'[t] # got[t]
      OBVIOUS
    <2>1. \E r \in {0, minted} : Settle(r) /\ UNCHANGED oauth
      <3>1. at[t] = "flight" /\ op \in [Task -> {"none", "access", "force", "revoke"}]
        BY DEF TsIndInv, TsInv, Calls, TypeOK
      <3> QED
        BY <3>1
        DEF Next, Step, vars, AccessToken, ForceRefresh, Join, RevokeToken, RevokeStep, RevokeNothing,
            RevokePosts, RevokeOk, RevokeReturns, RevokeFails, BoxRevokes, Return, ExchangeOk, OnRefreshThrows,
            ExchangeFails, BoxMints, Age
    <2> QED
      BY <2>1, SettlePreserves
  <1> QED
    BY <1>1, IndInvariant, PTL DEF Spec, ForcedIsAnother
====
