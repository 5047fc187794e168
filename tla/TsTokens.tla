---- MODULE TsTokens ----
(***************************************************************************)
(* The TypeScript runtime's token source: CachedToken (tokens.ts), which   *)
(* shares one in-flight exchange among its callers, over either of the     *)
(* flows it serves: CCG and JWT, or the rotating OAuth grant of            *)
(* oauthSource (auth.ts).                                                  *)
(*                                                                         *)
(* JavaScript runs a call up to its first unresolved await in one step, so *)
(* an action here is what runs between two awaits; the answers of Box come *)
(* in any order.  Access tokens are numbered as Box mints them, and the    *)
(* refresh token that comes with one has its number; 0 is ''.              *)
(***************************************************************************)
EXTENDS Integers

CONSTANTS
    Task,      \* the concurrent callers
    MaxTokens  \* bound on the tokens Box mints

ASSUME TsAssumption == MaxTokens \in Nat /\ MaxTokens >= 1

VARIABLES
    oauth,   \* the flow is oauthSource; otherwise CCG or JWT
    op,      \* op[t]: the call t is in, "none" between calls
    at,      \* at[t]: the await t stands at
    got,     \* got[t]: the token t's last call resolved to, 0 when it rejected
    token,   \* CachedToken.token
    phase,   \* where CachedToken.expiry stands against the clock
    flight,  \* CachedToken.inflight: "none", "posting", or "rejected" by the flow
    spent,   \* the refresh token the exchange in flight has sent
    minted,  \* the token Box minted for the exchange in flight, 0 before
    refresh, \* oauthSource's refreshToken
    revoked, \* oauthSource's revoked
    sent,    \* sent[t]: the token t's revoke posts
    served,  \* served[t]: Box has answered t's revoke
    issued,  \* tokens Box has minted
    box,     \* the refresh token Box accepts, 0 when the grant is revoked
    gone,    \* access tokens whose revokeToken has returned (history)
    lost     \* a response that carried a rotation was lost (history)

cache == <<token, phase, flight, spent, minted>>
flow == <<refresh, revoked>>
outside == <<issued, box, gone, lost>>
vars == <<oauth, op, at, got, cache, flow, sent, served, outside>>

Phases == {"fresh", "margin", "expired"}

Init ==
    /\ oauth \in BOOLEAN
    /\ op = [t \in Task |-> "none"]
    /\ at = [t \in Task |-> "idle"]
    /\ got = [t \in Task |-> 0]
    /\ token = 0 /\ phase = "expired"
    /\ flight = "none" /\ spent = 0 /\ minted = 0
    /\ refresh = IF oauth THEN 1 ELSE 0
    /\ revoked = FALSE
    /\ sent = [t \in Task |-> 0]
    /\ served = [t \in Task |-> FALSE]
    /\ issued = IF oauth THEN 1 ELSE 0
    /\ box = IF oauth THEN 1 ELSE 0
    /\ gone = {}
    /\ lost = FALSE

MutJoin(t, o) ==
    /\ op' = [op EXCEPT ![t] = o]
    /\ at' = [at EXCEPT ![t] = "flight"]
    /\ IF flight # "none"
       THEN UNCHANGED <<flight, spent, minted>>
       ELSE /\ flight' = IF oauth /\ revoked THEN "none" ELSE "posting"
            /\ spent' = refresh
            /\ minted' = 0
    /\ UNCHANGED <<got, token, phase, flow, sent, served, outside>>

\* refreshOnce: await the exchange in flight, or start one.  The OAuth flow
\* rejects at once when its grant is revoked.
Join(t, o) ==
    /\ op' = [op EXCEPT ![t] = o]
    /\ at' = [at EXCEPT ![t] = "flight"]
    /\ IF flight # "none"
       THEN UNCHANGED <<flight, spent, minted>>
       ELSE /\ flight' = IF oauth /\ revoked THEN "rejected" ELSE "posting"
            /\ spent' = refresh
            /\ minted' = 0
    /\ UNCHANGED <<got, token, phase, flow, sent, served, outside>>

Fresh == token # 0 /\ phase = "fresh"

\* accessToken, up to its first await.
AccessToken(t) ==
    /\ op[t] = "none"
    /\ IF Fresh
       THEN /\ got' = [got EXCEPT ![t] = token]
            /\ UNCHANGED <<op, at, cache, flow, sent, served, outside>>
       ELSE Join(t, "access")

\* forceRefresh(stale): any cached token but the rejected one answers.
ForceRefresh(t) ==
    /\ op[t] = "none" /\ got[t] # 0
    /\ IF token # 0 /\ token # got[t]
       THEN /\ got' = [got EXCEPT ![t] = token]
            /\ UNCHANGED <<op, at, cache, flow, sent, served, outside>>
       ELSE Join(t, "force")

\* revokeToken awaits the exchange in flight first.
RevokeToken(t) ==
    /\ op[t] = "none"
    /\ op' = [op EXCEPT ![t] = "revoke"]
    /\ at' = [at EXCEPT ![t] = IF flight = "none" THEN "landed" ELSE "landing"]
    /\ UNCHANGED <<got, cache, flow, sent, served, outside>>

\* The exchange in flight settles: its callers resolve to r, a revoke that
\* awaited it goes on.
Settle(r) ==
    /\ flight' = "none" /\ spent' = 0 /\ minted' = 0
    /\ op' = [t \in Task |-> IF at[t] = "flight" THEN "none" ELSE op[t]]
    /\ got' = [t \in Task |-> IF at[t] = "flight" THEN r ELSE got[t]]
    /\ at' = [t \in Task |->
                IF at[t] = "flight" THEN "idle"
                ELSE IF at[t] = "landing" THEN "landed" ELSE at[t]]
    /\ UNCHANGED <<sent, served, issued, box, gone>>

MutExchangeOk ==
    /\ flight = "posting" /\ minted # 0
    /\ token' = minted /\ phase' \in Phases
    /\ Settle(minted)
    /\ UNCHANGED <<flow, lost>>

MutResolvesCached ==
    /\ flight = "posting" /\ minted # 0
    /\ token' = minted /\ phase' \in Phases
    /\ refresh' = IF oauth THEN minted ELSE refresh
    /\ Settle(token)
    /\ UNCHANGED <<revoked, lost>>

\* The response arrives: cached, and the OAuth flow takes its refresh token.
ExchangeOk ==
    /\ flight = "posting" /\ minted # 0
    /\ token' = minted /\ phase' \in Phases
    /\ refresh' = IF oauth THEN minted ELSE refresh
    /\ Settle(minted)
    /\ UNCHANGED <<revoked, lost>>

\* config.onRefresh throws: the flow has the new refresh token, its callers
\* an error.
OnRefreshThrows ==
    /\ oauth /\ flight = "posting" /\ minted # 0
    /\ refresh' = minted
    /\ Settle(0)
    /\ UNCHANGED <<token, phase, revoked, lost>>

\* The flow rejected the exchange, or it errs before or after Box minted a
\* token for it.
ExchangeFails ==
    /\ flight # "none"
    /\ lost' = (lost \/ (oauth /\ minted # 0))
    /\ Settle(0)
    /\ UNCHANGED <<token, phase, flow>>

\* t's revokeToken returns.
Return(t) ==
    /\ op' = [op EXCEPT ![t] = "none"]
    /\ at' = [at EXCEPT ![t] = "idle"]
    /\ got' = [got EXCEPT ![t] = 0]
    /\ sent' = [sent EXCEPT ![t] = 0]
    /\ served' = [served EXCEPT ![t] = FALSE]

Clear == token' = 0 /\ phase' = "expired" /\ UNCHANGED <<flight, spent, minted>>

\* What the flow's revoke posts: the cached token while it lasts, for OAuth
\* the refresh token before it.
ToRevoke ==
    IF oauth /\ refresh # 0 THEN refresh
    ELSE IF phase # "expired" THEN token ELSE 0

\* Nothing to post: the flow's revoke returns at once.
RevokeNothing(t) ==
    /\ at[t] = "landed"
    /\ (oauth /\ revoked) \/ ToRevoke = 0
    /\ revoked' = oauth
    /\ at' = [at EXCEPT ![t] = "revoked"]
    /\ UNCHANGED <<op, got, cache, refresh, sent, served, outside>>

RevokePosts(t) ==
    /\ at[t] = "landed"
    /\ ~revoked /\ ToRevoke # 0
    /\ at' = [at EXCEPT ![t] = "post"]
    /\ sent' = [sent EXCEPT ![t] = ToRevoke]
    /\ UNCHANGED <<op, got, cache, flow, served, outside>>

\* Box confirmed: the flow is revoked, and CachedToken still awaits its word.
RevokeOk(t) ==
    /\ at[t] = "post" /\ served[t]
    /\ revoked' = oauth
    /\ refresh' = IF oauth THEN 0 ELSE refresh
    /\ at' = [at EXCEPT ![t] = "revoked"]
    /\ UNCHANGED <<op, got, cache, sent, served, outside>>

Confirmed(t) == gone' = IF oauth \/ sent[t] = 0 THEN gone ELSE gone \cup {sent[t]}

MutRevokeReturns(t) ==
    /\ at[t] = "revoked"
    /\ Confirmed(t)
    /\ Return(t)
    /\ UNCHANGED <<cache, flow, issued, box, lost>>

\* revokeToken goes on after the flow's revoke: whatever is cached by now is
\* dropped.
RevokeReturns(t) ==
    /\ at[t] = "revoked"
    /\ Confirmed(t)
    /\ Clear
    /\ Return(t)
    /\ UNCHANGED <<flow, issued, box, lost>>

\* The revoke errs, whether or not Box acted on it: the token stays cached.
RevokeFails(t) ==
    /\ at[t] = "post"
    /\ Return(t)
    /\ UNCHANGED <<cache, flow, outside>>

\* Box mints a token; for OAuth it rotates the refresh token it was sent.
BoxMints ==
    /\ flight = "posting" /\ minted = 0
    /\ oauth => box # 0 /\ spent = box
    /\ issued < MaxTokens
    /\ issued' = issued + 1
    /\ minted' = issued'
    /\ box' = IF oauth THEN issued' ELSE box
    /\ UNCHANGED <<op, at, got, token, phase, flight, spent, flow, sent, served, gone, lost>>

\* Box answers a revoke.  A refresh token that has just been rotated may or
\* may not still revoke its grant.
BoxRevokes(t) ==
    /\ at[t] = "post" /\ ~served[t]
    /\ served' = [served EXCEPT ![t] = TRUE]
    /\ box' \in IF sent[t] = box THEN {0} ELSE {0, box}
    /\ UNCHANGED <<op, at, got, cache, flow, sent, issued, gone, lost>>

Age ==
    /\ token # 0
    /\ \/ phase = "fresh" /\ phase' = "margin"
       \/ phase = "margin" /\ phase' = "expired"
    /\ UNCHANGED <<op, at, got, token, flight, spent, minted, flow, sent, served, outside>>

RevokeStep(t) ==
    RevokeNothing(t) \/ RevokePosts(t) \/ RevokeOk(t) \/ RevokeReturns(t) \/ RevokeFails(t)

Step ==
    \/ \E t \in Task :
          AccessToken(t) \/ ForceRefresh(t) \/ RevokeToken(t) \/ RevokeStep(t) \/ BoxRevokes(t)
    \/ ExchangeOk \/ OnRefreshThrows \/ ExchangeFails
    \/ BoxMints
    \/ Age

Next == Step /\ UNCHANGED oauth

Spec == Init /\ [][Next]_vars

-----------------------------------------------------------------------------
TypeOK ==
    /\ oauth \in BOOLEAN
    /\ op \in [Task -> {"none", "access", "force", "revoke"}]
    /\ at \in [Task -> {"idle", "flight", "landing", "landed", "post", "revoked"}]
    /\ got \in [Task -> 0..MaxTokens]
    /\ token \in 0..MaxTokens
    /\ phase \in Phases
    /\ flight \in {"none", "posting", "rejected"}
    /\ spent \in 0..MaxTokens /\ minted \in 0..MaxTokens
    /\ refresh \in 0..MaxTokens
    /\ revoked \in BOOLEAN
    /\ sent \in [Task -> 0..MaxTokens]
    /\ served \in [Task -> BOOLEAN]
    /\ issued \in 0..MaxTokens /\ box \in 0..MaxTokens
    /\ gone \subseteq 1..MaxTokens
    /\ lost \in BOOLEAN

\* Nobody awaits an exchange that is over: every caller that joined one is
\* woken by it.
AwaitsAFlight ==
    \A t \in Task : at[t] \in {"flight", "landing"} => flight # "none"

\* What a call stands at tells which call it is and what it has in hand.
Calls ==
    \A t \in Task :
        /\ op[t] = "none" <=> at[t] = "idle"
        /\ op[t] = "revoke" <=> at[t] \in {"landing", "landed", "post", "revoked"}
        /\ op[t] = "force" => got[t] # 0
        /\ at[t] = "post" => sent[t] # 0

\* A token minted for the exchange in flight is newer than all that were
\* cached, handed out or revoked; and Box accepts it until the grant is revoked.
NewestInFlight ==
    /\ token <= issued /\ refresh <= issued /\ gone \subseteq 1..issued
    /\ \A t \in Task : got[t] <= issued /\ sent[t] <= issued
    /\ minted # 0 =>
          /\ flight = "posting" /\ minted = issued
          /\ token < minted /\ minted \notin gone
          /\ \A t \in Task : got[t] < minted /\ (~oauth => sent[t] < minted)
          /\ oauth => box \in {0, minted}

\* The callers that share an exchange, and what it brings.
TsInv == TypeOK /\ AwaitsAFlight /\ Calls /\ NewestInFlight

\* forceRefresh never resolves to the token it was told was rejected.
ForcedIsAnother ==
    [][\A t \in Task :
          op[t] = "force" /\ op'[t] = "none" => got'[t] # got[t]]_vars

\* Unless a response was lost or a revocation confirmed, the flow holds the
\* refresh token Box accepts, or the response with it is on its way; and an
\* exchange never spends one that Box has rotated (auth.ts:145-165).
HoldsTheGrant ==
    oauth /\ ~revoked /\ box # 0 /\ ~lost =>
        IF minted # 0 THEN minted = box
        ELSE refresh = box /\ (flight = "posting" => spent = box)

\* A token revokeToken has confirmed revoked is never cached again.
RevokedGone == token \notin gone
====
