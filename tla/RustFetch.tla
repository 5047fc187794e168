---- MODULE RustFetch ----
(***************************************************************************)
(* The Rust runtime's Client::fetch (lib.rs) over the cached token source: *)
(* each task sends a request with the token it was given, refreshes it     *)
(* once past the cache on a 401, and retries on 429, 5xx and transport     *)
(* errors within max_retries, the writes only when Box can't have          *)
(* processed them.  Box processes a request and the response arrives in    *)
(* two steps, so a response can be lost after its effect.                  *)
(***************************************************************************)
EXTENDS RustTokenCache

CONSTANT MaxRetries  \* Client.max_retries

ASSUME MaxRetriesAssumption == MaxRetries \in Nat

VARIABLES
    stage,      \* stage[t]: where fetch is suspended
    idempotent, \* idempotent[t]: the request's method is idempotent
    attempt,    \* attempt[t]: the loop counter
    refreshed,  \* refreshed[t]: the single 401 refresh is used up
    bearer,     \* bearer[t]: the token of the Authorization header
    answer,     \* answer[t]: Box's answer, before the client has read it
    commits,    \* commits[t]: how often Box carried out t's request (history)
    refused     \* refused[t]: tokens t's fetch has seen a 401 for (history)

fetchVars ==
    <<stage, idempotent, attempt, refreshed, bearer, answer, commits, refused>>

vars == <<cacheVars, fetchVars>>

Statuses == {"2xx", "401", "429", "4xx", "5xx"}

Init ==
    /\ CacheInit
    /\ stage = [t \in Task |-> "idle"]
    /\ idempotent = [t \in Task |-> TRUE]
    /\ attempt = [t \in Task |-> 0]
    /\ refreshed = [t \in Task |-> FALSE]
    /\ bearer = [t \in Task |-> 0]
    /\ answer = [t \in Task |-> "2xx"]
    /\ commits = [t \in Task |-> 0]
    /\ refused = [t \in Task |-> {}]

\* fetch returns, or its future is dropped: its locals are gone.
Finish(t) ==
    /\ stage' = [stage EXCEPT ![t] = "idle"]
    /\ idempotent' = [idempotent EXCEPT ![t] = TRUE]
    /\ attempt' = [attempt EXCEPT ![t] = 0]
    /\ refreshed' = [refreshed EXCEPT ![t] = FALSE]
    /\ bearer' = [bearer EXCEPT ![t] = 0]
    /\ answer' = [answer EXCEPT ![t] = "2xx"]
    /\ commits' = [commits EXCEPT ![t] = 0]
    /\ refused' = [refused EXCEPT ![t] = {}]

\* fetch starts by asking for a token.
Fetch(t, i) ==
    /\ stage[t] = "idle"
    /\ Enter(t, "access")
    /\ stage' = [stage EXCEPT ![t] = "token"]
    /\ idempotent' = [idempotent EXCEPT ![t] = i]
    /\ UNCHANGED <<attempt, refreshed, bearer, answer, commits, refused>>

\* The token call returned one: the attempt goes out with it.
Send(t) ==
    /\ stage[t] = "token" /\ op[t] = "none" /\ got[t] # 0
    /\ stage' = [stage EXCEPT ![t] = "sent"]
    /\ bearer' = [bearer EXCEPT ![t] = got[t]]
    /\ UNCHANGED <<cacheVars, idempotent, attempt, refreshed, answer, commits, refused>>

\* The token call failed, and fetch with it.
NoToken(t) ==
    /\ stage[t] = "token" /\ op[t] = "none" /\ got[t] = 0
    /\ Finish(t)
    /\ UNCHANGED cacheVars

\* Box processes the attempt: 401 for a token it does not accept; otherwise it
\* carries the request out, refuses it, limits it, or fails before or after.
BoxServes(t) ==
    /\ stage[t] = "sent"
    /\ stage' = [stage EXCEPT ![t] = "served"]
    /\ \E status \in Statuses, committed \in {0, 1} :
          /\ status = "401" <=> bearer[t] \notin live
          /\ status = "2xx" => committed = 1
          /\ status \in {"401", "429", "4xx"} => committed = 0
          /\ answer' = [answer EXCEPT ![t] = status]
          /\ commits' = [commits EXCEPT ![t] = @ + committed]
    /\ UNCHANGED <<cacheVars, idempotent, attempt, refreshed, bearer, refused>>

\* should_retry: 429 for any method, 5xx only when a replay is harmless.
ShouldRetry(status, i) == status = "429" \/ (status = "5xx" /\ i)

\* The sleep before the next attempt.
BackOff(t) ==
    /\ stage' = [stage EXCEPT ![t] = "backoff"]
    /\ UNCHANGED <<cacheVars, idempotent, attempt, refreshed, bearer, answer, commits, refused>>

MutTransportError(t) ==
    /\ stage[t] \in {"sent", "served"}
    /\ IF attempt[t] = MaxRetries
       THEN Finish(t) /\ UNCHANGED cacheVars
       ELSE BackOff(t)

\* No response: the attempt was lost on the way there or on the way back.
TransportError(t) ==
    /\ stage[t] \in {"sent", "served"}
    /\ IF attempt[t] = MaxRetries \/ ~idempotent[t]
       THEN Finish(t) /\ UNCHANGED cacheVars
       ELSE BackOff(t)

\* The body could not be read to its end: returned at once, never retried.
BodyError(t) ==
    /\ stage[t] = "served"
    /\ Finish(t)
    /\ UNCHANGED cacheVars

\* A 401 that may still be refreshed.
Refreshable(t) == answer[t] = "401" /\ ~refreshed[t] /\ attempt[t] < MaxRetries

MutRefresh401(t) ==
    /\ stage[t] = "served" /\ Refreshable(t)
    /\ Enter(t, "access")
    /\ stage' = [stage EXCEPT ![t] = "token"]
    /\ refreshed' = [refreshed EXCEPT ![t] = TRUE]
    /\ attempt' = [attempt EXCEPT ![t] = @ + 1]
    /\ refused' = [refused EXCEPT ![t] = @ \cup {bearer[t]}]
    /\ UNCHANGED <<idempotent, bearer, answer, commits>>

\* The single refresh: past the cache, naming the token that was refused.
Refresh401(t) ==
    /\ stage[t] = "served" /\ Refreshable(t)
    /\ Enter(t, "force")
    /\ stage' = [stage EXCEPT ![t] = "token"]
    /\ refreshed' = [refreshed EXCEPT ![t] = TRUE]
    /\ attempt' = [attempt EXCEPT ![t] = @ + 1]
    /\ refused' = [refused EXCEPT ![t] = @ \cup {bearer[t]}]
    /\ UNCHANGED <<idempotent, bearer, answer, commits>>

Retriable(t) ==
    ~Refreshable(t) /\ ShouldRetry(answer[t], idempotent[t]) /\ attempt[t] < MaxRetries

RetryStatus(t) ==
    /\ stage[t] = "served" /\ Retriable(t)
    /\ BackOff(t)

\* The answer is final.
Answered(t) ==
    /\ stage[t] = "served" /\ ~Refreshable(t) /\ ~Retriable(t)
    /\ Finish(t)
    /\ UNCHANGED cacheVars

\* The sleep is over: the next attempt carries the same token.
Resend(t) ==
    /\ stage[t] = "backoff"
    /\ stage' = [stage EXCEPT ![t] = "sent"]
    /\ attempt' = [attempt EXCEPT ![t] = @ + 1]
    /\ UNCHANGED <<cacheVars, idempotent, refreshed, bearer, answer, commits, refused>>

\* The caller drops the fetch.  (A drop inside the token call is one of that
\* call's own steps.)
DropFetch(t) ==
    /\ stage[t] \in {"sent", "served", "backoff"}
    /\ Finish(t)
    /\ UNCHANGED cacheVars

\* Client::revoke_token, from a task that is not in a fetch.
RevokeToken(t) ==
    /\ stage[t] = "idle"
    /\ Enter(t, "revoke")
    /\ UNCHANGED fetchVars

FetchStep(t) ==
    \/ Send(t) \/ NoToken(t) \/ TransportError(t) \/ BodyError(t) \/ Refresh401(t)
    \/ RetryStatus(t) \/ Answered(t) \/ Resend(t) \/ DropFetch(t)

Next ==
    \/ \E t \in Task :
          \/ \E i \in BOOLEAN : Fetch(t, i)
          \/ RevokeToken(t)
          \/ FetchStep(t)
          \/ BoxServes(t)
          \/ CallStep(t) /\ UNCHANGED fetchVars
    \/ BoxStep /\ UNCHANGED fetchVars

Spec == Init /\ [][Next]_vars

-----------------------------------------------------------------------------
FetchTypeOK ==
    /\ stage \in [Task -> {"idle", "token", "sent", "served", "backoff"}]
    /\ idempotent \in [Task -> BOOLEAN]
    /\ attempt \in [Task -> 0..MaxRetries]
    /\ refreshed \in [Task -> BOOLEAN]
    /\ bearer \in [Task -> 0..MaxTokens]
    /\ answer \in [Task -> Statuses]
    /\ commits \in [Task -> Nat]
    /\ refused \in [Task -> SUBSET (1..MaxTokens)]

\* What fetch holds at each await: the token it sends is the one its last call
\* returned, and a retry is only under way while one is left.
Locals ==
    \A t \in Task :
        /\ stage[t] \in {"sent", "served", "backoff"} =>
              op[t] = "none" /\ bearer[t] = got[t] /\ bearer[t] # 0
        /\ stage[t] = "backoff" => attempt[t] < MaxRetries
        /\ stage[t] = "token" => op[t] # "revoke"
        /\ stage[t] = "idle" =>
              op[t] \in {"none", "revoke"} /\ attempt[t] = 0 /\ ~refreshed[t] /\ commits[t] = 0

\* A write is carried out at most once, however its attempts fail: a retry of
\* a non-idempotent request only follows an answer Box gives without
\* processing (401, 429).
WriteAtMostOnce == \A t \in Task : ~idempotent[t] => commits[t] <= 1

\* The caller of a write that is answered 401, 429 or 4xx can rely on it: no
\* attempt of it was carried out, the earlier ones included.
RefusedWriteUndone ==
    \A t \in Task :
        stage[t] = "served" /\ ~idempotent[t] /\ answer[t] \in {"401", "429", "4xx"}
            => commits[t] = 0

\* Between its attempts a write has not been carried out.
PendingWriteUndone ==
    \A t \in Task : ~idempotent[t] /\ stage[t] # "served" => commits[t] = 0

\* The retry after a 401 never carries a token this request was refused with,
\* whichever task refreshed the cache in between ("so the retry doesn't just
\* resend the same rejected token").
NoResendOfRefused ==
    \A t \in Task : stage[t] = "sent" => bearer[t] \notin refused[t]

\* From the 401 on, the one refused token is the one force_refresh is told of,
\* and what force_refresh returns is another.
RefusedIsStale ==
    \A t \in Task :
        /\ ~refreshed[t] => refused[t] = {}
        /\ stage[t] = "token" /\ op[t] = "access" => ~refreshed[t]
        /\ stage[t] = "token" /\ op[t] = "force" => refused[t] = {got[t]}
        /\ stage[t] # "idle" /\ op[t] = "none" => got[t] \notin refused[t]

\* The inductive invariant, with CacheInv.
FetchInv ==
    FetchTypeOK /\ Locals /\ WriteAtMostOnce /\ RefusedWriteUndone /\ PendingWriteUndone
        /\ NoResendOfRefused /\ RefusedIsStale
====
