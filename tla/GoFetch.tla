---- MODULE GoFetch ----
(***************************************************************************)
(* The Go runtime's Client.Fetch (gantryruntime/runtime.go) over the       *)
(* cached token source: one token up front, one more AccessToken on a 401, *)
(* retries on 429, 5xx and transport errors within maxRetries.  A stream   *)
(* body can be read once.  The caller may cancel its context at any time.  *)
(***************************************************************************)
EXTENDS GoTokenCache

CONSTANT MaxRetries  \* Client.maxRetries

ASSUME MaxRetriesAssumption == MaxRetries \in Nat

VARIABLES
    stage,      \* stage[t]: where Fetch is blocked
    idempotent, \* idempotent[t]: the request's method is idempotent
    stream,     \* stream[t]: the body is a stream (WithStreamBody)
    attempt,    \* attempt[t]: the loop counter
    refreshed,  \* refreshed[t]: the 401 refresh is used up
    bearer,     \* bearer[t]: the local `token`
    answer,     \* answer[t]: Box's last answer, before or after Fetch has read it
    sends,      \* sends[t]: attempts that took the body (history)
    commits,    \* commits[t]: how often Box carried out t's request (history)
    refused     \* refused[t]: tokens t's fetch has seen a 401 for (history)

fetchVars == <<stage, idempotent, stream, attempt, refreshed, bearer, answer, sends,
               commits, refused>>

vars == <<cacheVars, fetchVars>>

Statuses == {"2xx", "401", "429", "4xx", "5xx"}

\* The locals of a Fetch that has not begun.
Init ==
    /\ CacheInit
    /\ stage = [t \in Task |-> "idle"]
    /\ idempotent = [t \in Task |-> TRUE]
    /\ stream = [t \in Task |-> FALSE]
    /\ attempt = [t \in Task |-> 0]
    /\ refreshed = [t \in Task |-> FALSE]
    /\ bearer = [t \in Task |-> 0]
    /\ answer = [t \in Task |-> "2xx"]
    /\ sends = [t \in Task |-> 0]
    /\ commits = [t \in Task |-> 0]
    /\ refused = [t \in Task |-> {}]

\* Fetch returns.
Finish(t) ==
    /\ stage' = [stage EXCEPT ![t] = "idle"]
    /\ idempotent' = [idempotent EXCEPT ![t] = TRUE]
    /\ stream' = [stream EXCEPT ![t] = FALSE]
    /\ attempt' = [attempt EXCEPT ![t] = 0]
    /\ refreshed' = [refreshed EXCEPT ![t] = FALSE]
    /\ bearer' = [bearer EXCEPT ![t] = 0]
    /\ answer' = [answer EXCEPT ![t] = "2xx"]
    /\ sends' = [sends EXCEPT ![t] = 0]
    /\ commits' = [commits EXCEPT ![t] = 0]
    /\ refused' = [refused EXCEPT ![t] = {}]

Fetch(t, i, s) ==
    /\ stage[t] = "idle"
    /\ Enter(t, "access")
    /\ stage' = [stage EXCEPT ![t] = "token"]
    /\ idempotent' = [idempotent EXCEPT ![t] = i]
    /\ stream' = [stream EXCEPT ![t] = s]
    /\ UNCHANGED <<attempt, refreshed, bearer, answer, sends, commits, refused>>

MutAttempt(t, n) ==
    /\ stage' = [stage EXCEPT ![t] = "sent"]
    /\ attempt' = [attempt EXCEPT ![t] = @ + n]
    /\ sends' = [sends EXCEPT ![t] = @ + 1]
    /\ bearer' = [bearer EXCEPT ![t] = got[t]]
    /\ UNCHANGED <<idempotent, stream, refreshed, answer, commits, refused>>

\* The loop body up to Do, n attempts further: getBody fails on a stream that
\* was read before, and Fetch with it; otherwise the attempt goes out.
Attempt(t, n) ==
    IF stream[t] /\ sends[t] > 0
    THEN Finish(t)
    ELSE /\ stage' = [stage EXCEPT ![t] = "sent"]
         /\ attempt' = [attempt EXCEPT ![t] = @ + n]
         /\ sends' = [sends EXCEPT ![t] = @ + 1]
         /\ bearer' = [bearer EXCEPT ![t] = got[t]]
         /\ UNCHANGED <<idempotent, stream, refreshed, answer, commits, refused>>

\* AccessToken returned: an attempt follows, or its error is Fetch's.
TokenArrives(t) ==
    /\ stage[t] = "token" /\ op[t] = "none"
    /\ IF got[t] = 0 THEN Finish(t) ELSE Attempt(t, IF refreshed[t] THEN 1 ELSE 0)
    /\ UNCHANGED cacheVars

BoxServes(t) ==
    /\ stage[t] = "sent"
    /\ stage' = [stage EXCEPT ![t] = "served"]
    /\ \E status \in Statuses, committed \in {0, 1} :
          /\ status = "401" <=> bearer[t] \notin live
          /\ status = "2xx" => committed = 1
          /\ status \in {"401", "429", "4xx"} => committed = 0
          /\ answer' = [answer EXCEPT ![t] = status]
          /\ commits' = [commits EXCEPT ![t] = @ + committed]
    /\ UNCHANGED <<cacheVars, idempotent, stream, attempt, refreshed, bearer, sends, refused>>

Retriable(status, i) == status = "429" \/ (status = "5xx" /\ i)

\* The wait before the next attempt.
BackOff(t) ==
    /\ stage' = [stage EXCEPT ![t] = "backoff"]
    /\ UNCHANGED <<cacheVars, idempotent, stream, attempt, refreshed, bearer, answer, sends,
                   commits, refused>>

MutTransportError(t) ==
    /\ stage[t] \in {"sent", "served"}
    /\ IF attempt[t] = MaxRetries
       THEN Finish(t) /\ UNCHANGED cacheVars
       ELSE BackOff(t)

\* Do errs: the attempt was lost on the way there or back, or the context was
\* cancelled.
TransportError(t) ==
    /\ stage[t] \in {"sent", "served"}
    /\ IF attempt[t] = MaxRetries \/ ~idempotent[t]
       THEN Finish(t) /\ UNCHANGED cacheVars
       ELSE BackOff(t)

\* readResponse errs: returned at once.
BodyError(t) ==
    /\ stage[t] = "served"
    /\ Finish(t)
    /\ UNCHANGED cacheVars

\* A 401 that may still be refreshed.
Refreshable(t) == answer[t] = "401" /\ ~refreshed[t] /\ attempt[t] < MaxRetries

\* The 401 refresh: AccessToken, through the cache.
Refresh401(t) ==
    /\ stage[t] = "served" /\ Refreshable(t)
    /\ Enter(t, "access")
    /\ stage' = [stage EXCEPT ![t] = "token"]
    /\ refreshed' = [refreshed EXCEPT ![t] = TRUE]
    /\ refused' = [refused EXCEPT ![t] = @ \cup {bearer[t]}]
    /\ UNCHANGED <<idempotent, stream, attempt, bearer, answer, sends, commits>>

Retries(t) ==
    ~Refreshable(t) /\ Retriable(answer[t], idempotent[t]) /\ attempt[t] < MaxRetries

RetryStatus(t) ==
    /\ stage[t] = "served" /\ Retries(t)
    /\ BackOff(t)

\* The answer is final.
Answered(t) ==
    /\ stage[t] = "served" /\ ~Refreshable(t) /\ ~Retries(t)
    /\ Finish(t)
    /\ UNCHANGED cacheVars

\* The context is cancelled during the wait: the error or the answer that it
\* followed is returned.
CancelWait(t) ==
    /\ stage[t] = "backoff"
    /\ Finish(t)
    /\ UNCHANGED cacheVars

\* The wait is over: the next attempt carries the same token.
Resend(t) ==
    /\ stage[t] = "backoff"
    /\ Attempt(t, 1)
    /\ UNCHANGED cacheVars

\* auth.RevokeToken, from a goroutine that is not in Fetch.
RevokeToken(t) ==
    /\ stage[t] = "idle"
    /\ Enter(t, "revoke")
    /\ UNCHANGED fetchVars

FetchStep(t) ==
    \/ TokenArrives(t) \/ TransportError(t) \/ BodyError(t) \/ Refresh401(t)
    \/ RetryStatus(t) \/ Answered(t) \/ CancelWait(t) \/ Resend(t)

Next ==
    \/ \E t \in Task :
          \/ \E i, s \in BOOLEAN : Fetch(t, i, s)
          \/ RevokeToken(t)
          \/ FetchStep(t)
          \/ BoxServes(t)
          \/ CallStep(t) /\ UNCHANGED fetchVars
    \/ BoxStep /\ UNCHANGED fetchVars

Spec == Init /\ [][Next]_vars

-----------------------------------------------------------------------------
FetchTypeOK ==
    /\ stage \in [Task -> {"idle", "token", "sent", "served", "backoff"}]
    /\ idempotent \in [Task -> BOOLEAN]
    /\ stream \in [Task -> BOOLEAN]
    /\ attempt \in [Task -> 0..MaxRetries]
    /\ refreshed \in [Task -> BOOLEAN]
    /\ bearer \in [Task -> 0..MaxTokens]
    /\ answer \in [Task -> Statuses]
    /\ sends \in [Task -> 0..(MaxRetries + 1)]
    /\ commits \in [Task -> Nat]
    /\ refused \in [Task -> SUBSET (1..MaxTokens)]

\* What Fetch holds where it is blocked: the token it sends is the one its last
\* call returned, every attempt counted is one that took the body, and a retry
\* is only under way while one is left.
Locals ==
    \A t \in Task :
        /\ stage[t] = "idle" => op[t] \in {"none", "revoke"} /\ ~refreshed[t]
        /\ stage[t] = "token" => op[t] # "revoke"
        /\ stage[t] \in {"sent", "served", "backoff"} =>
              op[t] = "none" /\ bearer[t] = got[t] /\ bearer[t] # 0
        /\ stage[t] = "idle" \/ (stage[t] = "token" /\ ~refreshed[t]) =>
              attempt[t] = 0 /\ sends[t] = 0 /\ commits[t] = 0
        /\ stage[t] \in {"sent", "served", "backoff"} \/ refreshed[t] => sends[t] = attempt[t] + 1
        /\ stage[t] = "backoff" \/ (stage[t] = "token" /\ refreshed[t]) => attempt[t] < MaxRetries

\* A write is carried out at most once, however its attempts fail ("a 5xx or a
\* failed connection may already have committed a write").
WriteAtMostOnce == \A t \in Task : ~idempotent[t] => commits[t] <= 1

\* The caller of a write that is answered 401, 429 or 4xx can rely on it: no
\* attempt of it was carried out, the earlier ones included.
RefusedWriteUndone ==
    \A t \in Task :
        stage[t] = "served" /\ ~idempotent[t] /\ answer[t] \in {"401", "429", "4xx"}
            => commits[t] = 0

\* Between its attempts a write has not been carried out.
PendingWriteUndone ==
    \A t \in Task : ~idempotent[t] /\ stage[t] # "served" => commits[t] = 0

\* A stream goes on the wire at most once: no retry sends what is left of it.
StreamSentOnce == \A t \in Task : stream[t] => sends[t] <= 1

\* The inductive invariant, with CacheInv: writes and streams through every
\* retry (runtime.go:342-425).
FetchInv ==
    FetchTypeOK /\ Locals /\ WriteAtMostOnce /\ RefusedWriteUndone /\ PendingWriteUndone
        /\ StreamSentOnce

\* The attempt after a 401 never carries a token this request was refused
\* with: what "a single 401 token refresh" is for.
NoResendOfRefused == \A t \in Task : stage[t] = "sent" => bearer[t] \notin refused[t]
====
