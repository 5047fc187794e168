---- MODULE TokenSource ----
(***************************************************************************)
(* What a caching access-token source promises its callers, whatever the   *)
(* runtime does inside: every call appears to happen at one instant.  The  *)
(* lock, the request to Box and the rejections Box decides on its own are  *)
(* not visible here.                                                       *)
(***************************************************************************)
EXTENDS Integers

CONSTANTS
    Task,      \* the callers that share one source
    MaxTokens  \* bound on the access tokens minted in a behaviour

VARIABLES
    op,      \* op[t]: the call task t is making, "none" between calls
    got,     \* got[t]: the token t's last call returned, 0 when it returned none
    token,   \* the current token, 0 when there is none
    phase,   \* how far the current token is from its expiry
    revoked  \* tokens a successful revoke reported revoked

vars == <<op, got, token, phase, revoked>>

Phases == {"fresh", "margin", "expired"}

Usable == token # 0 /\ phase = "fresh"

\* A call asks for a replacement of exactly the current token.
Rejects(t) == op[t] = "force" /\ got[t] = token

Init ==
    /\ op = [t \in Task |-> "none"]
    /\ got = [t \in Task |-> 0]
    /\ token = 0
    /\ phase = "expired"
    /\ revoked = {}

Finish(t, result) ==
    /\ op' = [op EXCEPT ![t] = "none"]
    /\ got' = [got EXCEPT ![t] = result]

Ask(t, o) ==
    /\ op[t] = "none"
    /\ o = "force" => got[t] # 0
    /\ op' = [op EXCEPT ![t] = o]
    /\ UNCHANGED <<got, token, phase, revoked>>

\* The current token answers the call.
Hand(t) ==
    /\ op[t] \in {"access", "force"}
    /\ Usable /\ ~Rejects(t)
    /\ Finish(t, token)
    /\ UNCHANGED <<token, phase, revoked>>

\* The current token does not answer the call: a newer one replaces it, and
\* never one that was revoked.
Renew(t) ==
    /\ op[t] \in {"access", "force"}
    /\ ~Usable \/ Rejects(t)
    /\ \E new \in (1..MaxTokens) \ revoked :
          /\ new > token
          /\ token' = new
          /\ Finish(t, new)
    /\ phase' \in Phases
    /\ UNCHANGED revoked

\* The call fails, or its caller gives up: the current token stays.
Fail(t) ==
    /\ op[t] # "none"
    /\ Finish(t, 0)
    /\ UNCHANGED <<token, phase, revoked>>

\* The current token is revoked; one already over may just be dropped.
Revoke(t) ==
    /\ op[t] = "revoke"
    /\ \/ revoked' = revoked \cup ({token} \ {0})
       \/ phase = "expired" /\ UNCHANGED revoked
    /\ token' = 0
    /\ phase' = "expired"
    /\ Finish(t, 0)

Age ==
    /\ token # 0
    /\ \/ phase = "fresh" /\ phase' = "margin"
       \/ phase = "margin" /\ phase' = "expired"
    /\ UNCHANGED <<op, got, token, revoked>>

Next ==
    \/ \E t \in Task :
          \/ \E o \in {"access", "force", "revoke"} : Ask(t, o)
          \/ Hand(t)
          \/ Renew(t)
          \/ Fail(t)
          \/ Revoke(t)
    \/ Age

Spec == Init /\ [][Next]_vars
====
