---- MODULE ApexUpload ----
(***************************************************************************)
(* A chunked upload in one Apex transaction: BoxChunkedUpload over         *)
(* BoxHttpClient.send over a token provider, caching or not.  Apex cannot  *)
(* wait, so retries are immediate, and every callout, a mint included,     *)
(* counts against the transaction's limit: one too many raises a           *)
(* LimitException, which nothing can catch.                                *)
(*                                                                         *)
(* Content is its length in bytes; a part is the bytes it holds beside the *)
(* range it is declared as.                                                *)
(***************************************************************************)
EXTENDS Integers, Sequences, FiniteSetsExt

CONSTANTS
    MaxTotal,      \* bound on the length of the content
    PartSizes,     \* the part sizes Box may name for a session
    MaxRetries,    \* BoxHttpClient's retry budget
    CalloutLimit   \* Limits.getLimitCallouts()

ASSUME ApexAssumption ==
    /\ MaxTotal \in Nat \ {0} /\ PartSizes \subseteq Nat
    /\ MaxRetries \in Nat /\ CalloutLimit \in Nat \ {0}

VARIABLES
    caching,    \* the provider mints its token and caches it
    cached,     \* its token: "none", "good", or "stale" once Box rejects it
    callouts,   \* Limits.getCallouts()
    total,      \* content.size()
    partSize,   \* the session's part_size
    offset,     \* the bytes before it are uploaded
    op,         \* the request being sent, "none" between requests
    at,         \* where send() stands
    sending,    \* send()'s locals, and the budget it began with
    failure,    \* what the caller is thrown: the request that failed, or "size"
    result,     \* what the caller saw
    errors,     \* history: everything that failed, in order
    tried,      \* history: send() was asked to delete the session
    session,    \* the session at Box
    held        \* the parts Box holds for it: [bytes, declared]

sent == <<op, at, sending, tried>>
outcome == <<failure, result, errors>>
boxed == <<session, held>>
vars == <<caching, cached, callouts, total, partSize, offset, sent, outcome, boxed>>

Requests == {"create", "part", "commit", "delete"}
Failures == Requests \cup {"size"}
Statuses == {"2xx", "202", "401", "retriable", "other"}

Smaller(a, b) == Min({a, b})
Larger(a, b) == Max({a, b})

Idle == [attempt |-> 0, max |-> 0, refreshed |-> FALSE, retries |-> 0, budget |-> 0]

Init ==
    /\ caching \in BOOLEAN
    /\ cached \in IF caching THEN {"none", "good"} ELSE {"good"}
    /\ callouts \in 0..CalloutLimit
    /\ total \in 1..MaxTotal
    /\ partSize = 0 /\ offset = 0
    /\ op = "none" /\ at = "idle" /\ sending = Idle
    /\ failure = "none" /\ result = "none"
    /\ errors = <<>> /\ tried = FALSE
    /\ session = "none" /\ held = {}

----------------------------------------------------------------------------
\* BoxHttpClient.send: from one callout to the next.

MutBegin(request) ==
    /\ op' = request
    /\ at' = "attempt"
    /\ tried' = (tried \/ request = "delete")
    /\ sending' = [Idle EXCEPT !.max = MaxRetries + 2, !.budget = CalloutLimit - callouts]

\* Attempts are clamped to what is left of the limit, less one for a mint.
Begin(request) ==
    LET budget == CalloutLimit - callouts
    IN  /\ op' = request
        /\ at' = "attempt"
        /\ tried' = (tried \/ request = "delete")
        /\ sending' = [Idle EXCEPT !.max = Smaller(MaxRetries + 2, Larger(1, budget - 1)),
                                   !.budget = budget]

\* A callout past the limit ends the transaction where it stands.
Callout(where) ==
    IF callouts = CalloutLimit
    THEN /\ result' = "limit"
         /\ at' = "idle" /\ op' = "none"
         /\ UNCHANGED <<callouts, sending, tried, failure, errors>>
    ELSE /\ callouts' = callouts + 1
         /\ at' = where
         /\ UNCHANGED <<op, sending, tried, outcome>>

NeedsMint == caching /\ cached = "none"

Attempt ==
    /\ at = "attempt" /\ sending.attempt < sending.max
    /\ Callout(IF NeedsMint THEN "minting" ELSE "wire")
    /\ UNCHANGED <<caching, cached, total, partSize, offset, boxed>>

MintOk ==
    /\ at = "minting"
    /\ cached' = "good"
    /\ Callout("wire")
    /\ UNCHANGED <<caching, total, partSize, offset, boxed>>

----------------------------------------------------------------------------
\* BoxChunkedUpload: what follows a request that ended.

Upload ==
    /\ at = "idle" /\ result = "none" /\ op = "none"
    /\ Begin("create")
    /\ UNCHANGED <<caching, cached, callouts, total, partSize, offset, outcome, boxed>>

MultiPart(size) == total > size

MutUsable(size) == size > 0

\* A blob can only be cut at a multiple of three.
Usable(size) == size > 0 /\ ~(MultiPart(size) /\ size % 3 # 0)

\* The part from `from` on: its declared bytes, and those its slice of the
\* base64 text decodes to.
PartLen(from) == Smaller(partSize, total - from)
Part(from) ==
    LET upto == from + PartLen(from)
        first == IF MultiPart(partSize) THEN (from \div 3) * 3 ELSE 0
        last == IF MultiPart(partSize) /\ upto # total THEN (upto \div 3) * 3 ELSE total
    IN  [bytes |-> first..(last - 1), declared |-> from..(upto - 1)]

Returns(r) ==
    /\ result' = r
    /\ op' = "none" /\ at' = "idle" /\ sending' = Idle
    /\ UNCHANGED tried

MutRecover(what) ==  \* rethrows without aborting
    /\ failure' = IF op = "delete" THEN failure ELSE what
    /\ Returns("failed")

MutRecoverMasks(what) ==  \* lets the cleanup's error mask what failed first
    /\ failure' = what
    /\ IF op \in {"create", "delete"} /\ what # "size" THEN Returns("failed")
       ELSE Begin("delete") /\ UNCHANGED result

\* run() aborts the session, best effort, and rethrows what failed first; before
\* there is a session there is nothing to abort.
Recover(what) ==
    CASE what = "create" -> failure' = what /\ Returns("failed")
      [] what = "delete" -> UNCHANGED failure /\ Returns("failed")
      [] OTHER -> failure' = what /\ Begin("delete") /\ UNCHANGED result

Throws(what) == errors' = Append(errors, what) /\ Recover(what)

\* A request succeeded: the next part, the commit, or the end.
Succeeds ==
    CASE op = "create" ->
            \E size \in PartSizes :
               /\ partSize' = size
               /\ offset' = 0
               /\ IF Usable(size) THEN Begin("part") /\ UNCHANGED outcome ELSE Throws("size")
      [] op = "part" ->
            /\ offset' = offset + PartLen(offset)
            /\ Begin(IF offset' < total THEN "part" ELSE "commit")
            /\ UNCHANGED <<partSize, outcome>>
      [] op = "commit" -> Returns("uploaded") /\ UNCHANGED <<partSize, offset, failure, errors>>
      [] op = "delete" -> Returns("failed") /\ UNCHANGED <<partSize, offset, failure, errors>>

----------------------------------------------------------------------------
\* Box.

\* What a request does at Box, if it is carried out.
Effect ==
    CASE op = "create" -> session' = "open" /\ held' = {}
      [] op = "part" /\ session = "open" -> held' = held \cup {Part(offset)} /\ UNCHANGED session
      [] op = "commit" /\ session = "open" -> session' = "committed" /\ UNCHANGED held
      [] op = "delete" /\ session = "open" -> session' = "aborted" /\ UNCHANGED held
      [] OTHER -> FALSE

\* An error may hide that a request was carried out; a refused one never was, nor
\* a commit put off until the parts are processed: a 202, which holds no file.
BoxAnswers(status) ==
    \/ status \in {"2xx", "retriable"} /\ cached # "stale" /\ Effect
    \/ status # "2xx" /\ UNCHANGED boxed

\* A developer token is rejected for good, a cached one until it is minted anew.
BoxRejects ==
    /\ cached = "good"
    /\ cached' = "stale"
    /\ UNCHANGED <<caching, callouts, total, partSize, offset, sent, outcome, boxed>>

----------------------------------------------------------------------------
\* What send() makes of a status; a 202 it returns as it is, and reading the file
\* out of its empty body throws.

Again(s) == sending' = [s EXCEPT !.attempt = @ + 1] /\ at' = "attempt" /\ UNCHANGED <<op, tried, outcome>>

Refreshes(status) == status = "401" /\ ~sending.refreshed
Retries(status) == status = "retriable" /\ sending.retries < MaxRetries

Answered ==
    /\ at = "wire"
    /\ \E status \in Statuses :
          /\ cached = "stale" => status \in {"401", "retriable"}
          /\ status = "202" => op = "commit"
          /\ BoxAnswers(status)
          /\ cached' = IF Refreshes(status) /\ caching THEN "none" ELSE cached
          /\ CASE Refreshes(status) -> Again([sending EXCEPT !.refreshed = TRUE]) /\ UNCHANGED <<partSize, offset>>
               [] Retries(status) -> Again([sending EXCEPT !.retries = @ + 1]) /\ UNCHANGED <<partSize, offset>>
               [] status = "2xx" -> Succeeds
               [] OTHER -> Throws(op) /\ UNCHANGED <<partSize, offset>>
    /\ UNCHANGED <<caching, callouts, total>>

\* A callout that fails on the wire, a mint that fails for any reason, and a
\* loop out of attempts throw.
CalloutFails ==
    /\ at \in {"wire", "minting"}
    /\ \/ UNCHANGED boxed
       \/ at = "wire" /\ cached # "stale" /\ Effect
    /\ Throws(op)
    /\ UNCHANGED <<caching, cached, callouts, total, partSize, offset>>

OutOfAttempts ==
    /\ at = "attempt" /\ sending.attempt >= sending.max
    /\ Throws(op)
    /\ UNCHANGED <<caching, cached, callouts, total, partSize, offset, boxed>>

\* The cached token nears its expiry.
Expires ==
    /\ caching /\ cached # "none"
    /\ cached' = "none"
    /\ UNCHANGED <<caching, callouts, total, partSize, offset, sent, outcome, boxed>>

----------------------------------------------------------------------------
Next ==
    \/ Upload \/ Attempt \/ MintOk \/ Answered \/ CalloutFails \/ OutOfAttempts
    \/ BoxRejects \/ Expires

Spec == Init /\ [][Next]_vars

----------------------------------------------------------------------------
\* Properties.

\* The bytes Box has been sent.
Covered == UNION {p.declared : p \in held}

\* Every part holds the bytes it is declared as, and the parts Box holds join
\* up from the first byte to where the upload stands.
PartsAreSlices ==
    /\ \A p \in held : p.bytes = p.declared
    /\ Covered \in {0..(offset - 1), 0..((offset + PartLen(offset)) - 1)}

TypeOK ==
    /\ caching \in BOOLEAN /\ cached \in {"none", "good", "stale"}
    /\ callouts \in 0..CalloutLimit
    /\ total \in 1..MaxTotal /\ partSize \in {0} \cup PartSizes /\ offset \in 0..total
    /\ op \in Requests \cup {"none"} /\ at \in {"idle", "attempt", "minting", "wire"}
    /\ failure \in Failures \cup {"none"} /\ errors \in Seq(Failures) /\ tried \in BOOLEAN
    /\ result \in {"none", "uploaded", "failed", "limit"}
    /\ session \in {"none", "open", "committed", "aborted"}

\* What each request of the upload finds: the parts are cut at multiples of three,
\* or there is only one.
Standing ==
    /\ op = "none" <=> at = "idle"
    /\ op # "none" => result = "none"
    /\ op \in {"none", "create"} /\ result = "none" => offset = 0 /\ partSize = 0 /\ held = {}
    /\ op = "part" =>
          /\ session = "open" /\ Usable(partSize) /\ offset < total
          /\ IF MultiPart(partSize) THEN offset % 3 = 0 ELSE offset = 0
    /\ op = "commit" => offset = total
    /\ op = "delete" => failure # "none"

\* send() is within its attempts; and with a provider that makes no callouts, every
\* callout since the request began was one of them.
Sending ==
    /\ sending \in [attempt : Nat, max : Nat, refreshed : BOOLEAN, retries : 0..MaxRetries,
                    budget : 0..CalloutLimit]
    /\ at # "idle" =>
          /\ sending.max = Smaller(MaxRetries + 2, Larger(1, sending.budget - 1))
          /\ sending.attempt + (IF at = "attempt" THEN 0 ELSE 1) <= sending.max
    /\ ~caching => cached # "none" /\ at # "minting"
    /\ ~caching /\ at # "idle" =>
          callouts = (CalloutLimit - sending.budget) + sending.attempt + (IF at = "wire" THEN 1 ELSE 0)

\* What Box holds is always the content from its start, cut where it says
\* (BoxChunkedUpload.cls:112-156); and a committed session holds all of it.
UploadInv ==
    /\ TypeOK
    /\ Standing
    /\ Sending
    /\ PartsAreSlices
    /\ session = "committed" => Covered = 0..(total - 1)

\* An upload that returns a file was committed and nothing failed.  One that fails
\* throws what failed first, whatever its cleanup ran into; if it had a session, it
\* sent nothing but the delete once it had failed, did send that, and leaves the
\* session open only when the delete failed too (BoxChunkedUpload.cls:95-109).
Settled ==
    /\ result = "uploaded" => session = "committed" /\ errors = <<>>
    /\ errors # <<>> => failure = errors[1] /\ (result = "none" => op = "delete")
    /\ result = "failed" =>
          /\ errors # <<>>
          /\ failure # "create" =>
                /\ tried
                /\ session = "open" => errors = <<failure, "delete">>

\* A request of a provider that makes no callout of its own never runs into the
\* limit when one is left as it begins (BoxHttpClient.cls:66-95).
FundedSendLives == result = "limit" /\ ~caching => sending.budget = 0
====
