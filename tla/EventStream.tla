---- MODULE EventStream ----
(***************************************************************************)
(* The event stream of the five runtimes, over Box's log of events:        *)
(* events.rs and Java's EventStream queue a page and hand it out, Go's and *)
(* TypeScript's generators hand a page out as they walk it, and Apex polls *)
(* once a call.  The first four wait on a real-time server between pages.  *)
(* `runtime` is chosen once and selects the code that runs.                *)
(*                                                                         *)
(* An action is the code between two calls to Box.  An event is its number *)
(* in Box's log, a position how many events precede it.                    *)
(***************************************************************************)
EXTENDS Naturals, Sequences, FiniteSets, FiniteSetsExt, Functions

CONSTANTS
    MaxPosted,    \* bound on the events Box logs
    MaxSeen,      \* MAX_SEEN_EVENTS
    DefaultLimit, \* DEFAULT_LONG_POLL_RETRIES
    Limits,       \* the retries Box's listing may name for a server
    MaxRepeats,   \* bound on the repeats before, and after, a page's new events
    MaxQuirks     \* bound on the pages that repeat events or name no position

ASSUME StreamAssumption ==
    /\ {MaxPosted, MaxRepeats, MaxQuirks} \subseteq Nat
    /\ MaxSeen \in Nat \ {0}
    /\ DefaultLimit \in Nat \ {0}
    /\ Limits \subseteq Nat

VARIABLES
    runtime,    \* which runtime's code this is
    posted,     \* how many events Box has logged
    position,   \* the position the next page is asked for
    page,       \* the page in hand, NoPage between pages
    pending,    \* its places not yet handed out: a queue, or the rest of a walk
    seen,       \* the ids kept to drop repeats
    server,     \* the real-time server in use and how often it was polled
    fetched,    \* a page has been fetched
    at,         \* where the consumer's call stands
    delivered,  \* the events handed out, in order
    stopped,    \* Go's context, TypeScript's signal, Java's `closed`
    waiter,     \* Java: the thread in hasNext, as close() sees it
    interrupt,  \* Java: the consumer thread's interrupt flag
    closer,     \* Java: where close() stands
    quirks,     \* pages so far that repeated events or named no position
    polls,      \* polls since a server was last listed
    retired     \* that server asked for a reconnect since

stream == <<position, page, pending, seen, fetched>>
wire == <<server, polls, retired>>
closing == <<stopped, waiter, interrupt, closer>>
vars == <<runtime, posted, stream, wire, at, delivered, closing, quirks>>

Waiting == {"rust", "go", "typescript", "java"}
Runtimes == Waiting \cup {"apex"}
Walks == runtime \in {"go", "typescript"}

NoServer == [limit |-> 0, retries |-> 0]
NoPage == [events |-> <<>>, next |-> 0]

\* The call is waiting for Box.
Blocked == at \in {"page", "listing", "polling"}

Init ==
    /\ runtime \in Runtimes
    /\ posted = 0
    /\ position = 0
    /\ page = NoPage
    /\ pending = {}
    /\ seen = {}
    /\ server = NoServer
    /\ fetched = FALSE
    /\ at = "idle"
    /\ delivered = <<>>
    /\ stopped = FALSE
    /\ waiter = FALSE
    /\ interrupt = FALSE
    /\ closer = "idle"
    /\ quirks = 0
    /\ polls = 0
    /\ retired = FALSE

----------------------------------------------------------------------------
\* Box.

Post ==
    /\ posted < MaxPosted
    /\ posted' = posted + 1
    /\ UNCHANGED <<runtime, stream, wire, at, delivered, closing, quirks>>

\* Events up to `until` that a page may hold once more.
Repeats(until) == UNION {[1..k -> 1..until] : k \in 0..MaxRepeats}

Between(until) == [i \in 1..(until - position) |-> position + i]
PageOf(before, until, after, n) == [events |-> before \o Between(until) \o after, next |-> n]

\* A page after `position` up to `until`: the events between, in order, perhaps
\* among repeats of earlier ones; and where to go on from, which may be left out
\* (the position is kept) or lag behind.
PagesUpTo(until) ==
    {PageOf(<<>>, until, <<>>, until)}
    \cup IF quirks = MaxQuirks THEN {}
         ELSE {PageOf(before, until, after, n) :
                  before \in Repeats(position), after \in Repeats(until), n \in position..until}

\* At least one new event when there is one.
Pages == UNION {PagesUpTo(q) : q \in IF posted > position THEN (position + 1)..posted ELSE {position}}

IsQuirk(p) == p.next # position + Len(p.events)

----------------------------------------------------------------------------
\* The consumer's call, from one step to the next.

\* Where a call that has nothing in hand goes on: the first page, or a wait.
Turn == IF fetched THEN "wait" ELSE "page"

MutCall ==  \* hasNext does not say which thread waits
    /\ at = "idle"
    /\ at' = IF runtime = "apex" THEN "page" ELSE "loop"
    /\ UNCHANGED <<runtime, posted, stream, wire, delivered, closing, quirks>>

\* hasNext and next set the waiter before they look at anything; Apex's poll()
\* is one page.
Call ==
    /\ at = "idle"
    /\ at' = IF runtime = "apex" THEN "page" ELSE "loop"
    /\ waiter' = (runtime = "java")
    /\ UNCHANGED <<runtime, posted, stream, wire, delivered, stopped, interrupt, closer, quirks>>

\* A call returns to the consumer; hasNext forgets its thread and, once closed,
\* clears the interrupt close() sent.
Leave(to) ==
    /\ at' = to
    /\ waiter' = FALSE
    /\ interrupt' = (interrupt /\ ~(runtime = "java" /\ stopped))
    /\ UNCHANGED <<stopped, closer>>

\* The next event in hand answers the call, in a walk only one not seen before.
\* The list that poll() returned is its caller's to go through.
HandOut ==
    /\ at = "loop"
    /\ ~(runtime = "java" /\ stopped)
    /\ \E i \in pending :
          LET e == page.events[i] IN
          /\ \A j \in pending : i <= j
          /\ pending' = pending \ {i}
          /\ \/ /\ ~Walks \/ e \notin seen
                /\ delivered' = Append(delivered, e)
                /\ seen' = IF Walks THEN seen \cup {e} ELSE seen
                /\ Leave(IF runtime = "apex" THEN "loop" ELSE "idle")
             \/ /\ Walks /\ e \in seen
                /\ UNCHANGED <<delivered, seen, at, closing>>
    /\ page' = IF ~Walks /\ pending' = {} THEN NoPage ELSE page
    /\ UNCHANGED <<runtime, posted, position, fetched, wire, quirks>>

MutKept(ids, events) == Range(events)  \* keeps one page's ids from the start

\* The ids kept once a page is done with: all, or only this page's.
Kept(ids, events) == IF Cardinality(ids) >= MaxSeen THEN Range(events) ELSE ids

\* Go and TypeScript are through with the page: only now is the set cut back
\* and the position moved.
Walked ==
    /\ at = "loop" /\ Walks /\ pending = {} /\ page # NoPage
    /\ seen' = Kept(seen, page.events)
    /\ position' = page.next
    /\ page' = NoPage
    /\ at' = "wait"
    /\ UNCHANGED <<runtime, posted, pending, fetched, wire, delivered, closing, quirks>>

\* Nothing in hand: wait for a change, or fetch the first page; in Apex, the
\* end of the list.
Proceed ==
    /\ at = "loop" /\ pending = {} /\ page = NoPage
    /\ ~(runtime = "java" /\ stopped)
    /\ at' = IF runtime = "apex" THEN "idle" ELSE Turn
    /\ UNCHANGED <<runtime, posted, stream, wire, delivered, closing, quirks>>

\* Java: hasNext finds the stream closed.
FoundClosed ==
    /\ runtime = "java" /\ stopped
    /\ at \in {"loop", "wait"}
    /\ Leave("done")
    /\ UNCHANGED <<runtime, posted, stream, wire, delivered, quirks>>

----------------------------------------------------------------------------
\* The page.

MutQueued(p) ==  \* notes the page's ids before it looks for new ones
    LET news == {i \in DOMAIN p.events : p.events[i] \notin seen \cup Range(p.events)}
    IN  /\ page' = IF news = {} THEN NoPage ELSE p
        /\ pending' = news
        /\ seen' = Kept(seen \cup Range(p.events), p.events)
        /\ position' = p.next
        /\ at' = "loop"

\* The places of a page's events that were not seen, nor met earlier in it.
News(p) ==
    {i \in DOMAIN p.events :
        p.events[i] \notin seen /\ \A j \in 1..(i - 1) : p.events[j] # p.events[i]}

\* Rust, Java and Apex: queue what is new, cut the set back, advance.
Queued(p) ==
    /\ page' = IF News(p) = {} THEN NoPage ELSE p
    /\ pending' = News(p)
    /\ seen' = Kept(seen \cup Range(p.events), p.events)
    /\ position' = p.next
    /\ at' = "loop"

\* Go, TypeScript: walk it.
Walk(p) ==
    /\ page' = IF p.events = <<>> THEN NoPage ELSE p
    /\ pending' = DOMAIN p.events
    /\ position' = IF p.events = <<>> THEN p.next ELSE position
    /\ at' = IF p.events = <<>> THEN "wait" ELSE "loop"
    /\ UNCHANGED seen

PageOk ==
    /\ at = "page"
    /\ \E p \in Pages :
          /\ quirks' = quirks + (IF IsQuirk(p) THEN 1 ELSE 0)
          /\ IF Walks THEN Walk(p) ELSE Queued(p)
    /\ fetched' = TRUE
    /\ UNCHANGED <<runtime, posted, wire, delivered, closing>>

\* Java's and Apex's stream outlives an error it throws; the others end.
AfterError == IF runtime \in {"java", "apex"} THEN "idle" ELSE "done"

\* A page or a listing that fails, whatever the reason, fails the call.
CallFails ==
    /\ at \in {"page", "listing"}
    /\ Leave(AfterError)
    /\ UNCHANGED <<runtime, posted, stream, wire, delivered, quirks>>

----------------------------------------------------------------------------
\* The wait for a change.

\* With no server, or one polled to its limit, another is listed; otherwise
\* the poll counts before it is sent.
Exhausted == server.retries >= server.limit

List ==
    /\ at = "wait" /\ Exhausted
    /\ ~(runtime = "java" /\ stopped)
    /\ at' = "listing"
    /\ UNCHANGED <<runtime, posted, stream, wire, delivered, closing, quirks>>

Polled(s) ==
    /\ server' = [s EXCEPT !.retries = @ + 1]
    /\ at' = "polling"

Poll ==
    /\ at = "wait" /\ ~Exhausted
    /\ ~(runtime = "java" /\ stopped)
    /\ Polled(server)
    /\ polls' = polls + 1
    /\ UNCHANGED <<runtime, posted, stream, retired, delivered, closing, quirks>>

\* A limit that is absent, zero or negative takes the default.
ListOk ==
    /\ at = "listing"
    /\ \E limit \in Limits :
          Polled([limit |-> IF limit > 0 THEN limit ELSE DefaultLimit, retries |-> 0])
    /\ polls' = 1
    /\ retired' = FALSE
    /\ UNCHANGED <<runtime, posted, stream, delivered, closing, quirks>>

MutAnswer(message) ==  \* polls on a server that asked for a reconnect
    /\ at = "polling"
    /\ at' = IF message = "new_change" THEN "page" ELSE "wait"
    /\ retired' = (message = "reconnect")
    /\ UNCHANGED <<runtime, posted, stream, server, polls, delivered, closing, quirks>>

Answer(message) ==
    /\ at = "polling"
    /\ at' = IF message = "new_change" THEN "page" ELSE "wait"
    /\ server' = IF message = "reconnect" THEN NoServer ELSE server
    /\ retired' = (message = "reconnect")
    /\ UNCHANGED <<runtime, posted, stream, polls, delivered, closing, quirks>>

\* Box reports a change; "reconnect" stands for "max_retries" too; "other" is
\* any other message, a time-out or a poll that fails in transit.
PollChange == Answer("new_change")
PollEnds == \E message \in {"reconnect", "other"} : Answer(message)

\* An error response from Box fails the call, and so does a poll the
\* consumer's context or signal has cut short.
PollFails ==
    /\ at = "polling"
    /\ \/ Leave(AfterError)
       \/ Walks /\ stopped /\ Leave("done")
    /\ UNCHANGED <<runtime, posted, stream, wire, delivered, quirks>>

----------------------------------------------------------------------------
\* Stopping.

\* Rust: the future of next() is dropped at an await; the stream goes on where
\* it was at the next call.
Drop ==
    /\ runtime = "rust" /\ Blocked
    /\ Leave("idle")
    /\ UNCHANGED <<runtime, posted, stream, wire, delivered, quirks>>

\* Apex: the next transaction starts from the saved position, nothing else.
NewTransaction ==
    /\ runtime = "apex" /\ at = "idle"
    /\ seen # {} /\ seen' = {}
    /\ quirks < MaxQuirks /\ quirks' = quirks + 1
    /\ UNCHANGED <<runtime, posted, position, pending, page, fetched, wire, at, delivered, closing>>

Cancel ==
    /\ Walks /\ ~stopped
    /\ stopped' = TRUE
    /\ UNCHANGED <<runtime, posted, stream, wire, at, delivered, waiter, interrupt, closer, quirks>>

\* Java's close() from another thread: mark, read the waiter, interrupt it.
Close ==
    /\ runtime = "java" /\ closer = "idle"
    /\ stopped' = TRUE
    /\ closer' = "marked"
    /\ UNCHANGED <<runtime, posted, stream, wire, at, delivered, waiter, interrupt, quirks>>

CloseReads ==
    /\ closer = "marked"
    /\ closer' = IF waiter THEN "interrupts" ELSE "closed"
    /\ UNCHANGED <<runtime, posted, stream, wire, at, delivered, stopped, waiter, interrupt, quirks>>

CloseInterrupts ==
    /\ closer = "interrupts"
    /\ closer' = "closed"
    /\ interrupt' = TRUE
    /\ UNCHANGED <<runtime, posted, stream, wire, at, delivered, stopped, waiter, quirks>>

\* The interrupt cuts a call to Box short, at once when the flag was set before
\* it blocked: a poll returns to the loop's check, the other two throw.
Interrupted ==
    /\ interrupt /\ Blocked
    /\ IF at = "polling" THEN at' = "wait" /\ UNCHANGED closing ELSE Leave(AfterError)
    /\ UNCHANGED <<runtime, posted, stream, wire, delivered, quirks>>

----------------------------------------------------------------------------
Next ==
    \/ Post
    \/ Call \/ HandOut \/ Walked \/ Proceed \/ FoundClosed
    \/ PageOk \/ CallFails
    \/ List \/ ListOk \/ Poll \/ PollChange \/ PollEnds \/ PollFails
    \/ Drop \/ NewTransaction \/ Cancel
    \/ Close \/ CloseReads \/ CloseInterrupts \/ Interrupted

Spec == Init /\ [][Next]_vars

\* The runtime's own steps run, the consumer asks for the next event while the
\* stream lasts, and Box, asked often enough, answers.
Fairness ==
    /\ WF_vars(Call) /\ WF_vars(HandOut) /\ WF_vars(Walked) /\ WF_vars(Proceed)
    /\ WF_vars(FoundClosed) /\ WF_vars(List) /\ WF_vars(Poll) /\ WF_vars(Interrupted)
    /\ WF_vars(CloseReads) /\ WF_vars(CloseInterrupts)
    /\ SF_vars(PageOk) /\ SF_vars(ListOk) /\ SF_vars(PollChange)

FairSpec == Spec /\ Fairness

----------------------------------------------------------------------------
\* Properties.

TypeOK ==
    /\ runtime \in Runtimes
    /\ posted \in 0..MaxPosted /\ position \in 0..posted
    /\ page \in [events : Seq(1..posted), next : 0..posted]
    /\ pending \subseteq DOMAIN page.events
    /\ delivered \in Seq(1..posted) /\ seen \subseteq 1..posted
    /\ server \in [limit : Nat, retries : Nat] /\ polls \in Nat /\ retired \in BOOLEAN
    /\ at \in {"idle", "loop", "wait", "page", "listing", "polling", "done"}
    /\ fetched \in BOOLEAN /\ stopped \in BOOLEAN /\ waiter \in BOOLEAN /\ interrupt \in BOOLEAN
    /\ closer \in {"idle", "marked", "interrupts", "closed"}
    /\ quirks \in 0..MaxQuirks

\* A real-time server is never polled more often than it allows, nor once it
\* has asked for a reconnect (events.rs:121-155 and its counterparts).
ServerLimits ==
    /\ server.retries <= server.limit
    /\ at = "polling" => polls <= server.limit /\ ~retired
    /\ IF retired THEN server = NoServer ELSE polls = server.retries

\* Java: a thread in hasNext can be seen by close(), which has marked the stream
\* before it looks.
WaiterInCall ==
    /\ waiter <=> runtime = "java" /\ at \notin {"idle", "done"}
    /\ closer # "idle" => runtime = "java" /\ stopped

\* No page is in hand while Box is asked; Apex's caller has gone through its
\* list before it polls again.
PageInLoop ==
    page # NoPage =>
        \/ at = "loop"
        \/ at = "done"
        \/ at = "idle" /\ runtime # "apex"

Handed == Range(delivered)
Ahead == Handed \cup {page.events[i] : i \in pending}

\* What was handed out and what is in hand leave no gap in the log, up to the
\* position and to where the page in hand goes on: each event in hand follows
\* those before it.
NoGap ==
    /\ \A e \in Handed : 1..e \subseteq Handed
    /\ \A i \in pending : \A e \in 1..(page.events[i] - 1) :
          e \in Handed \/ \E j \in pending : j < i /\ page.events[j] = e
    /\ 1..position \subseteq Ahead /\ 1..page.next \subseteq Ahead /\ Range(page.events) \subseteq Ahead

\* The ids kept are of events handed out, or queued to be; and until they are
\* first cut back they are all of those.
Known == IF Walks THEN Handed ELSE Ahead
SeenIsKnown ==
    /\ seen \subseteq Known
    /\ runtime # "apex" /\ Cardinality(Known) < MaxSeen => Known \subseteq seen

\* Until then what is queued was never handed out, and is queued once.
QueuedOnce ==
    runtime \in {"rust", "java"} /\ Cardinality(Handed) < MaxSeen =>
        \A i \in pending :
            /\ page.events[i] \notin Handed
            /\ \A j \in pending : page.events[j] = page.events[i] => j = i

\* The stream keeps to its servers' limits, and what it holds of the log has
\* no gap.
StreamInv ==
    /\ TypeOK
    /\ ServerLimits /\ WaiterInCall /\ PageInLoop
    /\ NoGap /\ SeenIsKnown /\ QueuedOnce

\* The stream hands out Box's log in order and skips nothing, whatever pages
\* repeat, whatever fails, and wherever the call is dropped; and while it has
\* not ended every event Box logs is handed out (events.rs:73-156).
Log == INSTANCE EventLog WITH
    got <- Max({0} \cup Handed),
    ended <- at = "done"
HandsOutTheLog == Log!Spec

\* An event is handed out twice only by a stream that has handed out MaxSeen
\* others since it began; Apex forgets more, between transactions
\* (events.rs:103-114).
EachOnceUntilCut ==
    runtime # "apex" =>
        \A i, j \in DOMAIN delivered :
            i < j /\ delivered[i] = delivered[j] =>
                Cardinality({delivered[k] : k \in 1..(j - 1)}) >= MaxSeen

\* close() from another thread never leaves the consumer in a call to Box that
\* nobody cuts short: it marks the stream before it reads the waiter, and
\* hasNext sets the waiter before it reads the mark (Runtime.java:1067-1102).
CloseWakes == closer = "closed" /\ Blocked => interrupt
====
