---- MODULE EventLog ----
(***************************************************************************)
(* What an event stream promises its consumer: the events of Box's log, in *)
(* order, none skipped, and every one of them as long as the stream has    *)
(* not ended.  Long polls, servers, pages and repeats are not visible.     *)
(***************************************************************************)
EXTENDS Naturals

CONSTANT MaxPosted  \* bound on the events Box logs in a behaviour

VARIABLES
    posted,  \* how many events Box has logged
    got,     \* how many of them the consumer has been handed
    ended    \* the stream has ended: an error, or the consumer stopped it

vars == <<posted, got, ended>>

Init ==
    /\ posted = 0
    /\ got = 0
    /\ ended = FALSE

Post ==
    /\ posted < MaxPosted
    /\ posted' = posted + 1
    /\ UNCHANGED <<got, ended>>

\* The next event, and never one further on.
Deliver ==
    /\ ~ended
    /\ got < posted
    /\ got' = got + 1
    /\ UNCHANGED <<posted, ended>>

End ==
    /\ ~ended
    /\ ended' = TRUE
    /\ UNCHANGED <<posted, got>>

Next == Post \/ Deliver \/ End

Safety == Init /\ [][Next]_vars

Spec == Safety /\ WF_vars(Deliver)
====
