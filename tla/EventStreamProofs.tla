---- MODULE EventStreamProofs ----
(***************************************************************************)
(* Proofs about EventStream, for a log of any length, any page Box may     *)
(* answer with and any number of ids kept, in all five runtimes.  What has *)
(* been handed out is the log up to some event, and each event in hand     *)
(* follows those before it (NoGap); so the next one handed out is never    *)
(* further on than the next of the log.                                    *)
(***************************************************************************)
EXTENDS EventStream, FiniteSetTheorems, SequenceTheorems, WellFoundedInduction, TLAPS

-----------------------------------------------------------------------------
\* Sequences and sets.

\* A value that occurs in a sequence has a first place.
LEMMA FirstPlace ==
    ASSUME NEW S, NEW s \in Seq(S), NEW i \in 1..Len(s)
    PROVE  \E j \in 1..i : s[j] = s[i] /\ \A k \in 1..(j - 1) : s[k] # s[i]
  <1> DEFINE Places == {j \in 1..Len(s) : s[j] = s[i]}
             T == {1..j : j \in Places}
  <1>1. Len(s) \in Nat /\ i \in Places
    BY LenProperties
  <1>2. T \subseteq FiniteSubsetsOf(Nat) /\ T # {}
    <2>1. \A j \in Places : 1..j \in SUBSET Nat /\ IsFiniteSet(1..j)
      BY <1>1, FS_Interval
    <2> QED
      BY <1>1, <2>1 DEF FiniteSubsetsOf
  <1>3. PICK x \in T : \A y \in T : <<y, x>> \notin StrictSubsetOrdering(Nat)
    BY <1>2, FS_StrictSubsetOrderingWellFounded, WFMin
  <1>4. PICK j \in Places : x = 1..j
    OBVIOUS
  <1>5. ASSUME NEW k \in Places, k < j PROVE FALSE
    <2>1. <<1..k, 1..j>> \in StrictSubsetOrdering(Nat)
      <3>1. 1..k \subseteq 1..j /\ j \in 1..j /\ j \notin 1..k /\ 1..j \subseteq Nat
        BY <1>1, <1>5
      <3> QED
        BY <3>1 DEF StrictSubsetOrdering
    <2> QED
      BY <1>3, <1>4, <2>1
  <1> QED
    BY <1>1, <1>5

LEMMA ConcatPlaces ==
    ASSUME NEW S, NEW a \in Seq(S), NEW b \in Seq(S)
    PROVE  /\ a \o b \in Seq(S) /\ Len(a \o b) = Len(a) + Len(b)
           /\ Len(a) \in Nat /\ Len(b) \in Nat
           /\ \A i \in 1..Len(a) : (a \o b)[i] = a[i]
           /\ \A i \in 1..Len(b) : (a \o b)[Len(a) + i] = b[i]
  <1>1. Len(a) \in Nat /\ Len(b) \in Nat
    BY LenProperties
  <1>2. /\ a \o b \in Seq(S) /\ Len(a \o b) = Len(a) + Len(b)
        /\ \A i \in 1..Len(a) + Len(b) : (a \o b)[i] = IF i <= Len(a) THEN a[i] ELSE b[i - Len(a)]
    BY ConcatProperties
  <1>3. ASSUME NEW i \in 1..Len(a) PROVE (a \o b)[i] = a[i]
    <2>1. i \in 1..Len(a) + Len(b) /\ i <= Len(a)
      BY <1>1
    <2> QED
      BY <1>2, <2>1
  <1>4. ASSUME NEW i \in 1..Len(b) PROVE (a \o b)[Len(a) + i] = b[i]
    <2>1. Len(a) + i \in 1..Len(a) + Len(b) /\ ~(Len(a) + i <= Len(a)) /\ (Len(a) + i) - Len(a) = i
      BY <1>1
    <2> QED
      BY <1>2, <2>1
  <1> QED
    BY <1>1, <1>2, <1>3, <1>4

LEMMA RangeOfAppend ==
    ASSUME NEW S, NEW s \in Seq(S), NEW e
    PROVE  Range(Append(s, e)) = Range(s) \cup {e}
  <1>1. s \in Seq(S \cup {e}) /\ Len(s) \in Nat /\ DOMAIN s = 1..Len(s)
    BY LenProperties
  <1>2. /\ DOMAIN Append(s, e) = 1..(Len(s) + 1)
        /\ \A i \in 1..Len(s) : Append(s, e)[i] = s[i]
        /\ Append(s, e)[Len(s) + 1] = e
    BY <1>1, AppendProperties, LenProperties
  <1>3. Range(Append(s, e)) \subseteq Range(s) \cup {e}
    <2> SUFFICES ASSUME NEW i \in 1..(Len(s) + 1) PROVE Append(s, e)[i] \in Range(s) \cup {e}
      BY <1>2 DEF Range
    <2>1. i \in 1..Len(s) \/ i = Len(s) + 1
      BY <1>1
    <2> QED
      BY <1>1, <1>2, <2>1 DEF Range
  <1>4. Range(s) \cup {e} \subseteq Range(Append(s, e))
    <2>1. 1..Len(s) \subseteq 1..(Len(s) + 1) /\ Len(s) + 1 \in 1..(Len(s) + 1)
      BY <1>1
    <2> QED
      BY <1>1, <1>2, <2>1 DEF Range
  <1> QED
    BY <1>3, <1>4

LEMMA RangeIsFinite ==
    ASSUME NEW n \in Nat, NEW S \in SUBSET (1..n)
    PROVE  IsFiniteSet(S) /\ Cardinality(S) \in Nat
  <1>1. IsFiniteSet(1..n)
    BY FS_Interval
  <1>2. IsFiniteSet(S)
    BY <1>1, FS_Subset
  <1> QED
    BY <1>2, FS_CardinalityType

LEMMA MoreIsNoFewer ==
    ASSUME NEW n \in Nat, NEW T \in SUBSET (1..n), NEW S \in SUBSET T
    PROVE  Cardinality(S) <= Cardinality(T) /\ Cardinality(S) \in Nat /\ Cardinality(T) \in Nat
  BY RangeIsFinite, FS_Subset

-----------------------------------------------------------------------------
\* What a page of Box's holds: events of the log; each new one follows those
\* between the position asked for and it; and it reaches as far as it says.
LEMMA PageHolds ==
    ASSUME TypeOK, NEW p \in Pages
    PROVE  /\ p \in [events : Seq(1..posted), next : position..posted]
           /\ \A i \in 1..Len(p.events) : \A e \in (position + 1)..(p.events[i] - 1) :
                 \E j \in 1..(i - 1) : p.events[j] = e
           /\ \A e \in (position + 1)..p.next : e \in Range(p.events)
           /\ quirks + (IF IsQuirk(p) THEN 1 ELSE 0) \in 0..MaxQuirks
  <1>1. posted \in Nat /\ position \in Nat /\ position <= posted /\ MaxQuirks \in Nat /\ quirks \in 0..MaxQuirks
    BY StreamAssumption DEF TypeOK
  <1>2. PICK until \in position..posted : p \in PagesUpTo(until)
    BY <1>1 DEF Pages
  <1>3. until \in Nat /\ position <= until /\ until <= posted
    BY <1>1
  <1> DEFINE news == Between(until)
  <1>4. /\ news \in Seq(1..until) /\ Len(news) = until - position /\ until - position \in Nat
        /\ \A i \in 1..(until - position) : news[i] = position + i
    BY <1>1, <1>3 DEF Between
  <1>5. \E before \in Repeats(position) \cup {<<>>}, after \in Repeats(until) \cup {<<>>}, n \in position..until :
           /\ p = PageOf(before, until, after, n)
           /\ quirks # MaxQuirks \/ (before = <<>> /\ after = <<>> /\ n = until)
    <2>1. CASE p = PageOf(<<>>, until, <<>>, until)
      BY <1>1, <1>3, <2>1
    <2>2. CASE p # PageOf(<<>>, until, <<>>, until)
      BY <1>2, <2>2 DEF PagesUpTo
    <2> QED
      BY <2>1, <2>2
  <1>6. PICK before \in Repeats(position) \cup {<<>>}, after \in Repeats(until) \cup {<<>>}, n \in position..until :
           /\ p = PageOf(before, until, after, n)
           /\ quirks # MaxQuirks \/ (before = <<>> /\ after = <<>> /\ n = until)
    BY <1>5
  <1>7. before \in Seq(1..position) /\ after \in Seq(1..until) /\ n \in Nat
    <2>1. ASSUME NEW m \in Nat, NEW s \in Repeats(m) \cup {<<>>} PROVE s \in Seq(1..m)
      <3>1. CASE s = <<>>
        BY <3>1
      <3>2. CASE s # <<>>
        <4>1. PICK k \in 0..MaxRepeats : s \in [1..k -> 1..m]
          BY <3>2 DEF Repeats
        <4> QED
          BY <4>1, StreamAssumption, SeqDef
      <3> QED
        BY <3>1, <3>2
    <2> QED
      BY <1>1, <1>3, <2>1
  <1>8. /\ before \in Seq(1..until)
        /\ \A i \in 1..Len(before) : before[i] \in 1..position
    BY <1>1, <1>3, <1>7
  <1> DEFINE first == before \o news
             all == first \o after
             B == Len(before)
  <1>9. p.events = all /\ p.next = n /\ p = [events |-> all, next |-> n]
    BY <1>6 DEF PageOf
  <1> HIDE DEF news
  <1>10. /\ first \in Seq(1..until) /\ Len(first) = B + (until - position) /\ B \in Nat
         /\ \A i \in 1..B : first[i] = before[i]
         /\ \A i \in 1..(until - position) : first[B + i] = news[i]
    <2>1. /\ first \in Seq(1..until) /\ Len(first) = Len(before) + Len(news)
          /\ Len(before) \in Nat
          /\ \A i \in 1..Len(before) : first[i] = before[i]
          /\ \A i \in 1..Len(news) : first[Len(before) + i] = news[i]
      <3>1. ASSUME NEW S, NEW a \in Seq(S), NEW b \in Seq(S)
            PROVE  /\ a \o b \in Seq(S) /\ Len(a \o b) = Len(a) + Len(b)
                   /\ Len(a) \in Nat
                   /\ \A i \in 1..Len(a) : (a \o b)[i] = a[i]
                   /\ \A i \in 1..Len(b) : (a \o b)[Len(a) + i] = b[i]
        BY ConcatPlaces
      <3>2. news \in Seq(1..until) /\ before \in Seq(1..until)
        BY <1>4, <1>8
      <3> QED
        BY ONLY <3>1, <3>2
    <2> QED
      BY <1>4, <2>1
  <1> HIDE DEF first
  <1>11. /\ all \in Seq(1..until) /\ Len(all) = Len(first) + Len(after)
         /\ Len(first) \in Nat /\ Len(after) \in Nat /\ Len(all) \in Nat /\ DOMAIN all = 1..Len(all)
         /\ \A i \in 1..Len(first) : all[i] = first[i]
    BY ConcatPlaces, LenProperties, <1>7, <1>10
  <1> HIDE DEF all
  <1>12. p \in [events : Seq(1..posted), next : position..posted]
    <2>1. all \in Seq(1..posted) /\ n \in position..posted
      BY <1>1, <1>3, <1>11
    <2> QED
      BY <1>9, <2>1
  <1>13. ASSUME NEW e \in (position + 1)..until
         PROVE  B + (e - position) \in 1..Len(first) /\ all[B + (e - position)] = e
    <2>1. /\ e - position \in 1..(until - position) /\ B + (e - position) \in 1..Len(first)
          /\ position + (e - position) = e
      BY <1>1, <1>3, <1>10
    <2>2. first[B + (e - position)] = e
      BY <1>4, <1>10, <2>1
    <2> QED
      BY <1>11, <2>1, <2>2
  <1>14. ASSUME NEW i \in 1..Len(first)
         PROVE  all[i] <= position \/ (i > B /\ all[i] = position + (i - B))
    <2>1. CASE i <= B
      <3>1. all[i] = before[i] /\ before[i] \in 1..position
        BY <1>8, <1>10, <1>11, <2>1
      <3> QED
        BY <1>1, <3>1
    <2>2. CASE i > B
      <3>1. i - B \in 1..(until - position) /\ B + (i - B) = i
        BY <1>1, <1>3, <1>10, <2>2
      <3> QED
        BY <1>4, <1>10, <1>11, <2>2, <3>1
    <2> QED
      BY <1>10, <2>1, <2>2
  <1> HIDE DEF B
  <1>15. ASSUME NEW i \in 1..Len(all), NEW e \in (position + 1)..(all[i] - 1)
         PROVE  \E j \in 1..(i - 1) : all[j] = e
    <2>1. all[i] \in 1..until /\ e \in (position + 1)..until /\ e < all[i]
      BY <1>1, <1>3, <1>11
    <2>2. B + (e - position) < i
      <3>1. CASE i \in 1..Len(first)
        <4>1. i > B /\ all[i] = position + (i - B)
          BY <1>1, <1>14, <2>1, <3>1
        <4> QED
          BY <1>1, <1>10, <2>1, <4>1
      <3>2. CASE i > Len(first)
        BY <1>1, <1>10, <1>11, <1>13, <2>1, <3>2
      <3> QED
        BY <1>11, <3>1, <3>2
    <2>3. B + (e - position) \in 1..(i - 1)
      BY <1>1, <1>10, <1>11, <1>13, <2>1, <2>2
    <2> QED
      BY <1>13, <2>1, <2>3
  <1>16. ASSUME NEW e \in (position + 1)..n
         PROVE  e \in Range(all)
    <2>1. e \in (position + 1)..until
      BY <1>1, <1>3, <1>7
    <2>2. B + (e - position) \in DOMAIN all /\ all[B + (e - position)] = e
      BY <1>11, <1>13, <2>1
    <2> QED
      BY <2>2 DEF Range
  <1>17. quirks + (IF IsQuirk(p) THEN 1 ELSE 0) \in 0..MaxQuirks
    <2>1. CASE quirks # MaxQuirks
      BY <1>1, <2>1
    <2>2. CASE before = <<>> /\ after = <<>> /\ n = until
      <3>1. Len(all) = until - position
        BY <1>4, <1>10, <1>11, <2>2 DEF B
      <3>2. ~IsQuirk(p)
        BY <1>1, <1>3, <1>9, <2>2, <3>1 DEF IsQuirk
      <3> QED
        BY <1>1, <3>2
    <2> QED
      BY <1>6, <2>1, <2>2
  <1> QED
    BY <1>9, <1>12, <1>15, <1>16, <1>17

-----------------------------------------------------------------------------
LEMMA InitEstablishes == Init => StreamInv
  <1> SUFFICES ASSUME Init PROVE StreamInv
    OBVIOUS
  <1> USE StreamAssumption DEF Init
  <1>1. /\ DOMAIN page.events = {} /\ page.next = 0 /\ Len(delivered) = 0
        /\ page \in [events : Seq(1..posted), next : 0..posted] /\ delivered \in Seq(1..posted)
    BY DEF NoPage
  <1>2. TypeOK
    <2>1. server \in [limit : Nat, retries : Nat]
      BY DEF NoServer
    <2>2. posted \in 0..MaxPosted /\ position \in 0..posted /\ quirks \in 0..MaxQuirks
      OBVIOUS
    <2> QED
      BY <1>1, <2>1, <2>2 DEF TypeOK
  <1>3. ServerLimits /\ WaiterInCall /\ PageInLoop
    BY DEF ServerLimits, WaiterInCall, PageInLoop, NoServer
  <1>4. Handed = {} /\ Ahead = {} /\ Known = {} /\ Range(page.events) = {}
    BY <1>1 DEF Handed, Ahead, Known, Range
  <1>5. NoGap /\ QueuedOnce
    BY <1>1, <1>4 DEF NoGap, QueuedOnce
  <1>6. SeenIsKnown
    BY <1>4 DEF SeenIsKnown
  <1> QED
    BY <1>2, <1>3, <1>5, <1>6 DEF StreamInv

\* A step that leaves what was handed out, what is in hand and the ids kept.
LEMMA QuietPreserves ==
    ASSUME StreamInv, UNCHANGED <<runtime, position, page, pending, seen, delivered>>,
           TypeOK', ServerLimits', WaiterInCall', PageInLoop'
    PROVE  StreamInv'
  BY DEF StreamInv, NoGap, SeenIsKnown, QueuedOnce, Known, Ahead, Handed, Walks

\* The steps of a call between its pages, of the long poll, of Box's log and of
\* those who stop the stream.
LEMMA OtherSteps ==
    ASSUME StreamInv,
           \/ Post \/ Call \/ Proceed \/ FoundClosed \/ CallFails
           \/ List \/ ListOk \/ Poll \/ PollChange \/ PollEnds \/ PollFails
           \/ Drop \/ Cancel \/ Close \/ CloseReads \/ CloseInterrupts \/ Interrupted
    PROVE  StreamInv'
  <1> USE StreamAssumption
          DEF StreamInv, TypeOK, ServerLimits, WaiterInCall, PageInLoop, stream, wire, closing
  <1>1. CASE Post
    <2>1. posted' \in 0..MaxPosted /\ posted \in Nat /\ posted <= posted'
      BY <1>1 DEF Post
    <2>2. 1..posted \subseteq 1..posted' /\ 0..posted \subseteq 0..posted'
      BY <2>1
    <2>3. Seq(1..posted) \subseteq Seq(1..posted')
      BY <2>2, SeqMonotonic
    <2> QED
      BY <1>1, <2>1, <2>2, <2>3, QuietPreserves DEF Post
  <1>2. CASE Call
    BY <1>2, QuietPreserves DEF Call
  <1>3. CASE Proceed
    BY <1>3, QuietPreserves DEF Proceed, Turn
  <1>4. CASE FoundClosed
    BY <1>4, QuietPreserves DEF FoundClosed, Leave
  <1>5. CASE CallFails
    BY <1>5, QuietPreserves DEF CallFails, Leave, AfterError
  <1>6. CASE List
    BY <1>6, QuietPreserves DEF List
  <1>7. CASE ListOk
    <2>1. PICK limit \in Limits :
             Polled([limit |-> IF limit > 0 THEN limit ELSE DefaultLimit, retries |-> 0])
      BY <1>7 DEF ListOk
    <2>2. server' = [limit |-> IF limit > 0 THEN limit ELSE DefaultLimit, retries |-> 1]
      BY <2>1 DEF Polled
    <2>3. limit \in Nat /\ DefaultLimit \in Nat \ {0}
      OBVIOUS
    <2>4. server' \in [limit : Nat, retries : Nat] /\ server'.retries = 1 /\ server'.limit >= 1
      BY <2>2, <2>3
    <2> QED
      BY <1>7, <2>1, <2>4, QuietPreserves DEF ListOk, Polled
  <1>8. CASE Poll
    <2>1. server.retries < server.limit /\ ~retired
      BY <1>8 DEF Poll, Exhausted, NoServer
    <2>2. /\ server' \in [limit : Nat, retries : Nat]
          /\ server'.retries = server.retries + 1 /\ server'.limit = server.limit
      <3>1. server' = [server EXCEPT !.retries = @ + 1] /\ server \in [limit : Nat, retries : Nat]
        BY <1>8 DEF Poll, Polled
      <3> QED
        BY ONLY <3>1
    <2> QED
      BY <1>8, <2>1, <2>2, QuietPreserves DEF Poll, Polled
  <1>9. CASE PollChange
    BY <1>9, QuietPreserves DEF PollChange, Answer, NoServer
  <1>10. CASE PollEnds
    <2>1. PICK message \in {"reconnect", "other"} : Answer(message)
      BY <1>10 DEF PollEnds
    <2>2. NoServer \in [limit : Nat, retries : Nat] /\ NoServer.limit = 0 /\ NoServer.retries = 0
      BY DEF NoServer
    <2>3. /\ at = "polling" /\ at' = "wait" /\ ~retired
          /\ UNCHANGED <<runtime, posted, stream, polls, delivered, closing, quirks>>
          /\ \/ server' = NoServer /\ retired' = TRUE
             \/ server' = server /\ retired' = FALSE
      BY <2>1 DEF Answer
    <2>4. TypeOK' /\ PageInLoop'
      BY <2>2, <2>3
    <2>5. ServerLimits'
      BY <2>2, <2>3
    <2>6. WaiterInCall'
      BY <2>3
    <2> QED
      BY <2>3, <2>4, <2>5, <2>6, QuietPreserves
  <1>11. CASE PollFails
    BY <1>11, QuietPreserves DEF PollFails, Leave, AfterError
  <1>12. CASE Drop
    BY <1>12, QuietPreserves DEF Drop, Leave, Blocked
  <1>13. CASE Cancel
    BY <1>13, QuietPreserves DEF Cancel, Walks
  <1>14. CASE Close \/ CloseReads \/ CloseInterrupts
    <2>1. CASE Close
      BY <2>1, QuietPreserves DEF Close
    <2>2. CASE CloseReads
      BY <2>2, QuietPreserves DEF CloseReads
    <2>3. CASE CloseInterrupts
      BY <2>3, QuietPreserves DEF CloseInterrupts
    <2> QED
      BY <1>14, <2>1, <2>2, <2>3
  <1>15. CASE Interrupted
    BY <1>15, QuietPreserves DEF Interrupted, Leave, AfterError, Blocked
  <1> QED
    BY <1>1, <1>2, <1>3, <1>4, <1>5, <1>6, <1>7, <1>8, <1>9, <1>10, <1>11, <1>12, <1>13, <1>14, <1>15

\* The places of the sequence of events handed out are bounded by the log.
LEMMA SetsAreFinite ==
    ASSUME TypeOK
    PROVE  /\ posted \in Nat /\ Len(page.events) \in Nat /\ DOMAIN page.events = 1..Len(page.events)
           /\ page.events \in Seq(1..posted) /\ page.next \in 0..posted
           /\ pending \subseteq 1..Len(page.events)
           /\ \A i \in pending : page.events[i] \in 1..posted
           /\ Handed \subseteq 1..posted /\ Ahead \subseteq 1..posted /\ Handed \subseteq Ahead
  <1>1. posted \in Nat /\ page.events \in Seq(1..posted) /\ page.next \in 0..posted
    BY StreamAssumption DEF TypeOK
  <1>2. Len(page.events) \in Nat /\ DOMAIN page.events = 1..Len(page.events)
    BY <1>1, LenProperties
  <1>3. pending \subseteq 1..Len(page.events)
    BY <1>2 DEF TypeOK
  <1>4. \A i \in pending : page.events[i] \in 1..posted
    BY <1>1, <1>3, ElementOfSeq
  <1>5. Handed \subseteq 1..posted
    BY ElementOfSeq, LenProperties DEF TypeOK, Handed, Range
  <1> QED
    BY <1>1, <1>2, <1>3, <1>4, <1>5 DEF Ahead

\* The next event in hand is one handed out before, or the next of the log.
LEMMA NextInHand ==
    ASSUME StreamInv, NEW i \in pending, \A j \in pending : i <= j
    PROVE  /\ page.events[i] \in 1..posted
           /\ 1..(page.events[i] - 1) \subseteq Handed
  <1>1. i \in Nat /\ page.events[i] \in 1..posted /\ pending \subseteq Nat
    BY SetsAreFinite DEF StreamInv
  <1>2. \A e \in 1..(page.events[i] - 1) : e \in Handed \/ \E j \in pending : j < i
    BY DEF StreamInv, NoGap
  <1> QED
    BY <1>1, <1>2

\* The steps that touch what is in hand, in the parts that they change.
LEMMA HandOutMoves ==
    ASSUME StreamInv, HandOut
    PROVE  \E i \in pending :
              LET e == page.events[i] IN
              /\ \A j \in pending : i <= j
              /\ pending' = pending \ {i} /\ (page' = page \/ (page' = NoPage /\ pending' = {} /\ ~Walks))
              /\ e \in 1..posted /\ 1..(e - 1) \subseteq Handed
              /\ \/ /\ ~Walks \/ e \notin seen
                    /\ delivered' = Append(delivered, e) /\ Handed' = Handed \cup {e}
                    /\ seen' = (IF Walks THEN seen \cup {e} ELSE seen)
                    /\ Leave(IF runtime = "apex" THEN "loop" ELSE "idle")
                 \/ /\ Walks /\ e \in seen
                    /\ UNCHANGED <<delivered, seen, at, closing>> /\ Handed' = Handed
  <1>1. PICK i \in pending :
           LET e == page.events[i] IN
           /\ \A j \in pending : i <= j
           /\ pending' = pending \ {i}
           /\ \/ /\ ~Walks \/ e \notin seen
                 /\ delivered' = Append(delivered, e)
                 /\ seen' = (IF Walks THEN seen \cup {e} ELSE seen)
                 /\ Leave(IF runtime = "apex" THEN "loop" ELSE "idle")
              \/ /\ Walks /\ e \in seen
                 /\ UNCHANGED <<delivered, seen, at, closing>>
    BY DEF HandOut
  <1>2. page' = page \/ (page' = NoPage /\ pending' = {} /\ ~Walks)
    BY DEF HandOut
  <1>3. page.events[i] \in 1..posted /\ 1..(page.events[i] - 1) \subseteq Handed
    BY <1>1, NextInHand
  <1>4. delivered \in Seq(1..posted)
    BY DEF StreamInv, TypeOK
  <1>5. delivered' = Append(delivered, page.events[i]) => Handed' = Handed \cup {page.events[i]}
    BY <1>4, RangeOfAppend DEF Handed
  <1>6. delivered' = delivered => Handed' = Handed
    BY DEF Handed
  <1> QED
    BY <1>1, <1>2, <1>3, <1>5, <1>6

LEMMA HandOutPreserves ==
    ASSUME StreamInv, HandOut
    PROVE  StreamInv'
  <1>1. PICK i \in pending :
           /\ \A j \in pending : i <= j
           /\ pending' = pending \ {i} /\ (page' = page \/ (page' = NoPage /\ pending' = {} /\ ~Walks))
           /\ page.events[i] \in 1..posted /\ 1..(page.events[i] - 1) \subseteq Handed
           /\ \/ /\ ~Walks \/ page.events[i] \notin seen
                 /\ delivered' = Append(delivered, page.events[i])
                 /\ Handed' = Handed \cup {page.events[i]}
                 /\ seen' = (IF Walks THEN seen \cup {page.events[i]} ELSE seen)
                 /\ Leave(IF runtime = "apex" THEN "loop" ELSE "idle")
              \/ /\ Walks /\ page.events[i] \in seen
                 /\ UNCHANGED <<delivered, seen, at, closing>> /\ Handed' = Handed
    BY HandOutMoves
  <1> DEFINE e == page.events[i]
  <1>2. /\ UNCHANGED <<runtime, posted, position, fetched, wire, quirks>> /\ at = "loop"
        /\ (Walks' <=> Walks)
    BY DEF HandOut, Walks
  <1>3. /\ TypeOK /\ ServerLimits /\ WaiterInCall /\ PageInLoop /\ NoGap /\ SeenIsKnown /\ QueuedOnce
    BY DEF StreamInv
  <1>4. NoPage.next = 0 /\ NoPage.events = <<>> /\ Range(<<>>) = {}
        /\ NoPage \in [events : Seq(1..posted), next : 0..posted]
    BY <1>3, SetsAreFinite DEF NoPage, Range
  <1>5. /\ posted \in Nat /\ Handed \subseteq 1..posted /\ Handed \subseteq Handed'
        /\ Handed' = Handed \cup {e}
    <2>1. Walks /\ e \in seen => e \in Handed
      BY <1>3 DEF SeenIsKnown, Known
    <2> QED
      BY <1>1, <1>3, <2>1, SetsAreFinite
  <1>6. Ahead' = Ahead
    <2>1. CASE page' = page
      BY <1>1, <1>5, <2>1 DEF Ahead
    <2>2. CASE page' = NoPage /\ pending' = {}
      BY <1>1, <1>5, <2>2 DEF Ahead
    <2> QED
      BY <1>1, <2>1, <2>2
  <1>7. TypeOK'
    <2>1. delivered' \in Seq(1..posted) /\ seen' \subseteq 1..posted
      <3>1. delivered \in Seq(1..posted) /\ seen \subseteq 1..posted
        BY <1>3 DEF TypeOK
      <3>2. page.events[i] \in 1..posted
        BY <1>1
      <3>3. Append(delivered, page.events[i]) \in Seq(1..posted)
        BY ONLY <3>1, <3>2, AppendProperties
      <3> QED
        BY <1>1, <3>1, <3>2, <3>3
    <2>2. page' \in [events : Seq(1..posted), next : 0..posted] /\ pending' \subseteq DOMAIN page'.events
      BY <1>1, <1>3, <1>4 DEF TypeOK
    <2>3. /\ at' \in {"idle", "loop"} /\ waiter' \in BOOLEAN /\ interrupt' \in BOOLEAN
          /\ UNCHANGED <<stopped, closer>>
      BY <1>1, <1>2, <1>3 DEF Leave, TypeOK, closing
    <2> QED
      BY <1>2, <1>3, <2>1, <2>2, <2>3 DEF TypeOK, wire
  <1>8. ServerLimits' /\ WaiterInCall' /\ PageInLoop'
    BY <1>1, <1>2, <1>3 DEF ServerLimits, WaiterInCall, PageInLoop, Leave, closing, wire
  <1>9. NoGap'
    <2>1. \A d \in Handed' : 1..d \subseteq Handed'
      <3>1. 1..e \subseteq Handed'
        BY <1>1, <1>5
      <3> QED
        BY <1>3, <1>5, <3>1 DEF NoGap
    <2>2. ASSUME NEW k \in pending', NEW d \in 1..(page'.events[k] - 1)
          PROVE  d \in Handed' \/ \E j \in pending' : j < k /\ page'.events[j] = d
      <3>1. page' = page /\ k \in pending
        BY <1>1, <2>2
      <3>2. d \in Handed \/ \E j \in pending : j < k /\ page.events[j] = d
        BY <1>3, <2>2, <3>1 DEF NoGap
      <3> QED
        BY <1>1, <1>5, <3>1, <3>2
    <2>3. 1..position' \subseteq Ahead' /\ 1..page'.next \subseteq Ahead' /\ Range(page'.events) \subseteq Ahead'
      BY <1>1, <1>2, <1>3, <1>4, <1>6 DEF NoGap
    <2> QED
      BY <2>1, <2>2, <2>3 DEF NoGap
  <1>10. Handed' \subseteq 1..posted /\ Cardinality(Handed) <= Cardinality(Handed')
         /\ Cardinality(Handed) \in Nat /\ Cardinality(Handed') \in Nat
    BY <1>1, <1>5, MoreIsNoFewer
  <1>11. SeenIsKnown'
    <2>1. CASE Walks
      BY <1>1, <1>2, <1>3, <1>5, <1>10, <2>1, StreamAssumption DEF SeenIsKnown, Known
    <2>2. CASE ~Walks
      BY <1>1, <1>2, <1>3, <1>6, <2>2 DEF SeenIsKnown, Known
    <2> QED
      BY <2>1, <2>2
  <1>12. QueuedOnce'
    <2> SUFFICES ASSUME runtime \in {"rust", "java"}, Cardinality(Handed') < MaxSeen, NEW k \in pending'
                 PROVE  /\ page'.events[k] \notin Handed'
                        /\ \A j \in pending' : page'.events[j] = page'.events[k] => j = k
      BY <1>2 DEF QueuedOnce
    <2>1. page' = page /\ k \in pending /\ k # i /\ pending' \subseteq pending
      BY <1>1
    <2>2. Cardinality(Handed) < MaxSeen
      BY <1>10, StreamAssumption
    <2>3. /\ page.events[k] \notin Handed /\ page.events[k] # e
          /\ \A j \in pending : page.events[j] = page.events[k] => j = k
      BY <1>1, <1>3, <2>1, <2>2 DEF QueuedOnce
    <2> QED
      BY <1>5, <2>1, <2>3
  <1> QED
    BY <1>7, <1>8, <1>9, <1>11, <1>12 DEF StreamInv

\* Go and TypeScript, through with a page.
LEMMA WalkedPreserves ==
    ASSUME StreamInv, Walked
    PROVE  StreamInv'
  <1>1. /\ UNCHANGED <<runtime, posted, pending, fetched, wire, delivered, closing, quirks>>
        /\ at = "loop" /\ at' = "wait" /\ Walks /\ Walks' /\ pending = {}
        /\ seen' = Kept(seen, page.events) /\ position' = page.next /\ page' = NoPage
    BY DEF Walked, Walks
  <1>2. /\ TypeOK /\ ServerLimits /\ WaiterInCall /\ PageInLoop /\ NoGap /\ SeenIsKnown /\ QueuedOnce
    BY DEF StreamInv
  <1>3. NoPage.next = 0 /\ NoPage.events = <<>> /\ Range(<<>>) = {} /\ DOMAIN NoPage.events = {}
        /\ NoPage \in [events : Seq(1..posted), next : 0..posted]
    BY <1>2, SetsAreFinite DEF NoPage, Range
  <1>4. Handed' = Handed /\ Ahead = Handed /\ Ahead' = Handed /\ Handed \subseteq 1..posted /\ posted \in Nat
    BY <1>1, <1>2, SetsAreFinite DEF Handed, Ahead
  <1>5. seen' \subseteq Handed
    BY <1>1, <1>2, <1>4 DEF Kept, SeenIsKnown, Known, NoGap
  <1>6. TypeOK'
    BY <1>1, <1>2, <1>3, <1>4, <1>5 DEF TypeOK, wire, closing
  <1>7. ServerLimits' /\ WaiterInCall' /\ PageInLoop'
    BY <1>1, <1>2 DEF ServerLimits, WaiterInCall, PageInLoop, closing, wire
  <1>8. NoGap'
    BY <1>1, <1>2, <1>3, <1>4 DEF NoGap
  <1>9. SeenIsKnown'
    <2> SUFFICES ASSUME Cardinality(Handed) < MaxSeen PROVE Handed \subseteq seen'
      BY <1>1, <1>4, <1>5 DEF SeenIsKnown, Known
    <2>1. Handed \subseteq seen /\ seen \subseteq Handed
      BY <1>1, <1>2 DEF SeenIsKnown, Known, Walks
    <2>2. ~(Cardinality(seen) >= MaxSeen)
      <3>1. seen = Handed
        BY <2>1
      <3>2. Cardinality(Handed) \in Nat
        BY <1>4, RangeIsFinite
      <3> QED
        BY <3>1, <3>2, StreamAssumption
    <2> QED
      BY <1>1, <2>1, <2>2 DEF Kept
  <1>10. QueuedOnce'
    BY <1>1 DEF QueuedOnce, Walks
  <1> QED
    BY <1>6, <1>7, <1>8, <1>9, <1>10 DEF StreamInv

\* Apex forgets the ids it kept; what it has handed out has no gap all the same.
LEMMA NewTransactionPreserves ==
    ASSUME StreamInv, NewTransaction
    PROVE  StreamInv'
  <1> USE DEF NewTransaction, StreamInv
  <1>1. TypeOK'
    <2>1. quirks' \in 0..MaxQuirks
      BY StreamAssumption DEF TypeOK
    <2> QED
      BY <2>1 DEF TypeOK, wire, closing
  <1>2. ServerLimits' /\ WaiterInCall' /\ PageInLoop'
    BY DEF ServerLimits, WaiterInCall, PageInLoop, closing, wire
  <1>3. NoGap' /\ QueuedOnce'
    BY DEF NoGap, QueuedOnce, Ahead, Handed
  <1>4. SeenIsKnown'
    BY DEF SeenIsKnown
  <1> QED
    BY <1>1, <1>2, <1>3, <1>4

\* An event of a page is kept already, or its first place is queued.
LEMMA QueuedFirst ==
    ASSUME NEW n \in Nat, NEW p, p.events \in Seq(1..n), NEW i \in 1..Len(p.events)
    PROVE  p.events[i] \in seen \/ \E j \in News(p) : j <= i /\ p.events[j] = p.events[i]
  <1>1. PICK j \in 1..i : p.events[j] = p.events[i] /\ \A k \in 1..(j - 1) : p.events[k] # p.events[i]
    BY FirstPlace
  <1>2. j \in DOMAIN p.events /\ j <= i
    BY LenProperties
  <1> QED
    BY <1>1, <1>2 DEF News

LEMMA NewsIsOnce ==
    ASSUME NEW n \in Nat, NEW p, p.events \in Seq(1..n), NEW j \in News(p), NEW k \in News(p),
           p.events[j] = p.events[k]
    PROVE  j = k
  <1>1. j \in Nat /\ k \in Nat /\ j >= 1 /\ k >= 1
    BY LenProperties DEF News
  <1>2. ~(j < k)
    <2>1. j < k => j \in 1..(k - 1)
      BY <1>1
    <2> QED
      BY <2>1 DEF News
  <1>3. ~(k < j)
    <2>1. k < j => k \in 1..(j - 1)
      BY <1>1
    <2> QED
      BY <2>1 DEF News
  <1> QED
    BY <1>1, <1>2, <1>3

LEMMA PageOkPreserves ==
    ASSUME StreamInv, PageOk
    PROVE  StreamInv'
  <1>1. PICK p \in Pages :
           /\ quirks' = quirks + (IF IsQuirk(p) THEN 1 ELSE 0)
           /\ IF Walks THEN Walk(p) ELSE Queued(p)
    BY DEF PageOk
  <1>2. /\ UNCHANGED <<runtime, posted, wire, delivered, closing>> /\ fetched' = TRUE
        /\ at = "page" /\ (Walks' <=> Walks)
    BY DEF PageOk, Walks
  <1>3. /\ TypeOK /\ ServerLimits /\ WaiterInCall /\ PageInLoop /\ NoGap /\ SeenIsKnown /\ QueuedOnce
    BY DEF StreamInv
  <1>4. /\ p.events \in Seq(1..posted) /\ p.next \in position..posted
        /\ p \in [events : Seq(1..posted), next : 0..posted]
        /\ \A i \in 1..Len(p.events) : \A e \in (position + 1)..(p.events[i] - 1) :
              \E j \in 1..(i - 1) : p.events[j] = e
        /\ \A e \in (position + 1)..p.next : e \in Range(p.events)
        /\ quirks' \in 0..MaxQuirks
    <2>1. position..posted \subseteq 0..posted
      BY <1>3, StreamAssumption DEF TypeOK
    <2> QED
      BY <1>1, <1>3, <2>1, PageHolds
  <1>5. /\ posted \in Nat /\ position \in Nat /\ p.next \in Nat
        /\ Len(p.events) \in Nat /\ DOMAIN p.events = 1..Len(p.events)
        /\ Range(p.events) \subseteq 1..posted
    <2>1. posted \in Nat /\ position \in 0..posted
      BY <1>3, StreamAssumption DEF TypeOK
    <2> QED
      BY <1>4, <2>1, LenProperties, ElementOfSeq DEF Range
  <1>6. /\ NoPage.next = 0 /\ NoPage.events = <<>> /\ Range(<<>>) = {} /\ DOMAIN NoPage.events = {}
        /\ NoPage \in [events : Seq(1..posted), next : 0..posted]
    BY <1>5 DEF NoPage, Range
  <1>7. page = NoPage /\ pending = {} /\ Ahead = Handed /\ Handed' = Handed
    <2>1. page = NoPage
      BY <1>2, <1>3 DEF PageInLoop
    <2>2. pending = {}
      BY <1>3, <1>6, <2>1 DEF TypeOK
    <2> QED
      BY <1>2, <2>1, <2>2 DEF Ahead, Handed
  <1>8. 1..position \subseteq Handed /\ seen \subseteq Handed /\ Handed \subseteq 1..posted
    BY <1>3, <1>7, SetsAreFinite DEF NoGap, SeenIsKnown, Known
  <1>9. ASSUME NEW d \in 1..posted, d \notin Handed
        PROVE  d >= position + 1
    BY <1>5, <1>8, <1>9
  <1>10. CASE Walks
    <2>1. /\ page' = (IF p.events = <<>> THEN NoPage ELSE p) /\ pending' = DOMAIN p.events
          /\ position' = (IF p.events = <<>> THEN p.next ELSE position)
          /\ at' = (IF p.events = <<>> THEN "wait" ELSE "loop") /\ seen' = seen
      BY <1>1, <1>10 DEF Walk
    <2>2. TypeOK'
      <3>1. page' \in [events : Seq(1..posted), next : 0..posted] /\ pending' \subseteq DOMAIN page'.events
        BY <1>4, <1>6, <2>1
      <3>2. position' \in 0..posted
        BY <1>3, <1>4, <1>5, <2>1 DEF TypeOK
      <3> QED
        BY <1>2, <1>3, <1>4, <2>1, <3>1, <3>2 DEF TypeOK, wire, closing
    <2>3. ServerLimits' /\ WaiterInCall' /\ PageInLoop'
      BY <1>2, <1>3, <2>1 DEF ServerLimits, WaiterInCall, PageInLoop, closing, wire
    <2>4. Ahead' = Handed \cup Range(p.events)
      <3>1. CASE p.events = <<>>
        BY <1>6, <1>7, <2>1, <3>1 DEF Ahead
      <3>2. CASE p.events # <<>>
        BY <1>7, <2>1, <3>2 DEF Ahead, Range
      <3> QED
        BY <3>1, <3>2
    <2>5. NoGap'
      <3>1. \A e \in Handed' : 1..e \subseteq Handed'
        BY <1>3, <1>7 DEF NoGap
      <3>2. ASSUME NEW i \in pending', NEW d \in 1..(page'.events[i] - 1)
            PROVE  d \in Handed \/ \E j \in pending' : j < i /\ page'.events[j] = d
        <4>1. page' = p /\ i \in 1..Len(p.events) /\ p.events[i] \in 1..posted
          BY <1>4, <1>5, <1>6, <2>1, ElementOfSeq
        <4>2. CASE d \notin Handed
          <5>1. d \in (position + 1)..(p.events[i] - 1)
            BY <1>5, <1>9, <4>1, <4>2
          <5>2. PICK j \in 1..(i - 1) : p.events[j] = d
            BY <1>4, <4>1, <5>1
          <5>3. j \in pending' /\ j < i
            BY <1>5, <2>1, <4>1
          <5> QED
            BY <4>1, <5>2, <5>3
        <4> QED
          BY <4>2
      <3>3. \A d \in 1..p.next : d \in Ahead'
        <4> TAKE d \in 1..p.next
        <4>1. d \in Handed \/ d \in (position + 1)..p.next
          BY <1>4, <1>5, <1>9
        <4> QED
          BY <1>4, <2>4, <4>1
      <3>4. 1..position' \subseteq Ahead' /\ 1..page'.next \subseteq Ahead' /\ Range(page'.events) \subseteq Ahead'
        BY <1>6, <1>8, <2>1, <2>4, <3>3
      <3> QED
        BY <1>7, <3>1, <3>2, <3>4 DEF NoGap
    <2>6. SeenIsKnown' /\ QueuedOnce'
      BY <1>2, <1>3, <1>7, <1>10, <2>1 DEF SeenIsKnown, Known, QueuedOnce, Walks
    <2> QED
      BY <2>2, <2>3, <2>5, <2>6 DEF StreamInv
  <1>11. CASE ~Walks
    <2>1. /\ page' = (IF News(p) = {} THEN NoPage ELSE p) /\ pending' = News(p)
          /\ seen' = Kept(seen \cup Range(p.events), p.events)
          /\ position' = p.next /\ at' = "loop"
      BY <1>1, <1>11 DEF Queued
    <2>2. News(p) \subseteq 1..Len(p.events)
      BY <1>5 DEF News
    <2>3. /\ seen' \subseteq seen \cup Range(p.events)
          /\ Cardinality(seen \cup Range(p.events)) < MaxSeen => seen' = seen \cup Range(p.events)
      <3>1. Cardinality(seen \cup Range(p.events)) \in Nat
        BY <1>5, <1>8, RangeIsFinite
      <3> QED
        BY <2>1, <3>1, StreamAssumption DEF Kept
    <2>4. TypeOK'
      <3>1. page' \in [events : Seq(1..posted), next : 0..posted] /\ pending' \subseteq DOMAIN page'.events
        BY <1>4, <1>5, <1>6, <2>1, <2>2
      <3>2. position' \in 0..posted /\ seen' \subseteq 1..posted
        BY <1>4, <1>5, <1>8, <2>1, <2>3
      <3> QED
        BY <1>2, <1>3, <1>4, <2>1, <3>1, <3>2 DEF TypeOK, wire, closing
    <2>5. ServerLimits' /\ WaiterInCall' /\ PageInLoop'
      BY <1>2, <1>3, <2>1 DEF ServerLimits, WaiterInCall, PageInLoop, closing, wire
    <2>6. Ahead' = Handed \cup {p.events[i] : i \in News(p)}
      <3>1. CASE News(p) = {}
        BY <1>7, <2>1, <3>1 DEF Ahead
      <3>2. CASE News(p) # {}
        BY <1>7, <2>1, <3>2 DEF Ahead
      <3> QED
        BY <3>1, <3>2
    <2>7. Range(p.events) \subseteq Ahead' /\ Ahead' \subseteq Handed \cup Range(p.events)
      <3>1. ASSUME NEW i \in 1..Len(p.events) PROVE p.events[i] \in Ahead'
        BY <1>4, <1>5, <1>8, <2>6, QueuedFirst
      <3> QED
        BY <1>5, <2>2, <2>6, <3>1 DEF Range
    <2>8. NoGap'
      <3>1. \A e \in Handed' : 1..e \subseteq Handed'
        BY <1>3, <1>7 DEF NoGap
      <3>2. ASSUME NEW i \in pending', NEW d \in 1..(page'.events[i] - 1)
            PROVE  d \in Handed \/ \E j \in pending' : j < i /\ page'.events[j] = d
        <4>1. page' = p /\ i \in 1..Len(p.events) /\ p.events[i] \in 1..posted
          BY <1>4, <2>1, <2>2, ElementOfSeq
        <4>2. CASE d \notin Handed
          <5>1. d \in (position + 1)..(p.events[i] - 1)
            BY <1>5, <1>9, <4>1, <4>2
          <5>2. PICK j \in 1..(i - 1) : p.events[j] = d
            BY <1>4, <4>1, <5>1
          <5>3. j \in 1..Len(p.events) /\ j < i
            BY <1>5, <4>1
          <5>4. PICK k \in News(p) : k <= j /\ p.events[k] = d
            BY <1>4, <1>5, <1>8, <4>2, <5>2, <5>3, QueuedFirst
          <5>5. k < i
            BY <1>5, <2>2, <4>1, <5>3, <5>4
          <5> QED
            BY <2>1, <4>1, <5>4, <5>5
        <4> QED
          BY <4>2
      <3>3. \A d \in 1..p.next : d \in Ahead'
        <4> TAKE d \in 1..p.next
        <4>1. d \in Handed \/ d \in (position + 1)..p.next
          BY <1>4, <1>5, <1>9
        <4> QED
          BY <1>4, <2>6, <2>7, <4>1
      <3>4. 1..position' \subseteq Ahead' /\ 1..page'.next \subseteq Ahead' /\ Range(page'.events) \subseteq Ahead'
        BY <1>6, <2>1, <2>7, <3>3
      <3> QED
        BY <1>7, <3>1, <3>2, <3>4 DEF NoGap
    <2>9. Ahead' \subseteq 1..posted /\ Handed \subseteq Ahead'
      BY <1>5, <1>8, <2>6, <2>7
    <2>10. seen \cup Range(p.events) \subseteq Ahead'
      BY <1>8, <2>7, <2>9
    <2>11. SeenIsKnown'
      <3>1. seen' \subseteq Ahead'
        BY <2>3, <2>10
      <3>2. ASSUME runtime # "apex", Cardinality(Ahead') < MaxSeen PROVE Ahead' \subseteq seen'
        <4>1. Cardinality(Handed) < MaxSeen /\ Cardinality(seen \cup Range(p.events)) < MaxSeen
          <5>1. /\ Cardinality(Handed) <= Cardinality(Ahead')
                /\ Cardinality(Handed) \in Nat /\ Cardinality(Ahead') \in Nat
            BY <1>5, <2>9, MoreIsNoFewer
          <5>2. /\ Cardinality(seen \cup Range(p.events)) <= Cardinality(Ahead')
                /\ Cardinality(seen \cup Range(p.events)) \in Nat
            BY <1>5, <2>9, <2>10, MoreIsNoFewer
          <5> QED
            BY <3>2, <5>1, <5>2, StreamAssumption
        <4>2. Handed \subseteq seen
          BY <1>3, <1>7, <1>11, <3>2, <4>1 DEF SeenIsKnown, Known
        <4> QED
          BY <2>3, <2>7, <4>1, <4>2
      <3> QED
        BY <1>2, <1>11, <3>1, <3>2 DEF SeenIsKnown, Known
    <2>12. QueuedOnce'
      <3> SUFFICES ASSUME runtime \in {"rust", "java"}, Cardinality(Handed) < MaxSeen, NEW k \in News(p)
                   PROVE  /\ page'.events[k] \notin Handed
                          /\ \A j \in News(p) : page'.events[j] = page'.events[k] => j = k
        BY <1>2, <1>7, <2>1 DEF QueuedOnce
      <3>1. page' = p
        BY <2>1
      <3>2. Handed \subseteq seen
        BY <1>3, <1>7, <1>11 DEF SeenIsKnown, Known
      <3>3. p.events[k] \notin seen
        BY DEF News
      <3> QED
        BY <1>4, <1>5, <3>1, <3>2, <3>3, NewsIsOnce
    <2> QED
      BY <2>4, <2>5, <2>8, <2>11, <2>12 DEF StreamInv
  <1> QED
    BY <1>10, <1>11

-----------------------------------------------------------------------------
LEMMA StepPreserves == StreamInv /\ [Next]_vars => StreamInv'
  <1> SUFFICES ASSUME StreamInv, [Next]_vars PROVE StreamInv'
    OBVIOUS
  <1>1. CASE UNCHANGED vars
    <2>1. TypeOK' /\ ServerLimits' /\ WaiterInCall' /\ PageInLoop'
      BY <1>1 DEF vars, stream, wire, closing, StreamInv, TypeOK, ServerLimits, WaiterInCall, PageInLoop
    <2> QED
      BY <1>1, <2>1, QuietPreserves DEF vars, stream
  <1>2. CASE HandOut \/ Walked \/ PageOk \/ NewTransaction
    BY <1>2, HandOutPreserves, WalkedPreserves, PageOkPreserves, NewTransactionPreserves
  <1>3. CASE \/ Post \/ Call \/ Proceed \/ FoundClosed \/ CallFails
             \/ List \/ ListOk \/ Poll \/ PollChange \/ PollEnds \/ PollFails
             \/ Drop \/ Cancel \/ Close \/ CloseReads \/ CloseInterrupts \/ Interrupted
    BY <1>3, OtherSteps
  <1> QED
    BY <1>1, <1>2, <1>3 DEF Next

\* The stream keeps to its servers' limits; what it has handed out and what it has in
\* hand leave no gap in the log; and the ids it keeps are of those.
THEOREM StreamInvariant == Spec => []StreamInv
  BY InitEstablishes, StepPreserves, PTL DEF Spec

-----------------------------------------------------------------------------
\* close() and the consumer's call.

LEMMA CloseStep == StreamInv /\ CloseWakes /\ [Next]_vars => CloseWakes'
  <1> SUFFICES ASSUME StreamInv, CloseWakes, [Next]_vars PROVE CloseWakes'
    OBVIOUS
  <1>1. WaiterInCall /\ TypeOK
    BY DEF StreamInv
  <1> QED
    BY <1>1
    DEF CloseWakes, WaiterInCall, TypeOK, Blocked, Next, vars, stream, wire, closing, Leave, Post, Call, HandOut,
        Walked, Proceed, Turn, FoundClosed, PageOk, Walk, Queued, Walks, CallFails, AfterError, List, ListOk,
        Polled, Poll, PollChange, PollEnds, Answer, PollFails, Drop, NewTransaction, Cancel, Close,
        CloseReads, CloseInterrupts, Interrupted

\* close() never leaves the consumer in a call to Box that nobody cuts short.
THEOREM CloseAlwaysWakes == Spec => []CloseWakes
  <1>1. Init => CloseWakes
    BY DEF Init, CloseWakes
  <1> QED
    BY <1>1, CloseStep, StreamInvariant, PTL DEF Spec

-----------------------------------------------------------------------------
\* Repeats.

LEMMA RepeatStep == StreamInv /\ EachOnceUntilCut /\ [Next]_vars => EachOnceUntilCut'
  <1> SUFFICES ASSUME StreamInv, EachOnceUntilCut, [Next]_vars PROVE EachOnceUntilCut'
    OBVIOUS
  <1>1. delivered \in Seq(1..posted) /\ posted \in Nat
    BY StreamAssumption DEF StreamInv, TypeOK
  <1>2. CASE UNCHANGED <<runtime, delivered>>
    BY <1>2 DEF EachOnceUntilCut
  <1>3. CASE HandOut
    <2>1. PICK i \in pending :
             /\ page.events[i] \in 1..posted
             /\ \/ /\ ~Walks \/ page.events[i] \notin seen
                   /\ delivered' = Append(delivered, page.events[i])
                \/ UNCHANGED delivered
      BY <1>3, HandOutMoves
    <2> DEFINE e == page.events[i]
    <2>2. runtime' = runtime
      BY <1>3 DEF HandOut
    <2>3. CASE UNCHANGED delivered
      BY <1>2, <2>2, <2>3
    <2>4. CASE delivered' = Append(delivered, e) /\ (~Walks \/ e \notin seen)
      <3>1. /\ Len(delivered) \in Nat /\ DOMAIN delivered = 1..Len(delivered)
            /\ DOMAIN delivered' = 1..(Len(delivered) + 1)
            /\ \A j \in 1..Len(delivered) : delivered'[j] = delivered[j]
            /\ delivered'[Len(delivered) + 1] = e
        <4>1. Append(delivered, e) \in Seq(1..posted)
          BY <1>1, <2>1, AppendProperties
        <4> QED
          BY <1>1, <2>1, <2>4, <4>1, AppendProperties, LenProperties
      <3>2. \A j \in 1..(Len(delivered) + 1) :
               {delivered'[k] : k \in 1..(j - 1)} = {delivered[k] : k \in 1..(j - 1)}
        BY <3>1
      <3>3. {delivered[k] : k \in 1..Len(delivered)} = Handed
        BY <3>1 DEF Handed, Range
      <3>4. ASSUME runtime # "apex", e \in Handed PROVE Cardinality(Handed) >= MaxSeen
        <4>1. Cardinality(Handed) \in Nat /\ MaxSeen \in Nat
          BY <1>1, RangeIsFinite, SetsAreFinite, StreamAssumption DEF StreamInv
        <4>2. CASE Walks
          <5>1. Cardinality(Handed) < MaxSeen => Handed \subseteq seen
            BY <3>4, <4>2 DEF StreamInv, SeenIsKnown, Known
          <5> QED
            BY <2>4, <3>4, <4>1, <4>2, <5>1
        <4>3. CASE ~Walks
          <5>1. runtime \in {"rust", "java"}
            BY <3>4, <4>3 DEF StreamInv, TypeOK, Runtimes, Waiting, Walks
          <5>2. Cardinality(Handed) < MaxSeen => e \notin Handed
            BY <5>1 DEF StreamInv, QueuedOnce
          <5> QED
            BY <3>4, <4>1, <5>2
        <4> QED
          BY <4>2, <4>3
      <3> SUFFICES ASSUME runtime # "apex", NEW j \in 1..(Len(delivered) + 1), NEW m \in 1..(Len(delivered) + 1),
                          m < j, delivered'[m] = delivered'[j]
                   PROVE  Cardinality({delivered[k] : k \in 1..(j - 1)}) >= MaxSeen
        BY <2>2, <3>1, <3>2 DEF EachOnceUntilCut
      <3>5. CASE j \in 1..Len(delivered)
        <4>1. m \in 1..Len(delivered)
          BY <3>1, <3>5
        <4> QED
          BY <3>1, <3>5, <4>1 DEF EachOnceUntilCut
      <3>6. CASE j = Len(delivered) + 1
        <4>1. m \in 1..Len(delivered) /\ j - 1 = Len(delivered)
          BY <3>1, <3>6
        <4>2. e \in Handed
          BY <3>1, <3>3, <3>6, <4>1
        <4> QED
          BY <3>3, <3>4, <4>1, <4>2
      <3> QED
        BY <3>1, <3>5, <3>6
    <2> QED
      BY <2>1, <2>3, <2>4
  <1>4. HandOut \/ UNCHANGED <<runtime, delivered>>
    BY DEF Next, vars, stream, wire, closing, Leave, Post, Call, Walked, Proceed, FoundClosed, PageOk, CallFails,
           List, ListOk, Poll, PollChange, PollEnds, Answer, PollFails, Drop, NewTransaction, Cancel, Close,
           CloseReads, CloseInterrupts, Interrupted
  <1> QED
    BY <1>2, <1>3, <1>4

\* No event is handed out twice before MaxSeen others were.
THEOREM HandedOutOnce == Spec => []EachOnceUntilCut
  <1>1. Init => EachOnceUntilCut
    <2> SUFFICES ASSUME Init PROVE EachOnceUntilCut
      OBVIOUS
    <2>1. DOMAIN delivered = {}
      BY DEF Init
    <2> QED
      BY <2>1 DEF EachOnceUntilCut
  <1> QED
    BY <1>1, RepeatStep, StreamInvariant, PTL DEF Spec

-----------------------------------------------------------------------------
\* EventLog: what was handed out is the log up to its greatest event.

LEMMA GreatestOfPrefix ==
    ASSUME NEW g \in Nat
    PROVE  Max({0} \cup 1..g) = g
  <1>1. g \in {0} \cup 1..g /\ \A y \in {0} \cup 1..g : g >= y
    OBVIOUS
  <1>2. ASSUME NEW x \in {0} \cup 1..g, \A y \in {0} \cup 1..g : x >= y PROVE x = g
    BY <1>1, <1>2
  <1> QED
    BY <1>1, <1>2 DEF Max

LEMMA HandedIsPrefix ==
    ASSUME NEW H, NEW n \in Nat, H \subseteq 1..n, \A e \in H : 1..e \subseteq H
    PROVE  \E g \in 0..n : H = 1..g /\ Max({0} \cup H) = g
  <1> DEFINE s == [i \in 1..(n + 1) |-> IF i \in H THEN 1 ELSE 0]
  <1>1. s \in Seq({0, 1}) /\ Len(s) = n + 1 /\ n + 1 \in 1..Len(s)
    OBVIOUS
  <1>2. s[n + 1] = 0
    OBVIOUS
  <1> HIDE DEF s
  <1>3. PICK j \in 1..(n + 1) : s[j] = 0 /\ \A k \in 1..(j - 1) : s[k] # 0
    <2>1. \E j \in 1..(n + 1) : s[j] = s[n + 1] /\ \A k \in 1..(j - 1) : s[k] # s[n + 1]
      BY <1>1, FirstPlace
    <2> QED
      BY <1>2, <2>1
  <1>4. j \in Nat /\ j - 1 \in 0..n /\ j \notin H
    BY <1>3 DEF s
  <1>5. ASSUME NEW k \in 1..(j - 1) PROVE k \in H
    <2>1. k \in 1..(n + 1) /\ s[k] # 0
      BY <1>3, <1>4
    <2> QED
      BY <2>1 DEF s
  <1>6. ASSUME NEW e \in H PROVE e \in 1..(j - 1)
    <2>1. e \in 1..n /\ j \notin 1..e
      BY <1>4
    <2> QED
      BY <1>3, <1>4, <2>1
  <1>7. H = 1..(j - 1)
    BY <1>5, <1>6
  <1> QED
    BY <1>4, <1>7, GreatestOfPrefix

\* How much of the log was handed out.
Got == Max({0} \cup Handed)

LEMMA GotIsPrefix == StreamInv => Got \in 0..posted /\ posted \in 0..MaxPosted /\ Handed = 1..Got
  <1> SUFFICES ASSUME StreamInv
               PROVE  Got \in 0..posted /\ posted \in 0..MaxPosted /\ Handed = 1..Got
    OBVIOUS
  <1>1. posted \in Nat /\ posted \in 0..MaxPosted /\ Handed \subseteq 1..posted
    BY SetsAreFinite, StreamAssumption DEF StreamInv, TypeOK
  <1>2. \A e \in Handed : 1..e \subseteq Handed
    BY DEF StreamInv, NoGap
  <1>3. PICK g \in 0..posted : Handed = 1..g /\ Max({0} \cup Handed) = g
    BY <1>1, <1>2, HandedIsPrefix
  <1> QED
    BY <1>1, <1>3 DEF Got

\* Every step of the stream is a step of the log it promises, or none.
LEMMA LogStep == StreamInv /\ StreamInv' /\ [Next]_vars => [Log!Next]_(Log!vars)
  <1> SUFFICES ASSUME StreamInv, StreamInv', [Next]_vars PROVE [Log!Next]_(Log!vars)
    OBVIOUS
  <1>1. Got \in 0..posted /\ posted \in 0..MaxPosted /\ MaxPosted \in Nat
    BY GotIsPrefix, StreamAssumption
  <1>2. SUFFICES \/ UNCHANGED <<posted, Got, at = "done">>
                 \/ posted < MaxPosted /\ posted' = posted + 1 /\ UNCHANGED <<Got, at>>
                 \/ ~(at = "done") /\ Got < posted /\ Got' = Got + 1 /\ UNCHANGED <<posted, at = "done">>
                 \/ ~(at = "done") /\ at' = "done" /\ UNCHANGED <<posted, Got>>
    BY <1>2 DEF Log!Next, Log!vars, Log!Post, Log!Deliver, Log!End, Got
  <1>3. delivered' = delivered => Got' = Got
    BY DEF Got, Handed
  <1>4. CASE Post
    BY <1>3, <1>4 DEF Post
  <1>5. CASE HandOut
    <2>1. PICK i \in pending :
             /\ page.events[i] \in 1..posted /\ 1..(page.events[i] - 1) \subseteq Handed
             /\ \/ Handed' = Handed \cup {page.events[i]} /\ Leave(IF runtime = "apex" THEN "loop" ELSE "idle")
                \/ Handed' = Handed /\ UNCHANGED at
      BY <1>5, HandOutMoves
    <2> DEFINE e == page.events[i]
    <2>2. at = "loop" /\ at' # "done" /\ posted' = posted
      BY <1>5, <2>1 DEF HandOut, Leave
    <2>3. Handed' = Handed => Got' = Got
      BY DEF Got
    <2>4. Handed = 1..Got /\ e \in Nat /\ e <= Got + 1
      <3>1. Handed = 1..Got
        BY GotIsPrefix
      <3>2. e \in Nat /\ (e - 1 \in 1..(e - 1) \/ e <= 1)
        BY <1>1, <2>1
      <3>3. e - 1 \in 1..Got \/ e <= 1
        BY <2>1, <3>1, <3>2
      <3> QED
        BY <1>1, <3>1, <3>2, <3>3
    <2>5. CASE e <= Got
      <3>1. e \in Handed
        BY <1>1, <2>1, <2>4, <2>5
      <3> QED
        BY <2>1, <2>2, <2>3, <3>1
    <2>6. CASE e = Got + 1 /\ Handed' = Handed \cup {e}
      <3>1. Handed' = 1..(Got + 1)
        BY <1>1, <2>4, <2>6
      <3>2. Max({0} \cup Handed') = Got + 1
        <4>1. Got + 1 \in Nat
          BY <1>1
        <4> QED
          BY <3>1, <4>1, GreatestOfPrefix
      <3>3. Got' = Max({0} \cup Handed')
        BY DEF Got
      <3> QED
        BY <1>1, <2>1, <2>2, <2>6, <3>2, <3>3
    <2> QED
      BY <1>1, <2>1, <2>2, <2>3, <2>4, <2>5, <2>6
  <1>6. CASE UNCHANGED <<posted, delivered>> /\ (at = "done" => at' = "done")
    BY <1>3, <1>6
  <1>7. Post \/ HandOut \/ (UNCHANGED <<posted, delivered>> /\ (at = "done" => at' = "done"))
    BY DEF Next, vars, stream, wire, closing, Leave, Call, Walked, Proceed, Turn, FoundClosed, PageOk, Walk,
           Queued, CallFails, AfterError, List, ListOk, Polled, Poll, PollChange, PollEnds, Answer, PollFails,
           Drop, Blocked, NewTransaction, Cancel, Close, CloseReads, CloseInterrupts, Interrupted
  <1> QED
    BY <1>4, <1>5, <1>6, <1>7

\* The stream hands out Box's log in order and skips nothing: it implements what
\* EventLog promises, its liveness apart.
THEOREM ImplementsLog == Spec => Log!Safety
  <1>1. Init => Log!Init
    <2> SUFFICES ASSUME Init PROVE Log!Init
      OBVIOUS
    <2>1. {0} \cup Handed = {0} \cup 1..0
      BY DEF Init, Handed, Range
    <2>2. Max({0} \cup Handed) = 0
      BY <2>1, GreatestOfPrefix
    <2> QED
      BY <2>2 DEF Init, Log!Init
  <1> QED
    BY <1>1, LogStep, StreamInvariant, PTL DEF Spec, Log!Safety
====
