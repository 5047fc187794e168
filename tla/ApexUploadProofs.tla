---- MODULE ApexUploadProofs ----
(***************************************************************************)
(* Proofs about ApexUpload, for content of any length, any part sizes Box  *)
(* may name, any callout limit and retry budget, and any part of the limit *)
(* used up before the upload begins.  A request finds the upload where the *)
(* one before left it (Standing) and is within its attempts (Sending); an  *)
(* error may hide that Box has carried it out, so the parts Box holds end  *)
(* before the part in hand or after it (PartsAreSlices).                   *)
(***************************************************************************)
EXTENDS ApexUpload, SequenceTheorems, TLAPS

-----------------------------------------------------------------------------
\* Operators.

LEMMA SmallerIs ==
    ASSUME NEW a \in Int, NEW b \in Int
    PROVE  Smaller(a, b) = IF a <= b THEN a ELSE b
  <1> DEFINE m == IF a <= b THEN a ELSE b
  <1>1. m \in {a, b} /\ \A y \in {a, b} : m <= y
    OBVIOUS
  <1>2. ASSUME NEW x \in {a, b}, \A y \in {a, b} : x <= y PROVE x = m
    BY <1>2
  <1> QED
    BY <1>1, <1>2 DEF Smaller, Min

LEMMA LargerIs ==
    ASSUME NEW a \in Int, NEW b \in Int
    PROVE  Larger(a, b) = IF a >= b THEN a ELSE b
  <1> DEFINE m == IF a >= b THEN a ELSE b
  <1>1. m \in {a, b} /\ \A y \in {a, b} : m >= y
    OBVIOUS
  <1>2. ASSUME NEW x \in {a, b}, \A y \in {a, b} : x >= y PROVE x = m
    BY <1>2
  <1> QED
    BY <1>1, <1>2 DEF Larger, Max

LEMMA Numbers ==
    ASSUME TypeOK
    PROVE  /\ total \in Nat /\ total >= 1 /\ partSize \in Nat /\ offset \in Nat /\ offset <= total
           /\ callouts \in Nat /\ callouts <= CalloutLimit /\ CalloutLimit \in Nat /\ MaxRetries \in Nat
  BY ApexAssumption DEF TypeOK

\* A part ends within the content; with nothing left it is empty.
LEMMA PartLenIs ==
    ASSUME TypeOK
    PROVE  PartLen(offset) = IF partSize <= total - offset THEN partSize ELSE total - offset
  BY Numbers, SmallerIs DEF PartLen

\* A part holds the bytes it is declared as, and the next one starts at a multiple
\* of three again.
LEMMA PartIsItsSlice ==
    ASSUME TypeOK, Standing, op = "part"
    PROVE  LET upto == offset + PartLen(offset) IN
           /\ Part(offset).bytes = Part(offset).declared
           /\ Part(offset).declared = offset..(upto - 1)
           /\ upto \in Nat /\ offset < upto /\ upto <= total
           /\ upto < total => MultiPart(partSize) /\ upto % 3 = 0
  <1> DEFINE upto == offset + PartLen(offset)
  <1>1. /\ partSize > 0 /\ offset < total
        /\ MultiPart(partSize) => partSize % 3 = 0 /\ offset % 3 = 0
        /\ ~MultiPart(partSize) => offset = 0
    BY DEF Standing, Usable
  <1>2. PartLen(offset) = IF partSize <= total - offset THEN partSize ELSE total - offset
    BY PartLenIs
  <1>3. upto \in Nat /\ offset < upto /\ upto <= total
    BY <1>1, <1>2, Numbers
  <1>4. upto < total => MultiPart(partSize) /\ upto = offset + partSize
    BY <1>1, <1>2, Numbers DEF MultiPart
  <1>5. ASSUME NEW m \in Nat, NEW n \in Nat, m % 3 = 0, n % 3 = 0 PROVE (m + n) % 3 = 0
    BY <1>5
  <1>6. upto < total => upto % 3 = 0
    BY <1>1, <1>4, <1>5, Numbers
  <1>7. ASSUME NEW m \in Nat, m % 3 = 0 PROVE (m \div 3) * 3 = m
    BY <1>7
  <1>8. Part(offset).declared = offset..(upto - 1)
    BY DEF Part
  <1>9. Part(offset).bytes = offset..(upto - 1)
    <2>1. CASE MultiPart(partSize)
      <3>1. (offset \div 3) * 3 = offset /\ (upto # total => (upto \div 3) * 3 = upto)
        BY <1>1, <1>3, <1>6, <1>7, <2>1, Numbers
      <3> QED
        BY <2>1, <3>1 DEF Part
    <2>2. CASE ~MultiPart(partSize)
      <3>1. offset = 0 /\ upto = total
        BY <1>1, <1>3, <1>4, <2>2, Numbers
      <3> QED
        BY <2>2, <3>1 DEF Part
    <2> QED
      BY <2>1, <2>2
  <1> QED
    BY <1>3, <1>4, <1>6, <1>8, <1>9

-----------------------------------------------------------------------------
\* Box.

LEMMA CoveredByMore ==
    ASSUME NEW H, NEW x
    PROVE  UNION {p.declared : p \in H \cup {x}} = (UNION {p.declared : p \in H}) \cup x.declared
  OBVIOUS

\* Whether Box carries out the request in hand or not, it goes on holding slices that
\* join up, and it holds the part in hand once it is told to.
LEMMA BoxHolds ==
    ASSUME UploadInv, op # "none", Effect \/ UNCHANGED boxed
    PROVE  /\ \A p \in held' : p.bytes = p.declared
           /\ Covered' \in {0..(offset - 1), 0..((offset + PartLen(offset)) - 1)}
           /\ Effect /\ op = "part" => Covered' = 0..((offset + PartLen(offset)) - 1)
           /\ session' \in {"none", "open", "committed", "aborted"}
           /\ session' = "committed" => Covered' = 0..(total - 1)
           /\ op = "create" => held' = {} /\ Covered' = {}
           /\ op = "create" /\ Effect => session' = "open"
           /\ op = "part" => session' = "open"
           /\ op = "commit" /\ Effect => session' = "committed"
  <1>1. TypeOK /\ Standing /\ PartsAreSlices /\ (session = "committed" => Covered = 0..(total - 1))
    BY DEF UploadInv
  <1>2. op \in Requests /\ result = "none"
    BY <1>1 DEF TypeOK, Standing
  <1>3. CASE ~Effect
    <2>1. op = "create" => held = {} /\ Covered = {}
      BY <1>1, <1>2 DEF Standing, Covered
    <2>2. Covered' = Covered /\ held' = held /\ session' = session
      BY <1>3 DEF boxed, Covered
    <2>3. op = "part" => session = "open"
      BY <1>1 DEF Standing
    <2> QED
      BY <1>1, <1>3, <2>1, <2>2, <2>3 DEF PartsAreSlices, TypeOK
  <1>4. CASE Effect /\ op = "create"
    <2>1. held' = {} /\ Covered' = {} /\ session' = "open"
      BY <1>4 DEF Effect, Covered
    <2>2. offset = 0
      BY <1>1, <1>2, <1>4 DEF Standing
    <2> QED
      BY <1>4, <2>1, <2>2
  <1>5. CASE Effect /\ op = "part"
    <2> DEFINE upto == offset + PartLen(offset)
    <2>1. /\ Part(offset).bytes = Part(offset).declared /\ Part(offset).declared = offset..(upto - 1)
          /\ upto \in Nat /\ offset < upto
      BY <1>1, <1>5, PartIsItsSlice
    <2>2. held' = held \cup {Part(offset)} /\ session' = "open" /\ session = "open"
      BY <1>1, <1>5 DEF Effect, Standing
    <2>3. Covered' = Covered \cup Part(offset).declared
      BY <2>2, CoveredByMore DEF Covered
    <2>4. Covered' = 0..(upto - 1)
      <3>1. offset \in Nat
        BY <1>1, Numbers
      <3>2. Covered = 0..(offset - 1) \/ Covered = 0..(upto - 1)
        BY <1>1, Zenon DEF PartsAreSlices
      <3> HIDE DEF upto
      <3>3. 0..(offset - 1) \cup offset..(upto - 1) = 0..(upto - 1)
        BY <2>1, <3>1
      <3>4. 0..(upto - 1) \cup offset..(upto - 1) = 0..(upto - 1)
        BY <2>1, <3>1
      <3> QED
        BY <2>1, <2>3, <3>2, <3>3, <3>4
    <2>5. \A p \in held' : p.bytes = p.declared
      BY <1>1, <2>1, <2>2 DEF PartsAreSlices
    <2> QED
      <3>1. op = "part" /\ op # "create" /\ op # "commit" /\ session' # "committed"
        BY <1>5, <2>2
      <3>2. session' \in {"none", "open", "committed", "aborted"} /\ session' = "open"
        BY <2>2
      <3> QED
        BY <2>4, <2>5, <3>1, <3>2, Zenon
  <1>6. CASE Effect /\ op \in {"commit", "delete"}
    <2>1. held' = held /\ Covered' = Covered /\ session = "open"
      BY <1>6 DEF Effect, Covered
    <2>2. op = "commit" => offset = total /\ session' = "committed"
      BY <1>1, <1>6, <2>1 DEF Effect, Standing
    <2>3. op = "delete" => session' = "aborted"
      BY <1>6, <2>1 DEF Effect
    <2>4. offset = total => offset + PartLen(offset) = offset
      BY <1>1, PartLenIs, Numbers
    <2> QED
      <3>1. op # "part" /\ op # "create"
        BY <1>6
      <3>2. session' \in {"none", "open", "committed", "aborted"} /\ (session' = "committed" => offset = total)
        BY <1>6, <2>2, <2>3
      <3>3. /\ \A p \in held' : p.bytes = p.declared
            /\ Covered' \in {0..(offset - 1), 0..((offset + PartLen(offset)) - 1)}
        BY <1>1, <2>1, Zenon DEF PartsAreSlices
      <3>4. offset = total => Covered' = 0..(total - 1)
        BY <2>4, <3>3
      <3>5. op = "commit" => session' = "committed"
        BY <2>2
      <3> QED
        BY <3>1, <3>2, <3>3, <3>4, <3>5, Zenon
  <1> QED
    BY <1>2, <1>3, <1>4, <1>5, <1>6 DEF Requests

-----------------------------------------------------------------------------
\* send().

\* A request begins with no attempt made.
LEMMA BeginSends ==
    ASSUME UploadInv, NEW r \in Requests, Begin(r), UNCHANGED <<caching, callouts>>,
           ~caching => cached' # "none"
    PROVE  Sending' /\ op' = r /\ at' = "attempt" /\ tried' \in BOOLEAN /\ (r = "delete" => tried')
  <1>1. CalloutLimit - callouts \in 0..CalloutLimit /\ MaxRetries \in Nat /\ CalloutLimit \in Nat /\ callouts \in Nat
    BY Numbers DEF UploadInv
  <1> DEFINE budget == CalloutLimit - callouts
             max == Smaller(MaxRetries + 2, Larger(1, budget - 1))
  <1>2. Larger(1, budget - 1) = IF 1 >= budget - 1 THEN 1 ELSE budget - 1
    BY <1>1, LargerIs
  <1>3. max \in Nat
    BY <1>1, <1>2, SmallerIs
  <1>4. /\ op' = r /\ at' = "attempt"
        /\ sending' = [attempt |-> 0, max |-> max, refreshed |-> FALSE, retries |-> 0, budget |-> budget]
    BY DEF Begin, Idle
  <1> HIDE DEF max
  <1>5. /\ sending' \in [attempt : Nat, max : Nat, refreshed : BOOLEAN, retries : 0..MaxRetries,
                         budget : 0..CalloutLimit]
        /\ sending'.max = max /\ sending'.budget = budget /\ sending'.attempt = 0
    BY <1>1, <1>3, <1>4
  <1>6. sending'.max = Smaller(MaxRetries + 2, Larger(1, sending'.budget - 1))
    BY <1>5 DEF max
  <1>7. sending'.attempt + (IF at' = "attempt" THEN 0 ELSE 1) <= sending'.max
    BY <1>3, <1>4, <1>5
  <1>8. callouts' = (CalloutLimit - sending'.budget) + sending'.attempt + (IF at' = "wire" THEN 1 ELSE 0)
    BY <1>1, <1>4, <1>5
  <1>9. tried' \in BOOLEAN /\ (r = "delete" => tried')
    BY DEF Begin
  <1> QED
    BY <1>4, <1>5, <1>6, <1>7, <1>8, <1>9 DEF Sending

\* The upload returns: nothing is sent any more.
LEMMA ReturnSends ==
    ASSUME UploadInv, NEW r, Returns(r), ~caching' => cached' # "none"
    PROVE  Sending' /\ op' = "none" /\ at' = "idle" /\ result' = r /\ tried' = tried
  <1>1. MaxRetries \in Nat /\ CalloutLimit \in Nat
    BY ApexAssumption
  <1>2. /\ op' = "none" /\ at' = "idle" /\ result' = r /\ tried' = tried
        /\ sending' = [attempt |-> 0, max |-> 0, refreshed |-> FALSE, retries |-> 0, budget |-> 0]
    BY DEF Returns, Idle
  <1>3. sending' \in [attempt : Nat, max : Nat, refreshed : BOOLEAN, retries : 0..MaxRetries,
                      budget : 0..CalloutLimit]
    BY <1>1, <1>2
  <1> QED
    BY <1>2, <1>3 DEF Sending

\* What Box holds stays in order while the upload stays where it is.
LEMMA SlicesStand ==
    ASSUME UploadInv, op # "none", Effect \/ UNCHANGED boxed, UNCHANGED <<total, partSize, offset>>
    PROVE  PartsAreSlices' /\ (session' = "committed" => Covered' = 0..(total' - 1))
  BY BoxHolds DEF PartsAreSlices, PartLen

\* What is thrown is reported at once, or once the session was aborted.
LEMMA ThrownIs ==
    ASSUME TypeOK, NEW what \in Failures, Throws(what)
    PROVE  /\ errors' = Append(errors, what) /\ errors' \in Seq(Failures)
           /\ failure' \in Failures \cup {"none"}
           /\ \/ what \in {"create", "delete"} /\ Returns("failed")
                 /\ failure' = IF what = "create" THEN what ELSE failure
              \/ what \notin {"create", "delete"} /\ failure' = what /\ Begin("delete") /\ UNCHANGED result
  <1>1. errors' = Append(errors, what) /\ errors' \in Seq(Failures)
    BY DEF Throws, TypeOK
  <1>2. CASE what = "create"
    BY <1>1, <1>2 DEF Throws, Recover, Failures, Requests
  <1>3. CASE what = "delete"
    BY <1>1, <1>3 DEF Throws, Recover, TypeOK
  <1>4. CASE what \notin {"create", "delete"}
    BY <1>1, <1>4 DEF Throws, Recover
  <1> QED
    BY <1>2, <1>3, <1>4

\* A failure ends the upload, or has it abort its session.
LEMMA ThrowsPreserves ==
    ASSUME UploadInv, op # "none", Effect \/ UNCHANGED boxed, Throws(op),
           UNCHANGED <<caching, callouts, total, partSize, offset>>,
           cached' \in {"none", "good", "stale"}, ~caching => cached' # "none"
    PROVE  UploadInv'
  <1>1. TypeOK /\ Standing /\ result = "none" /\ op \in Requests /\ op \in Failures
    BY DEF UploadInv, TypeOK, Standing, Failures
  <1>2. PartsAreSlices' /\ (session' = "committed" => Covered' = 0..(total' - 1))
    BY SlicesStand
  <1>3. session' \in {"none", "open", "committed", "aborted"}
    BY BoxHolds
  <1>6. failure' \in Failures \cup {"none"} /\ errors' \in Seq(Failures)
    BY <1>1, ThrownIs
  <1>4. CASE Returns("failed")
    <2>1. Sending' /\ op' = "none" /\ at' = "idle" /\ result' = "failed" /\ tried' = tried
      BY <1>4, ReturnSends
    <2>2. TypeOK'
      BY <1>1, <1>3, <1>6, <2>1 DEF TypeOK
    <2>3. Standing'
      BY <2>1 DEF Standing
    <2> QED
      BY <1>2, <2>1, <2>2, <2>3 DEF UploadInv
  <1>5. CASE failure' = op /\ Begin("delete") /\ UNCHANGED result
    <2>1. Sending' /\ op' = "delete" /\ at' = "attempt" /\ tried' \in BOOLEAN
      BY <1>5, BeginSends DEF Requests
    <2>2. TypeOK'
      BY <1>1, <1>3, <1>5, <1>6, <2>1 DEF TypeOK, Requests
    <2>3. Standing'
      BY <1>1, <1>5, <2>1 DEF Standing, Requests
    <2> QED
      BY <1>2, <2>1, <2>2, <2>3 DEF UploadInv
  <1> QED
    BY <1>1, <1>4, <1>5, ThrownIs

\* A success: the next part, the commit, or the end.
LEMMA SucceedsPreserves ==
    ASSUME UploadInv, op # "none", Effect, Succeeds, UNCHANGED <<caching, callouts, total>>,
           cached' \in {"none", "good", "stale"}, ~caching => cached' # "none"
    PROVE  UploadInv'
  <1>1. TypeOK /\ Standing /\ result = "none" /\ op \in Requests /\ total \in Nat
    BY Numbers DEF UploadInv, TypeOK, Standing
  <1>2. session' \in {"none", "open", "committed", "aborted"}
    BY BoxHolds
  <1>3. CASE op = "create"
    <2>1. PICK size \in PartSizes :
             /\ partSize' = size /\ offset' = 0
             /\ \/ Usable(size) /\ Begin("part") /\ UNCHANGED outcome
                \/ Throws("size")
      BY <1>3 DEF Succeeds
    <2>2. held' = {} /\ Covered' = {} /\ session' = "open"
      BY <1>3, BoxHolds
    <2>3. offset' \in 0..total /\ total' = total /\ partSize' \in {0} \cup PartSizes
      BY <1>1, <2>1
    <2>4. PartsAreSlices' /\ (session' = "committed" => Covered' = 0..(total' - 1))
      <3>1. Covered' = 0..(offset' - 1)
        BY <2>1, <2>2
      <3> QED
        BY <2>2, <3>1 DEF PartsAreSlices
    <2>5. CASE Usable(size) /\ Begin("part") /\ UNCHANGED outcome
      <3>1. Sending' /\ op' = "part" /\ at' = "attempt" /\ tried' \in BOOLEAN /\ UNCHANGED <<failure, result, errors>>
        BY <2>5, BeginSends DEF Requests, outcome
      <3>2. TypeOK'
        BY <1>1, <1>2, <2>3, <3>1 DEF TypeOK, Requests
      <3>3. Standing'
        <4>1. Usable(partSize)'
          BY <2>1, <2>3, <2>5 DEF Usable, MultiPart
        <4>2. offset' < total' /\ offset' % 3 = 0
          BY <1>1, <2>1, <2>3, Numbers
        <4> QED
          BY <1>1, <2>1, <2>2, <3>1, <4>1, <4>2 DEF Standing
      <3> QED
        BY <2>4, <3>1, <3>2, <3>3 DEF UploadInv
    <2>6. CASE Throws("size")
      <3>4. /\ failure' = "size" /\ Begin("delete") /\ UNCHANGED result
            /\ failure' \in Failures \cup {"none"} /\ errors' \in Seq(Failures)
        BY <1>1, <2>6, ThrownIs DEF Failures
      <3>1. Sending' /\ op' = "delete" /\ at' = "attempt" /\ tried' \in BOOLEAN
        BY <3>4, BeginSends DEF Requests
      <3>2. TypeOK'
        BY <1>1, <1>2, <2>3, <3>1, <3>4 DEF TypeOK, Requests
      <3>3. Standing'
        BY <1>1, <3>1, <3>4 DEF Standing
      <3> QED
        BY <2>4, <3>1, <3>2, <3>3 DEF UploadInv
    <2> QED
      BY <2>1, <2>5, <2>6
  <1>4. CASE op = "part"
    <2> DEFINE upto == offset + PartLen(offset)
               next == IF upto < total THEN "part" ELSE "commit"
    <2>1. /\ upto \in Nat /\ upto <= total
          /\ upto < total => MultiPart(partSize) /\ upto % 3 = 0
      BY <1>1, <1>4, PartIsItsSlice
    <2>2. offset' = upto /\ Begin(next) /\ UNCHANGED <<partSize, outcome>>
      BY <1>4 DEF Succeeds
    <2>3. Covered' = 0..(upto - 1) /\ session' = "open" /\ \A p \in held' : p.bytes = p.declared
      BY <1>4, BoxHolds
    <2>4. Sending' /\ op' = next /\ at' = "attempt" /\ tried' \in BOOLEAN /\ UNCHANGED <<failure, result, errors>>
      BY <2>2, BeginSends DEF Requests, outcome
    <2>5. offset' \in 0..total' /\ total' = total /\ partSize' = partSize
      BY <1>1, <2>1, <2>2
    <2> HIDE DEF upto
    <2>6. PartsAreSlices' /\ (session' = "committed" => Covered' = 0..(total' - 1))
      BY <2>2, <2>3 DEF PartsAreSlices
    <2>7. TypeOK'
      BY <1>1, <1>2, <2>2, <2>4, <2>5 DEF TypeOK, Requests
    <2>8. Standing'
      <3>1. Usable(partSize)'
        BY <1>1, <1>4, <2>5 DEF Standing, Usable, MultiPart
      <3>2. CASE upto < total
        BY <1>1, <2>1, <2>2, <2>3, <2>4, <2>5, <3>1, <3>2 DEF Standing, MultiPart
      <3>3. CASE upto = total
        BY <1>1, <2>2, <2>4, <2>5, <3>3 DEF Standing
      <3> QED
        BY <1>1, <2>1, <3>2, <3>3
    <2> QED
      BY <2>4, <2>6, <2>7, <2>8 DEF UploadInv
  <1>5. ASSUME NEW r \in {"uploaded", "failed"}, Returns(r),
               UNCHANGED <<partSize, offset, failure, errors>>
        PROVE  UploadInv'
    <2>1. PartsAreSlices' /\ (session' = "committed" => Covered' = 0..(total' - 1))
      BY <1>5, SlicesStand
    <2>2. Sending' /\ op' = "none" /\ at' = "idle" /\ result' = r /\ tried' = tried
      BY <1>5, ReturnSends
    <2>3. TypeOK'
      BY <1>1, <1>2, <1>5, <2>2 DEF TypeOK
    <2>4. Standing'
      BY <1>5, <2>2 DEF Standing
    <2> QED
      BY <2>1, <2>2, <2>3, <2>4 DEF UploadInv
  <1> QED
    BY <1>1, <1>3, <1>4, <1>5 DEF Succeeds, Requests

\* A refresh or a retry is one more attempt at the same request.
LEMMA AgainPreserves ==
    ASSUME UploadInv, at = "wire", Effect \/ UNCHANGED boxed,
           NEW s, s.attempt = sending.attempt, s.max = sending.max, s.budget = sending.budget,
           s \in [attempt : Nat, max : Nat, refreshed : BOOLEAN, retries : 0..MaxRetries,
                  budget : 0..CalloutLimit],
           Again(s),
           UNCHANGED <<caching, callouts, total, partSize, offset>>,
           cached' \in {"none", "good", "stale"}, ~caching => cached' # "none"
    PROVE  UploadInv'
  <1>1. TypeOK /\ Standing /\ Sending /\ op # "none" /\ result = "none"
    BY DEF UploadInv, Standing
  <1>2. /\ PartsAreSlices' /\ (session' = "committed" => Covered' = 0..(total' - 1))
        /\ session' \in {"none", "open", "committed", "aborted"}
        /\ op = "part" => session' = "open"
        /\ op = "create" => held' = {}
    BY <1>1, SlicesStand, BoxHolds
  <1>3. /\ UNCHANGED <<op, failure, result, errors, tried>> /\ at' = "attempt"
        /\ sending' = [s EXCEPT !.attempt = @ + 1]
    BY DEF Again, outcome
  <1>4. TypeOK'
    BY <1>1, <1>2, <1>3 DEF TypeOK
  <1>5. Standing'
    BY <1>1, <1>2, <1>3 DEF Standing, Usable, MultiPart
  <1>6. Sending'
    <2>1. /\ sending' \in [attempt : Nat, max : Nat, refreshed : BOOLEAN, retries : 0..MaxRetries,
                           budget : 0..CalloutLimit]
          /\ sending'.max = sending.max /\ sending'.budget = sending.budget
          /\ sending'.attempt = sending.attempt + 1
      BY <1>1, <1>3 DEF Sending
    <2>2. sending.attempt \in Nat /\ sending.max \in Nat /\ sending.budget \in Nat /\ CalloutLimit \in Nat
      BY <1>1, ApexAssumption DEF Sending
    <2> QED
      BY <1>1, <1>3, <2>1, <2>2 DEF Sending
  <1> QED
    BY <1>2, <1>4, <1>5, <1>6 DEF UploadInv

\* An attempt, its mint or its request, counts against the limit.
LEMMA CalloutPreserves ==
    ASSUME UploadInv, NEW where \in {"minting", "wire"}, Callout(where),
           \/ at = "attempt" /\ sending.attempt < sending.max
           \/ at = "minting",
           where = "minting" => caching,
           UNCHANGED <<caching, total, partSize, offset, boxed>>,
           cached' \in {"none", "good", "stale"}, ~caching => cached' # "none"
    PROVE  UploadInv'
  <1>1. TypeOK /\ Standing /\ Sending /\ op # "none" /\ result = "none"
    BY DEF UploadInv, Standing
  <1>2. PartsAreSlices' /\ (session' = "committed" => Covered' = 0..(total' - 1))
    BY <1>1, SlicesStand
  <1>3. session' = session /\ held' = held
    BY DEF boxed
  <1>4. CASE callouts = CalloutLimit
    <2>1. /\ result' = "limit" /\ at' = "idle" /\ op' = "none"
          /\ UNCHANGED <<callouts, sending, tried, failure, errors>>
      BY <1>4 DEF Callout
    <2>2. TypeOK'
      BY <1>1, <1>3, <2>1 DEF TypeOK
    <2>3. Standing'
      BY <2>1 DEF Standing
    <2>4. Sending'
      BY <1>1, <2>1 DEF Sending
    <2> QED
      BY <1>2, <2>2, <2>3, <2>4 DEF UploadInv
  <1>5. CASE callouts # CalloutLimit
    <2>1. callouts' = callouts + 1 /\ at' = where /\ UNCHANGED <<op, sending, tried, failure, result, errors>>
      BY <1>5 DEF Callout, outcome
    <2>2. TypeOK'
      <3>1. callouts' \in 0..CalloutLimit
        BY <1>1, <1>5, <2>1, Numbers
      <3> QED
        BY <1>1, <1>3, <2>1, <3>1 DEF TypeOK
    <2>3. Standing'
      BY <1>1, <1>3, <2>1 DEF Standing, Usable, MultiPart
    <2>4. Sending'
      <3>1. /\ sending.attempt \in Nat /\ sending.max \in Nat /\ sending.budget \in Nat
            /\ CalloutLimit \in Nat /\ callouts \in Nat
        BY <1>1, Numbers DEF Sending
      <3>2. sending.attempt + 1 <= sending.max
        BY <1>1, <3>1 DEF Sending
      <3> QED
        BY <1>1, <2>1, <3>1, <3>2 DEF Sending
    <2> QED
      BY <1>2, <2>2, <2>3, <2>4 DEF UploadInv
  <1> QED
    BY <1>4, <1>5

-----------------------------------------------------------------------------
LEMMA InitEstablishes == Init => UploadInv
  <1> SUFFICES ASSUME Init PROVE UploadInv
    OBVIOUS
  <1> USE ApexAssumption DEF Init
  <1>1. TypeOK
    <2>1. errors \in Seq(Failures)
      BY EmptySeq
    <2>2. tried \in BOOLEAN /\ caching \in BOOLEAN
      BY Zenon
    <2>3. cached \in {"none", "good", "stale"}
      OBVIOUS
    <2>4. failure \in Failures \cup {"none"}
      OBVIOUS
    <2> QED
      BY <2>1, <2>2, <2>3, <2>4 DEF TypeOK
  <1>2. Standing
    BY DEF Standing
  <1>3. Sending
    BY DEF Sending, Idle
  <1>4. PartsAreSlices
    <2>1. Covered = {} /\ held = {} /\ 0..(offset - 1) = {}
      BY DEF Covered
    <2> QED
      BY <2>1 DEF PartsAreSlices
  <1> QED
    BY <1>1, <1>2, <1>3, <1>4 DEF UploadInv

\* The steps of the upload's caller, of send() and of Box.
LEMMA AnsweredPreserves == UploadInv /\ Answered => UploadInv'
  <1> SUFFICES ASSUME UploadInv, Answered PROVE UploadInv'
    OBVIOUS
  <1>1. TypeOK /\ Standing /\ Sending /\ op # "none" /\ at = "wire"
    BY DEF UploadInv, Standing, Answered
  <1>2. PICK status \in Statuses :
           /\ BoxAnswers(status)
           /\ cached' = IF Refreshes(status) /\ caching THEN "none" ELSE cached
           /\ CASE Refreshes(status) -> Again([sending EXCEPT !.refreshed = TRUE]) /\ UNCHANGED <<partSize, offset>>
                [] Retries(status) -> Again([sending EXCEPT !.retries = @ + 1]) /\ UNCHANGED <<partSize, offset>>
                [] status = "2xx" -> Succeeds
                [] OTHER -> Throws(op) /\ UNCHANGED <<partSize, offset>>
    BY DEF Answered
  <1>3. UNCHANGED <<caching, callouts, total>>
    BY DEF Answered
  <1>4. cached' \in {"none", "good", "stale"} /\ (~caching => cached' # "none")
    BY <1>1, <1>2 DEF TypeOK, Sending
  <1>5. (Effect \/ UNCHANGED boxed) /\ (status = "2xx" => Effect)
    BY <1>2 DEF BoxAnswers
  <1>6. CASE Refreshes(status)
    <2> DEFINE s == [sending EXCEPT !.refreshed = TRUE]
    <2>1. /\ s \in [attempt : Nat, max : Nat, refreshed : BOOLEAN, retries : 0..MaxRetries, budget : 0..CalloutLimit]
          /\ s.attempt = sending.attempt /\ s.max = sending.max /\ s.budget = sending.budget
      BY <1>1 DEF Sending
    <2>2. Again(s) /\ UNCHANGED <<partSize, offset>>
      <3>1. ~Retries(status) /\ status # "2xx"
        BY <1>6 DEF Refreshes, Retries
      <3> QED
        BY <1>2, <1>6, <3>1
    <2> HIDE DEF s
    <2> QED
      BY <1>1, <1>3, <1>4, <1>5, <2>1, <2>2, AgainPreserves
  <1>7. CASE ~Refreshes(status) /\ Retries(status)
    <2> DEFINE s == [sending EXCEPT !.retries = @ + 1]
    <2>1. sending.retries + 1 \in 0..MaxRetries
      BY <1>1, <1>7, ApexAssumption DEF Sending, Retries
    <2>2. /\ s \in [attempt : Nat, max : Nat, refreshed : BOOLEAN, retries : 0..MaxRetries, budget : 0..CalloutLimit]
          /\ s.attempt = sending.attempt /\ s.max = sending.max /\ s.budget = sending.budget
      BY <1>1, <2>1 DEF Sending
    <2>3. Again(s) /\ UNCHANGED <<partSize, offset>>
      <3>1. status # "2xx"
        BY <1>7 DEF Retries
      <3> QED
        BY <1>2, <1>7, <3>1
    <2> HIDE DEF s
    <2> QED
      BY <1>1, <1>3, <1>4, <1>5, <2>2, <2>3, AgainPreserves
  <1>8. CASE ~Refreshes(status) /\ ~Retries(status) /\ status = "2xx"
    BY <1>1, <1>2, <1>3, <1>4, <1>5, <1>8, SucceedsPreserves
  <1>9. CASE ~Refreshes(status) /\ ~Retries(status) /\ status # "2xx"
    BY <1>1, <1>2, <1>3, <1>4, <1>5, <1>9, ThrowsPreserves
  <1> QED
    BY <1>6, <1>7, <1>8, <1>9

LEMMA StepPreserves == UploadInv /\ [Next]_vars => UploadInv'
  <1> SUFFICES ASSUME UploadInv, [Next]_vars PROVE UploadInv'
    OBVIOUS
  <1>1. TypeOK /\ Standing /\ Sending /\ PartsAreSlices /\ (session = "committed" => Covered = 0..(total - 1))
    BY DEF UploadInv
  <1>2. CASE Upload
    <2>1. /\ op = "none" /\ result = "none" /\ Begin("create")
          /\ UNCHANGED <<caching, cached, callouts, total, partSize, offset, failure, result, errors, session, held>>
      BY <1>2 DEF Upload, outcome, boxed
    <2>2. Sending' /\ op' = "create" /\ at' = "attempt" /\ tried' \in BOOLEAN
      BY <1>1, <2>1, BeginSends DEF Requests, Sending
    <2>3. TypeOK'
      BY <1>1, <2>1, <2>2 DEF TypeOK, Requests
    <2>4. Standing'
      BY <1>1, <2>1, <2>2 DEF Standing
    <2>5. PartsAreSlices' /\ (session' = "committed" => Covered' = 0..(total' - 1))
      BY <1>1, <2>1 DEF PartsAreSlices, Covered, PartLen
    <2> QED
      BY <2>2, <2>3, <2>4, <2>5 DEF UploadInv
  <1>3. CASE Attempt
    <2>1. ~caching => ~NeedsMint
      BY DEF NeedsMint
    <2>2. cached' \in {"none", "good", "stale"} /\ (~caching => cached' # "none")
      BY <1>1, <1>3 DEF Attempt, TypeOK, Sending
    <2> QED
      BY <1>3, <2>1, <2>2, CalloutPreserves DEF Attempt
  <1>4. CASE MintOk
    BY <1>4, CalloutPreserves DEF MintOk
  <1>5. CASE Answered
    BY <1>5, AnsweredPreserves
  <1>6. CASE CalloutFails \/ OutOfAttempts
    <2>1. /\ op # "none" /\ Throws(op) /\ (Effect \/ UNCHANGED boxed)
          /\ UNCHANGED <<caching, cached, callouts, total, partSize, offset>>
      BY <1>1, <1>6 DEF CalloutFails, OutOfAttempts, Standing, boxed
    <2>2. cached' \in {"none", "good", "stale"} /\ (~caching => cached' # "none")
      BY <1>1, <2>1 DEF TypeOK, Sending
    <2> QED
      BY <2>1, <2>2, ThrowsPreserves
  <1>7. CASE BoxRejects \/ Expires \/ UNCHANGED vars
    <2>1. /\ UNCHANGED <<caching, callouts, total, partSize, offset, op, at, sending, tried,
                      failure, result, errors, session, held>>
          /\ cached' \in {"none", "good", "stale"} /\ (~caching => cached' # "none")
      BY <1>1, <1>7 DEF BoxRejects, Expires, vars, sent, outcome, boxed, TypeOK, Sending
    <2>2. TypeOK' /\ Standing'
      BY <1>1, <2>1 DEF TypeOK, Standing, Usable, MultiPart
    <2>3. Sending'
      BY <1>1, <2>1 DEF Sending
    <2>4. PartsAreSlices' /\ (session' = "committed" => Covered' = 0..(total' - 1))
      BY <1>1, <2>1 DEF PartsAreSlices, Covered, PartLen
    <2> QED
      BY <2>2, <2>3, <2>4 DEF UploadInv
  <1> QED
    BY <1>2, <1>3, <1>4, <1>5, <1>6, <1>7 DEF Next

\* What Box holds of an upload is the content from its start, cut where each part
\* says, and a committed session holds all of it.
THEOREM UploadInvariant == Spec => []UploadInv
  BY InitEstablishes, StepPreserves, PTL DEF Spec

-----------------------------------------------------------------------------
\* How an upload ends.

LEMMA TwoErrors == ASSUME NEW a, NEW b PROVE Append(<<a>>, b) = <<a, b>>
  <1> DEFINE S == {a, b}
  <1>1. <<a>> \in Seq(S) /\ Len(<<a>>) = 1 /\ <<a>>[1] = a /\ b \in S
    OBVIOUS
  <1>2. <<a, b>> \in Seq(S) /\ Len(<<a, b>>) = 2 /\ <<a, b>>[1] = a /\ <<a, b>>[2] = b
    OBVIOUS
  <1> HIDE DEF S
  <1>3. /\ Append(<<a>>, b) \in Seq(S) /\ Len(Append(<<a>>, b)) = 2
        /\ Append(<<a>>, b)[1] = a /\ Append(<<a>>, b)[2] = b
    BY <1>1, AppendProperties
  <1>4. \A i \in 1..2 : Append(<<a>>, b)[i] = <<a, b>>[i]
    BY <1>2, <1>3
  <1> QED
    BY <1>2, <1>3, <1>4, SeqEqual

\* What failed is what the caller is thrown; after a failure with a session in
\* hand, the delete is all that is sent, and may fail as well.
Ending ==
    /\ result = "none" =>
          \/ op # "delete" /\ failure = "none" /\ errors = <<>>
          \/ op = "delete" /\ failure \notin {"none", "create"} /\ errors = <<failure>> /\ tried
    /\ result # "none" =>
          errors \in {<<>>, <<failure>>, <<failure, "delete">>} /\ (errors = <<>> <=> failure = "none")
    /\ Settled

LEMMA EndingStep == UploadInv /\ Ending /\ [Next]_vars => Ending'
  <1> SUFFICES ASSUME UploadInv, Ending, [Next]_vars PROVE Ending'
    OBVIOUS
  <1>1. Standing /\ TypeOK /\ Settled
    BY DEF UploadInv, Ending
  <1>2. ASSUME UNCHANGED <<outcome, op, tried>>, result = "none" \/ session' = session PROVE Ending'
    BY <1>2 DEF Ending, Settled, outcome
  <1>3. ASSUME op # "delete", result = "none", Begin("create") \/ Begin("part") \/ Begin("commit"), UNCHANGED outcome
        PROVE  Ending'
    <2>1. failure = "none" /\ errors = <<>> /\ op' # "delete" /\ UNCHANGED <<failure, errors, result>>
      BY <1>3 DEF Ending, Begin, outcome
    <2> QED
      BY <1>3, <2>1 DEF Ending, Settled
  <1>4. ASSUME NEW what \in Failures, Throws(what), op # "none", what = op \/ (op = "create" /\ what = "size")
        PROVE  Ending'
    <2>1. /\ errors' = Append(errors, what)
          /\ \/ what \in {"create", "delete"} /\ Returns("failed")
                /\ failure' = IF what = "create" THEN what ELSE failure
             \/ what \notin {"create", "delete"} /\ failure' = what /\ Begin("delete") /\ UNCHANGED result
      BY <1>1, <1>4, ThrownIs
    <2>2. result = "none"
      BY <1>1, <1>4 DEF Standing
    <2>3. what \notin {"none"}
      BY DEF Failures, Requests
    <2>4. CASE op = "delete"
      <3>1. errors = <<failure>> /\ failure \notin {"none", "create"} /\ tried /\ what = "delete"
        BY <1>4, <2>2, <2>4 DEF Ending
      <3>4. Append(<<failure>>, "delete") = <<failure, "delete">>
        BY TwoErrors
      <3>2. errors' = <<failure, "delete">> /\ errors'[1] = failure /\ errors' # <<>>
        BY <2>1, <3>1, <3>4
      <3>3. failure' = failure /\ result' = "failed" /\ tried' = tried
        BY <2>1, <3>1 DEF Returns
      <3> QED
        BY <3>1, <3>2, <3>3 DEF Ending, Settled
    <2>5. CASE op # "delete"
      <3>1. errors = <<>> /\ failure = "none"
        BY <2>2, <2>5 DEF Ending
      <3>2. errors' = <<what>> /\ errors'[1] = what /\ errors' # <<>>
        BY <2>1, <3>1
      <3>3. CASE what = "create"
        BY <2>1, <3>2, <3>3 DEF Returns, Ending, Settled
      <3>4. CASE what # "create"
        <4>1. op' = "delete" /\ tried' /\ failure' = what /\ result' = "none"
          BY <1>4, <2>1, <2>2, <2>5, <3>4 DEF Begin
        <4> QED
          BY <2>3, <3>2, <3>4, <4>1 DEF Ending, Settled
      <3> QED
        BY <3>3, <3>4
    <2> QED
      BY <2>4, <2>5
  <1>5. ASSUME op # "none", Effect, Succeeds PROVE Ending'
    <2>1. result = "none" /\ op \in Requests
      BY <1>1, <1>5 DEF Standing, TypeOK
    <2>2. CASE op = "create"
      <3>1. (Begin("part") /\ UNCHANGED outcome) \/ Throws("size")
        BY <1>5, <2>2 DEF Succeeds
      <3> QED
        BY <1>3, <1>4, <2>1, <2>2, <3>1 DEF Failures
    <2>3. CASE op = "part"
      <3>1. (Begin("part") \/ Begin("commit")) /\ UNCHANGED outcome
        BY <1>5, <2>3 DEF Succeeds
      <3> QED
        BY <1>3, <2>1, <2>3, <3>1
    <2>4. CASE op = "commit"
      <3>1. session' = "committed"
        BY <1>5, <2>4, BoxHolds
      <3>2. Returns("uploaded") /\ UNCHANGED <<failure, errors>>
        BY <1>5, <2>4 DEF Succeeds
      <3> QED
        BY <2>1, <2>4, <3>1, <3>2 DEF Returns, Ending, Settled
    <2>5. CASE op = "delete"
      <3>1. session' = "aborted"
        BY <1>5, <2>5 DEF Effect
      <3>2. Returns("failed") /\ UNCHANGED <<failure, errors>>
        BY <1>5, <2>5 DEF Succeeds
      <3>3. errors = <<failure>> /\ failure \notin {"none", "create"} /\ tried
        BY <2>1, <2>5 DEF Ending
      <3> QED
        BY <3>1, <3>2, <3>3 DEF Returns, Ending, Settled
    <2> QED
      BY <2>1, <2>2, <2>3, <2>4, <2>5 DEF Requests
  <1>6. CASE Upload
    BY <1>3, <1>6 DEF Upload
  <1>7. CASE Attempt \/ MintOk
    <2>1. session' = session /\ UNCHANGED <<failure, errors, tried>>
      BY <1>7 DEF Attempt, MintOk, Callout, outcome, boxed
    <2>2. UNCHANGED <<op, outcome>> \/ result' = "limit"
      BY <1>7 DEF Attempt, MintOk, Callout, outcome
    <2>3. result = "none"
      BY <1>1, <1>7 DEF Attempt, MintOk, Standing
    <2>4. CASE result' = "limit"
      BY <2>1, <2>3, <2>4 DEF Ending, Settled
    <2> QED
      BY <1>2, <2>1, <2>2, <2>4
  <1>8. CASE Answered
    <2>1. PICK status \in Statuses :
             /\ BoxAnswers(status)
             /\ CASE Refreshes(status) -> Again([sending EXCEPT !.refreshed = TRUE]) /\ UNCHANGED <<partSize, offset>>
                  [] Retries(status) -> Again([sending EXCEPT !.retries = @ + 1]) /\ UNCHANGED <<partSize, offset>>
                  [] status = "2xx" -> Succeeds
                  [] OTHER -> Throws(op) /\ UNCHANGED <<partSize, offset>>
      BY <1>8 DEF Answered
    <2>2. op # "none" /\ result = "none" /\ op \in Failures
      BY <1>1, <1>8 DEF Answered, Standing, TypeOK, Failures
    <2>3. CASE Refreshes(status) \/ Retries(status)
      <3>1. UNCHANGED <<op, outcome, tried>>
        BY <2>1, <2>3 DEF Refreshes, Retries, Again
      <3> QED
        BY <1>2, <2>2, <3>1
    <2>4. CASE ~Refreshes(status) /\ ~Retries(status) /\ status = "2xx"
      <3>1. Effect /\ Succeeds
        BY <2>1, <2>4 DEF BoxAnswers
      <3> QED
        BY <1>5, <2>2, <3>1
    <2>5. CASE ~Refreshes(status) /\ ~Retries(status) /\ status # "2xx"
      <3>1. Throws(op)
        BY <2>1, <2>5
      <3> QED
        BY <1>4, <2>2, <3>1
    <2> QED
      BY <2>3, <2>4, <2>5
  <1>9. CASE CalloutFails \/ OutOfAttempts
    <2>1. op # "none" /\ op \in Failures /\ Throws(op)
      BY <1>1, <1>9 DEF CalloutFails, OutOfAttempts, Standing, TypeOK, Failures
    <2> QED
      BY <1>4, <2>1
  <1>10. CASE BoxRejects \/ Expires \/ UNCHANGED vars
    BY <1>2, <1>10 DEF BoxRejects, Expires, vars, sent, boxed
  <1> QED
    BY <1>6, <1>7, <1>8, <1>9, <1>10 DEF Next

\* An upload that returns a file was committed; one that fails throws what failed first,
\* and if it had a session it asked for its delete and leaves it open only when that
\* failed too.
THEOREM UploadsSettle == Spec => []Settled
  <1>1. Init => Ending
    BY DEF Init, Ending, Settled
  <1>2. Ending => Settled
    BY DEF Ending
  <1> QED
    BY <1>1, <1>2, EndingStep, UploadInvariant, PTL DEF Spec

-----------------------------------------------------------------------------
\* The callout limit.

LEMMA FundedStep == UploadInv /\ FundedSendLives /\ [Next]_vars => FundedSendLives'
  <1> SUFFICES ASSUME UploadInv, FundedSendLives, [Next]_vars, result' = "limit", ~caching'
               PROVE  sending'.budget = 0
    BY DEF FundedSendLives
  <1>1. Standing /\ Sending /\ TypeOK
    BY DEF UploadInv
  <1>2. caching' = caching
    BY DEF Next, Upload, Attempt, MintOk, Answered, CalloutFails, OutOfAttempts, BoxRejects, Expires, vars
  <1>3. CASE result = "limit"
    <2>1. UNCHANGED sending
      BY <1>1, <1>3
      DEF Standing, Next, Upload, Attempt, MintOk, Answered, CalloutFails, OutOfAttempts, BoxRejects, Expires, vars, sent
    <2> QED
      BY <1>2, <1>3, <2>1 DEF FundedSendLives
  <1>4. CASE result # "limit"
    <2>1. Attempt \/ MintOk
      <3>1. \A what : ~Throws(what)
        BY <1>4 DEF Throws, Recover, Returns
      <3>2. ASSUME op # "none", Succeeds PROVE FALSE
        <4>1. op \in Requests
          BY <1>1, <3>2 DEF TypeOK
        <4> QED
          BY <1>4, <3>2, <4>1 DEF Succeeds, Throws, Recover, Returns, outcome, Requests
      <3>3. ~Answered
        <4>1. \A s : ~Again(s)
          BY <1>4 DEF Again, outcome
        <4>2. at = "wire" => op # "none"
          BY <1>1 DEF Standing
        <4> QED
          BY <3>1, <3>2, <4>1, <4>2 DEF Answered
      <3> QED
        BY <1>4, <3>1, <3>3
        DEF Next, Upload, CalloutFails, OutOfAttempts, BoxRejects, Expires, vars, outcome
    <2>2. ~NeedsMint /\ at # "minting"
      BY <1>1, <1>2 DEF NeedsMint, Sending
    <2>3. /\ at = "attempt" /\ sending.attempt < sending.max
          /\ callouts = CalloutLimit /\ sending' = sending
      BY <1>4, <2>1, <2>2 DEF Attempt, MintOk, Callout, outcome
    <2>4. /\ sending.attempt \in Nat /\ sending.budget \in Nat /\ sending.max \in Nat
          /\ MaxRetries \in Nat /\ CalloutLimit \in Nat
      BY <1>1, ApexAssumption DEF Sending
    <2>5. sending.budget = sending.attempt
      BY <1>1, <1>2, <2>3, <2>4 DEF Sending
    <2>6. sending.max = Smaller(MaxRetries + 2, Larger(1, sending.budget - 1))
      BY <1>1, <2>3 DEF Sending
    <2>7. sending.max <= (IF 1 >= sending.budget - 1 THEN 1 ELSE sending.budget - 1)
      BY <2>4, <2>6, SmallerIs, LargerIs
    <2> QED
      BY <2>3, <2>4, <2>5, <2>7
  <1> QED
    BY <1>3, <1>4

\* Without mints, a request that begins with a callout left never runs into the limit.
THEOREM FundedSendsLive == Spec => []FundedSendLives
  <1>1. Init => FundedSendLives
    BY DEF Init, FundedSendLives
  <1> QED
    BY <1>1, FundedStep, UploadInvariant, PTL DEF Spec
====
