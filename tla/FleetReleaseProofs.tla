---- MODULE FleetReleaseProofs ----
(***************************************************************************)
(* Proofs about FleetRelease, for any fleet and any number of versions.    *)
(* The guard looks at a repository long before the script tags and pushes  *)
(* it.  What makes that sound is that a branch is never past its tag: it   *)
(* is at the tag of the version or behind it (BranchesBehindTags), so once *)
(* the tree holds what the engine generates now, a tag that exists names   *)
(* just that, or the guard refuses.                                        *)
(***************************************************************************)
EXTENDS FleetRelease, TLAPS

\* What the run's steps and the operator's preserve, together.
FleetIndInv == FleetInv /\ ReleasesAreTagged

-----------------------------------------------------------------------------
\* What is generated is content, and never what a cut-off generation leaves.
LEMMA GeneratedIsContent ==
    ASSUME TypeOK, NEW r \in Repo
    PROVE  /\ Generated(r) \in Content /\ Generated(r) \notin {NoTag, Torn}
           /\ Generated(r)[1] = revision[r]
           /\ Generated(r)[2] = IF r \in Stamped THEN version ELSE 0
  <1>1. revision[r] \in 1..MaxRevision /\ version \in 1..MaxVersion
    BY DEF TypeOK, Version
  <1>2. Generated(r) \in (1..MaxRevision) \X (0..MaxVersion)
    BY <1>1, FleetAssumption DEF Generated
  <1>3. Generated(r)[1] = revision[r] /\ Generated(r)[2] = IF r \in Stamped THEN version ELSE 0
    BY DEF Generated
  <1>4. NoTag[1] = 0 /\ Torn[1] = 0
    BY DEF NoTag, Torn
  <1> QED
    BY <1>1, <1>2, <1>3, <1>4 DEF Content

\* Content is its revision and its stamp.
LEMMA ContentIsPair ==
    ASSUME NEW x \in Content \cup {NoTag}, NEW y \in Content \cup {NoTag}
    PROVE  /\ x[1] \in Nat /\ x[2] \in Nat
           /\ x[1] = y[1] /\ x[2] = y[2] => x = y
  BY FleetAssumption DEF Content, NoTag, Torn

\* Where a branch is what the engine generates now, a tag of the version that
\* exists names just that.
LEMMA AtItsTag ==
    ASSUME TypeOK, TagsStand, NEW r \in Repo, NEW branch, branch = Generated(r),
           NEW tags, tags \in {tag[r], tagged[r]}, AtOrBehind(branch, tags, r),
           <<r, version>> \notin byHand, tags[version] # NoTag
    PROVE  tags[version] = Generated(r)
  <1>1. version \in Version /\ tags[version] = tag[r][version]
    BY DEF TypeOK, TagsStand
  <1>2. /\ tags[version][1] <= revision[r] /\ tags[version][1] \in Nat /\ revision[r] \in Nat
        /\ tags[version][2] = IF r \in Stamped THEN version ELSE 0
    BY <1>1 DEF TypeOK, TagsStand
  <1>3. ~Older(branch, tags[version])
    BY <1>1, <1>2, GeneratedIsContent DEF Older, Version
  <1> QED
    BY <1>3 DEF AtOrBehind

\* A branch of content of this repository is at or behind a tag of what is
\* generated now.
LEMMA BehindGenerated ==
    ASSUME TypeOK, NEW r \in Repo, NEW branch \in Content, branch[1] <= revision[r],
           branch[2] <= version, r \notin Stamped => branch[2] = 0
    PROVE  branch = Generated(r) \/ Older(branch, Generated(r))
  <1>1. /\ branch[1] \in Nat /\ branch[2] \in Nat /\ revision[r] \in Nat /\ version \in Nat
    BY ContentIsPair DEF TypeOK, Version
  <1> QED
    BY <1>1, GeneratedIsContent, ContentIsPair DEF Older

LEMMA CurrentIsRepo == TypeOK => Current \in Repo
  BY FleetAssumption DEF TypeOK, Current, Repo

\* Where the run goes next.
LEMMA AdvanceMoves ==
    ASSUME TypeOK, NEW phase, Advance(phase)
    PROVE  /\ next' \in 1..Len(Targets) /\ dry' = dry /\ complete' = complete
           /\ \/ next < Len(Targets) /\ next' = next + 1 /\ pc' = pc
              \/ next = Len(Targets) /\ next' = 1 /\ pc' = phase
  <1>1. Len(Targets) \in Nat /\ Len(Targets) >= 1 /\ next \in 1..Len(Targets)
    BY FleetAssumption DEF TypeOK
  <1> QED
    BY <1>1 DEF Advance

LEMMA EndMoves ==
    ASSUME NEW whole \in BOOLEAN, End(whole)
    PROVE  /\ next' \in 1..Len(Targets) /\ dry' \in BOOLEAN /\ complete' = whole
           /\ pc' = "idle"
  <1>1. 1 \in 1..Len(Targets)
    BY FleetAssumption
  <1> QED
    BY <1>1 DEF End

-----------------------------------------------------------------------------
LEMMA InitEstablishes == Init => FleetIndInv
  <1> SUFFICES ASSUME Init PROVE FleetIndInv
    OBVIOUS
  <1> USE FleetAssumption DEF Init
  <1>1. <<1, 0>> \in Content /\ <<1, 0>> # Torn /\ NoTag # Torn
    BY DEF Content, Torn, NoTag, Version
  <1>2. TypeOK
    <2>1. Untagged \in [Version -> Content \cup {NoTag}]
      BY DEF Untagged
    <2>2. /\ tag \in [Repo -> [Version -> Content \cup {NoTag}]]
          /\ tree \in [Repo -> Content]
          /\ base \in [Repo -> 0..MaxForeign]
          /\ released \in [Repo -> SUBSET Version]
          /\ revision \in [Repo -> 1..MaxRevision] /\ version \in Version
      BY <1>1, <2>1 DEF Version
    <2>3. 1 \in 1..Len(Targets)
      BY FleetAssumption
    <2>4. /\ head \in [Repo -> Content] /\ main \in [Repo -> Content]
          /\ tagged \in [Repo -> [Version -> Content \cup {NoTag}]]
          /\ others \in [Repo -> 0..MaxForeign]
      BY <2>2
    <2> QED
      BY ONLY Init, <2>2, <2>3, <2>4 DEF TypeOK, Steps, Init
  <1>3. NothingTorn /\ TagsStand /\ ReleasesAreTagged
    BY <1>1 DEF NothingTorn, TagsStand, ReleasesAreTagged, Untagged
  <1>4. MainFollowsTags
    <2>1. \A r \in Repo : main[r] = <<1, 0>> /\ \A v \in Version : tag[r][v] = NoTag
      BY DEF Untagged
    <2>2. \A r \in Repo : main[r][1] \in 1..revision[r] /\ main[r][2] \in 0..version /\ main[r][2] = 0
      BY <2>1
    <2> QED
      BY ONLY <2>1, <2>2 DEF MainFollowsTags
  <1>5. BranchesBehindTags
    BY DEF BranchesBehindTags, AtOrBehind, Untagged, Version
  <1>6. RunStands
    BY DEF RunStands
  <1> QED
    BY <1>2, <1>3, <1>4, <1>5, <1>6 DEF FleetIndInv, FleetInv

-----------------------------------------------------------------------------
\* The run's own steps.

LEMMA PrecheckPreserves ==
    ASSUME FleetIndInv, Precheck
    PROVE  FleetIndInv'
  <1> USE DEF FleetIndInv, FleetInv, engine, local, github, script
  <1>1. tag' = tag
    <2>1. ASSUME NEW r \in Repo PROVE Missing(tag[r], tagged[r]) = tag[r]
      <3>1. \A v \in Version : (IF tag[r][v] = NoTag THEN tagged[r][v] ELSE tag[r][v]) = tag[r][v]
        BY DEF TagsStand
      <3> QED
        BY <3>1 DEF TypeOK, Missing
    <2>2. [tag EXCEPT ![Current] = Missing(@, tagged[Current])] = tag
      BY <2>1, CurrentIsRepo DEF TypeOK
    <2> QED
      BY <2>2 DEF Precheck
  <1>2. /\ pc' \in {"precheck", "generate", "idle"} /\ (pc' = "generate" => next' = 1)
        /\ next' \in 1..Len(Targets) /\ dry' \in BOOLEAN /\ complete' \in BOOLEAN
    <2>1. CASE Advance("generate")
      BY <2>1, AdvanceMoves DEF Precheck, TypeOK
    <2>2. CASE End(FALSE)
      BY <2>2, EndMoves
    <2> QED
      BY <2>1, <2>2 DEF Precheck
  <1>3. UNCHANGED <<version, revision, tree, head, base, main, tagged, others, released, byHand>>
    BY DEF Precheck
  <1>4. TypeOK'
    BY <1>1, <1>2, <1>3 DEF TypeOK, Steps
  <1>5. NothingTorn' /\ TagsStand' /\ ReleasesAreTagged' /\ MainFollowsTags'
    BY <1>1, <1>3 DEF NothingTorn, TagsStand, ReleasesAreTagged, MainFollowsTags
  <1>6. BranchesBehindTags'
    BY <1>1, <1>3 DEF BranchesBehindTags, AtOrBehind
  <1>7. RunStands'
    BY <1>2 DEF RunStands
  <1> QED
    BY <1>4, <1>5, <1>6, <1>7

LEMMA GeneratePreserves ==
    ASSUME FleetIndInv, Generate
    PROVE  FleetIndInv'
  <1> USE DEF FleetIndInv, FleetInv, engine, local, github, script
  <1>1. /\ UNCHANGED <<version, revision, head, tag, base, main, tagged, others, released, byHand>>
        /\ tree' = [tree EXCEPT ![Current] = Generated(Current)] /\ pc = "generate"
    BY DEF Generate
  <1>2. /\ pc' \in {"generate", "commit", "idle"}
        /\ next' \in 1..Len(Targets) /\ dry' \in BOOLEAN /\ complete' \in BOOLEAN
    <2>1. CASE Advance("commit")
      BY <1>1, <2>1, AdvanceMoves DEF TypeOK
    <2>2. CASE End(FALSE)
      BY <2>2, EndMoves
    <2> QED
      BY <2>1, <2>2 DEF Generate
  <1>3. TypeOK'
    BY <1>1, <1>2, GeneratedIsContent, CurrentIsRepo DEF TypeOK, Steps
  <1>4. NothingTorn' /\ TagsStand' /\ ReleasesAreTagged' /\ MainFollowsTags'
    BY <1>1 DEF NothingTorn, TagsStand, ReleasesAreTagged, MainFollowsTags
  <1>5. BranchesBehindTags'
    BY <1>1 DEF BranchesBehindTags, AtOrBehind
  <1>6. RunStands'
    <2>1. CASE pc' = "idle"
      BY <2>1 DEF RunStands
    <2>2. CASE pc' # "idle"
      <3>1. GuardAllows(Current) /\ Current = Targets[next] /\ next \in 1..Len(Targets)
        BY <2>2 DEF Generate, End, Current, TypeOK
      <3>2. \A i \in 1..Len(Targets) : i < next => Ready(Targets[i])
        BY <1>1 DEF RunStands
      <3>3. \A i \in 1..Len(Targets) :
               /\ Targets[i] \in Repo /\ (i # next => Targets[i] # Current)
               /\ Generated(Targets[i])' = Generated(Targets[i])
               /\ GuardAllows(Targets[i])' = GuardAllows(Targets[i])
        BY <1>1, <3>1, FleetAssumption DEF Generated, GuardAllows
      <3>4. \A i \in 1..Len(Targets) : i <= next => Ready(Targets[i])'
        BY <1>1, <3>1, <3>2, <3>3 DEF Ready, TypeOK
      <3>5. \/ pc' = "generate" /\ next' = next + 1
            \/ pc' = "commit" /\ next' = 1 /\ next = Len(Targets)
        BY <2>2, <3>1, FleetAssumption DEF Generate, Advance, End
      <3>6. CASE pc' = "generate" /\ next' = next + 1
        BY <3>1, <3>4, <3>6 DEF RunStands
      <3>7. CASE pc' = "commit" /\ next' = 1 /\ next = Len(Targets)
        BY <3>1, <3>4, <3>7 DEF RunStands
      <3> QED
        BY <3>5, <3>6, <3>7
    <2> QED
      BY <2>1, <2>2
  <1> QED
    BY <1>3, <1>4, <1>5, <1>6

\* The other targets, each a repository of its own.
LEMMA TargetsDiffer ==
    ASSUME TypeOK, NEW i \in 1..Len(Targets)
    PROVE  Targets[i] \in Repo /\ (i # next => Targets[i] # Current)
  BY FleetAssumption DEF TypeOK, Current

LEMMA CommitPreserves ==
    ASSUME FleetIndInv, Commit
    PROVE  FleetIndInv'
  <1> USE DEF FleetIndInv, FleetInv, engine, local, github, script
  <1>1. /\ UNCHANGED <<version, revision, tree, tag, base, main, tagged, others, released, byHand>>
        /\ UNCHANGED <<next, dry, complete>>
        /\ head' = [head EXCEPT ![Current] = tree[Current]] /\ pc = "commit" /\ pc' = "tag"
    BY DEF Commit, Then
  <1>2. Current \in Repo /\ Ready(Current)
    BY <1>1, CurrentIsRepo DEF RunStands, Current, TypeOK
  <1>3. TypeOK'
    BY <1>1, <1>2 DEF TypeOK, Steps
  <1>4. NothingTorn'
    BY <1>1, <1>2, GeneratedIsContent DEF NothingTorn, Ready, TypeOK
  <1>5. TagsStand' /\ ReleasesAreTagged' /\ MainFollowsTags'
    BY <1>1 DEF TagsStand, ReleasesAreTagged, MainFollowsTags
  <1>6. BranchesBehindTags'
    <2>1. head'[Current] = head[Current] \/ tag[Current][version] = NoTag
      BY <1>1, <1>2 DEF Ready, GuardAllows, TypeOK
    <2>2. \A r \in Repo : r # Current => head'[r] = head[r]
      BY <1>1 DEF TypeOK
    <2> QED
      BY <1>1, <2>1, <2>2 DEF BranchesBehindTags, AtOrBehind
  <1>7. RunStands'
    <2>1. head'[Current] = Generated(Current)'
      BY <1>1, <1>2 DEF Ready, Generated, Current, TypeOK
    <2>2. \A r \in Repo : r # Current => /\ Ready(r) => Ready(r)'
                                         /\ Published(r) => Published(r)'
      BY <1>1 DEF Ready, Published, Generated, GuardAllows, TypeOK
    <2> QED
      BY <1>1, <2>1, <2>2, TargetsDiffer DEF RunStands, Current, TypeOK
  <1> QED
    BY <1>3, <1>4, <1>5, <1>6, <1>7

LEMMA TagPreserves ==
    ASSUME FleetIndInv, Tag
    PROVE  FleetIndInv'
  <1> USE DEF FleetIndInv, FleetInv, engine, local, github, script
  <1>1. /\ UNCHANGED <<version, revision, tree, head, base, main, tagged, others, released, byHand>>
        /\ UNCHANGED <<next, dry, complete>> /\ pc = "tag" /\ pc' = "push"
    BY DEF Tag, Then
  <1>2. Current \in Repo /\ head[Current] = Generated(Current) /\ version \in Version
    BY <1>1, CurrentIsRepo DEF RunStands, Current, TypeOK
  <1>3. /\ tag' \in [Repo -> [Version -> Content \cup {NoTag}]]
        /\ \A r \in Repo, v \in Version :
              \/ tag'[r][v] = tag[r][v]
              \/ /\ r = Current /\ v = version /\ tag[r][v] = NoTag
                 /\ tag'[r][v] = Generated(Current) /\ tag'[r][v] = head[r]
        /\ tag'[Current][version] # NoTag
    BY <1>2, GeneratedIsContent DEF Tag, TypeOK
  <1>4. TypeOK'
    BY <1>1, <1>3 DEF TypeOK, Steps
  <1>5. NothingTorn'
    BY <1>1, <1>2, <1>3, GeneratedIsContent DEF NothingTorn
  <1>6. TagsStand'
    <2>1. version \in Nat /\ revision[Current] \in Nat /\ revision[Current] >= 1
      BY <1>2, FleetAssumption DEF TypeOK, Version
    <2> QED
      BY <1>1, <1>2, <1>3, <2>1, GeneratedIsContent DEF TagsStand
  <1>7. ReleasesAreTagged'
    BY <1>1 DEF ReleasesAreTagged
  <1>10. MainFollowsTags'
    <2>1. \A r \in Repo : main[r][1] \in 1..revision[r] /\ revision[r] \in Nat
      BY FleetAssumption DEF MainFollowsTags, TypeOK
    <2>2. Generated(Current)[1] = revision[Current]
      BY <1>2, GeneratedIsContent
    <2> QED
      BY <1>1, <1>3, <2>1, <2>2 DEF MainFollowsTags
  <1>8. BranchesBehindTags'
    BY <1>1, <1>2, <1>3 DEF BranchesBehindTags, AtOrBehind
  <1>9. RunStands'
    <2>1. \A r \in Repo : r # Current => /\ Ready(r) => Ready(r)'
                                         /\ Published(r) => Published(r)'
      BY <1>1, <1>2, <1>3 DEF Ready, Published, Generated, GuardAllows
    <2>2. Generated(Current)' = Generated(Current)
      BY <1>1 DEF Generated, Current
    <2> QED
      BY <1>1, <1>2, <1>3, <2>1, <2>2, TargetsDiffer DEF RunStands, Current, TypeOK
  <1> QED
    BY <1>4, <1>5, <1>6, <1>7, <1>8, <1>9, <1>10

\* The tags a push brings to GitHub are those of the checkout.
LEMMA PushedTags ==
    ASSUME TypeOK, TagsStand, NEW r \in Repo, NEW refused \in SUBSET Version, PushTags(r, refused)
    PROVE  /\ tagged' \in [Repo -> [Version -> Content \cup {NoTag}]]
           /\ \A q \in Repo, v \in Version :
                 /\ tagged'[q][v] \in {tagged[q][v], tag[q][v]}
                 /\ tagged[q][v] # NoTag => tagged'[q][v] = tagged[q][v]
                 /\ q = r /\ v \notin refused => tagged'[q][v] = tag[q][v]
                 /\ q # r => tagged'[q][v] = tagged[q][v]
  <1> DEFINE taken == [v \in Version |-> IF v \in refused THEN NoTag ELSE tag[r][v]]
             merged == Missing(tagged[r], taken)
  <1>1. tagged' = [tagged EXCEPT ![r] = merged]
    BY DEF PushTags
  <1>2. /\ merged \in [Version -> Content \cup {NoTag}]
        /\ \A v \in Version :
              /\ merged[v] \in {tagged[r][v], tag[r][v]}
              /\ tagged[r][v] # NoTag => merged[v] = tagged[r][v]
              /\ v \notin refused => merged[v] = tag[r][v]
    BY DEF TypeOK, TagsStand, Missing
  <1> HIDE DEF merged
  <1> QED
    BY <1>1, <1>2 DEF TypeOK

\* Whatever of a push is taken, main and the tags stay as they should.
LEMMA PushTakes ==
    ASSUME FleetIndInv, pc = "push", NEW refused \in SUBSET Version, PushTags(Current, refused),
           main' = main \/ main' = [main EXCEPT ![Current] = head[Current]],
           UNCHANGED <<version, revision, head, tag, released, byHand>>
    PROVE  /\ Current \in Repo /\ head[Current] = Generated(Current) /\ tag[Current][version] # NoTag
           /\ main' \in [Repo -> Content]
           /\ NothingTorn' /\ TagsStand' /\ MainFollowsTags' /\ BranchesBehindTags' /\ ReleasesAreTagged'
  <1> USE DEF FleetIndInv, FleetInv
  <1>1. /\ Current \in Repo /\ head[Current] = Generated(Current) /\ version \in Version
        /\ tag[Current][version] # NoTag
    BY CurrentIsRepo DEF RunStands, Current, TypeOK
  <1>2. \A q \in Repo, v \in Version :
           /\ tagged'[q][v] \in {tagged[q][v], tag[q][v]}
           /\ tagged[q][v] # NoTag => tagged'[q][v] = tagged[q][v]
    BY <1>1, PushedTags
  <1>3. /\ main' \in [Repo -> Content]
        /\ \A r \in Repo : main'[r] = main[r] \/ (r = Current /\ main'[r] = Generated(r))
    <2>1. main \in [Repo -> Content] /\ head[Current] \in Content
      BY <1>1 DEF TypeOK
    <2>2. CASE main' = main
      BY <2>1, <2>2
    <2>3. CASE main' = [main EXCEPT ![Current] = head[Current]]
      BY ONLY <1>1, <2>1, <2>3
    <2> QED
      BY <2>2, <2>3
  <1>4. NothingTorn'
    BY <1>1, <1>3, GeneratedIsContent DEF NothingTorn
  <1>5. TagsStand'
    BY <1>2 DEF TagsStand
  <1>6. <<Current, version>> \in byHand \/ tag[Current][version] = Generated(Current)
    BY <1>1, AtItsTag DEF BranchesBehindTags
  <1>7. MainFollowsTags'
    <2> SUFFICES ASSUME NEW r \in Repo
                 PROVE  /\ main'[r][1] \in 1..revision[r]
                        /\ main'[r][2] \in 0..version /\ (r \notin Stamped => main'[r][2] = 0)
                        /\ \A v \in Version :
                              r \in Stamped /\ main'[r][2] = v /\ tag[r][v] # NoTag /\ <<r, v>> \notin byHand =>
                                 main'[r][1] <= tag[r][v][1]
      BY DEF MainFollowsTags
    <2>1. CASE main'[r] = main[r]
      BY <2>1 DEF MainFollowsTags
    <2>2. CASE r = Current /\ main'[r] = Generated(r)
      <3>1. revision[r] \in Nat /\ revision[r] >= 1 /\ version \in Nat /\ version >= 1
        BY <1>1, FleetAssumption DEF TypeOK, Version
      <3>2. main'[r][1] = revision[r] /\ main'[r][2] = IF r \in Stamped THEN version ELSE 0
        BY <2>2, GeneratedIsContent
      <3>3. <<r, version>> \in byHand \/ tag[r][version] = main'[r]
        BY <1>6, <2>2
      <3> QED
        BY <3>1, <3>2, <3>3
    <2> QED
      BY <1>3, <2>1, <2>2
  <1>8. BranchesBehindTags'
    <2>1. \A r \in Repo : AtOrBehind(head[r], tag[r], r)'
      BY DEF BranchesBehindTags, AtOrBehind
    <2>2. ASSUME NEW r \in Repo, <<r, version>> \notin byHand
          PROVE  tagged'[r][version] \in {NoTag, main'[r]} \/ Older(main'[r], tagged'[r][version])
      <3>1. CASE r # Current
        <4>1. main'[r] = main[r] /\ tagged'[r][version] = tagged[r][version]
          BY <1>1, <1>3, <3>1, PushedTags
        <4> QED
          BY <2>2, <4>1 DEF BranchesBehindTags, AtOrBehind
      <3>2. CASE r = Current /\ tagged'[r][version] # NoTag
        <4>1. tagged'[r][version] = Generated(r)
          BY <1>1, <1>2, <1>6, <2>2, <3>2 DEF TagsStand
        <4>2. main'[r] = Generated(r) \/ Older(main'[r], Generated(r))
          <5>1. main[r] \in Content
            BY DEF TypeOK
          <5>2. /\ main[r][1] \in 1..revision[r] /\ main[r][2] \in 0..version
                /\ (r \notin Stamped => main[r][2] = 0)
            BY DEF MainFollowsTags
          <5>3. main[r] = Generated(r) \/ Older(main[r], Generated(r))
            BY ONLY <5>1, <5>2, BehindGenerated, FleetIndInv DEF FleetIndInv, FleetInv
          <5> QED
            BY <1>3, <5>3
        <4> QED
          BY <4>1, <4>2
      <3> QED
        BY <3>1, <3>2
    <2> QED
      BY <2>1, <2>2 DEF BranchesBehindTags, AtOrBehind
  <1>9. ReleasesAreTagged'
    BY <1>2 DEF ReleasesAreTagged, TypeOK
  <1> QED
    BY <1>1, <1>3, <1>4, <1>5, <1>7, <1>8, <1>9

LEMMA PushPreserves ==
    ASSUME FleetIndInv, Push
    PROVE  FleetIndInv'
  <1> USE DEF FleetIndInv, FleetInv, engine, local, github, script
  <1>1. /\ UNCHANGED <<version, revision, tree, head, tag, base, others, released, byHand>>
        /\ UNCHANGED <<next, dry, complete>> /\ pc = "push" /\ pc' = "release"
        /\ main' = [main EXCEPT ![Current] = head[Current]] /\ PushTags(Current, {})
    BY DEF Push, Then
  <1>2. /\ Current \in Repo /\ head[Current] = Generated(Current) /\ tag[Current][version] # NoTag
        /\ main' \in [Repo -> Content]
        /\ NothingTorn' /\ TagsStand' /\ MainFollowsTags' /\ BranchesBehindTags' /\ ReleasesAreTagged'
    BY <1>1, PushTakes
  <1>3. /\ tagged' \in [Repo -> [Version -> Content \cup {NoTag}]]
        /\ tagged'[Current][version] # NoTag
        /\ \A r \in Repo : r # Current => main'[r] = main[r] /\ tagged'[r][version] = tagged[r][version]
        /\ main'[Current] = Generated(Current)
    <2>1. version \in Version /\ {} \in SUBSET Version
      BY DEF TypeOK
    <2>2. /\ tagged' \in [Repo -> [Version -> Content \cup {NoTag}]]
          /\ tagged'[Current][version] = tag[Current][version]
          /\ \A r \in Repo : r # Current => tagged'[r][version] = tagged[r][version]
      BY <1>1, <1>2, <2>1, PushedTags
    <2>3. \A r \in Repo : main'[r] = IF r = Current THEN head[Current] ELSE main[r]
      BY <1>1 DEF TypeOK
    <2> QED
      BY ONLY <1>2, <2>2, <2>3
  <1>4. TypeOK'
    BY <1>1, <1>2, <1>3 DEF TypeOK, Steps
  <1>5. RunStands'
    <2>1. \A r \in Repo : r # Current => /\ Ready(r) => Ready(r)'
                                         /\ Published(r) => Published(r)'
      BY <1>1, <1>3 DEF Ready, Published, Generated, GuardAllows
    <2>2. Published(Current)'
      BY <1>1, <1>2, <1>3 DEF Published, Generated, Current
    <2> QED
      BY <1>1, <2>1, <2>2, TargetsDiffer DEF RunStands, Current, TypeOK
  <1> QED
    BY <1>2, <1>4, <1>5

LEMMA PushRejectedPreserves ==
    ASSUME FleetIndInv, PushRejected
    PROVE  FleetIndInv'
  <1> USE DEF FleetIndInv, FleetInv, engine, local, github, script
  <1>1. /\ UNCHANGED <<version, revision, tree, head, tag, base, others, released, byHand>>
        /\ pc = "push" /\ pc' = "idle"
        /\ next' \in 1..Len(Targets) /\ dry' \in BOOLEAN /\ complete' \in BOOLEAN
    BY EndMoves DEF PushRejected
  <1>2. PICK refused \in SUBSET Unpushed(Current) :
           /\ PushTags(Current, refused)
           /\ main' = main \/ main' = [main EXCEPT ![Current] = head[Current]]
    BY DEF PushRejected
  <1>3. refused \in SUBSET Version
    BY DEF Unpushed
  <1>4. /\ Current \in Repo /\ main' \in [Repo -> Content]
        /\ NothingTorn' /\ TagsStand' /\ MainFollowsTags' /\ BranchesBehindTags' /\ ReleasesAreTagged'
    BY <1>1, <1>2, <1>3, PushTakes
  <1>5. tagged' \in [Repo -> [Version -> Content \cup {NoTag}]]
    BY <1>2, <1>3, <1>4, PushedTags
  <1>6. TypeOK' /\ RunStands'
    BY <1>1, <1>4, <1>5 DEF TypeOK, Steps, RunStands
  <1> QED
    BY <1>4, <1>6

LEMMA ReleasePreserves ==
    ASSUME FleetIndInv, Release
    PROVE  FleetIndInv'
  <1> USE DEF FleetIndInv, FleetInv, engine, local, github, script
  <1>1. /\ UNCHANGED <<version, revision, tree, head, tag, base, main, tagged, others, byHand>>
        /\ released' = [released EXCEPT ![Current] = @ \cup {version}]
        /\ pc = "release"
    BY DEF Release
  <1>2. /\ Current \in Repo /\ Published(Current) /\ version \in Version
        /\ next \in 1..Len(Targets) /\ Len(Targets) \in Nat
    <2>1. Len(Targets) \in Nat
      BY FleetAssumption
    <2>2. next \in 1..Len(Targets) /\ version \in Version /\ Current \in Repo
      BY CurrentIsRepo DEF TypeOK
    <2>3. Published(Current)
      BY <1>1, <2>2 DEF RunStands, Current
    <2> QED
      BY <2>1, <2>2, <2>3
  <1>3. /\ \/ pc' = "idle"
           \/ pc' = "commit" /\ next' = next + 1 /\ next < Len(Targets)
        /\ next' \in 1..Len(Targets) /\ dry' \in BOOLEAN /\ complete' \in BOOLEAN
    <2>1. CASE next = Len(Targets)
      BY <2>1, EndMoves DEF Release
    <2>2. CASE next # Len(Targets)
      <3>1. pc' = "commit" /\ next' = next + 1 /\ UNCHANGED <<dry, complete>>
        BY <2>2 DEF Release
      <3> QED
        BY <1>2, <2>2, <3>1 DEF TypeOK
    <2> QED
      BY <2>1, <2>2
  <1>5. /\ released' \in [Repo -> SUBSET Version] /\ version \in released'[Current]
        /\ \A r \in Repo : r # Current => released'[r] = released[r]
        /\ \A r \in Repo : released'[r] \subseteq released[r] \cup (IF r = Current THEN {version} ELSE {})
        /\ \A r \in Repo : released[r] \subseteq released'[r]
    BY <1>1, <1>2 DEF TypeOK
  <1>6. TypeOK' /\ NothingTorn'
    BY <1>1, <1>3, <1>5 DEF TypeOK, Steps, NothingTorn
  <1>7. TagsStand' /\ MainFollowsTags'
    BY <1>1 DEF TagsStand, MainFollowsTags
  <1>8. ReleasesAreTagged'
    BY <1>1, <1>2, <1>5 DEF ReleasesAreTagged, Published
  <1>9. BranchesBehindTags'
    BY <1>1 DEF BranchesBehindTags, AtOrBehind
  <1>10. RunStands'
    <2>1. CASE pc' = "idle"
      BY <2>1 DEF RunStands
    <2>2. CASE pc' = "commit" /\ next' = next + 1 /\ next < Len(Targets)
      <3>1. \A r \in Repo : (Ready(r) => Ready(r)') /\ (Published(r) => Published(r)')
        BY <1>1 DEF Ready, Published, Generated, GuardAllows
      <3>2. ASSUME NEW i \in 1..Len(Targets), i < next
            PROVE  Published(Targets[i])' /\ version \in released'[Targets[i]]
        BY <1>1, <1>5, <3>1, <3>2, TargetsDiffer DEF RunStands
      <3>3. ASSUME NEW i \in 1..Len(Targets), i = next
            PROVE  Published(Targets[i])' /\ version \in released'[Targets[i]]
        BY <1>2, <1>5, <3>1, <3>3 DEF Current
      <3>4. ASSUME NEW i \in 1..Len(Targets), i > next
            PROVE  Ready(Targets[i])'
        BY <1>1, <3>1, <3>4, TargetsDiffer DEF RunStands
      <3>5. \A i \in 1..Len(Targets) : (i < next' => i < next \/ i = next) /\ (i >= next' => i > next)
        BY <1>2, <2>2
      <3> QED
        BY <1>1, <2>2, <3>2, <3>3, <3>4, <3>5 DEF RunStands
    <2> QED
      BY <1>3, <2>1, <2>2
  <1> QED
    BY <1>6, <1>7, <1>8, <1>9, <1>10

-----------------------------------------------------------------------------
\* A run that starts or ends early, others' pushes, and the operator's steps.

\* A step that leaves every tag and branch, what the engine generates and what was
\* committed by hand.
LEMMA QuietPreserves ==
    ASSUME FleetIndInv, UNCHANGED <<version, revision, head, tag, main, tagged, released, byHand>>,
           TypeOK', RunStands'
    PROVE  FleetIndInv'
  <1> USE DEF FleetIndInv, FleetInv
  <1>1. NothingTorn' /\ TagsStand' /\ ReleasesAreTagged' /\ MainFollowsTags'
    BY DEF NothingTorn, TagsStand, ReleasesAreTagged, MainFollowsTags
  <1>2. BranchesBehindTags'
    BY DEF BranchesBehindTags, AtOrBehind
  <1> QED
    BY <1>1, <1>2

LEMMA StartPreserves ==
    ASSUME FleetIndInv, NEW d \in BOOLEAN, Start(d)
    PROVE  FleetIndInv'
  <1> USE DEF FleetIndInv, FleetInv, engine, local, github
  <1>1. 1 \in 1..Len(Targets)
    BY FleetAssumption
  <1>2. TypeOK'
    BY <1>1 DEF Start, TypeOK, Steps
  <1>3. RunStands'
    BY DEF Start, RunStands
  <1> QED
    BY <1>2, <1>3, QuietPreserves DEF Start

LEMMA FailPreserves ==
    ASSUME FleetIndInv, Fail
    PROVE  FleetIndInv'
  <1> USE DEF FleetIndInv, FleetInv, engine, local, github
  <1>1. /\ pc' = "idle" /\ next' \in 1..Len(Targets) /\ dry' \in BOOLEAN /\ complete' \in BOOLEAN
        /\ tree' = tree \/ tree' = [tree EXCEPT ![Current] = Torn]
        /\ UNCHANGED <<version, revision, head, tag, base, main, tagged, others, released, byHand>>
    BY EndMoves DEF Fail
  <1>2. tree' \in [Repo -> Content]
    BY <1>1 DEF TypeOK, Content
  <1>3. TypeOK' /\ RunStands'
    BY <1>1, <1>2 DEF TypeOK, Steps, RunStands
  <1> QED
    BY <1>1, <1>3, QuietPreserves

LEMMA DiscardPreserves ==
    ASSUME FleetIndInv, NEW r \in Repo, Discard(r)
    PROVE  FleetIndInv'
  <1> USE DEF FleetIndInv, FleetInv, engine, local, github, script
  <1>1. TypeOK' /\ RunStands'
    BY DEF Discard, TypeOK, RunStands
  <1> QED
    BY <1>1, QuietPreserves DEF Discard

LEMMA PullPreserves ==
    ASSUME FleetIndInv, NEW r \in Repo, Pull(r)
    PROVE  FleetIndInv'
  <1> USE DEF FleetIndInv, FleetInv, engine, local, github, script
  <1>1. TypeOK' /\ RunStands'
    BY DEF Pull, TypeOK, RunStands
  <1> QED
    BY <1>1, QuietPreserves DEF Pull

LEMMA ForeignPushPreserves ==
    ASSUME FleetIndInv, NEW r \in Repo, ForeignPush(r)
    PROVE  FleetIndInv'
  <1> USE DEF FleetIndInv, FleetInv, engine, local, github, script
  <1>1. others' \in [Repo -> 0..MaxForeign]
    <2>1. others[r] \in 0..MaxForeign /\ others[r] < MaxForeign
      BY DEF ForeignPush, TypeOK
    <2>2. others[r] + 1 \in 0..MaxForeign
      BY <2>1, FleetAssumption
    <2> QED
      BY <2>2 DEF ForeignPush, TypeOK
  <1>2. TypeOK'
    BY <1>1 DEF ForeignPush, TypeOK
  <1>3. RunStands'
    BY DEF ForeignPush, RunStands, Ready, Published, Generated, GuardAllows
  <1> QED
    BY <1>2, <1>3, QuietPreserves DEF ForeignPush

LEMMA HandCommitPreserves ==
    ASSUME FleetIndInv, NEW r \in Repo, HandCommit(r)
    PROVE  FleetIndInv'
  <1> USE DEF FleetIndInv, FleetInv, engine, local, github, script
  <1>1. /\ UNCHANGED <<version, revision, tree, tag, base, main, tagged, others, released>>
        /\ UNCHANGED <<pc, next, dry, complete>> /\ pc = "idle"
        /\ head' = [head EXCEPT ![r] = tree[r]] /\ byHand' = byHand \cup {<<r, version>>}
    BY DEF HandCommit
  <1>2. TypeOK'
    BY <1>1 DEF TypeOK
  <1>3. NothingTorn'
    BY <1>1 DEF NothingTorn, TypeOK
  <1>4. TagsStand' /\ ReleasesAreTagged' /\ MainFollowsTags' /\ RunStands'
    BY <1>1 DEF TagsStand, ReleasesAreTagged, MainFollowsTags, RunStands
  <1>5. BranchesBehindTags'
    BY <1>1 DEF BranchesBehindTags, AtOrBehind, TypeOK
  <1> QED
    BY <1>2, <1>3, <1>4, <1>5

LEMMA ReclonePreserves ==
    ASSUME FleetIndInv, NEW r \in Repo, Reclone(r)
    PROVE  FleetIndInv'
  <1> USE DEF FleetIndInv, FleetInv, engine, local, github, script
  <1>1. /\ UNCHANGED <<version, revision, main, tagged, others, released, byHand>>
        /\ UNCHANGED <<pc, next, dry, complete>> /\ pc = "idle"
        /\ tree' = [tree EXCEPT ![r] = main[r]] /\ head' = [head EXCEPT ![r] = main[r]]
        /\ tag' = [tag EXCEPT ![r] = tagged[r]] /\ base' = [base EXCEPT ![r] = others[r]]
    BY DEF Reclone
  <1>2. TypeOK'
    BY <1>1 DEF TypeOK
  <1>3. \A q \in Repo :
           \/ head'[q] = head[q] /\ tag'[q] = tag[q]
           \/ q = r /\ head'[q] = main[q] /\ tag'[q] = tagged[q]
    BY <1>1 DEF TypeOK
  <1>4. NothingTorn'
    <2>1. \A v \in Version : tagged[r][v] # Torn
      BY DEF NothingTorn, TagsStand, NoTag, Torn
    <2> QED
      BY <1>1, <1>3, <2>1 DEF NothingTorn
  <1>5. TagsStand'
    BY <1>1, <1>3 DEF TagsStand
  <1>6. ReleasesAreTagged' /\ MainFollowsTags' /\ RunStands'
    <2>1. \A q \in Repo, v \in Version : tag'[q][v] \in {NoTag, tag[q][v]}
      BY <1>3 DEF TagsStand
    <2>2. MainFollowsTags'
      BY <1>1, <2>1 DEF MainFollowsTags
    <2> QED
      BY <1>1, <2>2 DEF ReleasesAreTagged, RunStands
  <1>7. BranchesBehindTags'
    BY <1>1, <1>3 DEF BranchesBehindTags, AtOrBehind
  <1> QED
    BY <1>2, <1>4, <1>5, <1>6, <1>7

LEMMA ChangePreserves ==
    ASSUME FleetIndInv, NEW rs \in SUBSET Repo, Change(rs)
    PROVE  FleetIndInv'
  <1> USE DEF FleetIndInv, FleetInv, engine, local, github, script
  <1>1. /\ UNCHANGED <<version, tree, head, tag, base, main, tagged, others, released, byHand>>
        /\ UNCHANGED <<pc, next, dry, complete>> /\ pc = "idle"
    BY DEF Change
  <1>2. /\ revision' \in [Repo -> 1..MaxRevision]
        /\ \A r \in Repo : revision[r] <= revision'[r] /\ revision[r] \in Nat /\ revision'[r] \in Nat
    <2>1. \A r \in Repo : revision[r] \in 1..MaxRevision /\ (r \in rs => revision[r] < MaxRevision)
      BY DEF Change, TypeOK
    <2>2. revision' = [r \in Repo |-> IF r \in rs THEN revision[r] + 1 ELSE revision[r]]
      BY DEF Change
    <2> QED
      BY <2>1, <2>2, FleetAssumption
  <1>3. TypeOK'
    BY <1>1, <1>2 DEF TypeOK
  <1>4. NothingTorn' /\ ReleasesAreTagged' /\ RunStands'
    BY <1>1 DEF NothingTorn, ReleasesAreTagged, RunStands
  <1>5. \A r \in Repo : 1..revision[r] \subseteq 1..revision'[r]
    BY <1>2
  <1>6. TagsStand'
    BY <1>1, <1>5 DEF TagsStand
  <1>7. MainFollowsTags'
    BY <1>1, <1>5 DEF MainFollowsTags
  <1>8. BranchesBehindTags'
    BY <1>1 DEF BranchesBehindTags, AtOrBehind
  <1> QED
    BY <1>3, <1>4, <1>6, <1>7, <1>8

LEMMA BumpPreserves ==
    ASSUME FleetIndInv, Bump
    PROVE  FleetIndInv'
  <1> USE DEF FleetIndInv, FleetInv, engine, local, github, script
  <1>1. /\ UNCHANGED <<revision, tree, head, tag, base, main, tagged, others, released, byHand>>
        /\ UNCHANGED <<pc, next, dry>> /\ pc = "idle" /\ complete' = FALSE
        /\ version < MaxVersion /\ version' = version + 1
    BY DEF Bump
  <1>2. version \in Nat /\ version >= 1 /\ version' \in Version
    BY <1>1, FleetAssumption DEF TypeOK, Version
  <1>3. TypeOK'
    BY <1>1, <1>2 DEF TypeOK
  <1>4. NothingTorn' /\ ReleasesAreTagged' /\ RunStands'
    BY <1>1 DEF NothingTorn, ReleasesAreTagged, RunStands
  <1>5. TagsStand'
    BY <1>1, <1>2 DEF TagsStand, Version
  <1>6. MainFollowsTags'
    BY <1>1, <1>2 DEF MainFollowsTags
  <1>7. BranchesBehindTags'
    <2>1. \A r \in Repo : tag[r][version'] = NoTag /\ tagged[r][version'] = NoTag
      BY <1>1, <1>2 DEF TagsStand
    <2> QED
      BY <1>1, <2>1 DEF BranchesBehindTags, AtOrBehind
  <1> QED
    BY <1>3, <1>4, <1>5, <1>6, <1>7

-----------------------------------------------------------------------------
LEMMA StepPreserves == FleetIndInv /\ [Next]_vars => FleetIndInv'
  <1> SUFFICES ASSUME FleetIndInv, [Next]_vars PROVE FleetIndInv'
    OBVIOUS
  <1>1. CASE UNCHANGED vars
    <2>1. TypeOK' /\ RunStands'
      BY <1>1 DEF FleetIndInv, FleetInv, vars, engine, local, github, script, TypeOK, RunStands, Ready,
                  Published, Generated, GuardAllows
    <2> QED
      BY <1>1, <2>1, QuietPreserves DEF vars, engine, local, github, script
  <1>2. CASE \E d \in BOOLEAN : Start(d)
    BY <1>2, StartPreserves
  <1>3. CASE \/ Precheck \/ Generate \/ Commit \/ Tag \/ Push \/ PushRejected \/ Release \/ Fail \/ Bump
    BY <1>3, PrecheckPreserves, GeneratePreserves, CommitPreserves, TagPreserves, PushPreserves,
       PushRejectedPreserves, ReleasePreserves, FailPreserves, BumpPreserves
  <1>4. CASE \E r \in Repo : Discard(r) \/ HandCommit(r) \/ Pull(r) \/ Reclone(r) \/ ForeignPush(r)
    BY <1>4, DiscardPreserves, HandCommitPreserves, PullPreserves, ReclonePreserves, ForeignPushPreserves
  <1>5. CASE \E rs \in SUBSET Repo \ {{}} : Change(rs)
    BY <1>5, ChangePreserves
  <1> QED
    BY <1>1, <1>2, <1>3, <1>4, <1>5 DEF Next

LEMMA IndInvariant == Spec => []FleetIndInv
  BY InitEstablishes, StepPreserves, PTL DEF Spec

\* Branches are at their tags or behind them, nothing torn is tagged or pushed, and
\* the guard still stands when a target is published.
THEOREM FleetInvariant == Spec => []FleetInv
  BY IndInvariant, PTL DEF FleetIndInv

\* "the tag can never disagree with what got stamped into the package manifests"
\* (release.sh:86-87).
THEOREM TagsAreStamps == Spec => []TagIsStamp
  <1>1. FleetIndInv => TagIsStamp
    BY FleetAssumption DEF FleetIndInv, FleetInv, TagsStand, TagIsStamp
  <1> QED
    BY <1>1, IndInvariant, PTL

\* New content comes under a published version only where somebody committed what a
\* refused run had left.
THEOREM NewContentOnlyByHand == Spec => []NewOnlyByHand
  <1>1. FleetIndInv => NewOnlyByHand
    <2> SUFFICES ASSUME FleetIndInv, NEW r \in Stamped, NEW v \in Version, NewUnderATag(r, v),
                        <<r, v>> \notin byHand
                 PROVE  FALSE
      BY DEF NewOnlyByHand
    <2> USE DEF FleetIndInv, FleetInv
    <2>1. r \in Repo /\ tagged[r][v] = tag[r][v] /\ tag[r][v] # NoTag /\ main[r][2] = v
      BY FleetAssumption DEF NewUnderATag, TagsStand
    <2>2. main[r][1] <= tag[r][v][1] /\ main[r][1] \in 1..revision[r] /\ tag[r][v][1] \in 1..revision[r]
      BY <2>1 DEF MainFollowsTags, TagsStand
    <2> QED
      BY <2>1, <2>2 DEF NewUnderATag
  <1> QED
    BY <1>1, IndInvariant, PTL

\* A release always has its tag on GitHub.
THEOREM ReleasesHaveTags == Spec => []ReleasesAreTagged
  BY IndInvariant, PTL DEF FleetIndInv

\* A run that says "Fleet released" has published, for every repository nobody committed
\* to by hand, the tag, the main and the release of just what it generated.
THEOREM ReleasesAreWhole == Spec => ReleaseIsWhole
  <1> DEFINE Whole(r) == /\ tagged'[r][version] = Generated(r)
                         /\ main'[r] = Generated(r)
                         /\ version \in released'[r]
             IsWhole == complete' /\ ~complete => \A r \in {q \in Repo : <<q, version>> \notin byHand} : Whole(r)
  <1>1. FleetIndInv /\ [Next]_vars => [IsWhole]_vars
    <2> SUFFICES ASSUME FleetIndInv, [Next]_vars, complete', ~complete,
                        NEW r \in Repo, <<r, version>> \notin byHand
                 PROVE  Whole(r)
      OBVIOUS
    <2> USE DEF FleetIndInv, FleetInv
    <2>1. Release /\ next = Len(Targets)
      BY EndMoves
      DEF Next, vars, engine, local, github, script, TypeOK, Start, Precheck, Advance, End, Generate, Commit,
          Then, Tag, Push, PushRejected, Release, Fail, Discard, HandCommit, Pull, Reclone, ForeignPush, Change, Bump
    <2>2. PICK i \in 1..Len(Targets) : r = Targets[i]
      BY DEF Repo
    <2>3. Published(r) /\ (i < next => version \in released[r])
      BY <2>1, <2>2 DEF RunStands, Release
    <2>4. tagged[r][version] = Generated(r)
      BY <2>3, AtItsTag DEF Published, BranchesBehindTags
    <2>5. main' = main /\ tagged' = tagged /\ released' = [released EXCEPT ![Current] = @ \cup {version}]
      BY <2>1 DEF Release
    <2>6. version \in released'[r]
      <3>1. i = next \/ i < next
        BY <2>1, FleetAssumption
      <3> QED
        BY <2>2, <2>3, <2>5, <3>1 DEF Current, TypeOK
    <2> QED
      BY <2>3, <2>4, <2>5, <2>6 DEF Published
  <1> QED
    BY <1>1, IndInvariant, PTL DEF Spec, ReleaseIsWhole
====
