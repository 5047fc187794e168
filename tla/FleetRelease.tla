---- MODULE FleetRelease ----
(***************************************************************************)
(* scripts/release.sh: one run prechecks every SDK repository of the       *)
(* fleet, generates into each and guards it, then commits, tags, pushes    *)
(* and releases them one after the other.  A run can end at any step: a    *)
(* command fails (set -e), the network goes, somebody presses ^C.  Between *)
(* runs the engine changes, the version is bumped, others push to the      *)
(* repositories, and the operator tidies up the checkouts.                 *)
(*                                                                         *)
(* The content of a repository is <<r, v>>: what revision r of the engine  *)
(* generates, stamped with version v (0 where the version is only the tag, *)
(* as in Go).                                                              *)
(***************************************************************************)
EXTENDS Naturals, Sequences, FiniteSets

CONSTANTS
    Targets,     \* TARGETS: the repositories, in order
    Stamped,     \* those whose files carry the version
    MaxVersion,  \* bound on SDK_VERSION
    MaxRevision, \* bound on the engine's revisions
    MaxForeign,  \* bound on the commits others push to one repository
    MaxByHand    \* bound on the repositories and versions committed by hand

Repo == {Targets[i] : i \in 1..Len(Targets)}
Version == 1..MaxVersion

ASSUME FleetAssumption ==
    /\ Targets \in Seq(Repo) /\ Len(Targets) >= 1
    /\ \A i, j \in 1..Len(Targets) : Targets[i] = Targets[j] => i = j
    /\ Stamped \subseteq Repo
    /\ MaxVersion \in Nat \ {0} /\ MaxRevision \in Nat \ {0} /\ MaxForeign \in Nat

NoTag == <<0, 0>>
Torn == <<0, 1>>  \* what a generation that was cut off leaves
Content == ((1..MaxRevision) \X (0..MaxVersion)) \cup {Torn}

VARIABLES
    version,   \* SDK_VERSION in the engine's checkout
    revision,  \* revision[r]: the engine's output for r
    tree,      \* tree[r]: r's working tree
    head,      \* head[r]: r's local main
    tag,       \* tag[r][v]: what the local tag v names, or NoTag
    base,      \* base[r]: the pushes of others that local main has
    main,      \* main[r]: GitHub's main
    tagged,    \* tagged[r][v]: GitHub's tag v, or NoTag
    others,    \* others[r]: the pushes of others GitHub's main has
    released,  \* released[r]: the versions with a GitHub release
    pc,        \* the step the run is at, "idle" between runs
    next,      \* the target it is at
    dry,       \* DRY_RUN
    complete,  \* the last run said "Fleet released"
    byHand     \* the <<r, v>> for which somebody committed by hand (history)

engine == <<version, revision>>
local == <<tree, head, tag, base>>
github == <<main, tagged, others, released>>
script == <<pc, next, dry, complete>>
vars == <<engine, local, github, script, byHand>>

Generated(r) == <<revision[r], IF r \in Stamped THEN version ELSE 0>>

\* status --porcelain prints something.
Dirty(r) == tree[r] # head[r]

Untagged == [v \in Version |-> NoTag]

Init ==
    /\ version = 1
    /\ revision = [r \in Repo |-> 1]
    /\ tree = [r \in Repo |-> <<1, 0>>]
    /\ head = tree /\ main = tree
    /\ tag = [r \in Repo |-> Untagged] /\ tagged = tag
    /\ base = [r \in Repo |-> 0] /\ others = base
    /\ released = [r \in Repo |-> {}]
    /\ pc = "idle" /\ next = 1 /\ dry = FALSE /\ complete = FALSE
    /\ byHand = {}

Current == Targets[next]

Start(d) ==
    /\ pc = "idle"
    /\ pc' = "precheck" /\ next' = 1 /\ dry' = d /\ complete' = FALSE
    /\ UNCHANGED <<engine, local, github, byHand>>

\* The run goes on with the next target, or with `phase` after the last one.
Advance(phase) ==
    IF next < Len(Targets)
    THEN next' = next + 1 /\ UNCHANGED <<pc, dry, complete>>
    ELSE next' = 1 /\ pc' = phase /\ UNCHANGED <<dry, complete>>

\* The run ends where it is; `whole` is its word that the fleet is released.
End(whole) == pc' = "idle" /\ next' = 1 /\ dry' = FALSE /\ complete' = whole

Passes(r) == ~Dirty(r) /\ base[r] = others[r]

\* The tags of one side that another lacks are copied to it.
Missing(have, from) == [v \in Version |-> IF have[v] = NoTag THEN from[v] ELSE have[v]]

\* precheck_repo: clean and, once fetched, not behind origin/main.
Precheck ==
    /\ pc = "precheck"
    /\ tag' = IF Dirty(Current) THEN tag
              ELSE [tag EXCEPT ![Current] = Missing(@, tagged[Current])]
    /\ IF Passes(Current) THEN Advance("generate") ELSE End(FALSE)
    /\ UNCHANGED <<engine, tree, head, base, github, byHand>>

MutGuardAllows(r) == TRUE

\* guard_version: nothing changed, or the version is not tagged yet.
GuardAllows(r) == Generated(r) = head[r] \/ tag[r][version] = NoTag

MutGenerate ==
    /\ pc = "generate"
    /\ \E made \in {Generated(Current), Torn} :
          tree' = [tree EXCEPT ![Current] = made]
    /\ IF ~GuardAllows(Current) THEN End(FALSE)
       ELSE IF dry /\ next = Len(Targets) THEN End(FALSE)
       ELSE Advance("commit")
    /\ UNCHANGED <<engine, head, tag, base, github, byHand>>

\* gantry generate, then the guard.
Generate ==
    /\ pc = "generate"
    /\ tree' = [tree EXCEPT ![Current] = Generated(Current)]
    /\ IF ~GuardAllows(Current) THEN End(FALSE)
       ELSE IF dry /\ next = Len(Targets) THEN End(FALSE)
       ELSE Advance("commit")
    /\ UNCHANGED <<engine, head, tag, base, github, byHand>>

Then(step) == pc' = step /\ UNCHANGED <<next, dry, complete>>

MutCommit ==
    /\ pc = "commit"
    /\ Then("tag")
    /\ UNCHANGED <<engine, local, github, byHand>>

\* A dirty tree is committed.
Commit ==
    /\ pc = "commit"
    /\ head' = [head EXCEPT ![Current] = tree[Current]]
    /\ Then("tag")
    /\ UNCHANGED <<engine, tree, tag, base, github, byHand>>

\* $TAG is set unless it exists.
Tag ==
    /\ pc = "tag"
    /\ tag' = IF tag[Current][version] = NoTag
              THEN [tag EXCEPT ![Current][version] = head[Current]]
              ELSE tag
    /\ Then("push")
    /\ UNCHANGED <<engine, tree, head, base, github, byHand>>

\* The tags GitHub lacks are pushed, but for those it refuses.
PushTags(r, refused) ==
    LET taken == [v \in Version |-> IF v \in refused THEN NoTag ELSE tag[r][v]]
    IN  tagged' = [tagged EXCEPT ![r] = Missing(@, taken)]

Unpushed(r) == {v \in Version : tag[r][v] # tagged[r][v]}

MutPush ==
    /\ pc = "push"
    /\ main' = [main EXCEPT ![Current] = head[Current]]
    /\ Then("release")
    /\ UNCHANGED <<engine, local, tagged, others, released, byHand>>

\* push origin main --tags.
Push ==
    /\ pc = "push" /\ base[Current] = others[Current]
    /\ main' = [main EXCEPT ![Current] = head[Current]]
    /\ PushTags(Current, {})
    /\ Then("release")
    /\ UNCHANGED <<engine, local, others, released, byHand>>

\* A push is not atomic: main is rejected (as not a fast-forward where somebody has
\* pushed since the precheck), or some of the tags are, the rest is taken, and the
\* run ends.
PushRejected ==
    /\ pc = "push"
    /\ \E refused \in SUBSET Unpushed(Current) :
          /\ \/ UNCHANGED main
             \/ /\ base[Current] = others[Current] /\ refused # {}
                /\ main' = [main EXCEPT ![Current] = head[Current]]
          /\ PushTags(Current, refused)
    /\ End(FALSE)
    /\ UNCHANGED <<engine, local, others, released, byHand>>

\* The release is created unless it exists.
Release ==
    /\ pc = "release"
    /\ released' = [released EXCEPT ![Current] = @ \cup {version}]
    /\ IF next = Len(Targets)
       THEN End(TRUE)
       ELSE pc' = "commit" /\ next' = next + 1 /\ UNCHANGED <<dry, complete>>
    /\ UNCHANGED <<engine, local, main, tagged, others, byHand>>

\* The run ends before its next step; a generation can be cut off halfway.
Fail ==
    /\ pc # "idle"
    /\ tree' \in {tree} \cup
          (IF pc = "generate" THEN {[tree EXCEPT ![Current] = Torn]} ELSE {})
    /\ End(FALSE)
    /\ UNCHANGED <<engine, head, tag, base, github, byHand>>

-----------------------------------------------------------------------------
\* Between runs.

\* git checkout . (and clean).
Discard(r) ==
    /\ pc = "idle" /\ Dirty(r)
    /\ tree' = [tree EXCEPT ![r] = head[r]]
    /\ UNCHANGED <<engine, head, tag, base, github, script, byHand>>

\* "commit or stash first"
HandCommit(r) ==
    /\ pc = "idle" /\ Dirty(r)
    /\ head' = [head EXCEPT ![r] = tree[r]]
    /\ byHand' = byHand \cup {<<r, version>>}
    /\ Cardinality(byHand') <= MaxByHand
    /\ UNCHANGED <<engine, tree, tag, base, github, script>>

\* "pull first"
Pull(r) ==
    /\ pc = "idle" /\ ~Dirty(r) /\ base[r] < others[r]
    /\ base' = [base EXCEPT ![r] = others[r]]
    /\ UNCHANGED <<engine, tree, head, tag, github, script, byHand>>

\* The repository is cloned afresh: what was never pushed is gone.
Reclone(r) ==
    /\ pc = "idle"
    /\ tree' = [tree EXCEPT ![r] = main[r]]
    /\ head' = [head EXCEPT ![r] = main[r]]
    /\ tag' = [tag EXCEPT ![r] = tagged[r]]
    /\ base' = [base EXCEPT ![r] = others[r]]
    /\ UNCHANGED <<engine, github, script, byHand>>

\* Somebody pushes a change of a file that is not generated.
ForeignPush(r) ==
    /\ others[r] < MaxForeign
    /\ others' = [others EXCEPT ![r] = @ + 1]
    /\ UNCHANGED <<engine, local, main, tagged, released, script, byHand>>

\* The engine changes what it generates for some repositories.
Change(rs) ==
    /\ pc = "idle"
    /\ \A r \in rs : revision[r] < MaxRevision
    /\ revision' = [r \in Repo |-> IF r \in rs THEN revision[r] + 1 ELSE revision[r]]
    /\ UNCHANGED <<version, local, github, script, byHand>>

Bump ==
    /\ pc = "idle" /\ version < MaxVersion
    /\ version' = version + 1
    /\ complete' = FALSE
    /\ UNCHANGED <<revision, local, github, pc, next, dry, byHand>>

Next ==
    \/ \E d \in BOOLEAN : Start(d)
    \/ Precheck \/ Generate \/ Commit \/ Tag \/ Push \/ PushRejected \/ Release \/ Fail
    \/ \E r \in Repo : Discard(r) \/ HandCommit(r) \/ Pull(r) \/ Reclone(r) \/ ForeignPush(r)
    \/ \E rs \in SUBSET Repo \ {{}} : Change(rs)
    \/ Bump

Spec == Init /\ [][Next]_vars

-----------------------------------------------------------------------------
Steps == {"idle", "precheck", "generate", "commit", "tag", "push", "release"}

TypeOK ==
    /\ version \in Version
    /\ revision \in [Repo -> 1..MaxRevision]
    /\ tree \in [Repo -> Content] /\ head \in [Repo -> Content] /\ main \in [Repo -> Content]
    /\ tag \in [Repo -> [Version -> Content \cup {NoTag}]]
    /\ tagged \in [Repo -> [Version -> Content \cup {NoTag}]]
    /\ base \in [Repo -> 0..MaxForeign] /\ others \in [Repo -> 0..MaxForeign]
    /\ released \in [Repo -> SUBSET Version]
    /\ pc \in Steps /\ next \in 1..Len(Targets)
    /\ dry \in BOOLEAN
    /\ complete \in BOOLEAN
    /\ byHand \subseteq Repo \X Version

\* When the script says "Fleet released at $TAG", every repository's published
\* tag and main hold exactly what this run generated, with a release beside
\* it, whatever runs failed or were refused before (but for a commit by hand).
ReleaseIsWhole ==
    [][complete' /\ ~complete =>
          \A r \in {q \in Repo : <<q, version>> \notin byHand} :
              /\ tagged'[r][version] = Generated(r)
              /\ main'[r] = Generated(r)
              /\ version \in released'[r]]_vars

\* "the tag can never disagree with what got stamped into the package
\* manifests"
TagIsStamp ==
    \A r \in Stamped, v \in Version : tagged[r][v] # NoTag => tagged[r][v][2] = v

\* main carries newer content than the tag of the version on it: "new content
\* under an already-published version".
NewUnderATag(r, v) == main[r][2] = v /\ tagged[r][v] # NoTag /\ tagged[r][v][1] < main[r][1]

\* "That is the failure this exists to make impossible."
NothingNewUnderATag == \A r \in Stamped, v \in Version : ~NewUnderATag(r, v)

\* The script never does it on its own: only where somebody has committed what
\* a refused run left, so that the guard has no change to look at.
NewOnlyByHand ==
    \A r \in Stamped, v \in Version : NewUnderATag(r, v) => <<r, v>> \in byHand

\* A release always has its tag on GitHub.
ReleasesAreTagged ==
    \A r \in Repo : \A v \in released[r] : tagged[r][v] # NoTag

\* A cut-off generation is never pushed or tagged, nor committed but by hand.
NothingTorn ==
    \A r \in Repo :
        /\ main[r] # Torn /\ \A v \in Version : tag[r][v] # Torn
        /\ head[r] = Torn => \E v \in Version : <<r, v>> \in byHand

\* A tag GitHub has is the one the checkout has; it names what some revision
\* generated for its version.
TagsStand ==
    \A r \in Repo, v \in Version :
        /\ tagged[r][v] \in {NoTag, tag[r][v]}
        /\ tag[r][v] # NoTag =>
              /\ v <= version /\ tag[r][v][1] \in 1..revision[r]
              /\ tag[r][v][2] = IF r \in Stamped THEN v ELSE 0

\* What is on main was generated, and is not past the tag that the checkout has, and
\* may yet push, of the version on it, but for a commit by hand.
MainFollowsTags ==
    \A r \in Repo :
        /\ main[r][1] \in 1..revision[r]
        /\ main[r][2] \in 0..version /\ (r \notin Stamped => main[r][2] = 0)
        /\ \A v \in Version :
              r \in Stamped /\ main[r][2] = v /\ tag[r][v] # NoTag /\ <<r, v>> \notin byHand =>
                 main[r][1] <= tag[r][v][1]

Older(a, b) == a[1] < b[1] \/ a[2] < b[2]

\* A branch is at its tag of the version or behind it, but for a commit by hand.
AtOrBehind(branch, tags, r) ==
    \/ <<r, version>> \in byHand
    \/ tags[version] \in {NoTag, branch}
    \/ Older(branch, tags[version])

BranchesBehindTags ==
    \A r \in Repo : AtOrBehind(head[r], tag[r], r) /\ AtOrBehind(main[r], tagged[r], r)

Ready(r) == tree[r] = Generated(r) /\ GuardAllows(r)
Published(r) == main[r] = Generated(r) /\ tagged[r][version] # NoTag

\* Which targets a run has generated, and which it has published: the guard
\* still stands when its target's turn to be published comes (release.sh:242-292).
RunStands ==
    \A i \in 1..Len(Targets) :
        LET r == Targets[i] IN
        /\ pc = "generate" /\ i < next => Ready(r)
        /\ pc \in {"commit", "tag", "push", "release"} =>
              /\ i > next => Ready(r)
              /\ i < next => Published(r) /\ version \in released[r]
        /\ i = next =>
              /\ pc = "commit" => Ready(r)
              /\ pc \in {"tag", "push"} => head[r] = Generated(r)
              /\ pc = "push" => tag[r][version] # NoTag
              /\ pc = "release" => Published(r)

\* The type invariant, nothing torn, and how tags, branches and the run's
\* progress hang together.
FleetInv ==
    /\ TypeOK /\ NothingTorn
    /\ TagsStand /\ MainFollowsTags /\ BranchesBehindTags /\ RunStands
====
