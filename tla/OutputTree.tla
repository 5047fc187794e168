---- MODULE OutputTree ----
(***************************************************************************)
(* How the CLI writes a generated SDK over the last one (gantry-cli's      *)
(* write_pairs): paths the last generation recorded in .gantry-manifest    *)
(* and this one does not emit are removed, the new files written, and the  *)
(* record rewritten last.  Each file operation can fail, or the process    *)
(* die in it.  Files that no generation wrote are left out: they are not   *)
(* looked at, unless a record that was cut short names one.                *)
(***************************************************************************)
EXTENDS FiniteSets

CONSTANT Path  \* the paths a generation may emit

ASSUME PathAssumption == IsFiniteSet(Path)

VARIABLES
    made,      \* generated files on disk
    manifest,  \* the paths .gantry-manifest names; {} when it is missing
    pc,        \* "idle", "prune" or "write"
    emitted,   \* the paths the running generation emits
    todo,      \* what its current phase still has to remove or to write
    done,      \* the last generation ran to its end
    stray      \* left by a run that stopped writing, outside the record (history)

vars == <<made, manifest, pc, emitted, todo, done, stray>>

Init ==
    /\ made = {} /\ manifest = {}
    /\ pc = "idle" /\ emitted = {} /\ todo = {}
    /\ done = TRUE
    /\ stray = {}

MutStart(files) ==
    /\ pc = "idle"
    /\ pc' = "prune"
    /\ emitted' = files
    /\ todo' = manifest \ files
    /\ manifest' = files
    /\ done' = FALSE
    /\ UNCHANGED <<made, stray>>

\* The manifest is read; what it names and this generation does not emit is
\* stale.  (A manifest that can't be read ends the run with nothing changed.)
Start(files) ==
    /\ pc = "idle"
    /\ pc' = "prune"
    /\ emitted' = files
    /\ todo' = manifest \ files
    /\ done' = FALSE
    /\ UNCHANGED <<made, manifest, stray>>

\* A stale path is removed; one already gone is fine.
Prune(p) ==
    /\ pc = "prune" /\ p \in todo
    /\ made' = made \ {p}
    /\ todo' = todo \ {p}
    /\ UNCHANGED <<manifest, pc, emitted, done, stray>>

MutPruned ==
    /\ pc = "prune"
    /\ pc' = "write"
    /\ todo' = emitted
    /\ UNCHANGED <<made, manifest, emitted, done, stray>>

Pruned ==
    /\ pc = "prune" /\ todo = {}
    /\ pc' = "write"
    /\ todo' = emitted
    /\ UNCHANGED <<made, manifest, emitted, done, stray>>

Write(p) ==
    /\ pc = "write" /\ p \in todo
    /\ made' = made \cup {p}
    /\ todo' = todo \ {p}
    /\ UNCHANGED <<manifest, pc, emitted, done, stray>>

\* The record is rewritten last.
WriteManifest ==
    /\ pc = "write" /\ todo = {}
    /\ manifest' = emitted
    /\ stray' = stray \ emitted
    /\ pc' = "idle" /\ emitted' = {}
    /\ done' = TRUE
    /\ UNCHANGED <<made, todo>>

Stopped == pc' = "idle" /\ emitted' = {} /\ todo' = {} /\ UNCHANGED done

\* A removal errs, or the process dies before it.
StopPruning ==
    /\ pc = "prune"
    /\ Stopped
    /\ UNCHANGED <<made, manifest, stray>>

\* A write errs or the process dies: the file it was at may be there in part,
\* and of the record a first part, when it was at that.  What is left of its last
\* line may name another path.
StopWriting ==
    /\ pc = "write"
    /\ \E part \in {{}} \cup {{p} : p \in todo} : made' = made \cup part
    /\ \/ UNCHANGED manifest
       \/ /\ todo = {}
          /\ \E whole \in SUBSET emitted, cut \in {{}} \cup {{p} : p \in Path} :
                manifest' = whole \cup cut
    /\ stray' = made' \ manifest'
    /\ Stopped

\* Between runs somebody deletes a generated file.
HandDelete(p) ==
    /\ pc = "idle"
    /\ made' = made \ {p}
    /\ UNCHANGED <<manifest, pc, emitted, todo, done, stray>>

Next ==
    \/ \E files \in SUBSET Path : Start(files)
    \/ \E p \in Path : Prune(p) \/ Write(p) \/ HandDelete(p)
    \/ Pruned \/ WriteManifest
    \/ StopPruning \/ StopWriting

Spec == Init /\ [][Next]_vars

-----------------------------------------------------------------------------
TypeOK ==
    /\ made \subseteq Path /\ manifest \subseteq Path
    /\ pc \in {"idle", "prune", "write"}
    /\ emitted \subseteq Path /\ todo \subseteq Path
    /\ done \in BOOLEAN
    /\ stray \subseteq Path

\* Every generated file is named by the record, or the running generation has
\* pruned what is stale and will record it: the next generation that does not
\* emit it finds and prunes it.  Only a run that stopped writing leaves a file
\* "orphaned forever, with nothing left pointing at it".
NoOrphans == made \subseteq stray \cup (IF pc = "write" THEN emitted ELSE manifest)

\* What a phase has yet to do.  Pruning only shrinks what the record names, so
\* it may stop anywhere; nothing stale is left once writing has begun.
Progress ==
    /\ pc = "idle" => emitted = {} /\ todo = {}
    /\ pc = "prune" => /\ todo \subseteq manifest \ emitted
                       /\ made \cap (manifest \ emitted) \subseteq todo
    /\ pc = "write" => todo \subseteq emitted /\ emitted \ todo \subseteq made

\* The inductive invariant.
TreeInv == TypeOK /\ NoOrphans /\ Progress

\* However earlier ones ended, a generation that runs to its end leaves every file
\* it emitted and no stale artifact: whatever else is there was left by a run that
\* stopped writing, and no run that ended has emitted it since (main.rs:634-660).
TreeIsEmitted == [][done' /\ ~done => emitted \subseteq made' /\ made' \ emitted \subseteq stray']_vars
====
