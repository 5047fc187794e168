---- MODULE Generation ----
(***************************************************************************)
(* The command line over successive publications of the specs: `generate`  *)
(* lowers, merges and analyses the documents beside a names lock and       *)
(* writes the models' files over the last tree, `lock` rewrites the lock   *)
(* from what lowering names now, and `diff` compares two publications.     *)
(* The tree is OutputTree's, which every step of this module takes a step  *)
(* of, or none.                                                            *)
(***************************************************************************)
EXTENDS OutputTree, Analysis

CONSTANTS
    Publications,   \* what Box may publish: sequences of documents, base first
    MaxRefreshes,   \* bound on the publications that follow the first
    MaxMishaps      \* bound on runs that stop and files deleted by hand

ASSUME GenerationAssumption == MaxRefreshes \in Nat /\ MaxMishaps \in Nat

\* A manager's models are emitted to the file of its name, which is never the
\* shared file's (models.rs:57-61: another name is found for it).
ASSUME PublicationsAssumption ==
    /\ Shared \in Path
    /\ \A docs \in Publications : \A i \in DOMAIN docs : \A o \in docs[i].ops :
          "manager" \in DOMAIN o /\ o.manager \in Path \ {Shared}

VARIABLES
    specs,      \* the documents now published
    lock,       \* the names lock beside them: version -> location -> name
    program,    \* what the last generation lowered and merged them to
    said,       \* how the last command ended
    refreshes, mishaps

specVars == <<specs, lock, program, said, refreshes, mishaps>>
genVars == <<vars, specVars>>

NoProgram == [decls |-> <<>>, versions |-> <<>>, ops |-> {}]

GenInit ==
    /\ Init
    /\ specs \in Publications
    /\ lock = Unlocked
    /\ program = NoProgram
    /\ said = "nothing"
    /\ refreshes = 0 /\ mishaps = 0

\* Box publishes.
Refresh ==
    /\ pc = "idle" /\ refreshes < MaxRefreshes
    /\ specs' \in Publications \ {specs}
    /\ refreshes' = refreshes + 1
    /\ UNCHANGED <<vars, lock, program, said, mishaps>>

\* `generate` lowers and merges, and writes nothing unless both, and the
\* semantic pass, find no fault.
Generate ==
    LET low == LowerAll(specs, lock)
        merged == Merge(low)
        fault == IF low.error # "none" THEN low.error
                 ELSE IF merged.error # "none" THEN merged.error
                 ELSE IF ~WellFormed(merged) THEN "findings" ELSE "none"
    IN  /\ pc = "idle"
        /\ \/ /\ fault = "none"
              /\ Start(DOMAIN Buckets(merged))
              /\ program' = merged /\ said' = "generated"
           \/ /\ fault # "none"
              /\ said' = fault
              /\ UNCHANGED <<vars, program>>
        /\ UNCHANGED <<specs, lock, refreshes, mishaps>>

\* `lock` lowers under the lock it is about to rewrite, for all the documents
\* or for the base one alone.
LockNames ==
    /\ pc = "idle"
    /\ \E docs \in {specs, <<specs[1]>>} :
          LET low == LowerAll(docs, lock)
              merged == Merge(low)
              fault == IF low.error # "none" THEN low.error ELSE merged.error
          IN  IF fault = "none"
              THEN lock' = UpdatedWith(lock, low.names) /\ said' = "locked"
              ELSE said' = (IF fault = "collision" THEN "lock collides" ELSE fault) /\ UNCHANGED lock
    /\ UNCHANGED <<vars, specs, program, refreshes, mishaps>>

Writes ==
    /\ \/ \E p \in Path : Prune(p) \/ Write(p)
       \/ Pruned \/ WriteManifest
    /\ UNCHANGED specVars

Mishap ==
    /\ mishaps < MaxMishaps
    /\ mishaps' = mishaps + 1
    /\ StopPruning \/ StopWriting \/ \E p \in Path : HandDelete(p)
    /\ UNCHANGED <<specs, lock, program, said, refreshes>>

GenNext == Refresh \/ Generate \/ LockNames \/ Writes \/ Mishap

GenSpec == GenInit /\ [][GenNext]_genVars

----------------------------------------------------------------------------
\* Properties.

Generates == said' = "generated" /\ pc = "idle" /\ pc' = "prune"

\* The merged declaration takes in what each version's took in: no part is lost
\* or retyped, and nothing that a version may leave out is required.  The types
\* of parts are followed three references deep, into the declarations that those
\* named otherwise were found equivalent to: these need not take in a bag.
Covers(decls, merged, id, name) ==
    LET covers[n \in 0..3, i \in {decls[j].id : j \in DOMAIN decls}, m \in DOMAIN merged] ==
            LET d == DeclOf(decls, i).kind
                g == merged[m]
                same == DeclOf(decls, i).name = m
                Kept(p, q) ==
                    /\ p.nullable = q.nullable
                    /\ IF "ref" \in DOMAIN p.type /\ "ref" \in DOMAIN q.type
                       THEN n > 0 => covers[n - 1, p.type.ref, q.type.ref]
                       ELSE p.type = q.type
            IN  /\ g.sort = d.sort /\ g.tag = d.tag
                /\ d.values \subseteq g.values
                /\ IF Structural(d)
                   THEN \A v \in Range(d.parts) : \E w \in Range(g.parts) : Kept(v, w)
                   ELSE \A k \in IF same THEN DOMAIN d.parts ELSE Fields(d) :
                           k \in DOMAIN g.parts /\ Kept(d.parts[k], g.parts[k])
                /\ d.sort = "struct" =>
                      \A k \in DOMAIN g.parts :
                         g.parts[k].required => k \in DOMAIN d.parts /\ d.parts[k].required
    IN  covers[3, id, name]


\* Under a lock, the declaration a location was locked for keeps its name as
\* long as that location is among those that share it and no other locked one
\* comes before; and two declarations of a document never share a name
\* (lock.rs:1-18, 62-78).
NamesStay ==
    [][Generates => \A i \in DOMAIN specs :
          LET groups == LowerLocked(specs[i], lock).groups
              v == specs[i].version
          IN  /\ \A g, h \in DOMAIN groups : groups[g].name = groups[h].name => g = h
              /\ \A g \in DOMAIN groups :
                    LET kept == SelectSeq(groups[g].members,
                                  LAMBDA at : v \in DOMAIN lock /\ at \in DOMAIN lock[v])
                    IN  kept # <<>> => groups[g].name = lock[v][kept[1]]]_genVars

\* What was just locked is what lowering names from then on: the same documents
\* lowered under the new lock, for all of them or for the base one alone, give the
\* same declarations under the same names, and the lock holds just the names they
\* have (main.rs:178-219; `check` then reports it up to date, main.rs:843-857).
LockSettles ==
    [][LockNames /\ said' = "locked" =>
          LET before == LowerAll(specs, lock)
              after == LowerAll(specs, lock')
          IN  before.error = "none" =>
                 /\ after.error = "none" /\ after.decls = before.decls
                 /\ lock'[specs[1].version] = after.names[specs[1].version]]_genVars

\* What a caller reads by following parts from an operation's response, three
\* deep, with what it is told of their absence.
Reads(prog) ==
    LET Typed(path, t) == IF "ref" \in DOMAIN t /\ t.ref \in DOMAIN prog.decls
                          THEN LET parts == ByKey(prog.decls[t.ref])
                               IN  {<<Append(path, k), parts[k]>> : k \in DOMAIN parts}
                          ELSE {}
        Next1(found) == found \cup UNION {Typed(r[1], r[2].type) : r \in found}
    IN  Next1(Next1(UNION {Typed(<<OpKey(op)>>, op.response) : op \in prog.ops}))

\* Unless the diff of two publications says "major", whatever a caller of the
\* old SDK reads is there, of the same type, in the new one (diff.rs:1-15,
\* 24-32): a bump is a bump although the change is deep under the operation.
MinorKeepsReads ==
    [][Generates /\ Bump(program, program') # "major" => Reads(program) \subseteq Reads(program')]_genVars

\* Each declaration is in one of the emitted files, and one that is in a
\* manager's own is used by nothing but that manager's operations and what is in
\* the same file (sema lib.rs:111-143): no file of models imports another's in a
\* circle.  A declaration no operation reaches may refer anywhere.
FilesPartition ==
    [][Generates =>
          LET files == Buckets(program')
              owners == DeclManagers(program')
          IN  /\ emitted' = DOMAIN files
              /\ \A n \in DOMAIN program'.decls : Cardinality({f \in DOMAIN files : n \in files[f]}) = 1
              /\ \A f \in DOMAIN files \ {Shared} : \A n \in files[f] :
                    /\ \A op \in program'.ops : n \in RefsIn({op.request, op.response}) => op.manager = f
                    /\ \A m \in DOMAIN program'.decls :
                          n \in RefsOf(program', m) /\ owners[m] # {} => m \in files[f]]_genVars

\* "run `gantry lock` and review the rename" (error.rs:169-175): the command that
\* a collision tells one to run does not end in that collision.
LockResolves == said # "lock collides"
====
