---- MODULE GenerationProofs ----
(***************************************************************************)
(* Proofs about OutputTree, for any set of paths, and about Generation,    *)
(* for any publications: whatever it is asked to lower, `generate` writes  *)
(* files of the tree's paths alone, so a command line's behaviour is one   *)
(* of OutputTree, and what is proved of that holds under every sequence of *)
(* commands.                                                               *)
(***************************************************************************)
EXTENDS Generation, FiniteSetTheorems, TLAPS

LEMMA InitEstablishes == Init => TreeInv
  BY DEF Init, TreeInv, TypeOK, NoOrphans, Progress

LEMMA StepPreserves == TreeInv /\ [Next]_vars => TreeInv'
  <1> SUFFICES ASSUME TreeInv, [Next]_vars PROVE TreeInv'
    OBVIOUS
  <1> USE DEF TreeInv, TypeOK, NoOrphans, Progress
  <1>1. ASSUME NEW files \in SUBSET Path, Start(files) PROVE TreeInv'
    BY <1>1 DEF Start
  <1>2. ASSUME NEW p \in Path, Prune(p) PROVE TreeInv'
    BY <1>2 DEF Prune
  <1>3. ASSUME NEW p \in Path, Write(p) PROVE TreeInv'
    BY <1>3 DEF Write
  <1>4. ASSUME NEW p \in Path, HandDelete(p) PROVE TreeInv'
    BY <1>4 DEF HandDelete
  <1>5. CASE Pruned
    BY <1>5 DEF Pruned
  <1>6. CASE WriteManifest
    BY <1>6 DEF WriteManifest
  <1>7. CASE StopPruning
    BY <1>7 DEF StopPruning, Stopped
  <1>8. CASE StopWriting
    BY <1>8 DEF StopWriting, Stopped
  <1>9. CASE UNCHANGED vars
    BY <1>9 DEF vars
  <1> QED
    BY ONLY [Next]_vars, <1>1, <1>2, <1>3, <1>4, <1>5, <1>6, <1>7, <1>8, <1>9 DEF Next

\* However generations end, the record names every generated file but those
\* that one which stopped writing left.
THEOREM TreeInvariant == Spec => []TreeInv
  BY InitEstablishes, StepPreserves, PTL DEF Spec

\* The step that ends a generation finds all it emitted there, and besides only
\* what was left by runs that stopped writing.
LEMMA LastStep ==
    ASSUME TreeInv, Next, done', ~done
    PROVE  emitted \subseteq made' /\ made' \ emitted \subseteq stray' /\ stray' \subseteq stray
  <1>1. WriteManifest
    BY DEF Next, Start, Prune, Write, HandDelete, Pruned, WriteManifest,
           StopPruning, StopWriting, Stopped
  <1> QED
    BY <1>1 DEF WriteManifest, TreeInv, NoOrphans, Progress

\* However earlier ones ended, a generation that runs to its end leaves every file
\* it emitted, and besides only what runs that stopped writing left.
THEOREM FinishedTreeIsEmitted == Spec => TreeIsEmitted
  <1>1. TreeInv /\ [Next]_vars =>
          [done' /\ ~done => emitted \subseteq made' /\ made' \ emitted \subseteq stray']_vars
    BY LastStep
  <1> QED
    BY <1>1, TreeInvariant, PTL DEF Spec, TreeIsEmitted

\* As long as no run stops writing, however others stop and whatever is removed by
\* hand, a generation that runs to its end leaves exactly the files it emitted.
THEOREM UnstoppedTreeIsExact ==
    Spec /\ [][~StopWriting]_vars => [][done' /\ ~done => made' = emitted]_vars
  <1>1. Init => stray = {}
    BY DEF Init
  <1>2. stray = {} /\ [Next]_vars /\ [~StopWriting]_vars => (stray = {})'
    BY DEF Next, Start, Prune, Write, HandDelete, Pruned, WriteManifest, StopPruning, vars
  <1>3. TreeInv /\ stray = {} /\ [Next]_vars => [done' /\ ~done => made' = emitted]_vars
    BY LastStep
  <1> QED
    BY <1>1, <1>2, <1>3, TreeInvariant, PTL DEF Spec

-----------------------------------------------------------------------------
\* Lowering an operation rewrites its types and nothing else.
LEMMA LoweredManager ==
    ASSUME NEW o, NEW lowered, "manager" \in DOMAIN o
    PROVE  "manager" \in DOMAIN LowerOp(o, lowered) /\ LowerOp(o, lowered).manager = o.manager
  BY DEF LowerOp

\* An operation of a lowered program is one of a document's, under its manager.
LEMMA LoweredOps ==
    ASSUME NEW docs \in Publications, NEW locked
    PROVE  \A op \in LowerAll(docs, locked).ops : "manager" \in DOMAIN op /\ op.manager \in Path \ {Shared}
  <1> DEFINE lows == [i \in DOMAIN docs |-> LowerLocked(docs[i], locked)]
  <1>1. LowerAll(docs, locked).ops
          = UNION {{LowerOp(o, lows[i].lowered) : o \in docs[i].ops} : i \in DOMAIN docs}
    BY DEF LowerAll
  <1> HIDE DEF lows
  <1>2. SUFFICES ASSUME NEW i \in DOMAIN docs, NEW o \in docs[i].ops
                 PROVE  LET op == LowerOp(o, lows[i].lowered)
                        IN  "manager" \in DOMAIN op /\ op.manager \in Path \ {Shared}
    BY <1>1
  <1>3. "manager" \in DOMAIN o /\ o.manager \in Path \ {Shared}
    BY PublicationsAssumption
  <1> QED
    BY <1>3, LoweredManager

\* Merging rewrites an operation's types and nothing else.
LEMMA ProgramManagers ==
    ASSUME NEW docs \in Publications, NEW locked
    PROVE  \A op \in Merge(LowerAll(docs, locked)).ops : op.manager \in Path \ {Shared}
  <1> DEFINE low == LowerAll(docs, locked)
  <1>1. \A op \in low.ops : "manager" \in DOMAIN op /\ op.manager \in Path \ {Shared}
    BY LoweredOps
  <1> HIDE DEF low
  <1>2. \A op \in Merge(low).ops : op.manager \in Path \ {Shared}
    BY <1>1 DEF Merge
  <1> QED
    BY <1>2 DEF low

\* A program's models are emitted to the shared file and to its managers' own.
LEMMA BucketPaths ==
    ASSUME NEW prog
    PROVE  DOMAIN Buckets(prog) \subseteq {Shared} \cup Managers(prog)
  <1>1. \A n \in DOMAIN prog.decls : DeclManagers(prog)[n] \subseteq Managers(prog)
    BY DEF DeclManagers
  <1> QED
    BY <1>1 DEF Buckets

LEMMA GeneratedPaths ==
    ASSUME NEW docs \in Publications, NEW locked
    PROVE  DOMAIN Buckets(Merge(LowerAll(docs, locked))) \in SUBSET Path
  <1>1. Managers(Merge(LowerAll(docs, locked))) \subseteq Path
    BY ProgramManagers DEF Managers
  <1> QED
    BY <1>1, BucketPaths, PublicationsAssumption

\* What is published is a publication.
LEMMA SpecsPublished == GenSpec => [](specs \in Publications)
  <1>1. GenInit => specs \in Publications
    BY DEF GenInit
  <1>2. specs \in Publications /\ [GenNext]_genVars => (specs \in Publications)'
    BY DEF GenNext, Refresh, Generate, LockNames, Writes, Mishap, specVars, genVars
  <1> QED
    BY <1>1, <1>2, PTL DEF GenSpec

\* Every command is a step of the tree's, or leaves the tree alone.
LEMMA CommandStepsTree == specs \in Publications /\ [GenNext]_genVars => [Next]_vars
  <1> SUFFICES ASSUME specs \in Publications, [GenNext]_genVars PROVE [Next]_vars
    OBVIOUS
  <1>1. CASE Refresh
    BY <1>1 DEF Refresh
  <1>2. CASE Generate
    <2>1. \/ \E files \in SUBSET Path : Start(files)
          \/ UNCHANGED vars
      BY <1>2, GeneratedPaths DEF Generate
    <2> QED
      BY <2>1 DEF Next
  <1>3. CASE LockNames
    BY <1>3 DEF LockNames
  <1>4. CASE Writes
    BY <1>4 DEF Writes, Next
  <1>5. CASE Mishap
    BY <1>5 DEF Mishap, Next
  <1>6. CASE UNCHANGED genVars
    BY <1>6 DEF genVars
  <1> QED
    BY ONLY [GenNext]_genVars, <1>1, <1>2, <1>3, <1>4, <1>5, <1>6 DEF GenNext

\* The command line drives the output tree as OutputTree says.
THEOREM GenerationWritesTree == GenSpec => Spec
  BY CommandStepsTree, SpecsPublished, PTL DEF GenSpec, GenInit, Spec

\* Whatever Box publishes and wherever runs stop, the record names every generated
\* file but those a run that stopped writing left.
THEOREM GenerationKeepsRecord == GenSpec => []TreeInv
  BY GenerationWritesTree, TreeInvariant, PTL

\* Whatever Box publishes, a generation that ends leaves every file of its program,
\* and besides only what runs that stopped writing left.
THEOREM GeneratedTreeIsEmitted == GenSpec => TreeIsEmitted
  BY GenerationWritesTree, FinishedTreeIsEmitted, PTL

\* Whatever Box publishes, as long as no run stops writing a generation that ends
\* leaves exactly the files of its program.
THEOREM GeneratedTreeIsExact ==
    GenSpec /\ [][~StopWriting]_vars => [][done' /\ ~done => made' = emitted]_vars
  BY GenerationWritesTree, UnstoppedTreeIsExact, PTL

-----------------------------------------------------------------------------
\* What names lead to has those that are declared, and whatever its own refer to.
LEMMA ClosureHolds ==
    ASSUME NEW prog, NEW names
    PROVE  names \cap DOMAIN prog.decls \subseteq Closure(prog, names)
  BY DEF Closure

LEMMA ClosureClosed ==
    ASSUME NEW prog, NEW names, NEW m \in Closure(prog, names),
           NEW n \in DOMAIN prog.decls, n \in RefsOf(prog, m)
    PROVE  n \in Closure(prog, names)
  <1> DEFINE refers == UNION {{x} \X RefsOf(prog, x) : x \in DOMAIN prog.decls}
             closed == {S \in {names \cup T : T \in SUBSET {r[2] : r \in refers}} :
                          \A r \in refers : r[1] \in S => r[2] \in S}
  <1>1. Closure(prog, names) = {x \in DOMAIN prog.decls : \A S \in closed : x \in S}
    BY DEF Closure
  <1>2. <<m, n>> \in refers
    BY <1>1
  <1>3. ASSUME NEW S \in closed PROVE n \in S
    <2>1. m \in S
      BY <1>1, <1>3
    <2> QED
      BY <1>2, <2>1
  <1> HIDE DEF closed
  <1> QED
    BY <1>1, <1>3

\* The managers that reach a declaration.
LEMMA Reaches ==
    ASSUME NEW prog, NEW n \in DOMAIN prog.decls
    PROVE  DeclManagers(prog)[n] = {m \in Managers(prog) : n \in ReachedBy(prog, m)}
  BY DEF DeclManagers

\* A manager reaches what its operations name, and what a declaration it reaches
\* refers to.
LEMMA NamedIsReached ==
    ASSUME NEW prog, NEW op \in prog.ops, NEW n \in DOMAIN prog.decls,
           n \in RefsIn({op.request, op.response})
    PROVE  op.manager \in DeclManagers(prog)[n]
  <1> DEFINE roots == UNION {RefsIn({o.request, o.response}) : o \in {o \in prog.ops : o.manager = op.manager}}
  <1>1. n \in roots
    OBVIOUS
  <1> HIDE DEF roots
  <1>2. n \in Closure(prog, roots)
    BY <1>1, ClosureHolds
  <1>3. n \in ReachedBy(prog, op.manager)
    BY <1>2 DEF ReachedBy, roots
  <1> QED
    BY <1>3, Reaches DEF Managers

LEMMA ReferredIsReached ==
    ASSUME NEW prog, NEW m \in DOMAIN prog.decls, NEW n \in DOMAIN prog.decls,
           n \in RefsOf(prog, m)
    PROVE  DeclManagers(prog)[m] \subseteq DeclManagers(prog)[n]
  <1>1. SUFFICES ASSUME NEW x \in Managers(prog), m \in ReachedBy(prog, x)
                 PROVE  n \in ReachedBy(prog, x)
    BY Reaches
  <1> QED
    BY <1>1, ClosureClosed DEF ReachedBy

\* The files of a program whose managers are named by paths, the shared file's
\* not among them.
LEMMA BucketsPartition ==
    ASSUME NEW prog, \A op \in prog.ops : op.manager \in Path \ {Shared}
    PROVE  LET files == Buckets(prog)
               owners == DeclManagers(prog)
           IN  /\ \A n \in DOMAIN prog.decls : Cardinality({f \in DOMAIN files : n \in files[f]}) = 1
               /\ \A f \in DOMAIN files \ {Shared} : \A n \in files[f] :
                     /\ \A op \in prog.ops : n \in RefsIn({op.request, op.response}) => op.manager = f
                     /\ \A m \in DOMAIN prog.decls :
                           n \in RefsOf(prog, m) /\ owners[m] # {} => m \in files[f]
  <1> DEFINE D == DOMAIN prog.decls
             owners == DeclManagers(prog)
             files == Buckets(prog)
             sole == {n \in D : SoleManager(owners[n])}
  <1>1. \A n \in D : owners[n] \subseteq Path \ {Shared} /\ IsFiniteSet(owners[n])
    <2>1. \A n \in D : owners[n] \subseteq Path \ {Shared}
      BY Reaches DEF Managers
    <2> HIDE DEF owners
    <2> QED
      BY <2>1, PathAssumption, FS_Subset
  <1>2. /\ DOMAIN files = {Shared} \cup UNION {owners[n] : n \in sole}
        /\ \A f \in DOMAIN files :
              files[f] = IF f = Shared THEN D \ sole
                         ELSE {n \in sole : f = CHOOSE o \in owners[n] : TRUE}
    BY DEF Buckets
  <1>3. \A n \in D : n \in sole <=> \E x : owners[n] = {x}
    <2> HIDE DEF owners
    <2> QED
      BY <1>1, FS_Singleton DEF SoleManager
  <1>4. \A m, n \in D : n \in RefsOf(prog, m) => owners[m] \subseteq owners[n]
    BY ReferredIsReached
  <1>5. \A op \in prog.ops, n \in D : n \in RefsIn({op.request, op.response}) => op.manager \in owners[n]
    BY NamedIsReached
  <1> HIDE DEF D, owners, files, sole
  <1>6. \A n \in sole : \A x : owners[n] = {x} => (CHOOSE o \in owners[n] : TRUE) = x
    OBVIOUS
  <1>7. sole \subseteq D
    BY DEF sole
  <1>8. ASSUME NEW f \in DOMAIN files \ {Shared}, NEW n \in D
        PROVE  n \in files[f] <=> owners[n] = {f}
    <2>1. files[f] = {x \in sole : f = CHOOSE o \in owners[x] : TRUE}
      BY <1>2
    <2>2. CASE n \in sole
      <3>1. PICK x : owners[n] = {x}
        BY <1>3, <2>2
      <3>2. n \in files[f] <=> f = x
        BY <1>6, <2>1, <2>2, <3>1
      <3> QED
        BY <3>1, <3>2
    <2>3. CASE n \notin sole
      BY <1>3, <2>1, <2>3
    <2> QED
      BY <2>2, <2>3
  <1>9. ASSUME NEW n \in D PROVE Cardinality({f \in DOMAIN files : n \in files[f]}) = 1
    <2>1. CASE n \in sole
      <3>1. PICK x : owners[n] = {x}
        BY <1>3, <2>1
      <3>2. x \in DOMAIN files \ {Shared}
        BY <1>1, <1>2, <2>1, <3>1
      <3>3. n \notin files[Shared]
        BY <1>2, <2>1
      <3>4. {f \in DOMAIN files : n \in files[f]} = {x}
        BY <1>8, <3>1, <3>2, <3>3
      <3> QED
        BY <3>4, FS_Singleton
    <2>2. CASE n \notin sole
      <3>1. {f \in DOMAIN files : n \in files[f]} = {Shared}
        BY <1>2, <2>2
      <3> QED
        BY <3>1, FS_Singleton
    <2> QED
      BY <2>1, <2>2
  <1>10. ASSUME NEW f \in DOMAIN files \ {Shared}, NEW n \in files[f]
         PROVE  /\ \A op \in prog.ops : n \in RefsIn({op.request, op.response}) => op.manager = f
                /\ \A m \in D : n \in RefsOf(prog, m) /\ owners[m] # {} => m \in files[f]
    <2>1. n \in D
      BY <1>2, <1>7
    <2>2. owners[n] = {f}
      BY <1>8, <2>1
    <2>3. ASSUME NEW m \in D, n \in RefsOf(prog, m), owners[m] # {} PROVE m \in files[f]
      <3>1. owners[m] = {f}
        BY <1>4, <2>1, <2>2, <2>3
      <3> QED
        BY <1>8, <3>1
    <2> QED
      BY <1>5, <2>1, <2>2, <2>3
  <1> QED
    BY <1>9, <1>10 DEF D, owners, files

\* What is generated is a program that was lowered, merged and found well formed,
\* emitted to the files of its buckets.
LEMMA GeneratesProgram ==
    ASSUME specs \in Publications, [GenNext]_genVars, Generates
    PROVE  /\ WellFormed(program')
           /\ program' = Merge(LowerAll(specs, lock))
           /\ emitted' = DOMAIN Buckets(program')
  <1>1. Generate
    BY DEF Generates, GenNext, Refresh, LockNames, Writes, Mishap, Prune, Write, Pruned, WriteManifest,
           StopPruning, StopWriting, Stopped, HandDelete, genVars, vars
  <1> QED
    BY <1>1 DEF Generate, Generates, Start, vars

\* Whatever Box publishes, the files of a generated program have each declaration
\* once, and what is in a manager's own is used by nothing outside it that any
\* operation reaches.
THEOREM FilesArePartitioned == GenSpec => FilesPartition
  <1>1. specs \in Publications /\ [GenNext]_genVars =>
          [Generates =>
             LET files == Buckets(program')
                 owners == DeclManagers(program')
             IN  /\ emitted' = DOMAIN files
                 /\ \A n \in DOMAIN program'.decls : Cardinality({f \in DOMAIN files : n \in files[f]}) = 1
                 /\ \A f \in DOMAIN files \ {Shared} : \A n \in files[f] :
                       /\ \A op \in program'.ops : n \in RefsIn({op.request, op.response}) => op.manager = f
                       /\ \A m \in DOMAIN program'.decls :
                             n \in RefsOf(program', m) /\ owners[m] # {} => m \in files[f]]_genVars
    <2> SUFFICES ASSUME specs \in Publications, [GenNext]_genVars, Generates
                 PROVE  LET files == Buckets(program')
                            owners == DeclManagers(program')
                        IN  /\ emitted' = DOMAIN files
                            /\ \A n \in DOMAIN program'.decls : Cardinality({f \in DOMAIN files : n \in files[f]}) = 1
                            /\ \A f \in DOMAIN files \ {Shared} : \A n \in files[f] :
                                  /\ \A op \in program'.ops : n \in RefsIn({op.request, op.response}) => op.manager = f
                                  /\ \A m \in DOMAIN program'.decls :
                                        n \in RefsOf(program', m) /\ owners[m] # {} => m \in files[f]
      OBVIOUS
    <2>1. /\ program' = Merge(LowerAll(specs, lock))
          /\ emitted' = DOMAIN Buckets(program')
      BY GeneratesProgram
    <2>2. \A op \in program'.ops : op.manager \in Path \ {Shared}
      BY <2>1, ProgramManagers
    <2> QED
      BY <2>1, <2>2, BucketsPartition
  <1> QED
    BY <1>1, SpecsPublished, PTL DEF GenSpec, FilesPartition

-----------------------------------------------------------------------------
\* No two operations of a program share a key.
KeysDiffer(prog) == \A op, other \in prog.ops : OpKey(op) = OpKey(other) => op = other

\* A program takes nothing from another: it has its operations, its declarations,
\* and their parts as they were.
TakesNothing(old, new) ==
    /\ old.ops \subseteq new.ops
    /\ DOMAIN old.decls \subseteq DOMAIN new.decls
    /\ \A n \in DOMAIN old.decls : \A k \in DOMAIN ByKey(old.decls[n]) :
          /\ k \in DOMAIN ByKey(new.decls[n])
          /\ ByKey(new.decls[n])[k] = ByKey(old.decls[n])[k]

\* An operation is found under its key when no other has it.
LEMMA FoundByKey ==
    ASSUME NEW old, NEW new, KeysDiffer(old),
           \A k \in DOMAIN OpsByKey(old) :
              k \in DOMAIN OpsByKey(new) /\ OpsByKey(old)[k] = OpsByKey(new)[k]
    PROVE  old.ops \subseteq new.ops
  <1> SUFFICES ASSUME NEW op \in old.ops PROVE op \in new.ops
    OBVIOUS
  <1>1. OpKey(op) \in DOMAIN OpsByKey(old) /\ OpsByKey(old)[OpKey(op)] = op
    BY DEF OpsByKey, KeysDiffer
  <1>2. \A k \in DOMAIN OpsByKey(new) : OpsByKey(new)[k] \in new.ops
    BY DEF OpsByKey
  <1> QED
    BY <1>1, <1>2

\* What the diff does not call major takes nothing.
LEMMA MinorTakesNothing ==
    ASSUME NEW old, NEW new, KeysDiffer(old), Bump(old, new) # "major"
    PROVE  TakesNothing(old, new)
  <1>1. /\ \A k \in DOMAIN OpsByKey(old) :
             k \in DOMAIN OpsByKey(new) /\ OpsByKey(old)[k] = OpsByKey(new)[k]
        /\ \A n \in DOMAIN old.decls :
             n \in DOMAIN new.decls /\ ~BreakingDecl(old.decls[n], new.decls[n])
    BY DEF Bump
  <1>2. old.ops \subseteq new.ops
    BY <1>1, FoundByKey
  <1>3. ASSUME NEW n \in DOMAIN old.decls, NEW k \in DOMAIN ByKey(old.decls[n])
        PROVE  /\ k \in DOMAIN ByKey(new.decls[n])
               /\ ByKey(new.decls[n])[k] = ByKey(old.decls[n])[k]
    BY <1>1, <1>3 DEF BreakingDecl, BreakingParts
  <1> QED
    BY <1>1, <1>2, <1>3 DEF TakesNothing

\* A program that takes nothing lets a reader follow every part it could.
LEMMA ReadsStay ==
    ASSUME NEW old, NEW new, TakesNothing(old, new)
    PROVE  Reads(old) \subseteq Reads(new)
  <1> DEFINE Typed(prog, path, t) ==
                 IF "ref" \in DOMAIN t /\ t.ref \in DOMAIN prog.decls
                 THEN {<<Append(path, k), ByKey(prog.decls[t.ref])[k]>> : k \in DOMAIN ByKey(prog.decls[t.ref])}
                 ELSE {}
             First(prog) == UNION {Typed(prog, <<OpKey(op)>>, op.response) : op \in prog.ops}
             Then(prog, found) == found \cup UNION {Typed(prog, r[1], r[2].type) : r \in found}
  <1>1. \A prog : Reads(prog) = Then(prog, Then(prog, First(prog)))
    BY DEF Reads
  <1>2. \A path, t : Typed(old, path, t) \subseteq Typed(new, path, t)
    BY DEF TakesNothing
  <1> HIDE DEF Typed
  <1>3. First(old) \subseteq First(new)
    BY <1>2 DEF TakesNothing
  <1>4. \A found, more : found \subseteq more => Then(old, found) \subseteq Then(new, more)
    BY <1>2
  <1> HIDE DEF First, Then
  <1> QED
    BY <1>1, <1>3, <1>4

LEMMA KeysStayDifferent == GenSpec => []KeysDiffer(program)
  <1>1. GenInit => KeysDiffer(program)
    BY DEF GenInit, NoProgram, KeysDiffer
  <1>2. KeysDiffer(program) /\ [GenNext]_genVars => KeysDiffer(program)'
    <2> SUFFICES ASSUME KeysDiffer(program), [GenNext]_genVars PROVE KeysDiffer(program)'
      OBVIOUS
    <2>1. CASE Generate
      BY <2>1 DEF Generate, KeysDiffer, WellFormed
    <2>2. CASE UNCHANGED program
      BY <2>2 DEF KeysDiffer
    <2>3. Generate \/ UNCHANGED program
      BY DEF GenNext, Refresh, LockNames, Writes, Mishap, specVars, genVars
    <2> QED
      BY <2>1, <2>2, <2>3
  <1> QED
    BY <1>1, <1>2, PTL DEF GenSpec

\* Whatever Box publishes, unless the diff of two publications says "major" a
\* caller of the old SDK finds in the new one all it could follow from an
\* operation's response.
THEOREM MinorBumpKeepsReads == GenSpec => MinorKeepsReads
  <1>1. KeysDiffer(program) =>
          [Generates /\ Bump(program, program') # "major" => Reads(program) \subseteq Reads(program')]_genVars
    BY MinorTakesNothing, ReadsStay
  <1> QED
    BY <1>1, KeysStayDifferent, PTL DEF GenSpec, MinorKeepsReads
====
