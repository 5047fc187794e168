---- MODULE Analysis ----
(***************************************************************************)
(* The semantic pass over a merged program (gantry-sema), the files its    *)
(* declarations are emitted to, and the comparison of two programs that    *)
(* recommends a version bump (gantry-verify's diff.rs).                    *)
(***************************************************************************)
EXTENDS MergeSchemas

Managers(program) == {op.manager : op \in program.ops}

RefsIn(types) == {t.ref : t \in {u \in types : "ref" \in DOMAIN u}}

RefsOf(program, n) == RefsIn(TypesOf(program.decls[n]))

\* What some declarations lead to through any number of references: the least set
\* that has them and whatever its own refer to.
Closure(program, names) ==
    LET refers == UNION {{n} \X RefsOf(program, n) : n \in DOMAIN program.decls}
        closed == {S \in {names \cup T : T \in SUBSET {r[2] : r \in refers}} :
                      \A r \in refers : r[1] \in S => r[2] \in S}
    IN  {n \in DOMAIN program.decls : \A S \in closed : n \in S}

ReachedBy(program, manager) ==
    Closure(program, UNION {RefsIn({op.request, op.response}) : op \in {o \in program.ops : o.manager = manager}})

DeclManagers(program) ==
    LET reaches == UNION {{m} \X ReachedBy(program, m) : m \in Managers(program)}
    IN  [n \in DOMAIN program.decls |-> {m \in Managers(program) : <<m, n>> \in reaches}]

OpKey(op) == <<op.manager, op.name, op.version>>

\* Every reference leads to a declaration, an enum or a union has something in it,
\* and no two operations of a manager and version share a name.
WellFormed(program) ==
    /\ \A n \in DOMAIN program.decls :
          LET kind == program.decls[n]
          IN  /\ RefsOf(program, n) \subseteq DOMAIN program.decls
              /\ kind.sort = "enum" => kind.values # {}
              /\ kind.sort = "union" => DOMAIN kind.parts # {}
    /\ \A op \in program.ops : RefsIn({op.request, op.response}) \subseteq DOMAIN program.decls
    /\ \A op, other \in program.ops : OpKey(op) = OpKey(other) => op = other

MutSoleManager(owners) == owners # {}

\* The one manager that reaches a declaration has it in its own file.
SoleManager(owners) == Cardinality(owners) = 1

Shared == "schemas"

\* The models' files, and the declarations in each.
Buckets(program) ==
    LET owners == DeclManagers(program)
        sole == {n \in DOMAIN program.decls : SoleManager(owners[n])}
        In(m) == {n \in sole : m = CHOOSE o \in owners[n] : TRUE}
    IN  [f \in {Shared} \cup UNION {owners[n] : n \in sole} |->
            IF f = Shared THEN DOMAIN program.decls \ sole ELSE In(f)]

----------------------------------------------------------------------------
\* spec-diff.

OpsByKey(program) ==
    [k \in {OpKey(op) : op \in program.ops} |-> CHOOSE op \in program.ops : OpKey(op) = k]

\* A structural union's variants go by their types.
ByKey(kind) ==
    IF Structural(kind) THEN [p \in Range(kind.parts) |-> p] ELSE kind.parts

MutBreakingParts(before, after) ==
    {k \in DOMAIN before \cap DOMAIN after : before[k] # after[k]}

\* A part that went, or whose type, optionality included, changed.
BreakingParts(before, after) ==
    {k \in DOMAIN before : k \notin DOMAIN after \/ before[k] # after[k]}

BreakingDecl(before, after) ==
    \/ before.sort # after.sort
    \/ BreakingParts(ByKey(before), ByKey(after)) # {}
    \/ ~(before.values \subseteq after.values)

Bump(old, new) ==
    LET oldOps == OpsByKey(old)
        newOps == OpsByKey(new)
        Breaks(before, after, Differ(_, _)) ==
            \E k \in DOMAIN before : k \notin DOMAIN after \/ Differ(before[k], after[k])
    IN  IF \/ Breaks(oldOps, newOps, LAMBDA b, a : b # a)
           \/ Breaks(old.versions, new.versions, LAMBDA b, a : b # a)
           \/ Breaks(old.decls, new.decls, BreakingDecl)
        THEN "major"
        ELSE IF oldOps # newOps \/ old.decls # new.decls THEN "minor" ELSE "none"
====
