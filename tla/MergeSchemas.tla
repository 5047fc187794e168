---- MODULE MergeSchemas ----
(***************************************************************************)
(* The declarations of every version in one namespace (gantry-spec's       *)
(* merge.rs): those of one name become one superset declaration, or the    *)
(* merge fails.  Merged, a declaration is known by its name.               *)
(***************************************************************************)
EXTENDS Lowering

Named(decls, name) == SelectSeq(decls, LAMBDA d : d.name = name)
DeclOf(decls, id) == decls[CHOOSE i \in DOMAIN decls : decls[i].id = id]

\* A declaration's parts by name, a struct's bag not among them.
Fields(kind) == DOMAIN kind.parts \ {Bag}

\* Two parts are equivalent when their types are equal, or refer to declarations
\* that are alike.
EquivalentParts(p, q, Alike(_, _)) ==
    /\ p.required = q.required /\ p.nullable = q.nullable
    /\ IF "ref" \in DOMAIN p.type /\ "ref" \in DOMAIN q.type
       THEN Alike(p.type.ref, q.type.ref)
       ELSE p.type = q.type


\* Declarations are alike when they merge into one, or have equivalent parts; a
\* pair met again on the way down is assumed alike.  Each variant of a structural
\* union is compared with the first of the other's, and bags with nothing.
Equivalent(decls, p, q) ==
    LET Ids == {decls[i].id : i \in DOMAIN decls}
        alike[x \in Ids, y \in Ids, seen \in SUBSET SUBSET Ids] ==
            LET a == DeclOf(decls, x).kind
                b == DeclOf(decls, y).kind
                Same(s, t) == EquivalentParts(s, t, LAMBDA v, w : alike[v, w, seen \cup {{x, y}}])
            IN  \/ DeclOf(decls, x).name = DeclOf(decls, y).name
                \/ {x, y} \in seen
                \/ /\ a.sort = b.sort /\ a.tag = b.tag /\ a.values = b.values
                   /\ IF Structural(a)
                      THEN /\ Len(a.parts) = Len(b.parts)
                           /\ \A i \in DOMAIN a.parts : Same(a.parts[i], b.parts[1])
                      ELSE /\ Fields(a) = Fields(b)
                           /\ \A k \in Fields(a) : Same(a.parts[k], b.parts[k])
    IN  EquivalentParts(p, q, LAMBDA x, y : alike[x, y, {}])

\* The versions that declare a part agree with the first of them on its type, bar
\* optionality.
Agree(decls, ms, k) ==
    LET having == SelectSeq(ms, LAMBDA d : k \in DOMAIN d.kind.parts)
        Core(d) == [d.kind.parts[k] EXCEPT !.required = TRUE]
    IN  \A i \in DOMAIN having : Equivalent(decls, Core(having[1]), Core(having[i]))

MutMergePart(ms, k) ==
    LET having == SelectSeq(ms, LAMBDA d : k \in DOMAIN d.kind.parts)
    IN  [having[1].kind.parts[k] EXCEPT
           !.required = \A i \in DOMAIN having : having[i].kind.parts[k].required]

\* A part keeps the type of the first version that has it, and is required when
\* every version has it and requires it; a variant always is.
MergePart(ms, k) ==
    LET having == SelectSeq(ms, LAMBDA d : k \in DOMAIN d.kind.parts)
    IN  [having[1].kind.parts[k] EXCEPT
           !.required = \/ ms[1].kind.sort # "struct"
                        \/ \A i \in DOMAIN ms : k \in DOMAIN ms[i].kind.parts
                                                /\ ms[i].kind.parts[k].required]

PartsOf(ms) == UNION {DOMAIN ms[i].kind.parts : i \in DOMAIN ms}

\* The variants of structural unions, which no key tells apart: each is added
\* that is equivalent to none there is.
MergeVariants(decls, ms) ==
    FoldLeft(LAMBDA all, v : IF \E j \in DOMAIN all : Equivalent(decls, all[j], v) THEN all
                             ELSE Append(all, v),
             ms[1].kind.parts, FlattenSeq([i \in DOMAIN Tail(ms) |-> Tail(ms)[i].kind.parts]))

Mergeable(decls, ms) ==
    /\ \A i \in DOMAIN ms : ms[i].kind.sort = ms[1].kind.sort /\ ms[i].kind.tag = ms[1].kind.tag
    /\ ~Structural(ms[1].kind) => \A k \in PartsOf(ms) : Agree(decls, ms, k)

MergeGroup(decls, ms) ==
    [ms[1].kind EXCEPT
       !.parts = IF Structural(ms[1].kind) THEN MergeVariants(decls, ms)
                 ELSE [k \in PartsOf(ms) |-> MergePart(ms, k)],
       !.values = UNION {ms[i].kind.values : i \in DOMAIN ms}]

\* References go by the name their declaration merged into.
Merge(low) ==
    LET decls == low.decls
        names == {decls[i].name : i \in DOMAIN decls}
        map == [t \in {[ref |-> decls[i].id] : i \in DOMAIN decls} |->
                  [ref |-> DeclOf(decls, t.ref).name]]
        Typed(t) == IF t \in DOMAIN map THEN map[t] ELSE t
        merges == \A n \in names : Mergeable(decls, Named(decls, n))
    IN  [error |-> IF merges THEN "none" ELSE "conflict",
         decls |-> IF ~merges THEN <<>> ELSE [n \in names |-> MapTypes(MergeGroup(decls, Named(decls, n)), map)],
         versions |-> [n \in names |-> Named(decls, n)[1].id[1]],
         ops |-> {[op EXCEPT !.request = Typed(@), !.response = Typed(@)] : op \in low.ops}]
====
