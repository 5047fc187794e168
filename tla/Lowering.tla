---- MODULE Lowering ----
(***************************************************************************)
(* From OpenAPI documents to declarations (gantry-spec's lower.rs and      *)
(* lock.rs).  A document is given in the order it is lowered:              *)
(*                                                                         *)
(*   version, components     its API version and component names           *)
(*   sites                   each component, and each inline shape before  *)
(*                           the shape that holds it: [at, inline, spells, *)
(*                           kind], `at` its location and `spells` the     *)
(*                           name it asks for and its longer lineages      *)
(*   ops                     [manager, name, version, request, response]   *)
(*                                                                         *)
(* A kind is a struct, enum, union or alias: [sort, tag, parts, values].   *)
(* Its parts are fields by wire name, variants by discriminator value, or  *)
(* the alias's target, each [type, required, nullable]; a structural       *)
(* union, whose tag is "none", has a sequence of them.  What other fields  *)
(* a struct takes is an optional part of its own.  A type is a primitive,  *)
(* or refers to a component or an inline site; lowered, it refers to a     *)
(* declaration.  Lists and maps carry one type and are left out, as is the *)
(* order of fields.  Every enum and union is lowered open.                 *)
(***************************************************************************)
EXTENDS Naturals, SequencesExt

\* A name is a word, or a word with a numeral.
Plain(word) == <<word, 1>>

Structural(kind) == kind.sort = "union" /\ kind.tag = "none"

\* The part that stands for a struct's additional properties.
Bag == "*"

MapTypes(kind, map) ==
    [kind EXCEPT !.parts = [k \in DOMAIN @ |->
        [@[k] EXCEPT !.type = IF @ \in DOMAIN map THEN map[@] ELSE @]]]

TypesOf(kind) == {kind.parts[k].type : k \in DOMAIN kind.parts}

\* What lowering a document starts from: its components are declared, so that
\* references resolve even through cycles.
Declared(doc) ==
    [used |-> {Plain(c) : c \in doc.components},
     decls |-> <<>>,       \* the declarations, [id, name, kind]
     groups |-> <<>>,      \* the locations that share a synthesized one
     lowered |-> [t \in {[comp |-> c] : c \in doc.components} |-> [ref |-> <<doc.version, t.comp>>]],
     error |-> "none"]

\* The first spelling that is free, else the first with a numeral.
Derived(spells, used) ==
    LET free == SelectSeq(spells, LAMBDA w : Plain(w) \notin used)
        n == CHOOSE i \in 2..(Cardinality(used) + 2) :
                /\ <<spells[1], i>> \notin used
                /\ \A j \in 2..(i - 1) : <<spells[1], j>> \in used
    IN  IF free # <<>> THEN Plain(free[1]) ELSE <<spells[1], n>>

Declare(acc, id, site, name, kind) ==
    [acc EXCEPT !.decls = Append(@, [id |-> id, name |-> name, kind |-> kind]),
                !.used = @ \cup {name},
                !.lowered = ([inline |-> site.at] :> [ref |-> id]) @@ @]

\* An inline shape that was synthesized before is shared; a new one is minted
\* under its locked name if it has one.
Synthesize(acc, id, site, kind, preferred) ==
    LET same == {g \in DOMAIN acc.groups : acc.groups[g].kind = kind}
        name == IF site.at \in DOMAIN preferred THEN preferred[site.at]
                ELSE Derived(site.spells, acc.used)
    IN  IF same # {}
        THEN LET g == CHOOSE i \in same : TRUE
             IN  [acc EXCEPT !.groups[g].members = Append(@, site.at),
                             !.lowered = ([inline |-> site.at] :> [ref |-> acc.groups[g].id]) @@ @]
        ELSE IF name \in acc.used THEN [acc EXCEPT !.error = "collision"]
        ELSE [Declare(acc, id, site, name, kind)
                EXCEPT !.groups = Append(@, [id |-> id, kind |-> kind, name |-> name,
                                             members |-> <<site.at>>])]

LowerSite(doc, acc, site, preferred) ==
    LET kind == MapTypes(site.kind, acc.lowered)
        id == <<doc.version, site.at>>
    IN  IF acc.error # "none" THEN acc
        ELSE IF site.inline THEN Synthesize(acc, id, site, kind, preferred)
        ELSE Declare(acc, id, site, Plain(site.spells[1]), kind)

LowerDocument(doc, preferred) ==
    FoldLeft(LAMBDA acc, site : LowerSite(doc, acc, site, preferred), Declared(doc), doc.sites)

----------------------------------------------------------------------------
\* The names lock: per version, the name each minting location was given.

Unlocked == <<>>

\* The names a lowering minted, which is what a lock holds.
MintedNames(low) ==
    [at \in {low.groups[g].members[1] : g \in DOMAIN low.groups} |->
        low.groups[CHOOSE g \in DOMAIN low.groups : low.groups[g].members[1] = at].name]

MutPreferred(groups, locked) ==
    [at \in {groups[g].members[1] : g \in DOMAIN groups} \cap DOMAIN locked |-> locked[at]]

\* A group takes the locked name of its first member that has one.
Preferred(groups, locked) ==
    LET Has(g) == SelectSeq(groups[g].members, LAMBDA at : at \in DOMAIN locked)
        named == {g \in DOMAIN groups : Has(g) # <<>>}
    IN  [at \in {groups[g].members[1] : g \in named} |->
            locked[Has(CHOOSE g \in named : groups[g].members[1] = at)[1]]]

\* Which locations share a declaration depends on shapes and never on names:
\* the groups of a first pass name those of a second.
LowerLocked(doc, lock) ==
    LET first == LowerDocument(doc, <<>>)
    IN  IF doc.version \notin DOMAIN lock THEN first
        ELSE LowerDocument(doc, Preferred(first.groups, lock[doc.version]))

MutUpdatedWith(lock, names) == lock @@ names

\* Versions this lowering has replace the lock's; the others are kept.
UpdatedWith(lock, names) == names @@ lock

LowerOp(op, lowered) ==
    LET Typed(t) == IF t \in DOMAIN lowered THEN lowered[t] ELSE t
    IN  [op EXCEPT !.request = Typed(@), !.response = Typed(@)]

\* All documents, the base one first: the declarations, operations and names,
\* or the first error.
LowerAll(docs, lock) ==
    LET lows == [i \in DOMAIN docs |-> LowerLocked(docs[i], lock)]
        failed == {i \in DOMAIN docs : lows[i].error # "none"}
    IN  [error |-> IF failed = {} THEN "none" ELSE "collision",
         decls |-> FlattenSeq([i \in DOMAIN docs |-> lows[i].decls]),
         ops |-> UNION {{LowerOp(op, lows[i].lowered) : op \in docs[i].ops} : i \in DOMAIN docs},
         names |-> [v \in {docs[i].version : i \in DOMAIN docs} |->
                      MintedNames(lows[CHOOSE i \in DOMAIN docs : docs[i].version = v])]]
====
