---- MODULE MCGeneration ----
(***************************************************************************)
(* Generation for TLC.  A publication is a base document and at times a    *)
(* versioned one.  In the first family the base document's inline shapes   *)
(* compete for a name: a file's owner, the body of a request, and a shape  *)
(* that Box may add before both; the versioned document has a File and a   *)
(* FileOwner of its own.  In the second the documents call the same        *)
(* recursive shapes by other names.                                        *)
(***************************************************************************)
EXTENDS Generation

Str == [prim |-> "string"]
Num == [prim |-> "int"]
Comp(c) == [comp |-> c]
Inline(at) == [inline |-> at]

Part(type, required) == [type |-> type, required |-> required, nullable |-> FALSE]
Kind(sort, tag, parts, values) == [sort |-> sort, tag |-> tag, parts |-> parts, values |-> values]
Struct(parts) == Kind("struct", "none", parts, {})
Enum(values) == Kind("enum", "none", <<>>, values)
Union(variants) == Kind("union", "type", [k \in DOMAIN variants |-> Part(variants[k], TRUE)], {})
AnyOf(types) == Kind("union", "none", [i \in DOMAIN types |-> Part(types[i], TRUE)], {})
Alias(type) == Kind("alias", "none", "=" :> Part(type, TRUE), {})

Site(at, spells, kind) == [at |-> at, inline |-> TRUE, spells |-> spells, kind |-> kind]
Component(name, kind) == [at |-> name, inline |-> FALSE, spells |-> <<name>>, kind |-> kind]
Op(manager, name, version, request, response) ==
    [manager |-> manager, name |-> name, version |-> version, request |-> request, response |-> response]

Mini == Struct("id" :> Part(Str, TRUE))
Full == Struct("id" :> Part(Str, TRUE) @@ "name" :> Part(Str, FALSE))

\* `creator` is the shape Box may add, `body` that of the request; a "flat" file's
\* owner is no inline shape, and a "named" file has one more field.
Base(creator, body, file) ==
    [version |-> "base",
     components |-> {"File", "Role"},
     sites |-> (IF creator = {} THEN <<>>
                ELSE <<Site("File.creator", <<"FileOwner", "FileCreatorOwner">>, CHOOSE k \in creator : TRUE)>>)
               \o (IF file = "flat" THEN <<>> ELSE <<Site("File.owner", <<"FileOwner">>, Mini)>>)
               \o <<Component("File", Struct(
                      "id" :> Part(Str, TRUE) @@ "role" :> Part(Comp("Role"), FALSE)
                      @@ "owner" :> Part(IF file = "flat" THEN Str ELSE Inline("File.owner"), FALSE)
                      @@ (IF file = "named" THEN "name" :> Part(Str, FALSE) ELSE <<>>))),
                    Component("Role", Enum({"editor"})),
                    Site("put.body", <<"FileOwner", "PutFileOwner">>, body)>>,
     ops |-> {Op("files", "get", "base", Str, Comp("File")),
              Op("folders", "put", "base", Inline("put.body"), Comp("Role"))}]

\* A versioned document: its File requires what the base one's does not or
\* types it otherwise, its Role has more values.
Versioned(owner, roles) ==
    [version |-> "v2025",
     components |-> {"File", "Role", "FileOwner"},
     sites |-> <<Component("File", Struct(
                    "id" :> Part(Str, TRUE) @@ "owner" :> Part(owner, TRUE) @@ "etag" :> Part(Str, TRUE))),
                 Component("Role", Enum(roles)),
                 Component("FileOwner", Struct("id" :> Part(Str, FALSE) @@ "file" :> Part(Comp("File"), FALSE)))>>,
     ops |-> {Op("files", "getV", "v2025", Str, Comp("File"))}]

Bases == {Base(c, Mini, "owned") : c \in {{}, {Mini}, {Full}}}
         \cup {Base(c, Full, "owned") : c \in {{}, {Full}}}
         \cup {Base({}, Full, "named"), Base({}, Mini, "flat"), Base({Mini}, Mini, "flat")}

\* The last conflicts, in the type of a file's owner.
Versions ==
    {<<Base(c, Full, "owned"), Versioned(Comp("FileOwner"), {"viewer"})>> : c \in {{}, {Full}}}
    \cup {<<Base({}, Full, "owned"), Versioned(Num, {"editor", "viewer"})>>}

----------------------------------------------------------------------------
\* A folder is in a folder; the versioned document calls it a Dir, and what a Dir is
\* in an Up, which is in a Dir.
Grove ==
    [version |-> "base",
     components |-> {"File", "Folder", "Item", "Any", "Label", "Home"},
     sites |-> <<Component("File", Struct(
                    "id" :> Part(Str, TRUE) @@ "in" :> Part(Comp("Folder"), FALSE)
                    @@ "any" :> Part(Comp("Any"), FALSE) @@ Bag :> Part(Str, FALSE))),
                 Component("Folder", Struct(
                    "id" :> Part(Str, TRUE) @@ "in" :> Part(Comp("Folder"), FALSE)
                    @@ "label" :> Part(Comp("Label"), TRUE))),
                 Component("Item", Union("file" :> Comp("File") @@ "folder" :> Comp("Folder"))),
                 Component("Any", AnyOf(<<Str, Comp("Folder")>>)),
                 Component("Label", AnyOf(<<Str>>)),
                 Component("Home", Alias(Comp("Folder")))>>,
     ops |-> {Op("files", "get", "base", Str, Comp("Item"))}]

GroveVersion(id, item, bag) ==
    [version |-> "v2025",
     components |-> {"File", "Dir", "Up", "Item", "Any", "Tag", "Home"},
     sites |-> <<Component("File", Struct(
                    "id" :> Part(Str, TRUE) @@ "in" :> Part(Comp("Dir"), TRUE) @@ bag)),
                 Component("Dir", Struct(
                    "id" :> Part(Str, TRUE) @@ "in" :> Part(Comp("Up"), FALSE)
                    @@ "label" :> Part(Comp("Tag"), TRUE) @@ Bag :> Part(Num, FALSE))),
                 Component("Up", Struct(
                    "id" :> Part(id, TRUE) @@ "in" :> Part(Comp("Dir"), FALSE)
                    @@ "label" :> Part(Comp("Tag"), TRUE))),
                 Component("Item", item),
                 Component("Any", AnyOf(<<Comp("Dir"), Num>>)),
                 Component("Tag", AnyOf(<<Str>>)),
                 Component("Home", Alias(Comp("Dir")))>>,
     ops |-> {Op("files", "getV", "v2025", Str, Comp("File"))}]

Tagged == Union("folder" :> Comp("Dir") @@ "up" :> Comp("Up"))

\* The first merges.  The others conflict: below a Dir, in an id; in what tells an
\* Item's variants apart; in a File's bag.
Groves ==
    {<<Grove, v>> : v \in {GroveVersion(Str, Tagged, <<>>),
                           GroveVersion(Num, Tagged, <<>>),
                           GroveVersion(Str, AnyOf(<<Comp("File"), Comp("Dir")>>), <<>>),
                           GroveVersion(Str, Tagged, Bag :> Part(Num, FALSE))}}

MCPublications ==
    {<<b>> : b \in Bases \cup {Grove}} \cup Versions \cup Groves
MCPath == {"schemas", "files", "folders"}
====
