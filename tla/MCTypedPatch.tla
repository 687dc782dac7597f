--------------------------- MODULE MCTypedPatch ---------------------------
(***************************************************************************)
(* Setups for TLC.  "parts" is the large one: a number, an optional        *)
(* nullable number and an array of at most MaxParts nullable objects, with *)
(* one client.  Each of the others has one feature of the classes, the     *)
(* schemas or the calls, and few documents.                                *)
(***************************************************************************)
EXTENDS TypedPatch
LOCAL INSTANCE SequencesExt

CONSTANTS
  MaxParts, (* bound on the length of the array                             *)
  Titles    (* lexemes of the title in the documents of the server          *)

MCKeyOrder == <<"title", "note", "box", "parts", "price", "qty", "count">>
Long       == "1234567.5"
Rounded    == "1.23457E+06"
MCLexemes  == {"1", "1.0", "2", "3", "1.5", Long, Rounded, "1234570"}
MCNumberOf == [t \in MCLexemes |->
                 CASE t \in {"1", "1.0"} -> 1 [] t = "2" -> 2 [] t = "3" -> 3
                   [] t = "1.5" -> 4 [] t = Long -> 8 [] OTHER -> 9]
MCIntegral == MCLexemes \ {"1.5", Long, Rounded}
MCWritten  == [t \in MCLexemes |->
                 CASE t = Long -> Rounded [] t = "1.0" -> "1"
                   [] t = Rounded -> "1234570" [] OTHER -> t]

Num(text) == Number(Held[text])
-----------------------------------------------------------------------------
(* Schema documents.                                                       *)
Doc(kind, name) ==
  [kind |-> kind, name |-> name, required |-> TRUE, nullable |-> FALSE,
   default |-> Void, children |-> <<>>, items |-> Void, admits |-> {},
   sane |-> TRUE]

NumberDoc(name) == [Doc("number", name) EXCEPT !.admits = {1, 2}]
PartDoc  == [Doc("object", NoName) EXCEPT !.required = FALSE,
               !.nullable = TRUE, !.children = <<NumberDoc("qty")>>]
PartsDoc == [Doc("array", "parts") EXCEPT !.items = PartDoc,
               !.default = Array(<<>>)]
NoteDoc  == [NumberDoc("note") EXCEPT !.required = FALSE, !.nullable = TRUE]
RootDoc(children) == [Doc("object", NoName) EXCEPT !.children = children]

(* Classes.                                                                *)
Ann(type) == [type |-> type, optional |-> FALSE, item |-> Void, class |-> Void]
ModelAs(c) == [Ann("model") EXCEPT !.class = c]
Optional(a) == [a EXCEPT !.optional = TRUE]
ListOf(a) == [Ann("list") EXCEPT !.item = a]

FieldOf(name, ann, default) ==
  [name |-> name, serialization |-> NoName, alias |-> NoName,
   validation |-> NoName, ann |-> ann, default |-> default]
Plain(name, type) == FieldOf(name, Ann(type), Void)

ClassOf(style, fields) == [style |-> style, fields |-> fields]
Pydantic(fields) == ClassOf("pydantic", fields)

PartClass  == Pydantic(<<Plain("qty", "int")>>)
PartsField == FieldOf("parts", ListOf(Optional(ModelAs(PartClass))), Void)
NoteField  == FieldOf("note", Optional(Ann("int")), Null)

(* Documents and instances.                                                *)
Part(number) == Object("qty" :> number)
Parts(values) == {Array(s) : s \in BoundedSeq(values, MaxParts)}

Document(title, note, parts) ==
  Object(("title" :> title) @@ ("parts" :> parts)
           @@ IF note = Void THEN <<>> ELSE ("note" :> note))

PartsModels ==
  {Document(Num(t), n, p) : t \in {"1", "2"}, n \in {Null, Num("1")},
     p \in Parts({Null, Part(Num("1")), Part(Num("2"))})}
    \cup {Document(Num("3"), Null, Array(<<>>))} \* the schema admits no 3

PartsSetup ==
  [schema     |-> RootDoc(<<NumberDoc("title"), NoteDoc, PartsDoc>>),
   class      |-> Pydantic(<<Plain("title", "int"), NoteField, PartsField>>),
   contents   |-> {Document(Number(t), n, p) : t \in Titles,
                   n \in {Void, Null}, p \in Parts({Null, Part(Number("1"))})},
   overwrites |-> {Document(Number("2"), Null, Array(<<Null>>))},
   models     |-> PartsModels,
   fresh      |-> {}, extras |-> {{}},
   ops        |->
     { <<Op("test", <<"title">>, Number("1")),
         Op("replace", <<"title">>, Number("2"))>>,
       <<Op("remove", <<"note">>, Void)>>,
       <<FromOp("move", <<"parts", "0">>, <<"parts", "1">>)>>,
       <<FromOp("copy", <<"note">>, <<"title">>)>>,
       <<Op("replace", <<"parts", "0">>, Part(Number("2"))),
         Op("remove", <<"parts", "1">>, Void)>>,
       <<Op("replace", <<>>, Document(Number("2"), Null, Array(<<>>)))>> },
   bindings   |-> {"b1"}, listed |-> TRUE, maxVersion |-> 3]

(* A document with a title and a price, and the class for it.              *)
Priced(title, price) ==
  Object(("title" :> title)
           @@ IF price = Void THEN <<>> ELSE ("price" :> price))

PriceDoc == [Doc("number", "price") EXCEPT !.admits = {1, 2, 4, 8, 9}]
PricedRoot(price) == RootDoc(<<NumberDoc("title"), price>>)
PricedClass(style, field) == ClassOf(style, <<Plain("title", "int"), field>>)

Small(price, style, field) ==
  [schema     |-> PricedRoot(price),
   class      |-> PricedClass(style, field),
   contents   |-> {Priced(Number("1.0"), Number("1.5"))},
   overwrites |-> {Priced(Number("2"), Number("1.5"))},
   models     |-> {Priced(Num("2"), Num("1.5"))},
   fresh      |-> {}, extras |-> {{}}, ops |-> {}, bindings |-> {"b1"},
   listed     |-> TRUE, maxVersion |-> 3]

OptionalPrice == [PriceDoc EXCEPT !.required = FALSE]
NullablePrice == [OptionalPrice EXCEPT !.nullable = TRUE]
Price(ann, default) == FieldOf("price", ann, default)
Float  == Ann("float")
Amount == FieldOf("amount", Float, Void)

(* Two clients, and every call of the collection.  A patch may be empty,   *)
(* and the document removed and added within one.                          *)
CallsSetup ==
  [Small(OptionalPrice, "pydantic", Price(Float, Num("2")))
     EXCEPT !.bindings = {"b1", "b2"},
            !.contents = {Void, Priced(Number("1.0"), Number("1.5"))},
            !.ops      = {<<Op("remove", <<"price">>, Void)>>,
                          <<Op("remove", <<"title">>, Void)>>, <<>>,
                          <<Op("remove", <<>>, Void),
                            Op("add", <<>>, Priced(Number("1"), Void))>>},
            !.fresh    = {Priced(Num(t), Num("2")) : t \in {"2", "3"}},
            !.extras   = {{}, {"tag"}, {"price"}, {"$"}}]

(* A number that from_python rounds.                                       *)
LongSetup ==
  [Small(PriceDoc, "pydantic", Price(Float, Void))
     EXCEPT !.contents = {Priced(Number("1"), Number(Long))},
            !.models   = {Priced(Num("2"), Num(Long))}]

(* Aliases.                                                                *)
Renamed(field) ==
  [Small(OptionalPrice, "pydantic", field)
     EXCEPT !.contents = {Priced(Number("1"), p) :
                            p \in {Void, Number("1.5")}},
            !.models   = {Object(("title" :> Num("2"))
                                   @@ ("amount" :> Num("2")))}]

WrittenAs(default) ==
  [Amount EXCEPT !.serialization = "price", !.default = default]

(* A class that reads less than the schema allows.                         *)
NullSetup ==
  [Small(NullablePrice, "pydantic", Price(Float, Num("2")))
     EXCEPT !.contents = {Priced(Number("1"), p) : p \in {Null, Void}}]
AbsentSetup ==
  [Small(OptionalPrice, "dataclass", Price(Float, Void))
     EXCEPT !.contents = {Priced(Number("1"), p) : p \in {Number("2"), Void}}]

(* Parts in a dataclass, and parts of a class with another field.          *)
NestedSetup(style, class, part) ==
  [Small(PriceDoc, style, PartsField)
     EXCEPT !.schema   = RootDoc(<<NumberDoc("title"), PartsDoc>>),
            !.class    = ClassOf(style, <<Plain("title", "int"),
                           FieldOf("parts", ListOf(Optional(ModelAs(class))),
                                   Void)>>),
            !.contents = {Document(Number("1"), Void, Array(p)) :
                            p \in {<<>>, <<Part(Number("1"))>>}},
            !.overwrites = {Document(Number("2"), Void, Array(<<Null>>))},
            !.models   = {Document(Num("2"), Void, Array(p)) :
                            p \in {<<>>, <<part, Null>>}}]

(* Text for the price; a price that the server fills in; any elements.     *)
TextSetup ==
  [Small([Doc("string", "price") EXCEPT !.admits = {"free"}], "pydantic",
         Plain("price", "str"))
     EXCEPT !.contents   = {Priced(Number("1"), String("free"))},
            !.overwrites = {Priced(Number("2"), String("free"))},
            !.models     = {Priced(Num("1"), String("dear"))}]
FilledSetup ==
  [Small([PriceDoc EXCEPT !.default = Number("2")], "pydantic",
         Price(Float, Num("2")))
     EXCEPT !.ops = {<<Op("remove", <<"price">>, Void)>>}]
ElementsSetup ==
  [NestedSetup("dataclass", PartClass, Part(Num("2")))
     EXCEPT !.schema = RootDoc(<<NumberDoc("title"),
                                 [PartsDoc EXCEPT !.items = Void]>>),
            !.class  = ClassOf("dataclass", <<Plain("title", "int"),
                         FieldOf("parts", ListOf(Ann("int")), Void)>>),
            !.contents = {Document(Number("1"), Void, Array(<<Number("1")>>))},
            !.overwrites = {Document(Number("1"), Void, Array(<<Null>>))},
            !.models = {Document(Num("1"), Void,
                                 Array(<<Num("2"), Num("1")>>))}]

(* Parts whose class has a field that they lack, or whose count the schema *)
(* does not know; parts in arrays of arrays.                               *)
NestedParts(s, part) ==
  [s EXCEPT !.schema = RootDoc(<<NumberDoc("title"),
                                     [PartsDoc EXCEPT !.items = part]>>)]
NotedClass == Pydantic(<<Plain("qty", "int"), NoteField>>)
NotedSetup ==
  [NestedParts(NestedSetup("pydantic", NotedClass,
                           Object(("qty" :> Num("2")) @@ ("note" :> Null))),
               [PartDoc EXCEPT !.children = <<NumberDoc("qty"), NoteDoc>>])
     EXCEPT !.models = {Document(Num("2"), Void, Array(p)) :
                          p \in {<<>>,
                                 <<Object(("qty" :> Num("1"))
                                            @@ ("note" :> Null))>>}}]
CountedSetup ==
  NestedParts(NestedSetup("pydantic",
                          Pydantic(<<FieldOf("count", Ann("int"), Num("2"))>>),
                          Object("count" :> Num("2"))),
              [PartDoc EXCEPT !.children =
                 <<[NumberDoc("qty") EXCEPT !.required = FALSE]>>])
TwiceSetup ==
  [NestedParts(NestedSetup("dataclass", PartClass, Null),
               [Doc("array", NoName) EXCEPT !.items = PartDoc])
     EXCEPT !.class.fields[2].ann = ListOf(ListOf(ModelAs(PartClass))),
            !.contents = {Document(Number("1"), Void, Array(p)) :
                            p \in {<<Array(<<>>)>>,
                                   <<Array(<<Part(Number("1"))>>)>>}},
            !.overwrites = {},
            !.models = {Document(Num("2"), Void, Array(p)) :
                          p \in {<<>>, <<Array(<<Part(Num("2"))>>)>>}}]

(* An array of which the schema does not say what is in it, read as it is: *)
(* numbers come as strings.                                                *)
MixedSetup ==
  [NestedSetup("pydantic", PartClass, Null)
     EXCEPT !.schema = RootDoc(<<NumberDoc("title"),
                                 [PartsDoc EXCEPT !.items = Void]>>),
            !.class.fields[2].ann = ListOf(Ann("any")),
            !.contents = {Document(Number("1"), Void, Array(p)) :
                            p \in {<<Number("1"), Part(Number("1"))>>,
                                   <<String("x"), Part(String("s"))>>}},
            !.models = {Document(Num(t), Void, Array(p)) :
                          t \in {"1", "2"},
                          p \in {<<String("1"), Part(String("1"))>>,
                                 <<String("x"), Part(String("t"))>>,
                                 <<String("y"), Part(String("t"))>>,
                                 <<String("x")>>, <<Num("1")>>}}]

(* Parts in a box.                                                         *)
Boxed(title, parts) ==
  Object(("title" :> title) @@ ("box" :> Object("parts" :> Array(parts))))
BoxSetup ==
  [Small(PriceDoc, "pydantic", PartsField)
     EXCEPT !.schema     = RootDoc(<<NumberDoc("title"),
                             [Doc("object", "box") EXCEPT
                                !.children = <<PartsDoc>>]>>),
            !.class      = Pydantic(<<Plain("title", "int"),
                             FieldOf("box", ModelAs(Pydantic(<<PartsField>>)),
                                     Void)>>),
            !.contents   = {Boxed(Number("1.0"),
                                   <<Null, Part(Number("1.0"))>>)},
            !.overwrites = {Boxed(Number("2"), <<Part(Number("1"))>>)},
            !.models     = {Boxed(Num("1"), p) :
                              p \in {<<Part(Num("1")), Part(Num("2"))>>,
                                     <<Null, Part(Num("2"))>>,
                                     <<>>, <<Null>>,
                                     <<Null, Part(Num("1")), Null>>}}]

(* A field that is always null.                                            *)
NullKindSetup ==
  [Small([Doc("null", "price") EXCEPT !.required = FALSE], "pydantic",
         Plain("price", "str"))
     EXCEPT !.contents   = {Void, Priced(Number("1"), Null)},
            !.overwrites = {Priced(Number("2"), Null)},
            !.models     = {},
            !.fresh      = {Priced(Num("2"), String("free"))}]

MCNames ==
  {"parts", "calls", "long", "alias", "writeAlias", "writeAliasRequired",
   "any", "list", "int", "union", "unionOptional", "optional", "null",
   "absent", "badDefault", "nested", "nestedDataclass", "nestedOther",
   "text", "textForNumber", "filled", "filledBadly", "elements", "wireName",
   "swapped", "duplicate", "defaultOfKind", "readAlias", "dict", "noted",
   "twice", "mixed", "box", "nullKind", "notListed"}
MCSetups == [n \in MCNames |->
  CASE n = "parts" -> PartsSetup
  [] n = "calls" -> CallsSetup
  [] n = "long" -> LongSetup
  [] n = "alias" ->
        Renamed([Amount EXCEPT !.alias = "price", !.default = Num("2")])
  [] n = "writeAlias" -> Renamed(WrittenAs(Num("2")))
  [] n = "writeAliasRequired" -> Renamed(WrittenAs(Void))
  [] n = "any" -> Small(PriceDoc, "pydantic", Plain("price", "any"))
  [] n = "list" ->
        [Small(PriceDoc, "pydantic", Price(ListOf(Ann("int")), Void))
           EXCEPT !.models = {Priced(Num("2"), Array(<<>>))}]
  [] n = "int" -> Small(PriceDoc, "pydantic", Plain("price", "int"))
  [] n = "union" -> Small(PriceDoc, "pydantic", Plain("price", "intOrFloat"))
  [] n = "unionOptional" ->
        Small(NullablePrice, "pydantic",
              Price(Optional(Ann("intOrFloat")), Null))
  [] n = "optional" ->
        Small(PriceDoc, "pydantic", Price(Optional(Float), Void))
  [] n = "null" -> NullSetup
  [] n = "absent" -> AbsentSetup
  [] n = "badDefault" ->
        [Small(OptionalPrice, "dataclass", Price(Float, Num("3")))
           EXCEPT !.contents = {Priced(Number("1"), Void)}]
  [] n = "nested" -> NestedSetup("pydantic", PartClass, Part(Num("2")))
  [] n = "nestedDataclass" ->
        NestedSetup("dataclass", PartClass, Part(Num("2")))
  [] n = "nestedOther" -> CountedSetup
  [] n = "text" -> TextSetup
  [] n = "textForNumber" ->
        [Small(PriceDoc, "pydantic", Plain("price", "str"))
           EXCEPT !.models = {Priced(Num("2"), String("free"))}]
  [] n = "filled" -> FilledSetup
  [] n = "filledBadly" ->
        [FilledSetup EXCEPT !.schema = PricedRoot([PriceDoc EXCEPT
                                         !.default = Number("3")])]
  [] n = "elements" -> ElementsSetup
  [] n = "wireName" ->
        Small(PriceDoc, "dataclass", [Amount EXCEPT !.serialization = "price"])
  [] n = "swapped" ->
        [Small(PriceDoc, "pydantic", Plain("price", "float"))
           EXCEPT !.class.fields = <<Plain("price", "float"),
                                     Plain("title", "int")>>]
  [] n = "duplicate" ->
        [Small(PriceDoc, "pydantic", Plain("price", "float"))
           EXCEPT !.schema.children =
                    <<NumberDoc("title"), NumberDoc("title")>>]
  [] n = "defaultOfKind" ->
        [Small([OptionalPrice EXCEPT !.default = Null], "pydantic",
               Price(Float, Num("2")))
           EXCEPT !.contents = {Priced(Number("1"), Void)}]
  [] n = "readAlias" ->
        [Small(OptionalPrice, "pydantic",
               [Price(Float, Num("2")) EXCEPT !.validation = "amount"])
           EXCEPT !.models = {Priced(Num("2"), Num("1"))}]
  [] n = "dict" ->
        [Small(PriceDoc, "pydantic",
               Price([Ann("generic") EXCEPT !.item = Ann("int")], Void))
           EXCEPT !.models = {}]
  [] n = "noted" -> NotedSetup
  [] n = "twice" -> TwiceSetup
  [] n = "mixed" -> MixedSetup
  [] n = "box" -> BoxSetup
  [] n = "nullKind" -> NullKindSetup
  [] n = "notListed" ->
        [Small(PriceDoc, "pydantic", Plain("price", "float"))
           EXCEPT !.listed = FALSE]]
-----------------------------------------------------------------------------
(* The documents of a setup: those at first, those written and created,    *)
(* and what the patches of any of them make of it.                         *)
RECURSIVE Reached(_, _, _, _)
Reached(s, e, documents, latest) ==
  LET new == UNION {{Served(d, ops, e) : ops \in PatchesOf(s, e, d)} :
                      d \in latest} \ (documents \cup {Failed})
  IN  IF new = {} THEN documents
      ELSE Reached(s, e, documents \cup new, new)

DocumentsOf(s) ==
  LET e     == CompileRoot(s.schema)
      first == (s.contents \cup s.overwrites
                  \cup {Detail(s, e, m) : m \in s.fresh}) \ {Void, Failed}
  IN  IF Binds(s) THEN Reached(s, e, first, first) ELSE {}
=============================================================================
