---------------------------- MODULE ModelShape ----------------------------
(***************************************************************************)
(* What binding a collection compares, and what a bound model class does   *)
(* to documents: the schema compiler (_schema/compile.py), the comparison  *)
(* of a class with a compiled schema, and the two conversions between a    *)
(* document and an instance of the class (schema_compat.py).               *)
(*                                                                         *)
(* A class is a pydantic model or a dataclass, with its fields in order:   *)
(* the Python name, the aliases (NoName if not given), the annotation and  *)
(* the default (Void if there is none), and nothing else: limits, excluded *)
(* fields, validators and serializers of its own are left out.  An         *)
(* annotation has a type, which is "int", "float", "intOrFloat", "str",    *)
(* "bool", "any", "model", "list" or "generic" (dict, tuple, ... of what   *)
(* item says), and says whether None is in the union.  An instance is an   *)
(* object whose keys are the Python names and whose numbers have one       *)
(* lexeme for each value; what an Any holds is a JSON value.               *)
(***************************************************************************)
EXTENDS JsonPatch
LOCAL INSTANCE SequencesExt

CONSTANTS
  NoName,   (* a name that is not given                                     *)
  Written,  (* the lexeme that from_python writes for each number: whole    *)
            (* numbers in full, others with six digits                      *)
  Integral  (* the lexemes of integers                                      *)

Kinds == {"object", "array", "string", "number", "boolean", "null"}
-----------------------------------------------------------------------------
(***************************************************************************)
(* compile_schema.  A schema document has the fields of the entry it       *)
(* describes; sane is FALSE if one of them has the wrong JSON type or is   *)
(* unknown.  Its min, max, integer, enum and length limits are what        *)
(* "admits" stands for.                                                    *)
(***************************************************************************)

(* _validate_default looks at the kind of a default, and no deeper.        *)
DefaultFits(d) ==
  \/ d.default = Void
  \/ d.default = Null /\ d.nullable
  \/ d.default.kind = d.kind

RECURSIVE Compile(_, _)
Compile(d, needsName) ==
  LET children == [i \in DOMAIN d.children |-> Compile(d.children[i], TRUE)]
      names    == [i \in DOMAIN d.children |-> d.children[i].name]
      items    == IF d.items = Void THEN Void ELSE Compile(d.items, FALSE)
  IN  IF \/ ~d.sane
         \/ d.kind \notin Kinds
         \/ needsName /\ d.name = NoName
         \/ Failed \in Range(children) \cup {items}
         \/ ~IsInjective(names)
         \/ ~DefaultFits(d)
      THEN Failed
      ELSE [kind |-> d.kind, required |-> d.required,
            nullable |-> d.nullable, default |-> d.default,
            admits |-> d.admits, items |-> items, order |-> names,
            children |-> [n \in Range(names) |->
                            children[CHOOSE i \in DOMAIN names :
                                       names[i] = n]]]
-----------------------------------------------------------------------------
(***************************************************************************)
(* check_model_schema_compatible.                                          *)
(***************************************************************************)

(* The name of a field in documents.  A dataclass field has its Python     *)
(* name whatever its metadata says: _dataclass_wire_name looks for a dict  *)
(* among the keys of a mapping.                                            *)
WireName(c, f) ==
  CASE c.style = "dataclass" -> f.name
    [] c.style = "pydantic" /\ f.serialization # NoName -> f.serialization
    [] c.style = "pydantic" /\ f.serialization = NoName /\ f.alias # NoName
         -> f.alias
    [] OTHER -> f.name

WireNames(c) == [i \in DOMAIN c.fields |-> WireName(c, c.fields[i])]

(* _strip_optional takes None out of a union of two only: the None of      *)
(* int | float | None stays, and the union is then no number type.         *)
AllowsNull(a) == a.optional /\ a.type # "intOrFloat"

(* Slip: text is accepted for a number, which to_python hands over as the  *)
(* string of its lexeme.                                                   *)
NumberTypeOrText(a) ==
  \/ a.type \in {"int", "float", "any", "str"}
  \/ a.type = "intOrFloat" /\ ~a.optional
  \/ /\ a.type \in {"list", "generic"}
     /\ a.item.type \in {"int", "float"} /\ ~a.item.optional

(* What is accepted for a number: any generic over int and float is.       *)
NumberType(a) ==
  \/ a.type \in {"int", "float", "any"}
  \/ a.type = "intOrFloat" /\ ~a.optional
  \/ /\ a.type \in {"list", "generic"}
     /\ a.item.type \in {"int", "float"} /\ ~a.item.optional

RECURSIVE ShapeMatches(_, _)

(* Slip: the elements of an array are not compared.                        *)
AnnotationMatchesOuter(a, e) ==
  /\ AllowsNull(a) => e.nullable \/ e.kind = "null"
  /\ CASE e.kind = "object" -> a.type = "model" /\ ShapeMatches(a.class, e)
       [] e.kind = "array"  -> a.type = "list"
       [] e.kind = "number" -> NumberType(a)
       [] e.kind = "string" -> a.type \in {"str", "any"}
       [] e.kind = "boolean" -> a.type \in {"bool", "any"}
       [] OTHER             -> TRUE

RECURSIVE AnnotationMatches(_, _)
AnnotationMatches(a, e) ==
  /\ AllowsNull(a) => e.nullable \/ e.kind = "null"
  /\ CASE e.kind = "object" -> a.type = "model" /\ ShapeMatches(a.class, e)
       [] e.kind = "array"  -> /\ a.type = "list"
                               /\ \/ e.items = Void
                                  \/ AnnotationMatches(a.item, e.items)
       [] e.kind = "number" -> NumberType(a)
       [] e.kind = "string" -> a.type \in {"str", "any"}
       [] e.kind = "boolean" -> a.type \in {"bool", "any"}
       [] OTHER             -> TRUE

ShapeMatches(c, e) ==
  /\ e.kind = "object"
  /\ WireNames(c) = e.order
  /\ \A i \in DOMAIN c.fields :
       LET f == c.fields[i]
           child == e.children[e.order[i]]
       IN  /\ AnnotationMatches(f.ann, child)
           /\ ~(child.required /\ f.default # Void /\ child.default = Void)
-----------------------------------------------------------------------------
(***************************************************************************)
(* python_from_sot: the validation is pydantic's, of what to_python makes  *)
(* of the document, where a number is the string of its lexeme.            *)
(***************************************************************************)

(* The name pydantic reads a field by.  A serialization alias is for       *)
(* writing only, and WireName does not look at a validation alias.         *)
InputName(c, f) ==
  CASE c.style = "pydantic" /\ f.validation # NoName -> f.validation
    [] c.style = "pydantic" /\ f.validation = NoName /\ f.alias # NoName
         -> f.alias
    [] OTHER -> f.name

(* A Python number, whatever the notation it was read in.                  *)
Held == [text \in DOMAIN NumberOf |->
           CHOOSE t \in DOMAIN NumberOf : NumberOf[t] = NumberOf[text]]

(* to_python, which is what an Any gets.                                   *)
RECURSIVE ToPython(_)
ToPython(v) ==
  CASE v.kind = "number" -> String(v.text)
    [] v.kind = "array"  -> Array([i \in DOMAIN v.items |->
                                     ToPython(v.items[i])])
    [] v.kind = "object" -> Object([k \in DOMAIN v.fields |->
                                      ToPython(v.fields[k])])
    [] OTHER             -> v

RECURSIVE ReadModel(_, _), ReadAs(_, _)

ReadAs(v, a) ==
  CASE a.type = "any" -> ToPython(v)
    [] a.type # "any" /\ v = Null -> IF a.optional THEN Null ELSE Failed
    [] v.kind = "number" /\ a.type \in {"float", "intOrFloat"} ->
         Number(Held[v.text])
    [] v.kind = "number" /\ a.type = "int" ->
         IF v.text \in Integral THEN Number(Held[v.text]) ELSE Failed
    [] v.kind \in {"number", "string"} /\ a.type = "str" -> String(v.text)
    [] v.kind = "array" /\ a.type = "list" ->
         LET items == [i \in DOMAIN v.items |-> ReadAs(v.items[i], a.item)]
         IN  IF Failed \in Range(items) THEN Failed ELSE Array(items)
    [] v.kind = "object" /\ a.type = "model" -> ReadModel(v, a.class)
    [] OTHER -> Failed

ReadField(v, c, f) ==
  IF InputName(c, f) \in DOMAIN v.fields
  THEN ReadAs(v.fields[InputName(c, f)], f.ann)
  ELSE IF f.default # Void THEN f.default ELSE Failed

FieldNamed(c, name) ==
  c.fields[CHOOSE i \in DOMAIN c.fields : c.fields[i].name = name]

FieldNames(c) == {c.fields[i].name : i \in DOMAIN c.fields}

ReadModel(v, c) ==
  LET fields == [n \in FieldNames(c) |-> ReadField(v, c, FieldNamed(c, n))]
  IN  IF Failed \in Range(fields) THEN Failed ELSE Object(fields)
-----------------------------------------------------------------------------
(***************************************************************************)
(* model_to_ordered_object.                                                *)
(***************************************************************************)
RECURSIVE Serialize(_, _), SerializeAs(_, _)
SerializeAs(v, a) ==
  CASE v.kind = "number" -> Number(Written[v.text])
    [] v.kind = "array" ->
         LET item == IF a.type = "list" THEN a.item ELSE a
         IN  Array([i \in DOMAIN v.items |-> SerializeAs(v.items[i], item)])
    [] v.kind = "object" /\ a.type = "model" -> Serialize(v, a.class)
    [] v.kind = "object" /\ a.type = "any" ->
         Object([k \in DOMAIN v.fields |-> SerializeAs(v.fields[k], a)])
    [] OTHER -> v

Serialize(m, c) ==
  LET wires == WireNames(c)
  IN  Object([w \in Range(wires) |->
                LET f == c.fields[CHOOSE i \in DOMAIN wires : wires[i] = w]
                IN  SerializeAs(m.fields[f.name], f.ann)])

RECURSIVE HoldsModel(_, _)
HoldsModel(v, a) ==
  \/ a.type = "model" /\ v.kind = "object"
  \/ /\ a.type = "list" /\ v.kind = "array"
     /\ \E i \in DOMAIN v.items : HoldsModel(v.items[i], a.item)

(* A pydantic model dumps what it holds.  The fields of a dataclass are    *)
(* given to from_python, which does not know the models in them.           *)
ToOrdered(m, c) ==
  IF /\ c.style = "dataclass"
     /\ \E n \in FieldNames(c) :
          HoldsModel(m.fields[n], FieldNamed(c, n).ann)
  THEN Failed ELSE Serialize(m, c)
=============================================================================
