---------------------------- MODULE TypedPatch ----------------------------
(***************************************************************************)
(* The calls of a typed collection (TypedCalls) over the JSON values of    *)
(* the code: what a patch built from changes holds, when it is refused,    *)
(* and what bind lets pass.  The configurations give the constants of      *)
(* TypedCalls the functions of JsonPatch and ModelShape, and these three.  *)
(***************************************************************************)
EXTENDS TypedCalls, ModelShape

CompileRoot(d) == Compile(d, FALSE)

DiffRoot(before, after) == Diff(before, after, <<>>)

(* The server replaces where the client adds.                              *)
ServerApply(doc, ops) == ApplyOps(doc, ops, "substitute")
-----------------------------------------------------------------------------
RECURSIVE Conforms(_, _)
Conforms(v, a) ==
  CASE a.type = "any"    -> v \notin {Void, Failed}
    [] v = Null          -> a.optional
    [] v.kind = "number" -> /\ a.type \in {"int", "float", "intOrFloat"}
                            /\ Held[v.text] = v.text
    [] v.kind = "string" -> a.type = "str"
    [] v.kind = "array"  ->
         /\ a.type = "list"
         /\ \A i \in DOMAIN v.items : Conforms(v.items[i], a.item)
    [] v.kind = "object" ->
         /\ a.type = "model"
         /\ DOMAIN v.fields = FieldNames(a.class)
         /\ \A n \in FieldNames(a.class) :
              Conforms(v.fields[n], FieldNamed(a.class, n).ann)

InstanceOf(m, c) ==
  Conforms(m, [type |-> "model", optional |-> FALSE, class |-> c])

RECURSIVE LosesDigits(_)
LosesDigits(v) ==
  CASE v.kind = "number" ->
         NumberOf[Written[Held[v.text]]] # NumberOf[v.text]
    [] v.kind = "array"  -> \E i \in DOMAIN v.items : LosesDigits(v.items[i])
    [] v.kind = "object" -> \E k \in DOMAIN v.fields : LosesDigits(v.fields[k])
    [] OTHER             -> FALSE

(* Reference definitions, which know nothing of operations or paths: when  *)
(* two values are the same, and what an edit from before to after should   *)
(* make of a document that holds before.                                   *)
RECURSIVE Valued(_)
Valued(v) ==
  CASE v.kind = "number" -> [kind |-> "number", value |-> NumberOf[v.text]]
    [] v.kind = "array"  -> Array([i \in DOMAIN v.items |->
                                     Valued(v.items[i])])
    [] v.kind = "object" -> Object([k \in DOMAIN v.fields |->
                                      Valued(v.fields[k])])
    [] OTHER             -> v

SameValue(v, w) == v.kind = w.kind /\ Valued(v) = Valued(w)

BothAre(kind, v, w) == v.kind = kind /\ w.kind = kind

RECURSIVE Merged(_, _)
Merged(before, after) ==
  CASE SameValue(before, after) -> before
    [] ~SameValue(before, after) /\ BothAre("object", before, after) ->
         Object([k \in DOMAIN after.fields |->
                   Merged(Child(before, k), after.fields[k])])
    [] ~SameValue(before, after) /\ BothAre("array", before, after) ->
         Array([i \in DOMAIN after.items |->
                  IF i \in DOMAIN before.items
                  THEN Merged(before.items[i], after.items[i])
                  ELSE after.items[i]])
    [] OTHER -> after

(* The last to write the document was the user, with the patch at hand.    *)
PatchLanded ==
  /\ patch # Void
  /\ patch.target # Void
  /\ landed = [target |-> patch.target, version |-> patch.version + 1]

(* When a patch built from changes has been accepted, the document holds   *)
(* what the edited model is written as, and where that is the same as what *)
(* was read, at whatever depth, the document holds its own notation still: *)
(* diff, the order and the indices of its operations and the server that   *)
(* follows them overwrite nothing else.                                    *)
LandsAsMerge == PatchLanded => stored = Merged(item.content, After)

(* create_patch_from_changes refuses an edit only when it replaces some    *)
(* element of an array, that is, when it changes a scalar element or the   *)
(* kind of an element, in an array at any depth.  Arrays may grow and      *)
(* shrink, and objects and arrays in them change, in one edit.             *)
RECURSIVE ReplacesElement(_, _)
ReplacesElement(before, after) ==
  \/ /\ BothAre("object", before, after)
     /\ \E k \in DOMAIN before.fields \cap DOMAIN after.fields :
          ReplacesElement(before.fields[k], after.fields[k])
  \/ /\ BothAre("array", before, after)
     /\ \E i \in DOMAIN before.items \cap DOMAIN after.items :
          LET old == before.items[i]
              new == after.items[i]
          IN  \/ /\ ~SameValue(old, new)
                 /\ ~BothAre("object", old, new) /\ ~BothAre("array", old, new)
              \/ ReplacesElement(old, new)

RefusedOnlyOverReplacement ==
  outcome = "unpatchable" => ReplacesElement(Before, After)

(* A patch built from changes removes no field that the schema knows from  *)
(* an object that stays: python_from_sot drops the keys that a model does  *)
(* not have, and diff takes what is dropped for removed, so the comparison *)
(* at bind must have found every nested object and list of the schema to   *)
(* have its counterpart in the class.                                      *)
RECURSIVE KeepsFields(_, _, _)
KeepsFields(before, after, e) ==
  CASE e.kind = "object" /\ BothAre("object", before, after) ->
         \A k \in DOMAIN e.children \cap DOMAIN before.fields :
           /\ k \in DOMAIN after.fields
           /\ KeepsFields(before.fields[k], after.fields[k], e.children[k])
    [] e.kind = "array" /\ e.items # Void /\ BothAre("array", before, after) ->
         \A i \in DOMAIN before.items \cap DOMAIN after.items :
           KeepsFields(before.items[i], after.items[i], e.items)
    [] OTHER -> TRUE

FieldsKept ==
  patch # Void /\ patch.target # Void =>
    KeepsFields(item.content, Served(item.content, patch.ops, schema), schema)

(* What bind lets pass although it cannot be written back: a field that is *)
(* read by another name, Any for a number (it comes as a string), a model  *)
(* inside a dataclass, and a default outside the schema.                   *)
RECURSIVE MentionsModel(_)
MentionsModel(a) ==
  \/ a.type = "model"
  \/ a.type = "list" /\ MentionsModel(a.item)

RECURSIVE Unwritable(_, _), UnwritableAs(_, _)
UnwritableAs(a, e) ==
  \/ e.kind = "number" /\ a.type = "any"
  \/ e.kind = "object" /\ Unwritable(a.class, e)
  \/ e.kind = "array" /\ e.items # Void /\ UnwritableAs(a.item, e.items)

Unwritable(c, e) ==
  \E i \in DOMAIN c.fields :
    LET f == c.fields[i]
        child == e.children[e.order[i]]
    IN  \/ InputName(c, f) # WireName(c, f)
        \/ UnwritableAs(f.ann, child)
        \/ c.style = "dataclass" /\ MentionsModel(f.ann)
        \/ f.default # Void
             /\ Normalize(SerializeAs(f.default, f.ann), child) = Failed

(* An item that was not edited can always be written back, but for these   *)
(* and for a number that from_python rounds.                               *)
WritesFit ==
  outcome \in {"typeError", "schemaError"} /\ Unedited =>
    Unwritable(Class, schema) \/ LosesDigits(item.content)

=============================================================================
