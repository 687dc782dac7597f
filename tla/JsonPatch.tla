----------------------------- MODULE JsonPatch -----------------------------
(***************************************************************************)
(* The functions on JSON values: schema normalisation (_schema/apply.py),  *)
(* RFC 6902 application and diff (_patch/patch.py).                        *)
(*                                                                         *)
(* A path is a sequence of segments, an array index being one of           *)
(* IndexNames.                                                             *)
(***************************************************************************)
EXTENDS JsonValues, Naturals, Sequences, TLC
LOCAL INSTANCE SequencesExt

CONSTANTS
  KeyOrder, (* the keys of objects, in the order the code meets them        *)
  NumberOf  (* the value of each number lexeme                              *)

IndexNames  == <<"0", "1", "2", "3", "4", "5">>
AppendIndex == "-"

(* parse_array_index, as a position of a TLA+ sequence; 0 if it is none.   *)
Position(seg) ==
  IF seg \in Range(IndexNames)
  THEN CHOOSE i \in DOMAIN IndexNames : IndexNames[i] = seg
  ELSE 0

(* values_equal is structural, and by value for numbers ("1" equals "1.0").  *)
RECURSIVE ValuesEqual(_, _)

(* Slip: comparing the text of numbers.                                    *)
ValuesEqualByText(a, b) == a = b

ValuesEqual(a, b) ==
  /\ a.kind = b.kind
  /\ a.kind = "number" => NumberOf[a.text] = NumberOf[b.text]
  /\ a.kind = "string" => a.text = b.text
  /\ a.kind = "array" =>
       /\ Len(a.items) = Len(b.items)
       /\ \A i \in DOMAIN a.items : ValuesEqual(a.items[i], b.items[i])
  /\ a.kind = "object" =>
       /\ DOMAIN a.fields = DOMAIN b.fields
       /\ \A k \in DOMAIN a.fields : ValuesEqual(a.fields[k], b.fields[k])
-----------------------------------------------------------------------------
(***************************************************************************)
(* apply_schema.  An entry of a compiled schema has a kind, children (for  *)
(* an object) with their defaults, an entry for the items of an array      *)
(* (Void if they may be anything), and the set of numbers or strings that  *)
(* its constraints admit.                                                  *)
(***************************************************************************)
RECURSIVE Normalize(_, _)

NormalizeField(source, k, entry) ==
  IF k \notin DOMAIN entry.children THEN source[k]
  ELSE IF k \in DOMAIN source THEN Normalize(source[k], entry.children[k])
  ELSE Normalize(entry.children[k].default, entry.children[k])

NormalizeObject(source, entry) ==
  LET children == DOMAIN entry.children
      missing  == children \ DOMAIN source
      filled   == {k \in missing : entry.children[k].default # Void}
      fields   == [k \in DOMAIN source \cup filled |->
                     NormalizeField(source, k, entry)]
  IN  IF \/ \E k \in missing \ filled : entry.children[k].required
         \/ Failed \in Range(fields)
      THEN Failed ELSE Object(fields)

NormalizeArray(items, entry) ==
  LET normal == [i \in DOMAIN items |->
                   IF entry.items = Void THEN items[i]
                   ELSE Normalize(items[i], entry.items)]
  IN  IF Failed \in Range(normal) THEN Failed ELSE Array(normal)

Normalize(value, entry) ==
  CASE value = Null -> IF entry.nullable \/ entry.kind = "null"
                       THEN Null ELSE Failed
    [] value # Null /\ value.kind # entry.kind -> Failed
    [] value.kind = "object" /\ entry.kind = "object" ->
         NormalizeObject(value.fields, entry)
    [] value.kind = "array" /\ entry.kind = "array" ->
         NormalizeArray(value.items, entry)
    [] value.kind = "number" /\ entry.kind = "number" ->
         IF NumberOf[value.text] \in entry.admits THEN value ELSE Failed
    [] value.kind = "string" /\ entry.kind = "string" ->
         IF value.text \in entry.admits THEN value ELSE Failed
-----------------------------------------------------------------------------
(***************************************************************************)
(* Applying a patch.                                                       *)
(***************************************************************************)
Child(doc, seg) ==
  CASE doc.kind = "object" ->
         IF seg \in DOMAIN doc.fields THEN doc.fields[seg] ELSE Void
    [] doc.kind = "array" ->
         IF Position(seg) \in DOMAIN doc.items
         THEN doc.items[Position(seg)] ELSE Void
    [] OTHER -> Void

Get(doc, path) == FoldLeft(Child, doc, path)

WithField(doc, k, value) == Object((k :> value) @@ doc.fields)

WithoutField(doc, k) == Object(Restrict(doc.fields, DOMAIN doc.fields \ {k}))

(* _mutate in the container that holds the last segment.  mode is "add",   *)
(* "remove", or "substitute" for what RFC 6902 means by replace.           *)
EditObject(doc, k, mode, value) ==
  CASE mode = "remove" ->
         IF k \in DOMAIN doc.fields THEN WithoutField(doc, k) ELSE Failed
    [] OTHER -> WithField(doc, k, value)

EditArray(doc, seg, mode, value) ==
  LET i == Position(seg)
      n == Len(doc.items)
  IN  CASE mode = "add" /\ (seg = AppendIndex \/ i = n + 1) ->
             Array(Append(doc.items, value))
        [] mode = "add" /\ i \in 1..n -> Array(InsertAt(doc.items, i, value))
        [] mode = "substitute" /\ i \in 1..n ->
             Array(ReplaceAt(doc.items, i, value))
        [] mode = "remove" /\ i \in 1..n -> Array(RemoveAt(doc.items, i))
        [] OTHER -> Failed

RECURSIVE Edit(_, _, _, _)
Edit(doc, path, mode, value) ==
  LET seg   == Head(path)
      child == Child(doc, seg)
  IN  CASE Len(path) = 1 /\ doc.kind = "object" ->
             EditObject(doc, seg, mode, value)
        [] Len(path) = 1 /\ doc.kind = "array" ->
             EditArray(doc, seg, mode, value)
        [] Len(path) > 1 /\ child # Void ->
             LET new == Edit(child, Tail(path), mode, value)
             IN  CASE new = Failed -> Failed
                   [] doc.kind = "object" -> WithField(doc, seg, new)
                   [] OTHER ->
                        Array(ReplaceAt(doc.items, Position(seg), new))
        [] OTHER -> Failed

(* _add, and _remove of the whole document.                                *)
Put(doc, path, mode, value) ==
  CASE path # <<>>                   -> Edit(doc, path, mode, value)
    [] path = <<>> /\ mode = "remove" -> Void
    [] OTHER                          -> value

Op(op, path, value) ==
  [op |-> op, path |-> path, value |-> value, from |-> <<>>]

FromOp(op, from, path) ==
  [op |-> op, path |-> path, value |-> Void, from |-> from]

(* _apply_op; replacing is the mode its replace uses.                      *)
ApplyOp(doc, o, replacing) ==
  LET there == Get(doc, o.path)
      from  == Get(doc, o.from)
  IN  CASE o.op = "add"     -> Put(doc, o.path, "add", o.value)
        [] o.op = "remove"  -> Put(doc, o.path, "remove", Void)
        [] o.op = "replace" ->
             IF there = Void THEN Failed
             ELSE Put(doc, o.path, replacing, o.value)
        [] o.op = "test" ->
             IF ValuesEqual(there, o.value) THEN doc ELSE Failed
        [] o.op = "copy" ->
             IF from = Void THEN Failed ELSE Put(doc, o.path, "add", from)
        [] o.op = "move" ->
             IF from = Void \/ IsStrictPrefix(o.from, o.path) THEN Failed
             ELSE Put(Put(doc, o.from, "remove", Void), o.path, "add", from)

(* A document that was removed as a whole can be added again.              *)
ApplyOps(doc, ops, replacing) ==
  FoldLeft(LAMBDA d, o : IF d = Failed THEN Failed
                         ELSE ApplyOp(d, o, replacing),
           doc, ops)

(* The code adds where RFC 6902 replaces, in arrays as in objects.         *)
ReplaceMode == "add"

(* apply_patch: all operations, then the schema.                           *)
ApplyPatch(doc, ops, entry) ==
  LET out == ApplyOps(doc, ops, ReplaceMode)
  IN  IF out \in {Failed, Void} THEN Failed ELSE Normalize(out, entry)
-----------------------------------------------------------------------------
(***************************************************************************)
(* diff.                                                                   *)
(***************************************************************************)
RECURSIVE Diff(_, _, _)

(* Slips that the two must not make: fields that are gone are not removed; *)
(* surplus elements are removed from the front of the surplus.             *)
DiffObjectKeeping(before, after, path) ==
  LET inAfter == SelectSeq(KeyOrder, LAMBDA k : k \in DOMAIN after.fields)
  IN  FlattenSeq([i \in DOMAIN inAfter |->
        Diff(Child(before, inAfter[i]), after.fields[inAfter[i]],
             Append(path, inAfter[i]))])

DiffObject(before, after, path) ==
  LET inAfter == SelectSeq(KeyOrder, LAMBDA k : k \in DOMAIN after.fields)
      gone    == SelectSeq(KeyOrder, LAMBDA k :
                   k \in DOMAIN before.fields \ DOMAIN after.fields)
  IN  FlattenSeq([i \in DOMAIN inAfter |->
        Diff(Child(before, inAfter[i]), after.fields[inAfter[i]],
             Append(path, inAfter[i]))])
      \o [i \in DOMAIN gone |-> Op("remove", Append(path, gone[i]), Void)]

SharedOps(before, after, path) ==
  LET least == IF Len(before.items) < Len(after.items)
               THEN Len(before.items) ELSE Len(after.items)
  IN  FlattenSeq([i \in 1..least |->
        Diff(before.items[i], after.items[i], Append(path, IndexNames[i]))])

AppendOps(before, after, path) ==
  LET m == Len(before.items)
  IN  [i \in 1..(IF Len(after.items) > m THEN Len(after.items) - m ELSE 0) |->
         Op("add", Append(path, IndexNames[m + i]), after.items[m + i])]

Surplus(before, after) ==
  IF Len(before.items) > Len(after.items)
  THEN Len(before.items) - Len(after.items) ELSE 0

DiffArrayForward(before, after, path) ==
  SharedOps(before, after, path)
    \o [i \in 1..Surplus(before, after) |->
          Op("remove", Append(path, IndexNames[Len(after.items) + i]), Void)]
    \o AppendOps(before, after, path)

(* Surplus elements are removed from the last one down, so that no removal *)
(* moves an element that is still to be removed.                           *)
DiffArray(before, after, path) ==
  SharedOps(before, after, path)
    \o [i \in 1..Surplus(before, after) |->
          Op("remove",
             Append(path, IndexNames[Len(before.items) + 1 - i]), Void)]
    \o AppendOps(before, after, path)

Diff(before, after, path) ==
  IF ValuesEqual(before, after) THEN <<>>
  ELSE CASE before = Void -> <<Op("add", path, after)>>
         [] after = Void  -> <<Op("remove", path, Void)>>
         [] before.kind = "object" /\ after.kind = "object" ->
              DiffObject(before, after, path)
         [] before.kind = "array" /\ after.kind = "array" ->
              DiffArray(before, after, path)
         [] OTHER -> <<Op("replace", path, after)>>
=============================================================================
