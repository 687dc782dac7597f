---------------------------- MODULE JsonValues ----------------------------
(***************************************************************************)
(* The internal JSON values of the client (_json/value.py).  An object is  *)
(* a function from keys to values: the order of its fields is layout.  A   *)
(* number keeps its lexeme, since the code compares numbers by value and   *)
(* stores them as text; booleans are scalars like strings and are left     *)
(* out.                                                                    *)
(***************************************************************************)

Void   == [kind |-> "void"]   (* absence; never part of a value             *)
Failed == [kind |-> "failed"] (* PatchError, SchemaError or ValueError      *)
Null   == [kind |-> "null"]

Number(text) == [kind |-> "number", text |-> text]
String(text) == [kind |-> "string", text |-> text]
Array(s)     == [kind |-> "array", items |-> s]
Object(f)    == [kind |-> "object", fields |-> f]
=============================================================================
