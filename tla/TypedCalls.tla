---------------------------- MODULE TypedCalls ----------------------------
(***************************************************************************)
(* Typed collections (collection.py): bind compares a model class with the *)
(* schema of the deployment; get_doc gives a model and the content it was  *)
(* made from, the user edits the model, the client turns the difference or *)
(* an explicit list of operations into a patch, checks it by applying it,  *)
(* and posts it against the version read; create_doc and delete_doc write  *)
(* and remove the document.  The server keeps one document, applies its    *)
(* schema to what it stores, and somebody else writes it in between.       *)
(*                                                                         *)
(* What the calls do to JSON values is a parameter: TypedPatch gives each  *)
(* of these constants the function of the code that it is named after.     *)
(***************************************************************************)
EXTENDS JsonValues, Naturals

CONSTANTS
  CompileSchema(_),       (* compile_schema of a schema document, or Failed *)
  SchemaCompatible(_, _), (* check_model_schema_compatible: class, schema   *)
  PythonFromSot(_, _),    (* python_from_sot: document, class               *)
  ModelToOrdered(_, _),   (* model_to_ordered_object: instance, class       *)
  ApplySchema(_, _),      (* apply_schema: value, schema                    *)
  DiffValues(_, _),       (* diff: before, after                            *)
  TryPatch(_, _, _),      (* apply_patch: document, operations, schema    *)
  ServerOps(_, _),        (* the server's own: document, operations       *)
  IsInstance(_, _),       (* is it an instance of the class                 *)
  Documents(_)            (* every document that the server may ever hold,  *)
                          (* in a setup: the assumptions below speak of it  *)

CONSTANTS
  Setups     (* classes and deployments, by name: the schema document and   *)
             (* the class that is bound to it, the documents that the       *)
             (* server may hold at first (contents, Void if there is none)  *)
             (* and that somebody else writes (overwrites), the instances   *)
             (* that edits make (models) and that are created (fresh), the  *)
             (* extra fields given to create_doc (extras), the operations   *)
             (* given to create_patch (ops), whether the cached             *)
             (* establishment has the collection in the version that is     *)
             (* bound (listed), the bound clients (bindings), and a bound   *)
             (* of the model on the versions of the document (maxVersion)   *)

VARIABLES
  setup,   (* the class and the deployment of this behaviour                *)
  schema,  (* the schema that bind compiled, or Void before                 *)
  stored,  (* the document on the server, or Void                           *)
  version, (* its version                                                   *)
  item,    (* the CollectionItem in the user's hands, or Void               *)
  patch,   (* the CollectionPatch in the user's hands, or Void              *)
  outcome, (* what the last call returned or raised                         *)
  landed   (* history: the instance that the present version was made from, *)
           (* if this user made it                                          *)

typedVars == <<setup, schema, stored, version, item, patch, outcome, landed>>

Here     == Setups[setup]
Class    == Here.class
MetaKeys == {"$", "#", "!", "operationId"}
Nothing  == [target |-> Void, version |-> 0]

TypedInit ==
  /\ setup \in DOMAIN Setups
  /\ schema = Void
  /\ stored \in Here.contents
  /\ version = 1
  /\ item = Void
  /\ patch = Void
  /\ outcome = "none"
  /\ landed = Nothing

Raise(error) ==
  /\ outcome' = error
  /\ UNCHANGED <<setup, schema, stored, version, item, patch, landed>>

(* bind.  All the bindings of a setup are made in this one step.           *)
Bind ==
  /\ schema = Void
  /\ LET compiled == CompileSchema(Here.schema)
     IN  \/ ~Here.listed /\ Raise("notListed")
         \/ Here.listed /\ compiled = Failed /\ Raise("badSchema")
         \/ /\ Here.listed /\ compiled # Failed
            /\ ~SchemaCompatible(Class, compiled)
            /\ Raise("incompatible")
         \/ /\ Here.listed /\ compiled # Failed
            /\ SchemaCompatible(Class, compiled)
            /\ schema' = compiled
            /\ outcome' = "bound"
            /\ UNCHANGED <<setup, stored, version, item, patch, landed>>
-----------------------------------------------------------------------------
(* get_doc: the model, the content it was made from and the version.  The  *)
(* user lets go of an older item and its patch (a bound of the model).     *)
GetDoc(b) ==
  /\ schema # Void
  /\ LET doc == PythonFromSot(stored, Class)
     IN  \/ stored = Void /\ Raise("missing")
         \/ stored # Void /\ doc = Failed /\ Raise("invalid")
         \/ /\ stored # Void /\ doc # Failed
            /\ item' = [doc |-> doc, content |-> stored,
                        version |-> version, binding |-> b]
            /\ patch' = Void
            /\ outcome' = "none"
            /\ UNCHANGED <<setup, schema, stored, version, landed>>

(* Bounds of the model: one edit stands for all the assignments that the   *)
(* user makes to item.doc, and comes before a patch of the item; explicit  *)
(* operations, which ignore item.doc, are given for an unedited item.      *)
Unedited == item # Void /\ item.doc = PythonFromSot(item.content, Class)

(* The user assigns to the fields of item.doc.                             *)
EditDoc ==
  /\ Unedited
  /\ patch = Void
  /\ \E d \in Here.models \ {item.doc} : item' = [item EXCEPT !.doc = d]
  /\ outcome' = "none"
  /\ UNCHANGED <<setup, schema, stored, version, patch, landed>>

MakePatch(b, ops, target) ==
  /\ patch' = [ops |-> ops, version |-> item.version, binding |-> b,
               target |-> target]
  /\ outcome' = "built"
  /\ UNCHANGED <<setup, schema, stored, version, item, landed>>

Current == ModelToOrdered(item.doc, Class)
Before  == ApplySchema(item.content, schema)
After   == ApplySchema(Current, schema)

(* Slip: a patch is made without a look at whether anything changed.       *)
BuildAlways(b) ==
  IF Failed \in {Before, After} THEN Raise("schemaError")
  ELSE MakePatch(b, DiffValues(Before, After), item.doc)

(* create_patch_from_changes: normalise both, compare, and try the patch   *)
(* on what was read.                                                       *)
BuildFromChanges(b) ==
  LET before == Before
      after  == After
      ops    == DiffValues(before, after)
  IN  CASE Failed \in {before, after} -> Raise("schemaError")
        [] Failed \notin {before, after} /\ ops = <<>> -> Raise("noChanges")
        [] Failed \notin {before, after} /\ ops # <<>> ->
             IF TryPatch(before, ops, schema) = Failed
             THEN Raise("unpatchable")
             ELSE MakePatch(b, ops, item.doc)

CreatePatchFromChanges(b) ==
  /\ item # Void
  /\ \/ item.binding # b /\ Raise("bindingMismatch")
     \/ item.binding = b /\ Current = Failed /\ Raise("typeError")
     \/ item.binding = b /\ Current # Failed /\ BuildFromChanges(b)

(* create_patch, with operations of the user.                              *)
CreatePatch(b) ==
  /\ Unedited
  /\ \/ item.binding # b /\ Raise("bindingMismatch")
     \/ /\ item.binding = b
        /\ \E ops \in Here.ops :
             IF TryPatch(item.content, ops, schema) = Failed
             THEN Raise("rejected")
             ELSE MakePatch(b, ops, Void)
-----------------------------------------------------------------------------
(* The server: the version first, then the operations, then its schema.    *)
Served(doc, ops, s) ==
  LET out == ServerOps(doc, ops)
  IN  IF out \in {Failed, Void} THEN Failed ELSE ApplySchema(out, s)

ServerResult == Served(stored, patch.ops, schema)

ServerStores(new, target) ==
  /\ version < Here.maxVersion
  /\ stored' = new
  /\ version' = version + 1
  /\ landed' = IF target = Void THEN Nothing
               ELSE [target |-> target, version |-> version + 1]
  /\ outcome' = "written"
  /\ UNCHANGED <<setup, schema, item, patch>>

(* Slip: the patch is not bound to the version that was read.              *)
PatchDocBlindly(b) ==
  /\ patch # Void
  /\ stored # Void
  /\ LET new == ServerResult
     IN  \/ new = Failed /\ Raise("refused")
         \/ new # Failed /\ ServerStores(new, patch.target)

(* patch_doc.                                                              *)
PatchDoc(b) ==
  /\ patch # Void
  /\ LET new == ServerResult
     IN  \/ patch.binding # b /\ Raise("bindingMismatch")
         \/ patch.binding = b /\ stored = Void /\ Raise("missing")
         \/ /\ patch.binding = b
            /\ stored # Void
            /\ \/ version # patch.version /\ Raise("versionMismatch")
               \/ version = patch.version /\ new = Failed /\ Raise("refused")
               \/ /\ version = patch.version /\ new # Failed
                  /\ ServerStores(new, patch.target)

(* create_doc: the extra fields must not be fields of the document or      *)
(* metadata, and the detail must satisfy the schema, but goes out as it    *)
(* is: the server fills in the defaults.  It keeps the extra fields apart  *)
(* from the document.  (A taken id is the business of CreateVerify.)       *)
CreateDoc ==
  /\ schema # Void
  /\ stored = Void
  /\ \E doc \in Here.fresh, extras \in Here.extras :
       LET detail == ModelToOrdered(doc, Class)
           new    == ApplySchema(detail, schema)
       IN  \/ detail = Failed /\ Raise("createTypeError")
           \/ /\ detail # Failed
              /\ \/ /\ extras \cap (MetaKeys \cup DOMAIN detail.fields) # {}
                    /\ Raise("extraRefused")
                 \/ /\ extras \cap (MetaKeys \cup DOMAIN detail.fields) = {}
                    /\ \/ new = Failed /\ Raise("createSchemaError")
                       \/ new # Failed /\ ServerStores(new, doc)

(* delete_doc of an item.                                                  *)
DeleteDoc(b) ==
  /\ item # Void
  /\ \/ item.binding # b /\ Raise("bindingMismatch")
     \/ item.binding = b /\ stored = Void /\ Raise("missing")
     \/ /\ item.binding = b
        /\ stored # Void
        /\ \/ version # item.version /\ Raise("versionMismatch")
           \/ version = item.version /\ ServerStores(Void, Void)

SomebodyWrites ==
  /\ version < Here.maxVersion
  /\ stored' \in Here.overwrites
  /\ version' = version + 1
  /\ landed' = Nothing
  /\ UNCHANGED <<setup, schema, item, patch, outcome>>

TypedNext ==
  \/ Bind
  \/ \E b \in Here.bindings :
       \/ GetDoc(b) \/ CreatePatchFromChanges(b) \/ CreatePatch(b)
       \/ PatchDoc(b) \/ DeleteDoc(b)
  \/ EditDoc
  \/ CreateDoc
  \/ SomebodyWrites

TypedSpec == TypedInit /\ [][TypedNext]_typedVars
-----------------------------------------------------------------------------
(***************************************************************************)
(* What is assumed of the JSON values of a class that can be bound, call   *)
(* by call.  TLC evaluates both assumptions for the functions of the code, *)
(* over every document that its behaviours reach.                          *)
(***************************************************************************)
Binds(s) ==
  LET e == CompileSchema(s.schema)
  IN  s.listed /\ e # Failed /\ SchemaCompatible(s.class, e)

(* The instances that an item read from document d may hold, and those of  *)
(* them that can be written at all.  e is the compiled schema.             *)
Instances(s, d) == s.models \cup ({PythonFromSot(d, s.class)} \ {Failed})

Detail(s, e, m) ==
  LET detail == ModelToOrdered(m, s.class)
  IN  IF detail = Failed THEN Failed ELSE ApplySchema(detail, e)

Writable(s, e, d) == {m \in Instances(s, d) : Detail(s, e, m) # Failed}

(* The operations that an item read from d may be patched with: those of   *)
(* the user and those built from changes, if the client's trial passes.    *)
ChangesOf(s, e, d, m) == DiffValues(ApplySchema(d, e), Detail(s, e, m))

PatchesOf(s, e, d) ==
  {ops \in s.ops \cup {ChangesOf(s, e, d, m) : m \in Writable(s, e, d)} :
     TryPatch(d, ops, e) # Failed}

(* Documents stay documents: what is stored satisfies the schema, which    *)
(* adds nothing to it a second time; a reader of it gets an instance of    *)
(* the class or an error; patches and creations make documents of it.      *)
DocumentsClosed(s, e, documents) ==
  /\ s.contents \subseteq documents \cup {Void}
  /\ s.overwrites \subseteq documents
  /\ \A m \in s.models : IsInstance(m, s.class)
  /\ \A d \in documents :
       /\ d # Void
       /\ ApplySchema(d, e) = d
       /\ \A m \in Instances(s, d) : IsInstance(m, s.class)
       /\ \A ops \in PatchesOf(s, e, d) :
            Served(d, ops, e) \in documents \cup {Failed}
  /\ \A m \in s.fresh : Detail(s, e, m) \in documents \cup {Failed}

(* An instance is what its own JSON gives back.  One with a field that is  *)
(* written by one name and read by another is not, nor one with a number   *)
(* that from_python rounds.                                                *)
ReadsBack(s, m) == PythonFromSot(ModelToOrdered(m, s.class), s.class) = m

(* One call loses nothing: the changes of a document, applied by the       *)
(* server to that same document, read as the instance that they were made  *)
(* from, and so does a created document.                                   *)
DiffIsExact(s, e, documents) ==
  /\ \A d \in documents : \A m \in Writable(s, e, d) :
       LET ops == ChangesOf(s, e, d, m)
           new == Served(d, ops, e)
       IN  ReadsBack(s, m) /\ TryPatch(d, ops, e) # Failed /\ new # Failed
             => PythonFromSot(new, s.class) = m
  /\ \A m \in s.fresh :
       LET new == Detail(s, e, m)
       IN  ReadsBack(s, m) /\ new # Failed => PythonFromSot(new, s.class) = m

ASSUME VersionsAssumption ==
  \A n \in DOMAIN Setups : Setups[n].maxVersion \in Nat \ {0}

ASSUME DocumentsAssumption ==
  \A n \in DOMAIN Setups : Binds(Setups[n]) =>
    DocumentsClosed(Setups[n], CompileSchema(Setups[n].schema),
                    Documents(Setups[n]))

ASSUME DiffAssumption ==
  \A n \in DOMAIN Setups : Binds(Setups[n]) =>
    DiffIsExact(Setups[n], CompileSchema(Setups[n].schema),
                Documents(Setups[n]))
-----------------------------------------------------------------------------
(* The document always satisfies the schema, an item's doc always is an    *)
(* instance of the class, versions stay within the bound, and a patch that *)
(* is built from changes has some.                                         *)
TypedTypeOK ==
  /\ setup \in DOMAIN Setups
  /\ stored = Void \/ schema = Void \/ ApplySchema(stored, schema) = stored
  /\ version \in 1..Here.maxVersion
  /\ item # Void =>
       /\ schema # Void
       /\ IsInstance(item.doc, Class)
       /\ ApplySchema(item.content, schema) = item.content
       /\ item.version <= version
  /\ patch # Void => /\ patch.version <= version
                     /\ patch.target # Void => patch.ops # <<>>
  /\ landed.version \in {0, version}

(* Once a patch built from changes has been accepted, or a document        *)
(* created, and until somebody writes again, a reader's model of the       *)
(* document is the model it was made from: create_patch_from_changes, the  *)
(* JSON of the patch and the server's reading of it lose no part of the    *)
(* edit, although the operations address array elements by index and the   *)
(* element indices move while the patch is applied.  An instance that its  *)
(* own JSON does not give back (ReadsBack) is out of its reach.            *)
EditSurvives ==
  landed.target # Void /\ ReadsBack(Here, landed.target)
    => PythonFromSot(stored, Class) = landed.target

(* A patch or a deletion that the server accepts meets the very content    *)
(* that its item was read with, although others wrote the document, the    *)
(* item was edited and other calls failed in between.                      *)
WritesOverWhatWasRead ==
  [][\A b \in Here.bindings :
       (PatchDoc(b) \/ DeleteDoc(b)) /\ version' # version
         => stored = item.content]_typedVars
=============================================================================
