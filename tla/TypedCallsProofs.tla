--------------------------- MODULE TypedCallsProofs ---------------------------
(***************************************************************************)
(* Theorems about TypedCalls, for every set of classes and deployments and *)
(* for all functions on JSON values that satisfy the assumptions there:    *)
(* what is written was read at that version, documents satisfy the schema, *)
(* and no edit is lost between the calls if no single call loses it.       *)
(***************************************************************************)
EXTENDS TypedCalls, TLAPS

(***************************************************************************)
(* The first part of the invariant speaks of no JSON value: an item of the *)
(* present version was made from the present document, and a patch belongs *)
(* to the item.                                                            *)
(***************************************************************************)
Versions ==
  /\ setup \in DOMAIN Setups
  /\ version \in 1..Here.maxVersion
  /\ landed.version \in {0, version}

ItemShape ==
  item # Void =>
    item = [doc |-> item.doc, content |-> item.content,
            version |-> item.version, binding |-> item.binding]

ItemBase ==
  item # Void =>
    /\ item.version \in 1..version
    /\ item.version = version => stored = item.content

PatchBase ==
  patch # Void => item # Void /\ patch.version = item.version

BaseInv == Versions /\ ItemShape /\ ItemBase /\ PatchBase

(***************************************************************************)
(* The second part relates the schema, the item and the patch to the       *)
(* documents they were made from.                                          *)
(***************************************************************************)
SchemaInv ==
  schema # Void => Binds(Here) /\ schema = CompileSchema(Here.schema)

StoredInv ==
  Binds(Here) => stored \in Documents(Here) \cup {Void}

ItemInv ==
  item # Void =>
    /\ schema # Void
    /\ item.content \in Documents(Here)
    /\ item.doc \in Instances(Here, item.content)

PatchInv ==
  patch # Void =>
    /\ patch.ops \in PatchesOf(Here, schema, item.content)
    /\ patch.target # Void =>
         /\ patch.ops # <<>>
         /\ patch.target \in Writable(Here, schema, item.content)
         /\ patch.ops = ChangesOf(Here, schema, item.content, patch.target)

DataInv == SchemaInv /\ StoredInv /\ ItemInv /\ PatchInv
-----------------------------------------------------------------------------
(***************************************************************************)
(* What the calls do: refuse, read, edit, build a patch, or write.         *)
(***************************************************************************)
Refused == UNCHANGED <<setup, schema, stored, version, item, patch, landed>>

Compiled ==
  /\ schema = Void
  /\ Binds(Here)
  /\ schema' = CompileSchema(Here.schema)
  /\ UNCHANGED <<setup, stored, version, item, patch, landed>>

(* A new item, or the same one edited.                                     *)
Holds(doc, content, at, b) ==
  item' = [doc |-> doc, content |-> content, version |-> at, binding |-> b]

Fetched(b) ==
  /\ schema # Void /\ stored # Void
  /\ PythonFromSot(stored, Class) # Failed
  /\ Holds(PythonFromSot(stored, Class), stored, version, b)
  /\ patch' = Void
  /\ UNCHANGED <<setup, schema, stored, version, landed>>

Edited ==
  /\ item # Void /\ patch = Void
  /\ item'.doc \in Here.models
  /\ item'.content = item.content /\ item'.version = item.version
  /\ UNCHANGED <<setup, schema, stored, version, patch, landed>>

Built(b, ops, target) ==
  /\ item # Void
  /\ patch' = [ops |-> ops, version |-> item.version, binding |-> b,
               target |-> target]
  /\ UNCHANGED <<setup, schema, stored, version, item, landed>>

BuiltFromChanges(b) ==
  LET ops == DiffValues(Before, After)
  IN  /\ Current # Failed /\ Before # Failed /\ After # Failed
      /\ ops # <<>>
      /\ TryPatch(Before, ops, schema) # Failed
      /\ Built(b, ops, item.doc)

BuiltFromOps(b) ==
  \E ops \in Here.ops :
    TryPatch(item.content, ops, schema) # Failed /\ Built(b, ops, Void)

Patched ==
  /\ patch # Void /\ stored # Void
  /\ version = patch.version
  /\ ServerResult # Failed
  /\ ServerStores(ServerResult, patch.target)

Created ==
  /\ schema # Void /\ stored = Void
  /\ \E doc \in Here.fresh :
       /\ ModelToOrdered(doc, Class) # Failed
       /\ ApplySchema(ModelToOrdered(doc, Class), schema) # Failed
       /\ ServerStores(ApplySchema(ModelToOrdered(doc, Class), schema), doc)

Deleted ==
  /\ item # Void /\ stored # Void
  /\ version = item.version
  /\ ServerStores(Void, Void)

LEMMA BindEffect == Bind => Refused \/ Compiled
BY DEF Bind, Raise, Refused, Compiled, Binds, Class

LEMMA GetDocEffect == ASSUME NEW b, GetDoc(b) PROVE Refused \/ Fetched(b)
BY DEF GetDoc, Raise, Refused, Fetched, Holds

LEMMA EditEffect ==
  ASSUME ItemShape, EditDoc
  PROVE  Edited /\ ItemShape'
<1>1. PICK d \in Here.models : item' = [item EXCEPT !.doc = d]
  BY DEF EditDoc
<1>2. item # Void /\ patch = Void
      /\ UNCHANGED <<setup, schema, stored, version, patch, landed>>
  BY DEF EditDoc, Unedited
<1>3. item = [doc |-> item.doc, content |-> item.content,
              version |-> item.version, binding |-> item.binding]
  BY <1>2 DEF ItemShape
<1>4. item' = [doc |-> d, content |-> item.content,
               version |-> item.version, binding |-> item.binding]
  BY <1>1, <1>3
<1> QED
  BY <1>2, <1>4 DEF Edited, ItemShape

LEMMA ChangesEffect ==
  ASSUME NEW b, CreatePatchFromChanges(b)
  PROVE  Refused \/ BuiltFromChanges(b)
BY DEF CreatePatchFromChanges, BuildFromChanges, MakePatch, Raise, Refused,
       BuiltFromChanges, Built

LEMMA OpsEffect ==
  ASSUME NEW b, CreatePatch(b)
  PROVE  Refused \/ BuiltFromOps(b)
BY DEF CreatePatch, Unedited, MakePatch, Raise, Refused, BuiltFromOps, Built

LEMMA PatchEffect ==
  ASSUME NEW b, PatchDoc(b)
  PROVE  Refused \/ Patched
BY DEF PatchDoc, Raise, Refused, Patched

LEMMA CreateEffect == CreateDoc => Refused \/ Created
BY DEF CreateDoc, Raise, Refused, Created

LEMMA DeleteEffect ==
  ASSUME NEW b, DeleteDoc(b)
  PROVE  Refused \/ Deleted
BY DEF DeleteDoc, Raise, Refused, Deleted

(* Every step of the calls is one of these.                                *)
LEMMA StepEffect ==
  ASSUME ItemShape, [TypedNext]_typedVars
  PROVE  \/ Refused
         \/ Compiled
         \/ \E b : Fetched(b) \/ BuiltFromChanges(b) \/ BuiltFromOps(b)
         \/ Edited /\ ItemShape'
         \/ Patched \/ Created \/ Deleted
         \/ SomebodyWrites
<1>1. CASE UNCHANGED typedVars
  BY <1>1 DEF typedVars, Refused
<1>2. CASE TypedNext
  <2>1. CASE \E b \in Here.bindings :
               \/ GetDoc(b) \/ CreatePatchFromChanges(b) \/ CreatePatch(b)
               \/ PatchDoc(b) \/ DeleteDoc(b)
    BY <2>1, GetDocEffect, ChangesEffect, OpsEffect, PatchEffect,
       DeleteEffect
  <2>2. CASE Bind \/ EditDoc \/ CreateDoc \/ SomebodyWrites
    BY <2>2, BindEffect, EditEffect, CreateEffect
  <2> QED
    BY <1>2, <2>1, <2>2 DEF TypedNext
<1> QED
  BY <1>1, <1>2
-----------------------------------------------------------------------------
(***************************************************************************)
(* The first part.                                                         *)
(***************************************************************************)
LEMMA BaseInit == TypedInit => BaseInv
<1> SUFFICES ASSUME TypedInit PROVE BaseInv
  OBVIOUS
<1>1. Here.maxVersion \in Nat \ {0}
  BY VersionsAssumption DEF TypedInit, Here
<1>2. version = 1 /\ landed.version = 0 /\ item = Void /\ patch = Void
  BY DEF TypedInit, Nothing
<1> QED
  BY <1>1, <1>2
  DEF TypedInit, BaseInv, Versions, ItemShape, ItemBase, PatchBase

(* A write makes every item old.                                           *)
LEMMA WriteKeepsBase ==
  ASSUME BaseInv, version < Here.maxVersion, version' = version + 1,
         landed'.version \in {0, version'},
         UNCHANGED <<setup, item, patch>>
  PROVE  BaseInv'
<1>1. Here' = Here /\ Here.maxVersion \in Nat \ {0}
  BY VersionsAssumption DEF BaseInv, Versions, Here
<1>2. version \in Nat /\ version' \in 1..Here.maxVersion
  BY <1>1 DEF BaseInv, Versions
<1>3. Versions'
  BY <1>1, <1>2 DEF BaseInv, Versions
<1>4. ItemBase'
  BY <1>2 DEF BaseInv, ItemBase
<1> QED
  BY <1>3, <1>4 DEF BaseInv, ItemShape, PatchBase

LEMMA StoresKeepsBase ==
  ASSUME BaseInv, NEW new, NEW target, ServerStores(new, target)
  PROVE  BaseInv'
<1>1. landed'.version \in {0, version'}
  BY DEF ServerStores, Nothing
<1> QED
  BY <1>1, WriteKeepsBase DEF ServerStores

LEMMA BaseStep == BaseInv /\ [TypedNext]_typedVars => BaseInv'
<1> SUFFICES ASSUME BaseInv, [TypedNext]_typedVars PROVE BaseInv'
  OBVIOUS
<1>1. version \in Nat /\ version >= 1
  BY VersionsAssumption DEF BaseInv, Versions, Here
<1>2. CASE Refused \/ Compiled
  BY <1>2
  DEF Refused, Compiled, BaseInv, Versions, ItemShape, ItemBase, PatchBase,
      Here
<1>3. ASSUME NEW b, Fetched(b) PROVE BaseInv'
  <2>1. Versions'
    BY <1>3 DEF Fetched, BaseInv, Versions, Here
  <2>2. item'.content = stored /\ item'.version = version /\ ItemShape'
    BY <1>3 DEF Fetched, Holds, ItemShape
  <2>3. stored' = stored /\ version' = version /\ patch' = Void
    BY <1>3 DEF Fetched
  <2> QED
    BY <1>1, <2>1, <2>2, <2>3 DEF BaseInv, ItemBase, PatchBase
<1>4. ASSUME NEW b, NEW ops, NEW target, Built(b, ops, target)
      PROVE  BaseInv'
  BY <1>4
  DEF Built, BaseInv, Versions, ItemShape, ItemBase, PatchBase, Here
<1>5. CASE Edited /\ ItemShape'
  BY <1>5 DEF Edited, BaseInv, Versions, ItemBase, PatchBase, Here
<1>6. CASE Patched \/ Created \/ Deleted
  BY <1>6, StoresKeepsBase DEF Patched, Created, Deleted
<1>7. CASE SomebodyWrites
  BY <1>7, WriteKeepsBase DEF SomebodyWrites, Nothing
<1>8. ItemShape
  BY DEF BaseInv
<1> QED
  BY <1>2, <1>3, <1>4, <1>5, <1>6, <1>7, <1>8, StepEffect
  DEF BuiltFromChanges, BuiltFromOps

LEMMA BaseInvariant == TypedSpec => []BaseInv
BY BaseInit, BaseStep, PTL DEF TypedSpec

(* patch_doc and delete_doc write over what the item was read from, and    *)
(* over nothing else: no assumption on the JSON values is needed.          *)
THEOREM StaleItemsNeverWrite == TypedSpec => WritesOverWhatWasRead
<1>1. ASSUME BaseInv, [TypedNext]_typedVars, NEW b \in Here.bindings,
             PatchDoc(b) \/ DeleteDoc(b), version' # version
      PROVE  stored = item.content
  <2>1. Patched \/ Deleted
    BY <1>1, PatchEffect, DeleteEffect DEF Refused
  <2>2. item # Void /\ version = item.version
    BY <1>1, <2>1 DEF Patched, Deleted, BaseInv, PatchBase
  <2> QED
    BY <1>1, <2>2 DEF BaseInv, ItemBase
<1>2. BaseInv /\ [TypedNext]_typedVars
        => [\A b \in Here.bindings :
              (PatchDoc(b) \/ DeleteDoc(b)) /\ version' # version
                => stored = item.content]_typedVars
  BY <1>1
<1> QED
  BY <1>2, BaseInvariant, PTL DEF TypedSpec, WritesOverWhatWasRead
-----------------------------------------------------------------------------
(***************************************************************************)
(* The second part.  The assumptions, of the schema that bind compiled.    *)
(***************************************************************************)
LEMMA HereClosed ==
  ASSUME BaseInv, Binds(Here)
  PROVE  /\ DocumentsClosed(Here, CompileSchema(Here.schema),
                            Documents(Here))
         /\ DiffIsExact(Here, CompileSchema(Here.schema), Documents(Here))
BY DocumentsAssumption, DiffAssumption DEF BaseInv, Versions, Here

LEMMA BoundSchema ==
  ASSUME BaseInv, SchemaInv, schema # Void
  PROVE  /\ Binds(Here)
         /\ DocumentsClosed(Here, schema, Documents(Here))
         /\ DiffIsExact(Here, schema, Documents(Here))
BY HereClosed DEF SchemaInv

(* What an item is patched with was made from its document.                *)
LEMMA ItemDocument ==
  ASSUME BaseInv, DataInv, item # Void
  PROVE  /\ ApplySchema(item.content, schema) = item.content
         /\ IsInstance(item.doc, Class)
         /\ Before = item.content
<1>1. schema # Void
  BY DEF DataInv, ItemInv
<1>2. DocumentsClosed(Here, schema, Documents(Here))
  BY <1>1, BoundSchema DEF DataInv
<1> QED
  BY <1>2 DEF DataInv, ItemInv, DocumentsClosed, Before, Class

LEMMA ServedDocument ==
  ASSUME BaseInv, DataInv, Patched
  PROVE  /\ stored = item.content
         /\ schema # Void
         /\ ServerResult \in Documents(Here)
<1>1. item # Void /\ stored = item.content
  BY DEF Patched, BaseInv, PatchBase, ItemBase
<1>2. schema # Void /\ item.content \in Documents(Here)
  BY <1>1 DEF DataInv, ItemInv
<1>3. patch.ops \in PatchesOf(Here, schema, item.content)
  BY DEF Patched, DataInv, PatchInv
<1>4. DocumentsClosed(Here, schema, Documents(Here))
  BY <1>2, BoundSchema DEF DataInv
<1>5. Served(item.content, patch.ops, schema) \in Documents(Here) \cup {Failed}
  BY <1>2, <1>3, <1>4 DEF DocumentsClosed
<1> QED
  BY <1>1, <1>2, <1>5 DEF Patched, ServerResult

LEMMA CreatedDocument ==
  ASSUME BaseInv, DataInv, NEW doc \in Here.fresh, schema # Void,
         ModelToOrdered(doc, Class) # Failed,
         ApplySchema(ModelToOrdered(doc, Class), schema) # Failed
  PROVE  /\ ApplySchema(ModelToOrdered(doc, Class), schema)
              = Detail(Here, schema, doc)
         /\ Detail(Here, schema, doc) \in Documents(Here)
<1>1. DocumentsClosed(Here, schema, Documents(Here))
  BY BoundSchema DEF DataInv
<1> QED
  BY <1>1 DEF DocumentsClosed, Detail, Class
-----------------------------------------------------------------------------
LEMMA DataInit == TypedInit => DataInv
<1> SUFFICES ASSUME TypedInit PROVE DataInv
  OBVIOUS
<1>1. BaseInv
  BY BaseInit
<1>2. StoredInv
  BY <1>1, HereClosed DEF TypedInit, StoredInv, DocumentsClosed
<1> QED
  BY <1>2 DEF TypedInit, DataInv, SchemaInv, ItemInv, PatchInv

LEMMA FetchKeepsData ==
  ASSUME BaseInv, DataInv, NEW b, Fetched(b)
  PROVE  DataInv'
<1>1. UNCHANGED <<setup, schema, stored>> /\ Here' = Here /\ patch' = Void
  BY DEF Fetched, Here
<1>2. SchemaInv' /\ StoredInv' /\ PatchInv'
  BY <1>1 DEF DataInv, SchemaInv, StoredInv, PatchInv
<1>3. /\ item'.content = stored
      /\ item'.doc = PythonFromSot(stored, Class)
      /\ PythonFromSot(stored, Class) # Failed
      /\ schema # Void /\ stored # Void
  BY DEF Fetched, Holds
<1>4. stored \in Documents(Here)
  BY <1>3, BoundSchema DEF DataInv, StoredInv
<1>5. item'.doc \in Instances(Here, stored)
  BY <1>3 DEF Instances, Class
<1> QED
  BY <1>1, <1>2, <1>3, <1>4, <1>5 DEF DataInv, ItemInv

LEMMA EditKeepsData ==
  ASSUME DataInv, Edited
  PROVE  DataInv'
<1>1. /\ UNCHANGED <<setup, schema, stored, patch>> /\ Here' = Here
      /\ patch = Void
  BY DEF Edited, Here
<1>2. SchemaInv' /\ StoredInv' /\ PatchInv'
  BY <1>1 DEF DataInv, SchemaInv, StoredInv, PatchInv
<1>3. /\ item'.content = item.content
      /\ item'.doc \in Instances(Here, item.content)
  BY DEF Edited, Instances
<1> QED
  BY <1>1, <1>2, <1>3 DEF Edited, DataInv, ItemInv

LEMMA BuildKeepsData ==
  ASSUME DataInv, NEW b, NEW ops, NEW target, Built(b, ops, target),
         ops \in PatchesOf(Here, schema, item.content),
         target # Void =>
           /\ ops # <<>>
           /\ target \in Writable(Here, schema, item.content)
           /\ ops = ChangesOf(Here, schema, item.content, target)
  PROVE  DataInv'
<1>1. UNCHANGED <<setup, schema, stored, item>> /\ Here' = Here
  BY DEF Built, Here
<1>2. SchemaInv' /\ StoredInv' /\ ItemInv'
  BY <1>1 DEF DataInv, SchemaInv, StoredInv, ItemInv
<1>3. patch'.ops = ops /\ patch'.target = target
  BY DEF Built
<1> QED
  BY <1>1, <1>2, <1>3 DEF DataInv, PatchInv

(* Operations that create_patch_from_changes finds are changes of the      *)
(* item's document.                                                        *)
LEMMA ChangesKeepData ==
  ASSUME BaseInv, DataInv, NEW b, BuiltFromChanges(b)
  PROVE  DataInv'
<1> DEFINE ops == DiffValues(Before, After)
<1>1. /\ item # Void /\ Current # Failed /\ After # Failed /\ ops # <<>>
      /\ TryPatch(Before, ops, schema) # Failed
      /\ Built(b, ops, item.doc)
  BY DEF BuiltFromChanges, Built
<1>2. Detail(Here, schema, item.doc) = After
  BY <1>1 DEF Detail, After, Current, Class
<1>3. item.doc \in Writable(Here, schema, item.content)
  BY <1>1, <1>2 DEF DataInv, ItemInv, Writable
<1>4. Before = item.content
  BY <1>1, ItemDocument
<1>5. ops = ChangesOf(Here, schema, item.content, item.doc)
  BY <1>2 DEF ChangesOf, Before
<1>6. ops \in PatchesOf(Here, schema, item.content)
  BY <1>1, <1>3, <1>4, <1>5 DEF PatchesOf
<1> HIDE DEF ops
<1> QED
  BY <1>1, <1>3, <1>5, <1>6, BuildKeepsData

LEMMA OpsKeepData ==
  ASSUME BaseInv, DataInv, NEW b, BuiltFromOps(b)
  PROVE  DataInv'
<1>1. PICK ops \in Here.ops :
        TryPatch(item.content, ops, schema) # Failed /\ Built(b, ops, Void)
  BY DEF BuiltFromOps
<1>2. ops \in PatchesOf(Here, schema, item.content)
  BY <1>1 DEF PatchesOf
<1> QED
  BY <1>1, <1>2, BuildKeepsData

LEMMA StoresKeepsData ==
  ASSUME BaseInv, DataInv, NEW new \in Documents(Here) \cup {Void},
         NEW target, ServerStores(new, target)
  PROVE  DataInv'
<1>1. UNCHANGED <<setup, schema, item, patch>> /\ Here' = Here
      /\ stored' = new
  BY DEF ServerStores, Here
<1> QED
  BY <1>1 DEF DataInv, SchemaInv, StoredInv, ItemInv, PatchInv

LEMMA DataStep == BaseInv /\ DataInv /\ [TypedNext]_typedVars => DataInv'
<1> SUFFICES ASSUME BaseInv, DataInv, [TypedNext]_typedVars PROVE DataInv'
  OBVIOUS
<1>1. CASE Refused
  BY <1>1
  DEF Refused, DataInv, SchemaInv, StoredInv, ItemInv, PatchInv, Here
<1>2. CASE Compiled
  <2>1. /\ UNCHANGED <<setup, stored, item, patch>> /\ Here' = Here
        /\ Binds(Here) /\ schema' = CompileSchema(Here.schema)
    BY <1>2 DEF Compiled, Here
  <2>2. item = Void /\ patch = Void
    BY <1>2 DEF Compiled, DataInv, ItemInv, BaseInv, PatchBase
  <2> QED
    BY <2>1, <2>2 DEF DataInv, SchemaInv, StoredInv, ItemInv, PatchInv
<1>3. CASE \E b : Fetched(b) \/ BuiltFromChanges(b) \/ BuiltFromOps(b)
  BY <1>3, FetchKeepsData, ChangesKeepData, OpsKeepData
<1>4. CASE Edited
  BY <1>4, EditKeepsData
<1>5. CASE Patched
  BY <1>5, ServedDocument, StoresKeepsData DEF Patched
<1>6. CASE Created
  BY <1>6, CreatedDocument, StoresKeepsData DEF Created
<1>7. CASE Deleted
  BY <1>7, StoresKeepsData DEF Deleted
<1>8. CASE SomebodyWrites
  <2>1. UNCHANGED <<setup, schema, item, patch>> /\ Here' = Here
        /\ stored' \in Here.overwrites
    BY <1>8 DEF SomebodyWrites, Here
  <2>2. StoredInv'
    BY <2>1, HereClosed DEF StoredInv, DocumentsClosed
  <2> QED
    BY <2>1, <2>2 DEF DataInv, SchemaInv, ItemInv, PatchInv
<1>9. ItemShape
  BY DEF BaseInv
<1> QED
  BY <1>1, <1>2, <1>3, <1>4, <1>5, <1>6, <1>7, <1>8, <1>9, StepEffect

LEMMA DataInvariant == TypedSpec => []DataInv
BY BaseInvariant, DataInit, DataStep, PTL DEF TypedSpec

(* Whatever is stored satisfies the schema, an item holds an instance of   *)
(* the class, and no patch built from changes is empty: with the           *)
(* assumption that one call makes documents of documents, any number of    *)
(* calls does.                                                             *)
THEOREM TypedTypes == TypedSpec => []TypedTypeOK
<1>1. ASSUME BaseInv, DataInv PROVE TypedTypeOK
  <2>1. /\ setup \in DOMAIN Setups
        /\ version \in 1..Here.maxVersion
        /\ landed.version \in {0, version}
    BY <1>1 DEF BaseInv, Versions
  <2>2. stored = Void \/ schema = Void \/ ApplySchema(stored, schema) = stored
    <3>1. SUFFICES ASSUME stored # Void, schema # Void
                   PROVE  ApplySchema(stored, schema) = stored
      OBVIOUS
    <3>2. stored \in Documents(Here)
      BY <1>1, <3>1, BoundSchema DEF DataInv, StoredInv
    <3> QED
      BY <1>1, <3>1, <3>2, BoundSchema DEF DataInv, DocumentsClosed
  <2>3. item # Void => /\ schema # Void
                       /\ IsInstance(item.doc, Class)
                       /\ ApplySchema(item.content, schema) = item.content
                       /\ item.version \in 1..version
    BY <1>1, ItemDocument DEF DataInv, ItemInv, BaseInv, ItemBase
  <2>4. version \in Nat
    BY <1>1, <2>1, VersionsAssumption DEF BaseInv, Versions, Here
  <2>5. patch # Void => /\ item # Void /\ patch.version = item.version
                        /\ patch.target # Void => patch.ops # <<>>
    BY <1>1 DEF BaseInv, PatchBase, DataInv, PatchInv
  <2>6. /\ item # Void => item.version <= version
        /\ patch # Void => patch.version <= version
    BY <2>3, <2>4, <2>5
  <2> QED
    BY <2>1, <2>2, <2>3, <2>5, <2>6 DEF TypedTypeOK
<1> QED
  BY <1>1, BaseInvariant, DataInvariant, PTL
-----------------------------------------------------------------------------
(***************************************************************************)
(* Edits.                                                                  *)
(***************************************************************************)
LEMMA PatchedReads ==
  ASSUME BaseInv, DataInv, Patched, patch.target # Void,
         ReadsBack(Here, patch.target)
  PROVE  PythonFromSot(ServerResult, Class) = patch.target
<1>1. stored = item.content /\ schema # Void /\ item # Void
  BY ServedDocument DEF Patched, BaseInv, PatchBase
<1>2. /\ patch.target \in Writable(Here, schema, item.content)
      /\ patch.ops = ChangesOf(Here, schema, item.content, patch.target)
      /\ patch.ops \in PatchesOf(Here, schema, item.content)
  BY DEF Patched, DataInv, PatchInv
<1>3. TryPatch(item.content, patch.ops, schema) # Failed
  BY <1>2 DEF PatchesOf
<1>4. item.content \in Documents(Here)
  BY <1>1 DEF DataInv, ItemInv
<1>5. DiffIsExact(Here, schema, Documents(Here))
  BY <1>1, BoundSchema DEF DataInv
<1>6. Served(item.content, patch.ops, schema) # Failed
  BY <1>1 DEF Patched, ServerResult
<1> QED
  BY <1>1, <1>2, <1>3, <1>4, <1>5, <1>6 DEF DiffIsExact, ServerResult, Class

LEMMA CreatedReads ==
  ASSUME BaseInv, DataInv, NEW doc \in Here.fresh, schema # Void,
         ModelToOrdered(doc, Class) # Failed,
         ApplySchema(ModelToOrdered(doc, Class), schema) # Failed,
         ReadsBack(Here, doc)
  PROVE  PythonFromSot(ApplySchema(ModelToOrdered(doc, Class), schema), Class)
           = doc
<1>1. DiffIsExact(Here, schema, Documents(Here))
  BY BoundSchema DEF DataInv
<1>2. ApplySchema(ModelToOrdered(doc, Class), schema)
        = Detail(Here, schema, doc)
  BY CreatedDocument
<1> QED
  BY <1>1, <1>2 DEF DiffIsExact, Class

LEMMA EditStep ==
  BaseInv /\ DataInv /\ EditSurvives /\ [TypedNext]_typedVars
    => EditSurvives'
<1> SUFFICES ASSUME BaseInv, DataInv, EditSurvives, [TypedNext]_typedVars
             PROVE  EditSurvives'
  OBVIOUS
<1>1. ASSUME UNCHANGED <<setup, stored, landed>> PROVE EditSurvives'
  BY <1>1 DEF EditSurvives, ReadsBack, Here, Class
<1>2. CASE \/ Refused \/ Compiled \/ Edited
           \/ \E b : Fetched(b) \/ BuiltFromChanges(b) \/ BuiltFromOps(b)
  BY <1>1, <1>2
  DEF Refused, Compiled, Edited, Fetched, BuiltFromChanges, BuiltFromOps,
      Built
<1>3. ASSUME NEW new, NEW target, ServerStores(new, target),
             target # Void /\ ReadsBack(Here, target)
               => PythonFromSot(new, Class) = target
      PROVE  EditSurvives'
  <2>1. stored' = new /\ Here' = Here /\ Class' = Class
    BY <1>3 DEF ServerStores, Here, Class
  <2>2. landed'.target = target
    BY <1>3 DEF ServerStores, Nothing
  <2>3. ReadsBack(Here', target) <=> ReadsBack(Here, target)
    BY <2>1
  <2> QED
    BY <1>3, <2>1, <2>2, <2>3 DEF EditSurvives
<1>4. CASE Patched
  BY <1>3, <1>4, PatchedReads DEF Patched
<1>5. CASE Created
  BY <1>3, <1>5, CreatedReads DEF Created
<1>6. CASE Deleted
  BY <1>3, <1>6 DEF Deleted
<1>7. CASE SomebodyWrites
  BY <1>7 DEF SomebodyWrites, Nothing, EditSurvives
<1>8. ItemShape
  BY DEF BaseInv
<1> QED
  BY <1>2, <1>4, <1>5, <1>6, <1>7, <1>8, StepEffect

(* No edit is lost between the calls: with the assumption that the changes *)
(* of a document, applied to that document, give the edited instance, what *)
(* a reader finds after an accepted patch is the instance that the patch   *)
(* was made from, whatever else was called and written in between.         *)
THEOREM EditsSurvive == TypedSpec => []EditSurvives
<1>1. TypedInit => EditSurvives
  BY DEF TypedInit, Nothing, EditSurvives
<1> QED
  BY <1>1, EditStep, BaseInvariant, DataInvariant, PTL DEF TypedSpec
=============================================================================
