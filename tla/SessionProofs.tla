---------------------------- MODULE SessionProofs ----------------------------
(***************************************************************************)
(* Theorems about ResolveRefs, for documents of any number and length, any *)
(* circles among them, any max_depth and any edits in between; and that a  *)
(* session implements both of its parts, so that what is proved of the     *)
(* shard map and of the walk holds of them together.                       *)
(***************************************************************************)
EXTENDS Session, ShardMapProofs

Documents == Seq(Fields)
Frames    == [doc : Keys \cup {Root}, next : Nat \ {0}]

(***************************************************************************)
(* The inductive invariant.  What is in the result was read once.  Each    *)
(* frame is a document that was met one level below the frame before it,   *)
(* and the fields before its place are dealt with.  A document above       *)
(* max_depth is being looked through or dealt with.                        *)
(***************************************************************************)
Values ==
  /\ out \in [Keys -> Documents \cup {Unread}]
  /\ content \in [Keys -> Documents \cup {Missing}]
  /\ given \in Documents

Counts ==
  /\ ReadOnce
  /\ walk = "walking" => \A k \in Keys : out[k] = Unread => reads[k] = 0
  /\ walk \in {"idle", "raised"} => \A k \in Keys : out[k] = Unread

Levels ==
  walk = "walking" =>
    /\ Len(frames) <= depth
    /\ \A i \in DOMAIN frames : i > 1 => level[frames[i].doc] = i - 1

DealtWith(f) ==
  /\ ~BadReference(f)
  /\ IsDirect(f) => out[KeyOf(f)] # Unread

Places ==
  \A i \in DOMAIN frames : \A j \in DOMAIN Data(frames[i].doc) :
    j < frames[i].next => DealtWith(Data(frames[i].doc)[j])

OnStack(k) == \E i \in DOMAIN frames : frames[i].doc = k

Pending ==
  walk = "walking" =>
    \A k \in Keys :
      out[k] # Unread /\ level[k] < depth => Resolved(out[k]) \/ OnStack(k)

ResolveInv ==
  /\ ResolveTypeOK
  /\ Values
  /\ Counts
  /\ Levels
  /\ Places
  /\ Pending
  /\ Closed
  /\ Grounded
-----------------------------------------------------------------------------
LEMMA DataTypes ==
  ASSUME ResolveInv, walk = "walking"
  PROVE  /\ Len(frames) \in Nat /\ Len(frames) >= 1
         /\ DOMAIN frames = 1 .. Len(frames)
         /\ frames \in Seq(Frames)
         /\ Top \in Frames
         /\ \A i \in DOMAIN frames :
              /\ frames[i] \in Frames
              /\ Data(frames[i].doc) \in Documents
<1>1. /\ frames \in Seq(Frames) /\ frames # <<>>
      /\ DOMAIN frames = 1 .. Len(frames) /\ Len(frames) \in Nat
  BY DEF ResolveInv, ResolveTypeOK, Frames
<1>2. Len(frames) >= 1
  BY <1>1
<1>3. /\ given \in Documents /\ out \in [Keys -> Documents \cup {Unread}]
      /\ \A i \in DOMAIN frames : frames[i].doc = Root <=> i = 1
      /\ \A i \in DOMAIN frames : i > 1 => out[frames[i].doc] # Unread
  BY DEF ResolveInv, ResolveTypeOK, Values
<1>4. ASSUME NEW i \in DOMAIN frames
      PROVE  frames[i] \in Frames /\ Data(frames[i].doc) \in Documents
  <2>1. /\ frames[i] \in Frames
        /\ frames[i].doc \in Keys \cup {Root}
        /\ (frames[i].doc = Root) <=> (i = 1)
    <3>1. frames[i] \in Frames
      BY <1>1
    <3>2. frames[i].doc \in Keys \cup {Root}
      BY <3>1 DEF Frames
    <3> QED
      BY <1>3, <3>1, <3>2
  <2>2. CASE i = 1
    BY <1>3, <2>1, <2>2 DEF Data
  <2>3. CASE i # 1
    <3>1. i > 1
      BY <1>1, <2>3
    <3>2. frames[i].doc \in Keys /\ out[frames[i].doc] # Unread
      BY <1>3, <2>1, <2>3, <3>1
    <3> QED
      BY <1>3, <2>1, <2>3, <3>2 DEF Data
  <2> QED
    BY <2>2, <2>3
<1> QED
  BY <1>1, <1>2, <1>4 DEF Top

(* The field that the walk is at.                                          *)
LEMMA FieldTypes ==
  ASSUME ResolveInv, walk = "walking", ~AtEnd
  PROVE  /\ Field \in Fields
         /\ Top.next \in DOMAIN Data(Top.doc)
         /\ Field = Data(Top.doc)[Top.next]
         /\ IsDirect(Field) => KeyOf(Field) \in Keys
<1>1. Len(frames) \in DOMAIN frames
  BY DataTypes
<1>2. /\ Data(Top.doc) \in Documents /\ Top.next \in Nat \ {0}
  BY <1>1, DataTypes DEF Top, Frames
<1>3. Top.next \in DOMAIN Data(Top.doc)
  BY <1>2 DEF AtEnd, Documents
<1>4. Field \in Fields /\ Field = Data(Top.doc)[Top.next]
  BY <1>2, <1>3 DEF Field, Documents
<1>5. IsDirect(Field) => KeyOf(Field) \in Keys
  BY <1>4 DEF IsDirect, BadReference, IsReference, KeyOf, Keys, Fields
<1> QED
  BY <1>3, <1>4, <1>5

(* Advanced moves the place of the top frame by one, and that is all.      *)
LEMMA AdvancedTypes ==
  ASSUME ResolveInv, walk = "walking"
  PROVE  /\ Advanced \in Seq(Frames)
         /\ Len(Advanced) = Len(frames)
         /\ DOMAIN Advanced = DOMAIN frames
         /\ \A i \in DOMAIN frames :
              /\ Advanced[i].doc = frames[i].doc
              /\ Advanced[i].next = IF i = Len(frames) THEN Top.next + 1
                                    ELSE frames[i].next
<1>1. /\ frames \in Seq(Frames) /\ Len(frames) \in DOMAIN frames
      /\ DOMAIN frames = 1 .. Len(frames) /\ Len(frames) \in Nat
      /\ \A i \in DOMAIN frames : frames[i] \in Frames
  BY DataTypes
<1>2. [frames[Len(frames)] EXCEPT !.next = @ + 1] \in Frames
  BY <1>1 DEF Frames
<1>3. Advanced = [frames EXCEPT ![Len(frames)] =
                    [frames[Len(frames)] EXCEPT !.next = @ + 1]]
  BY DEF Advanced
<1>4. Advanced \in Seq(Frames) /\ Len(Advanced) = Len(frames)
      /\ DOMAIN Advanced = DOMAIN frames
  BY <1>1, <1>2, <1>3
<1>5. \A i \in DOMAIN frames :
        Advanced[i] = IF i = Len(frames)
                      THEN [frames[i] EXCEPT !.next = @ + 1]
                      ELSE frames[i]
  BY <1>1, <1>3
<1> QED
  BY <1>1, <1>4, <1>5 DEF Top, Frames
-----------------------------------------------------------------------------
LEMMA ResolveInitInv == ResolveInit => ResolveInv
<1> SUFFICES ASSUME ResolveInit PROVE ResolveInv
  OBVIOUS
<1> USE DEF ResolveInit
<1>1. Values
  <2>1. \A k \in Keys : content[k] \in Documents \cup {Missing}
    BY VersionsAssumption DEF Documents
  <2> QED
    BY <2>1 DEF Values, Documents
<1>2. ResolveTypeOK
  <2>1. edits \in 0 .. MaxEdits
    BY MaxEditsAssumption
  <2> QED
    BY <2>1 DEF ResolveTypeOK
<1>3. Counts /\ Levels /\ Places /\ Pending
  BY DEF Counts, ReadOnce, Levels, Places, Pending
<1>4. Closed /\ Grounded
  BY DEF Closed, Grounded
<1> QED
  BY <1>1, <1>2, <1>3, <1>4 DEF ResolveInv

LEMMA StartKeeps ==
  ASSUME ResolveInv, StartWalk
  PROVE  ResolveInv'
<1> USE DEF StartWalk
<1>1. /\ Values /\ ResolveTypeOK
      /\ depth' \in Int
  BY DepthsAssumption DEF ResolveInv
<1>2. Values'
  BY <1>1, RootAssumption DEF Values, Documents
<1>3. CASE depth' <= 0
  <2>1. walk' = "resolved" /\ frames' = <<>>
    BY <1>1, <1>3
  <2>2. ResolveTypeOK'
    BY <1>1, <2>1 DEF ResolveTypeOK
  <2>3. (Counts /\ Levels /\ Places /\ Pending)'
    BY <2>1 DEF Counts, ReadOnce, Levels, Places, Pending
  <2>4. (Closed /\ Grounded)'
    BY <1>1, <1>3, <2>1 DEF Closed, Grounded
  <2> QED
    BY <1>2, <2>2, <2>3, <2>4 DEF ResolveInv
<1>4. CASE depth' > 0
  <2>1. walk' = "walking" /\ frames' = <<[doc |-> Root, next |-> 1]>>
    BY <1>1, <1>4
  <2>2. /\ frames' \in Seq([doc : Keys \cup {Root}, next : Nat \ {0}])
        /\ Len(frames') = 1 /\ DOMAIN frames' = {1} /\ frames' # <<>>
        /\ frames'[1] = [doc |-> Root, next |-> 1]
    BY <2>1
  <2>3. ResolveTypeOK'
    BY <1>1, <2>1, <2>2 DEF ResolveTypeOK
  <2>4. Counts' /\ Levels' /\ Pending'
    BY <1>1, <1>4, <2>1, <2>2 DEF Counts, ReadOnce, Levels, Pending
  <2>5. Places'
    <3> SUFFICES ASSUME NEW j \in DOMAIN Data(Root)', j < 1
                 PROVE  FALSE
      BY <2>2 DEF Places
    <3>1. Data(Root)' \in Documents
      BY <1>2 DEF Data, Values
    <3> QED
      BY <3>1 DEF Documents
  <2>6. (Closed /\ Grounded)'
    BY <2>1 DEF Closed, Grounded
  <2> QED
    BY <1>2, <2>3, <2>4, <2>5, <2>6 DEF ResolveInv
<1> QED
  BY <1>1, <1>3, <1>4

LEMMA RaiseKeeps ==
  ASSUME ResolveInv, RaiseFromWalk, reads' \in [Keys -> Nat],
         \A k \in Keys : reads'[k] <= 1,
         UNCHANGED <<content, edits, given, depth, level>>
  PROVE  ResolveInv'
<1> USE DEF RaiseFromWalk
<1>1. Values /\ ResolveTypeOK
  BY DEF ResolveInv
<1>2. Values'
  BY <1>1 DEF Values
<1>3. ResolveTypeOK'
  BY <1>1 DEF ResolveTypeOK
<1>4. (Counts /\ Levels /\ Places /\ Pending)'
  BY DEF Counts, ReadOnce, Levels, Places, Pending
<1>5. (Closed /\ Grounded)'
  BY DEF Closed, Grounded
<1> QED
  BY <1>2, <1>3, <1>4, <1>5 DEF ResolveInv

LEMMA SkipKeeps ==
  ASSUME ResolveInv, SkipField
  PROVE  ResolveInv'
<1>1. /\ walk = "walking" /\ ~AtEnd /\ ~BadReference(Field)
      /\ IsDirect(Field) => out[KeyOf(Field)] # Unread
      /\ frames' = Advanced
      /\ UNCHANGED <<content, edits, walk, given, depth, out, reads, level>>
  BY DEF SkipField
<1>2. /\ Advanced \in Seq(Frames) /\ Len(Advanced) = Len(frames)
      /\ DOMAIN Advanced = DOMAIN frames
      /\ \A i \in DOMAIN frames :
           /\ Advanced[i].doc = frames[i].doc
           /\ Advanced[i].next = IF i = Len(frames) THEN Top.next + 1
                                 ELSE frames[i].next
  BY <1>1, AdvancedTypes
<1>3. Len(frames) \in DOMAIN frames /\ frames' # <<>>
  BY <1>1, <1>2, DataTypes
<1>4. ResolveTypeOK'
  <2>1. \A i \in DOMAIN frames' :
          /\ (frames'[i].doc = Root) <=> (i = 1)
          /\ i > 1 => out'[frames'[i].doc] # Unread
    BY <1>1, <1>2 DEF ResolveInv, ResolveTypeOK
  <2> QED
    BY <1>1, <1>2, <1>3, <2>1 DEF ResolveInv, ResolveTypeOK, Frames
<1>5. Values' /\ Counts' /\ Levels'
  BY <1>1, <1>2 DEF ResolveInv, Values, Counts, ReadOnce, Levels
<1>6. \A d \in Keys \cup {Root} : Data(d)' = Data(d)
  BY <1>1 DEF Data
<1>7. Places'
  <2> SUFFICES ASSUME NEW i \in DOMAIN frames,
                      NEW j \in DOMAIN Data(frames[i].doc),
                      j < Advanced[i].next
               PROVE  DealtWith(Data(frames[i].doc)[j])
    BY <1>1, <1>2 DEF Places, DealtWith, Data
  <2>1. CASE j < frames[i].next
    BY <2>1 DEF ResolveInv, Places
  <2>2. CASE ~(j < frames[i].next)
    <3>1. Data(frames[i].doc) \in Documents /\ frames[i].next \in Nat
      BY <1>1, DataTypes DEF Frames
    <3>2. j \in Nat
      BY <3>1 DEF Documents
    <3>3. i = Len(frames)
      BY <1>2, <2>2, <3>1, <3>2
    <3>4. frames[i] = Top /\ j = Top.next
      BY <1>2, <2>2, <3>1, <3>2, <3>3 DEF Top
    <3> QED
      BY <1>1, <3>4 DEF Field, DealtWith
  <2> QED
    BY <2>1, <2>2
<1>8. Pending'
  <2>1. \A k \in Keys : OnStack(k) => OnStack(k)'
    BY <1>1, <1>2 DEF OnStack
  <2> QED
    BY <1>1, <2>1 DEF ResolveInv, Pending, Resolved
<1>9. Closed' /\ Grounded'
  BY <1>1 DEF ResolveInv, Closed, Grounded, Resolved, Refers
<1> QED
  BY <1>4, <1>5, <1>7, <1>8, <1>9 DEF ResolveInv

LEMMA DirectKeys ==
  ASSUME NEW f \in Fields, IsDirect(f)
  PROVE  KeyOf(f) \in Keys
BY DEF IsDirect, BadReference, IsReference, KeyOf, Keys, Fields

(* What FollowField does to the stack and to the result.                   *)
LEMMA FollowEffect ==
  ASSUME ResolveInv, FollowField, NEW k, k = KeyOf(Field)
  PROVE  /\ k \in Keys /\ out[k] = Unread /\ content[k] \in Documents
         /\ content[k] # Unread
         /\ \A j \in Keys : out'[j] = IF j = k THEN content[k] ELSE out[j]
         /\ \A j \in Keys : level'[j] = IF j = k THEN Len(frames)
                                        ELSE level[j]
         /\ \A j \in Keys : reads'[j] = IF j = k THEN reads[k] + 1
                                        ELSE reads[j]
         /\ frames' \in Seq(Frames)
         /\ DOMAIN frames' = 1 .. Len(frames')
         /\ Len(frames') = IF Len(frames) < depth THEN Len(frames) + 1
                           ELSE Len(frames)
         /\ \A i \in DOMAIN frames :
              /\ i \in DOMAIN frames'
              /\ frames'[i].doc = frames[i].doc
              /\ frames'[i].next = IF i = Len(frames) THEN Top.next + 1
                                   ELSE frames[i].next
         /\ \A i \in DOMAIN frames' \ DOMAIN frames :
              /\ i = Len(frames) + 1 /\ Len(frames) < depth
              /\ frames'[i] = [doc |-> k, next |-> 1]
<1>1. /\ walk = "walking" /\ ~AtEnd /\ IsDirect(Field)
      /\ out[k] = Unread /\ content[k] # Missing
      /\ Follow(k, Len(frames) < depth)
  BY DEF FollowField
<1>2. k \in Keys
  BY <1>1, FieldTypes
<1>3. content[k] \in Documents /\ content[k] # Unread
  BY <1>1, <1>2, UnreadAssumption DEF ResolveInv, Values, Documents
<1>4. /\ \A j \in Keys : out'[j] = IF j = k THEN content[k] ELSE out[j]
      /\ \A j \in Keys : level'[j] = IF j = k THEN Len(frames) ELSE level[j]
      /\ \A j \in Keys : reads'[j] = IF j = k THEN reads[k] + 1 ELSE reads[j]
  BY <1>1, <1>2 DEF Follow, ResolveInv, ResolveTypeOK, Values
<1>5. /\ Advanced \in Seq(Frames) /\ Len(Advanced) = Len(frames)
      /\ DOMAIN Advanced = DOMAIN frames
      /\ \A i \in DOMAIN frames :
           /\ Advanced[i].doc = frames[i].doc
           /\ Advanced[i].next = IF i = Len(frames) THEN Top.next + 1
                                 ELSE frames[i].next
  BY <1>1, AdvancedTypes
<1>6. Len(frames) \in Nat /\ DOMAIN frames = 1 .. Len(frames)
  BY <1>1, DataTypes
<1>7. CASE Len(frames) < depth
  <2>1. frames' = Append(Advanced, [doc |-> k, next |-> 1])
    BY <1>1, <1>7 DEF Follow
  <2>2. [doc |-> k, next |-> 1] \in Frames
    BY <1>2 DEF Frames
  <2>3. /\ frames' \in Seq(Frames) /\ Len(frames') = Len(frames) + 1
        /\ DOMAIN frames' = 1 .. Len(frames')
        /\ \A i \in 1 .. Len(frames) : frames'[i] = Advanced[i]
        /\ frames'[Len(frames) + 1] = [doc |-> k, next |-> 1]
    BY <1>5, <1>6, <2>1, <2>2
  <2> QED
    BY <1>1, <1>2, <1>3, <1>4, <1>5, <1>6, <1>7, <2>3
<1>8. CASE ~(Len(frames) < depth)
  <2>1. frames' = Advanced
    BY <1>1, <1>8 DEF Follow
  <2>2. /\ frames' \in Seq(Frames) /\ DOMAIN frames' = 1 .. Len(frames')
        /\ DOMAIN frames' = DOMAIN frames
    BY <1>5, <2>1
  <2> QED
    BY <1>1, <1>2, <1>3, <1>4, <1>5, <1>6, <1>8, <2>1, <2>2
<1> QED
  BY <1>7, <1>8

LEMMA FollowKeeps ==
  ASSUME ResolveInv, FollowField
  PROVE  ResolveInv'
<1>1. /\ walk = "walking" /\ ~AtEnd /\ IsDirect(Field)
      /\ UNCHANGED <<content, edits, walk, given, depth>>
  BY DEF FollowField
<1>K. PICK k \in Keys : k = KeyOf(Field)
  BY <1>1, FieldTypes
<1>2. /\ k \in Keys /\ out[k] = Unread /\ content[k] \in Documents
      /\ content[k] # Unread
      /\ \A j \in Keys : out'[j] = IF j = k THEN content[k] ELSE out[j]
      /\ \A j \in Keys : level'[j] = IF j = k THEN Len(frames) ELSE level[j]
      /\ \A j \in Keys : reads'[j] = IF j = k THEN reads[k] + 1 ELSE reads[j]
  BY <1>K, FollowEffect
<1>3. /\ frames' \in Seq(Frames) /\ DOMAIN frames' = 1 .. Len(frames')
      /\ Len(frames') = IF Len(frames) < depth THEN Len(frames) + 1
                        ELSE Len(frames)
      /\ \A i \in DOMAIN frames :
           /\ i \in DOMAIN frames'
           /\ frames'[i].doc = frames[i].doc
           /\ frames'[i].next = IF i = Len(frames) THEN Top.next + 1
                                ELSE frames[i].next
      /\ \A i \in DOMAIN frames' \ DOMAIN frames :
           /\ i = Len(frames) + 1 /\ Len(frames) < depth
           /\ frames'[i] = [doc |-> k, next |-> 1]
  BY <1>K, FollowEffect
<1>4. /\ Len(frames) \in Nat /\ Len(frames) >= 1
      /\ DOMAIN frames = 1 .. Len(frames)
      /\ depth \in Int /\ Len(frames) <= depth
      /\ \A i \in DOMAIN frames :
           /\ frames[i] \in Frames
           /\ Data(frames[i].doc) \in Documents
  BY <1>1, DataTypes, DepthsAssumption
  DEF ResolveInv, ResolveTypeOK, Levels
<1>5. Field \in Fields
  BY <1>1, FieldTypes
<1>6. \A i \in DOMAIN frames :
        /\ (frames[i].doc = Root) <=> (i = 1)
        /\ i > 1 => frames[i].doc \in Keys /\ out[frames[i].doc] # Unread
        /\ frames[i].doc # k
  <2> SUFFICES ASSUME NEW i \in DOMAIN frames
               PROVE  /\ (frames[i].doc = Root) <=> (i = 1)
                      /\ i > 1 => /\ frames[i].doc \in Keys
                                  /\ out[frames[i].doc] # Unread
                      /\ frames[i].doc # k
    OBVIOUS
  <2>1. frames[i].doc \in Keys \cup {Root}
    BY <1>4 DEF Frames
  <2>2. /\ (frames[i].doc = Root) <=> (i = 1)
        /\ i > 1 => out[frames[i].doc] # Unread
    BY DEF ResolveInv, ResolveTypeOK
  <2>3. frames[i].doc # k
    BY <1>2, <1>4, <2>1, <2>2, RootAssumption
  <2> QED
    BY <1>4, <2>1, <2>2, <2>3
<1>7. /\ \A d \in Keys \cup {Root} : d # k => Data(d)' = Data(d)
      /\ Data(k)' = content[k]
  BY <1>1, <1>2, RootAssumption DEF Data
<1>8. \A f \in Fields : DealtWith(f) => DealtWith(f)'
  <2> SUFFICES ASSUME NEW f \in Fields, DealtWith(f), IsDirect(f)
               PROVE  out'[KeyOf(f)] # Unread
    BY DEF DealtWith
  <2>1. KeyOf(f) \in Keys /\ out[KeyOf(f)] # Unread
    BY DirectKeys DEF DealtWith
  <2> QED
    BY <1>2, <2>1
<1>9. \A f \in Fields : f = Field => DealtWith(f)'
  BY <1>1, <1>2, <1>K DEF DealtWith, IsDirect
<1>10. ResolveTypeOK'
  <2>1. \A j \in Keys :
          out'[j] \in (Versions[j] \ {Missing}) \cup {Unread}
    <3>1. content[k] \in Versions[k] \ {Missing}
      BY <1>2, <1>K DEF ResolveInv, ResolveTypeOK, FollowField
    <3> QED
      BY <1>2, <3>1 DEF ResolveInv, ResolveTypeOK
  <2>2. reads' \in [Keys -> Nat] /\ level' \in [Keys -> Nat]
    BY <1>2, <1>4 DEF FollowField, Follow, ResolveInv, ResolveTypeOK
  <2>3. \A i \in DOMAIN frames' :
          /\ (frames'[i].doc = Root) <=> (i = 1)
          /\ i > 1 => out'[frames'[i].doc] # Unread
    <3> SUFFICES ASSUME NEW i \in DOMAIN frames'
                 PROVE  /\ (frames'[i].doc = Root) <=> (i = 1)
                        /\ i > 1 => out'[frames'[i].doc] # Unread
      OBVIOUS
    <3>1. CASE i \in DOMAIN frames
      BY <1>2, <1>3, <1>6, <3>1
    <3>2. CASE i \notin DOMAIN frames
      <4>1. i = Len(frames) + 1 /\ frames'[i].doc = k
        BY <1>3, <3>2
      <4> QED
        BY <1>2, <1>4, <4>1, RootAssumption
    <3> QED
      BY <3>1, <3>2
  <2>4. frames' # <<>>
    BY <1>3, <1>4
  <2> QED
    BY <1>1, <1>3, <2>1, <2>2, <2>3, <2>4
    DEF ResolveInv, ResolveTypeOK, Frames
<1>11. Values'
  <2>1. out' \in [Keys -> Documents \cup {Unread}]
    BY <1>2, <1>K DEF FollowField, Follow, ResolveInv, Values
  <2> QED
    BY <1>1, <2>1 DEF ResolveInv, Values
<1>12. Counts'
  <2>1. reads[k] = 0
    BY <1>1, <1>2 DEF ResolveInv, Counts
  <2> QED
    BY <1>1, <1>2, <2>1 DEF ResolveInv, Counts, ReadOnce
<1>13. Levels'
  <2>1. Len(frames') <= depth
    BY <1>3, <1>4
  <2>2. ASSUME NEW i \in DOMAIN frames', i > 1
        PROVE  level'[frames'[i].doc] = i - 1
    <3>1. CASE i \in DOMAIN frames
      BY <1>1, <1>2, <1>3, <1>6, <2>2, <3>1 DEF ResolveInv, Levels
    <3>2. CASE i \notin DOMAIN frames
      <4>1. i = Len(frames) + 1 /\ frames'[i].doc = k
        BY <1>3, <3>2
      <4> QED
        BY <1>2, <1>4, <4>1
    <3> QED
      BY <3>1, <3>2
  <2> QED
    BY <1>1, <2>1, <2>2 DEF Levels
<1>14. Places'
  <2> SUFFICES ASSUME NEW i \in DOMAIN frames', NEW d \in Keys \cup {Root},
                      d = frames'[i].doc,
                      NEW j \in DOMAIN Data(d)', j < frames'[i].next,
                      NEW f, f = Data(d)'[j]
               PROVE  DealtWith(f)'
    <3>1. ASSUME NEW i \in DOMAIN frames'
          PROVE  frames'[i].doc \in Keys \cup {Root}
      <4>1. frames'[i] \in Frames
        BY <1>3
      <4> QED
        BY <4>1 DEF Frames
    <3> QED
      BY <3>1 DEF Places
  <2>1. CASE i \notin DOMAIN frames
    <3>1. d = k /\ frames'[i].next = 1
      BY <1>3, <2>1
    <3>2. j \in DOMAIN content[k]
      BY <1>7, <3>1
    <3> QED
      BY <1>2, <3>1, <3>2 DEF Documents
  <2>2. CASE i \in DOMAIN frames
    <3>1. /\ d = frames[i].doc /\ Data(d)' = Data(d)
          /\ Data(d) \in Documents
      BY <1>3, <1>4, <1>6, <1>7, <2>2
    <3>2. f \in Fields /\ f = Data(d)[j] /\ j \in Nat
      BY <3>1 DEF Documents
    <3>3. CASE j < frames[i].next
      <4>1. DealtWith(f)
        BY <2>2, <3>1, <3>2, <3>3 DEF ResolveInv, Places
      <4> QED
        BY <1>8, <3>2, <4>1
    <3>4. CASE ~(j < frames[i].next)
      <4>1. frames[i].next \in Nat
        BY <1>4, <2>2 DEF Frames
      <4>2. i = Len(frames) /\ j = frames[i].next
        BY <1>3, <2>2, <3>2, <3>4, <4>1 DEF Top
      <4>3. f = Field
        BY <3>1, <3>2, <4>2 DEF Field, Top
      <4> QED
        BY <1>9, <3>2, <4>3
    <3> QED
      BY <3>3, <3>4
  <2> QED
    BY <2>1, <2>2
<1>15. Pending'
  <2> SUFFICES ASSUME NEW j \in Keys, out'[j] # Unread, level'[j] < depth
               PROVE  Resolved(out[j])' \/ OnStack(j)'
    BY <1>1 DEF Pending
  <2>1. CASE j = k
    <3>1. Len(frames) < depth
      BY <1>2, <2>1
    <3>2. Len(frames) + 1 \in DOMAIN frames' \ DOMAIN frames
      BY <1>3, <1>4, <3>1
    <3> QED
      BY <1>3, <2>1, <3>2 DEF OnStack
  <2>2. CASE j # k
    <3>1. /\ out'[j] = out[j] /\ out[j] # Unread /\ level[j] < depth
          /\ out[j] \in Documents
      BY <1>2, <2>2 DEF ResolveInv, Values
    <3>2. CASE OnStack(j)
      BY <1>3, <3>2 DEF OnStack
    <3>3. CASE Resolved(out[j])
      <4>1. \A i \in DOMAIN out[j] : out[j][i] \in Fields
        BY <3>1 DEF Documents
      <4>2. \A i \in DOMAIN out[j] : DealtWith(out[j][i])
        BY <3>3 DEF Resolved, DealtWith
      <4>3. \A i \in DOMAIN out[j] : \A f \in Fields :
              f = out[j][i] => DealtWith(f)'
        BY <1>8, <4>2
      <4> QED
        BY <3>1, <4>1, <4>3 DEF Resolved, DealtWith
    <3> QED
      BY <1>1, <3>1, <3>2, <3>3 DEF ResolveInv, Pending
  <2> QED
    BY <2>1, <2>2
<1>16. Closed'
  BY <1>1 DEF Closed
<1>17. Grounded'
  <2> SUFFICES ASSUME NEW n \in Keys, out'[n] # Unread
               PROVE  /\ level'[n] <= depth
                      /\ \/ level'[n] = 1 /\ Refers(given, n)
                         \/ \E j \in Keys : /\ out'[j] # Unread
                                            /\ level'[j] + 1 = level'[n]
                                            /\ Refers(out'[j], n)
    BY <1>1 DEF Grounded, Refers
  <2>1. CASE n # k
    <3>1. \A j \in Keys : out[j] # Unread =>
            out'[j] = out[j] /\ level'[j] = level[j]
      BY <1>2
    <3>2. out[n] # Unread
      BY <1>2, <2>1
    <3> QED
      BY <3>1, <3>2 DEF ResolveInv, Grounded
  <2>2. CASE n = k
    <3>1. Refers(Data(Top.doc), k)
      BY <1>1, <1>K, FieldTypes DEF Refers
    <3>2. /\ Top = frames[Len(frames)] /\ Len(frames) \in DOMAIN frames
          /\ level'[k] = Len(frames)
      BY <1>2, <1>4 DEF Top
    <3>3. CASE Len(frames) = 1
      BY <1>4, <1>6, <2>2, <3>1, <3>2, <3>3 DEF Data
    <3>4. CASE Len(frames) # 1
      <4>1. /\ Top.doc \in Keys /\ out[Top.doc] # Unread /\ Top.doc # k
            /\ Top.doc # Root /\ level[Top.doc] = Len(frames) - 1
        BY <1>1, <1>4, <1>6, <3>2, <3>4 DEF ResolveInv, Levels
      <4>2. /\ out'[Top.doc] = out[Top.doc]
            /\ level'[Top.doc] + 1 = level'[k]
        BY <1>2, <1>4, <3>2, <4>1
      <4>3. Refers(out'[Top.doc], k)
        BY <3>1, <4>1, <4>2 DEF Data
      <4> QED
        BY <1>4, <2>2, <3>2, <4>1, <4>2, <4>3
    <3> QED
      BY <3>3, <3>4
  <2> QED
    BY <2>1, <2>2
<1> QED
  BY <1>10, <1>11, <1>12, <1>13, <1>14, <1>15, <1>16, <1>17 DEF ResolveInv

(* The frames that are left are those before the top one.                  *)
LEMMA LeaveKeeps ==
  ASSUME ResolveInv, LeaveDocument
  PROVE  ResolveInv'
<1>1. /\ walk = "walking" /\ AtEnd
      /\ frames' = SubSeq(frames, 1, Len(frames) - 1)
      /\ walk' = IF Len(frames) = 1 THEN "resolved" ELSE "walking"
      /\ UNCHANGED <<content, edits, given, depth, out, reads, level>>
  BY DEF LeaveDocument
<1>2. /\ Len(frames) \in Nat /\ Len(frames) >= 1
      /\ DOMAIN frames = 1 .. Len(frames) /\ frames \in Seq(Frames)
      /\ \A i \in DOMAIN frames :
           /\ frames[i] \in Frames
           /\ Data(frames[i].doc) \in Documents
  BY <1>1, DataTypes
<1>3. /\ frames' \in Seq(Frames) /\ Len(frames') = Len(frames) - 1
      /\ DOMAIN frames' = 1 .. (Len(frames) - 1)
      /\ \A i \in 1 .. (Len(frames) - 1) : frames'[i] = frames[i]
  BY <1>1, <1>2
<1>4. /\ Top = frames[Len(frames)] /\ Len(frames) \in DOMAIN frames
      /\ Top.doc \in Keys \cup {Root} /\ Top.next \in Nat
  BY <1>2 DEF Top, Frames
<1>5. Resolved(Data(Top.doc))
  <2> SUFFICES ASSUME NEW j \in DOMAIN Data(Top.doc)
               PROVE  DealtWith(Data(Top.doc)[j])
    BY DEF Resolved, DealtWith
  <2>1. Data(Top.doc) \in Documents
    BY <1>2, <1>4
  <2>2. j < Top.next
    BY <1>1, <1>4, <2>1 DEF AtEnd, Documents
  <2> QED
    BY <1>4, <2>2 DEF ResolveInv, Places
<1>6. ResolveTypeOK'
  <2>1. (frames' # <<>>) <=> (walk' = "walking")
    BY <1>1, <1>2, <1>3
  <2>2. \A i \in DOMAIN frames' :
          /\ (frames'[i].doc = Root) <=> (i = 1)
          /\ i > 1 => out'[frames'[i].doc] # Unread
    BY <1>1, <1>2, <1>3 DEF ResolveInv, ResolveTypeOK
  <2> QED
    BY <1>1, <1>3, <2>1, <2>2 DEF ResolveInv, ResolveTypeOK, Frames
<1>7. Values' /\ Counts'
  BY <1>1 DEF ResolveInv, Values, Counts, ReadOnce
<1>8. Levels'
  <2>1. depth \in Int /\ Len(frames) <= depth
    BY <1>1, DepthsAssumption DEF ResolveInv, ResolveTypeOK, Levels
  <2> QED
    BY <1>1, <1>2, <1>3, <2>1 DEF ResolveInv, Levels
<1>9. Places'
  <2>1. \A d \in Keys \cup {Root} : Data(d)' = Data(d)
    BY <1>1 DEF Data
  <2>2. \A f : DealtWith(f)' <=> DealtWith(f)
    BY <1>1 DEF DealtWith
  <2> SUFFICES ASSUME NEW i \in DOMAIN frames', NEW d \in Keys \cup {Root},
                      d = frames'[i].doc,
                      NEW j \in DOMAIN Data(d)', j < frames'[i].next,
                      NEW f, f = Data(d)'[j]
               PROVE  DealtWith(f)'
    <3>1. ASSUME NEW i \in DOMAIN frames'
          PROVE  frames'[i].doc \in Keys \cup {Root}
      <4>1. frames'[i] \in Frames
        BY <1>3
      <4> QED
        BY <4>1 DEF Frames
    <3> QED
      BY <3>1 DEF Places
  <2>3. i \in DOMAIN frames /\ frames'[i] = frames[i]
    BY <1>2, <1>3
  <2> QED
    BY <2>1, <2>2, <2>3 DEF ResolveInv, Places
<1>10. \A k \in Keys :
         out[k] # Unread /\ level[k] < depth /\ ~OnStack(k)' =>
           Resolved(out[k])
  <2> SUFFICES ASSUME NEW k \in Keys, out[k] # Unread, level[k] < depth,
                      ~OnStack(k)'
               PROVE  Resolved(out[k])
    OBVIOUS
  <2>1. CASE k = Top.doc
    BY <1>5, <2>1, RootAssumption DEF Data
  <2>2. CASE k # Top.doc
    <3>1. ~OnStack(k)
      <4> SUFFICES ASSUME NEW i \in DOMAIN frames, frames[i].doc = k
                   PROVE  FALSE
        BY DEF OnStack
      <4>1. i \in DOMAIN frames' /\ frames'[i] = frames[i]
        BY <1>2, <1>3, <1>4, <2>2
      <4> QED
        BY <4>1 DEF OnStack
    <3> QED
      BY <1>1, <3>1 DEF ResolveInv, Pending
  <2> QED
    BY <2>1, <2>2
<1>11. Pending'
  BY <1>1, <1>10 DEF Pending, Resolved
<1>12. Closed'
  <2> SUFFICES ASSUME walk' = "resolved", depth > 0
               PROVE  /\ Resolved(given)
                      /\ \A k \in Keys : out[k] # Unread /\ level[k] < depth
                           => Resolved(out[k])
    BY <1>1 DEF Closed, Resolved
  <2>1. Len(frames) = 1 /\ DOMAIN frames' = {}
    <3>1. Len(frames) = 1
      BY <1>1
    <3>2. 1 .. (Len(frames) - 1) = {}
      BY <3>1
    <3> QED
      BY <1>3, <3>1, <3>2
  <2>2. Top.doc = Root
    <3>1. (frames[Len(frames)].doc = Root) <=> (Len(frames) = 1)
      BY <1>4 DEF ResolveInv, ResolveTypeOK
    <3> QED
      BY <1>4, <2>1, <3>1
  <2>3. \A k \in Keys : ~OnStack(k)'
    BY <2>1 DEF OnStack
  <2> QED
    BY <1>5, <1>10, <2>2, <2>3 DEF Data
<1>13. Grounded'
  BY <1>1 DEF ResolveInv, Grounded, Refers
<1> QED
  BY <1>6, <1>7, <1>8, <1>9, <1>11, <1>12, <1>13 DEF ResolveInv

LEMMA RejectKeeps ==
  ASSUME ResolveInv, RejectField
  PROVE  ResolveInv'
<1>1. /\ RaiseFromWalk
      /\ UNCHANGED <<content, edits, given, depth, reads, level>>
  BY DEF RejectField
<1>2. reads \in [Keys -> Nat] /\ \A k \in Keys : reads[k] <= 1
  BY DEF ResolveInv, ResolveTypeOK, Counts, ReadOnce
<1> QED
  BY <1>1, <1>2, RaiseKeeps

LEMMA FailsKeeps ==
  ASSUME ResolveInv, FollowFails
  PROVE  ResolveInv'
<1>1. /\ walk = "walking" /\ ~AtEnd /\ IsDirect(Field)
      /\ out[KeyOf(Field)] = Unread
      /\ reads' = [reads EXCEPT ![KeyOf(Field)] = @ + 1]
      /\ RaiseFromWalk
      /\ UNCHANGED <<content, edits, given, depth, level>>
  BY DEF FollowFails
<1>2. KeyOf(Field) \in Keys /\ reads[KeyOf(Field)] = 0
  BY <1>1, FieldTypes DEF ResolveInv, Counts
<1>3. reads \in [Keys -> Nat] /\ \A k \in Keys : reads[k] <= 1
  BY DEF ResolveInv, ResolveTypeOK, Counts, ReadOnce
<1>4. reads' \in [Keys -> Nat] /\ \A k \in Keys : reads'[k] <= 1
  BY <1>1, <1>2, <1>3
<1> QED
  BY <1>1, <1>4, RaiseKeeps

LEMMA EditsKeep ==
  ASSUME ResolveInv, SomebodyEdits
  PROVE  ResolveInv'
<1>1. /\ UNCHANGED <<walk, given, depth, frames, out, reads, level>>
      /\ edits < MaxEdits /\ edits' = edits + 1
  BY DEF SomebodyEdits, callVars
<1>2. edits' \in 0 .. MaxEdits
  BY <1>1, MaxEditsAssumption DEF ResolveInv, ResolveTypeOK
<1>K. PICK k \in Keys :
        \E v \in Versions[k] : content' = [content EXCEPT ![k] = v]
  BY DEF SomebodyEdits
<1>3. PICK v \in Versions[k] : content' = [content EXCEPT ![k] = v]
  BY <1>K
<1>4. content' \in [Keys -> Documents \cup {Missing}]
  <2>1. v \in Documents \cup {Missing}
    BY VersionsAssumption DEF Documents
  <2> QED
    BY <1>3, <2>1 DEF ResolveInv, Values
<1>5. \A j \in Keys : content'[j] \in Versions[j]
  BY <1>3 DEF ResolveInv, Values, ResolveTypeOK
<1>6. ResolveTypeOK' /\ Values'
  BY <1>1, <1>2, <1>4, <1>5 DEF ResolveInv, ResolveTypeOK, Values
<1>7. (Counts /\ Levels /\ Pending)'
  BY <1>1
  DEF ResolveInv, Counts, ReadOnce, Levels, Pending, OnStack, Resolved
<1>8. Places'
  BY <1>1 DEF ResolveInv, Places, DealtWith, Data
<1>9. (Closed /\ Grounded)'
  BY <1>1 DEF ResolveInv, Closed, Grounded, Resolved, Refers
<1> QED
  BY <1>6, <1>7, <1>8, <1>9 DEF ResolveInv

LEMMA ResolveStep == ResolveInv /\ [ResolveNext]_resolveVars => ResolveInv'
<1> SUFFICES ASSUME ResolveInv, [ResolveNext]_resolveVars PROVE ResolveInv'
  OBVIOUS
<1>1. CASE StartWalk
  BY <1>1, StartKeeps
<1>2. CASE WalkStep
  BY <1>2, RejectKeeps, SkipKeeps, FollowKeeps, FailsKeeps, LeaveKeeps
  DEF WalkStep
<1>3. CASE SomebodyEdits
  BY <1>3, EditsKeep
<1>4. CASE UNCHANGED resolveVars
  <2> USE <1>4 DEF resolveVars, callVars, ResolveInv
  <2>1. ResolveTypeOK' /\ Values'
    BY DEF ResolveTypeOK, Values
  <2>2. (Counts /\ Levels /\ Pending)'
    BY DEF Counts, ReadOnce, Levels, Pending, OnStack, Resolved
  <2>3. Places'
    BY DEF Places, DealtWith, Data
  <2>4. (Closed /\ Grounded)'
    BY DEF Closed, Grounded, Resolved, Refers
  <2> QED
    BY <2>1, <2>2, <2>3, <2>4
<1> QED
  BY <1>1, <1>2, <1>3, <1>4 DEF ResolveNext

LEMMA ResolveInvariant == ResolveSpec => []ResolveInv
BY ResolveInitInv, ResolveStep, PTL DEF ResolveSpec
-----------------------------------------------------------------------------
(* The stack of the walk holds documents of the result, each a version     *)
(* that the document had.                                                  *)
THEOREM WalkTypes == ResolveSpec => []ResolveTypeOK
<1>1. ResolveInv => ResolveTypeOK
  BY DEF ResolveInv
<1> QED
  BY <1>1, ResolveInvariant, PTL

(* Circles, documents named twice and edits in between notwithstanding, no *)
(* document is read twice by one call.                                     *)
THEOREM NoDocumentTwice == ResolveSpec => []ReadOnce
<1>1. ResolveInv => ReadOnce
  BY DEF ResolveInv, Counts
<1> QED
  BY <1>1, ResolveInvariant, PTL

(* A call that returns has everything that was asked for.                  *)
THEOREM ResultIsClosed == ResolveSpec => []Closed
<1>1. ResolveInv => Closed
  BY DEF ResolveInv
<1> QED
  BY <1>1, ResolveInvariant, PTL

(* And nothing else.                                                       *)
THEOREM ResultIsGrounded == ResolveSpec => []Grounded
<1>1. ResolveInv => Grounded
  BY DEF ResolveInv
<1> QED
  BY <1>1, ResolveInvariant, PTL
-----------------------------------------------------------------------------
(***************************************************************************)
(* The walk and the shard map in one session.                              *)
(***************************************************************************)
LEMMA SessionMapStep == [SessionNext]_sessionVars => [ShardNext]_shardVars
<1> SUFFICES ASSUME [SessionNext]_sessionVars
             PROVE  ShardNext \/ UNCHANGED shardVars
  OBVIOUS
<1>1. CASE UserEstablishes \/ ReadEstablishes
  BY <1>1 DEF UserEstablishes, ReadEstablishes, ShardNext
<1>2. CASE EstablishStep \/ EstablishReturns
  BY <1>2 DEF EstablishStep, EstablishReturns, ShardNext
<1>3. CASE \/ SessionStart \/ SessionWalk \/ SessionEdits
           \/ ReadCannotEstablish
  BY <1>3
  DEF SessionStart, SessionWalk, SessionEdits, ReadCannotEstablish
<1>4. CASE UNCHANGED sessionVars
  BY <1>4 DEF sessionVars
<1> QED
  BY <1>1, <1>2, <1>3, <1>4 DEF SessionNext, ThreadStep

LEMMA SessionWalkStep ==
  [SessionNext]_sessionVars => [ResolveNext]_resolveVars
<1> SUFFICES ASSUME [SessionNext]_sessionVars
             PROVE  ResolveNext \/ UNCHANGED resolveVars
  OBVIOUS
<1>1. CASE UserEstablishes \/ ReadEstablishes \/ EstablishStep
  BY <1>1 DEF UserEstablishes, ReadEstablishes, EstablishStep
<1>2. CASE EstablishReturns
  BY <1>2 DEF EstablishReturns, ResolveNext, WalkStep
<1>3. CASE SessionStart \/ SessionWalk \/ SessionEdits
  BY <1>3 DEF SessionStart, SessionWalk, SessionEdits, ResolveNext
<1>5. CASE ReadCannotEstablish
  BY <1>5 DEF ReadCannotEstablish, ResolveNext, WalkStep
<1>4. CASE UNCHANGED sessionVars
  BY <1>4 DEF sessionVars
<1> QED
  BY <1>1, <1>2, <1>3, <1>4, <1>5 DEF SessionNext, ThreadStep

(* Whoever calls establish(), and whenever, the client keeps its map as    *)
(* ShardMap says and walks as ResolveRefs says.                            *)
THEOREM SessionImplementsParts == SessionSpec => ShardSpec /\ ResolveSpec
<1>1. SessionInit => ShardInit /\ ResolveInit
  BY DEF SessionInit
<1> QED
  BY <1>1, SessionMapStep, SessionWalkStep, PTL
  DEF SessionSpec, ShardSpec, ResolveSpec

(* In a session the cached map is a partition of the slots that the parse  *)
(* accepted rightly, and families of ids stay together.                    *)
THEOREM SessionMaps ==
  SessionSpec =>
    [](ShardTypeOK /\ PartitionInstalled /\ DecidesCorrectly
         /\ FamiliesTogether)
BY SessionImplementsParts, ShardTypes, MapIsPartition, MapDecision,
   FamiliesStayTogether, PTL

(* In a session a walk reads nothing twice and returns what was asked for. *)
THEOREM SessionResults ==
  SessionSpec => [](ResolveTypeOK /\ ReadOnce /\ Closed /\ Grounded)
BY SessionImplementsParts, WalkTypes, NoDocumentTwice, ResultIsClosed,
   ResultIsGrounded, PTL
-----------------------------------------------------------------------------
(* The calls of establish() that a session makes: nothing of the walk      *)
(* moves.                                                                  *)
LEMMA EstablishTypes ==
  ASSUME SessionTypeOK,
         UserEstablishes \/ ReadEstablishes \/ EstablishStep
  PROVE  SessionTypeOK'
<1>1. UNCHANGED <<walk, given, frames, out>>
  BY DEF UserEstablishes, ReadEstablishes, EstablishStep, resolveVars, callVars
<1>2. AtRead' <=> AtRead
  BY <1>1 DEF AtRead, AtEnd, Field, Top, Data
<1>3. bounced' \in 0 .. MaxBounces
  BY MaxBouncesAssumption
  DEF UserEstablishes, ReadEstablishes, EstablishStep, SessionTypeOK
<1>4. cache.read => cache'.read
  BY DEF UserEstablishes, ReadEstablishes, EstablishStep, Establishing, Fetch,
         ParseEntry, StartCoverage, CoverRange, FinishCoverage, RejectMap,
         InstallMap
<1>5. CASE UserEstablishes \/ ReadEstablishes
  <2>1. stage' # "idle" /\ caller' \in {"user", "read"}
    BY <1>5 DEF UserEstablishes, ReadEstablishes, Fetch
  <2>2. /\ caller' = "user" => walk # "walking"
        /\ caller' = "read" => AtRead
    BY <1>5 DEF UserEstablishes, ReadEstablishes
  <2> QED
    BY <1>1, <1>2, <1>3, <1>4, <2>1, <2>2 DEF SessionTypeOK
<1>6. CASE EstablishStep
  <2>1. stage # "idle" /\ stage' # "idle" /\ caller' = caller
    BY <1>6
    DEF EstablishStep, Establishing, ParseEntry, StartCoverage, CoverRange,
        FinishCoverage, RejectMap, InstallMap
  <2> QED
    BY <1>1, <1>2, <1>3, <1>4, <2>1 DEF SessionTypeOK
<1> QED
  BY <1>5, <1>6

LEMMA ReturnTypes ==
  ASSUME SessionTypeOK, EstablishReturns
  PROVE  SessionTypeOK'
<1>1. /\ stage' = "idle" /\ caller' = "nobody" /\ UNCHANGED cache
      /\ bounced' \in 0 .. MaxBounces
  BY MaxBouncesAssumption DEF EstablishReturns, EndEstablish, SessionTypeOK
<1>2. \A k \in Keys : out'[k] = out[k] \/ out'[k] = Unread
  BY DEF EstablishReturns, FollowFails, RaiseFromWalk, resolveVars, callVars
<1> QED
  BY <1>1, <1>2 DEF SessionTypeOK

LEMMA WalkingTypes ==
  ASSUME SessionTypeOK, ResolveInv,
         SessionStart \/ SessionWalk \/ ReadCannotEstablish
  PROVE  SessionTypeOK'
<1>1. /\ stage = "idle" /\ UNCHANGED <<stage, caller, cache>>
      /\ bounced' \in 0 .. MaxBounces
  BY MaxBouncesAssumption
  DEF SessionStart, SessionWalk, ReadCannotEstablish, shardVars,
      SessionTypeOK
<1>2. caller = "nobody"
  BY <1>1 DEF SessionTypeOK
<1>3. (\E k \in Keys : out'[k] # Unread) => cache.read
  <2>1. CASE SessionStart
    BY <2>1 DEF SessionStart, StartWalk
  <2>2. CASE SessionWalk /\ FollowField
    BY <2>2 DEF SessionWalk, FollowField, AtRead
  <2>3. CASE SessionWalk /\ ~FollowField
    <3>1. \A k \in Keys : out'[k] = out[k] \/ out'[k] = Unread
      BY <2>3
      DEF SessionWalk, WalkStep, RejectField, SkipField, FollowFails,
          LeaveDocument, RaiseFromWalk
    <3> QED
      BY <3>1 DEF SessionTypeOK
  <2>4. CASE ReadCannotEstablish
    BY <2>4 DEF ReadCannotEstablish, FollowFails, RaiseFromWalk
  <2> QED
    BY <2>1, <2>2, <2>3, <2>4
<1> QED
  BY <1>1, <1>2, <1>3 DEF SessionTypeOK

(* A walk waits for establish() only where a read of it called it, and no  *)
(* document comes from a read without a map to route it by.                *)
THEOREM SessionTypes == SessionSpec => []SessionTypeOK
<1>1. SessionInit => SessionTypeOK
  BY MaxBouncesAssumption
  DEF SessionInit, SessionTypeOK, ShardInit, ResolveInit
<1>2. SessionTypeOK /\ ResolveInv /\ [SessionNext]_sessionVars
        => SessionTypeOK'
  <2> SUFFICES ASSUME SessionTypeOK, ResolveInv, [SessionNext]_sessionVars
               PROVE  SessionTypeOK'
    OBVIOUS
  <2>1. CASE UserEstablishes \/ ReadEstablishes \/ EstablishStep
    BY <2>1, EstablishTypes
  <2>2. CASE EstablishReturns
    BY <2>2, ReturnTypes
  <2>3. CASE SessionStart \/ SessionWalk \/ ReadCannotEstablish
    BY <2>3, WalkingTypes
  <2>4. CASE SessionEdits \/ UNCHANGED sessionVars
    <3>1. UNCHANGED <<shardVars, callVars, caller, bounced>>
      BY <2>4
      DEF SessionEdits, SomebodyEdits, sessionVars, resolveVars, callVars
    <3>2. AtRead' <=> AtRead
      BY <3>1 DEF callVars, AtRead, AtEnd, Field, Top, Data
    <3> QED
      BY <3>1, <3>2 DEF SessionTypeOK, shardVars, callVars
  <2> QED
    BY <2>1, <2>2, <2>3, <2>4 DEF SessionNext, ThreadStep
<1> QED
  BY <1>1, <1>2, SessionImplementsParts, ResolveInvariant, PTL
  DEF SessionSpec
=============================================================================
