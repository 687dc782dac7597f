--------------------------- MODULE ShardMapProofs ---------------------------
(***************************************************************************)
(* Theorems about ShardMap, for every number of slots and every map that a *)
(* deployment may send: what is cached is a partition of the slots, and    *)
(* the check accepts the partitions and nothing else.                      *)
(***************************************************************************)
EXTENDS ShardMap, WellFoundedInduction, TLAPS

Assignments == [range : Ranges, members : Groups \cup {NoGroup}]

(***************************************************************************)
(* The inductive invariant.  Parsing has read the entries so far; the      *)
(* slots marked are those of the ranges so far, which do not overlap; what *)
(* is to be installed is what the document says.                           *)
(***************************************************************************)
ReadUpTo(n) ==
  \A i \in 1..n : /\ WellFormed(document[i].raw)
                  /\ assignments[i] = Assignment(document[i])

MarkedUpTo(n) ==
  /\ covered = {s \in ShardSlots :
                  \E i \in 1..n : InRange(assignments[i].range, s)}
  /\ \A i, j \in 1..n, s \in ShardSlots :
       /\ InRange(assignments[i].range, s)
       /\ InRange(assignments[j].range, s)
       => i = j

Partition(as) ==
  \A s \in ShardSlots :
    \E i \in DOMAIN as :
      \A j \in DOMAIN as : InRange(as[j].range, s) <=> j = i

ParseInv ==
  stage = "parse" =>
    /\ taken <= Len(document)
    /\ ReadUpTo(taken)

CoverInv ==
  stage = "cover" =>
    /\ taken <= Len(assignments)
    /\ ReadUpTo(Len(document))
    /\ MarkedUpTo(taken)

InstallInv ==
  stage \in {"install", "accepted"} /\ document # NoMap =>
    /\ Len(assignments) = Len(document)
    /\ ReadUpTo(Len(document))
    /\ Partition(assignments)

IdleInv ==
  stage = "idle" =>
    taken = 0 /\ assignments = <<>> /\ covered = {} /\ document = NoMap

ShardInv ==
  /\ ShardTypeOK
  /\ cache.read \in BOOLEAN
  /\ ParseInv
  /\ CoverInv
  /\ InstallInv
  /\ IdleInv
  /\ PartitionInstalled
  /\ DecidesCorrectly
-----------------------------------------------------------------------------
LEMMA EntryTypes ==
  ASSUME NEW m \in ShardMaps, m # NoMap
  PROVE  /\ m \in Seq(Entries)
         /\ Len(m) \in Nat
         /\ DOMAIN m = 1 .. Len(m)
         /\ \A i \in DOMAIN m : m[i] \in Entries
BY ShardMapsAssumption

LEMMA RangeTypes ==
  ASSUME NEW e \in Entries, WellFormed(e.raw)
  PROVE  /\ Assignment(e) \in Assignments
         /\ Assignment(e).range = ParseRange(e.raw)
<1>1. /\ e.raw \in Seq(Parts) /\ e.members \in Groups \cup {Malformed}
      /\ DOMAIN e.raw = 1 .. Len(e.raw)
  BY DEF Entries
<1>2. e.raw[1] \in ShardSlots /\ e.raw[Len(e.raw)] \in ShardSlots
  BY <1>1 DEF WellFormed
<1> QED
  BY <1>1, <1>2 DEF Assignment, Assignments, ParseRange, Ranges

(* The loop over a range marks the slots that the range contains.          *)
LEMMA MarkedSlots ==
  ASSUME NEW e \in Assignments
  PROVE  SlotsOf(e.range) = {s \in ShardSlots : InRange(e.range, s)}
<1>1. e.range.start \in ShardSlots /\ e.range.end \in ShardSlots
  BY DEF Assignments, Ranges
<1> QED
  BY <1>1, SlotCountAssumption DEF SlotsOf, InRange, ShardSlots

(* What the check goes by is what the document says.                       *)
LEMMA ReadMap ==
  ASSUME document \in ShardMaps, document # NoMap,
         Len(assignments) = Len(document),
         assignments \in Seq(Assignments),
         ReadUpTo(Len(document))
  PROVE  /\ \A i \in DOMAIN document :
              assignments[i].range = ParseRange(document[i].raw)
         /\ DOMAIN assignments = DOMAIN document
         /\ ValidMap(document) <=> Partition(assignments)
<1>1. /\ document \in Seq(Entries)
      /\ DOMAIN document = 1 .. Len(document)
      /\ \A i \in DOMAIN document : document[i] \in Entries
  BY EntryTypes
<1>2. DOMAIN assignments = DOMAIN document
  BY <1>1
<1>3. \A i \in DOMAIN document :
        /\ WellFormed(document[i].raw)
        /\ assignments[i].range = ParseRange(document[i].raw)
  BY <1>1, RangeTypes DEF ReadUpTo
<1>4. ValidMap(document) <=> Partition(assignments)
  BY <1>2, <1>3 DEF ValidMap, Partition
<1> QED
  BY <1>2, <1>3, <1>4
-----------------------------------------------------------------------------
LEMMA ShardInitInv == ShardInit => ShardInv
<1> SUFFICES ASSUME ShardInit PROVE ShardInv
  OBVIOUS
<1> USE DEF ShardInit, NoCache
<1>1. ShardTypeOK
  BY DEF ShardTypeOK
<1>2. ParseInv /\ CoverInv /\ InstallInv /\ IdleInv
  BY DEF ParseInv, CoverInv, InstallInv, IdleInv
<1>3. PartitionInstalled /\ DecidesCorrectly
  BY DEF PartitionInstalled, DecidesCorrectly
<1> QED
  BY <1>1, <1>2, <1>3 DEF ShardInv

(* The step that parses one more range.                                    *)
LEMMA ParseStep ==
  ASSUME ShardInv, ParseEntry, stage' = "parse"
  PROVE  ShardInv'
<1> USE DEF ShardInv
<1>1. /\ stage = "parse" /\ document \in ShardMaps /\ document # NoMap
      /\ taken \in Nat /\ taken = Len(assignments) /\ covered = {}
      /\ assignments \in Seq(Assignments)
  BY DEF ParseEntry, ShardTypeOK, Assignments
<1> DEFINE entry == document[taken + 1]
<1>2. /\ taken < Len(document)
      /\ WellFormed(entry.raw)
      /\ assignments' = Append(assignments, Assignment(entry))
      /\ taken' = taken + 1
      /\ UNCHANGED <<document, stage, covered, cache>>
  BY DEF ParseEntry, RejectMap
<1>3. Len(document) \in Nat /\ entry \in Entries
  BY <1>1, <1>2, EntryTypes
<1>4. Assignment(entry) \in Assignments
  BY <1>2, <1>3, RangeTypes
<1>5. assignments' \in Seq(Assignments) /\ Len(assignments') = taken + 1
  BY <1>1, <1>2, <1>4
<1>6. ShardTypeOK'
  BY <1>1, <1>2, <1>5 DEF ShardTypeOK, Assignments
<1>7. ReadUpTo(taken)
  BY <1>1 DEF ParseInv
<1>8. ParseInv'
  <2>1. ASSUME NEW i \in 1 .. taken + 1
        PROVE  /\ WellFormed(document[i].raw)
               /\ assignments'[i] = Assignment(document[i])
    <3>1. CASE i = taken + 1
      BY <1>1, <1>2, <3>1
    <3>2. CASE i \in 1 .. taken
      BY <1>1, <1>2, <1>7, <3>2 DEF ReadUpTo
    <3> QED
      BY <1>1, <3>1, <3>2
  <2> QED
    BY <1>1, <1>2, <1>3, <2>1 DEF ParseInv, ReadUpTo
<1>9. CoverInv' /\ InstallInv' /\ IdleInv' /\ DecidesCorrectly'
  BY <1>1, <1>2 DEF CoverInv, InstallInv, IdleInv, DecidesCorrectly
<1>10. PartitionInstalled' /\ cache'.read \in BOOLEAN
  BY <1>2 DEF PartitionInstalled
<1> QED
  BY <1>6, <1>8, <1>9, <1>10

(* The step that marks the slots of one more range.                        *)
LEMMA CoverStep ==
  ASSUME ShardInv, CoverRange, stage' = "cover"
  PROVE  ShardInv'
<1> USE DEF ShardInv
<1> DEFINE r == assignments[taken + 1].range
<1>1. /\ stage = "cover" /\ document \in ShardMaps /\ document # NoMap
      /\ taken \in Nat /\ taken < Len(assignments)
      /\ Len(assignments) = Len(document)
      /\ assignments \in Seq(Assignments)
      /\ covered \subseteq ShardSlots
  BY DEF CoverRange, ShardTypeOK, Assignments
<1>2. /\ SlotsOf(r) \cap covered = {}
      /\ covered' = covered \cup SlotsOf(r)
      /\ taken' = taken + 1
      /\ UNCHANGED <<document, stage, assignments, cache>>
  BY DEF CoverRange, RejectMap
<1>M. SlotsOf(r) = {s \in ShardSlots : InRange(r, s)}
  <2>1. assignments[taken + 1] \in Assignments
    BY <1>1
  <2> QED
    BY <2>1, MarkedSlots
<1>3. MarkedUpTo(taken) /\ ReadUpTo(Len(document))
  BY <1>1 DEF CoverInv
<1>4. ShardTypeOK'
  BY <1>1, <1>2, <1>M DEF ShardTypeOK, Assignments
<1>5. MarkedUpTo(taken)'
  <2>1. \A i \in 1 .. taken + 1 : i \in 1 .. taken \/ i = taken + 1
    BY <1>1
  <2>2. 1 .. taken \subseteq 1 .. taken + 1 /\ taken + 1 \in 1 .. taken + 1
    BY <1>1
  <2>3. covered' = {s \in ShardSlots :
                      \E i \in 1 .. taken + 1 :
                        InRange(assignments[i].range, s)}
    BY <1>2, <1>3, <1>M, <2>1, <2>2 DEF MarkedUpTo
  <2>4. ASSUME NEW i \in 1 .. taken + 1, NEW j \in 1 .. taken + 1,
               NEW s \in ShardSlots,
               InRange(assignments[i].range, s),
               InRange(assignments[j].range, s)
        PROVE  i = j
    <3>1. CASE i \in 1 .. taken /\ j \in 1 .. taken
      BY <1>3, <2>4, <3>1 DEF MarkedUpTo
    <3>2. ASSUME NEW k \in 1 .. taken, InRange(assignments[k].range, s),
                 InRange(r, s)
          PROVE  FALSE
      BY <1>2, <1>3, <1>M, <3>2 DEF MarkedUpTo
    <3> QED
      BY <2>1, <2>4, <3>1, <3>2
  <2> QED
    BY <1>1, <1>2, <2>3, <2>4 DEF MarkedUpTo
<1>6. CoverInv'
  BY <1>1, <1>2, <1>3, <1>5 DEF CoverInv, ReadUpTo
<1>7. ParseInv' /\ InstallInv' /\ IdleInv' /\ DecidesCorrectly'
  BY <1>1, <1>2 DEF ParseInv, InstallInv, IdleInv, DecidesCorrectly
<1>8. PartitionInstalled' /\ cache'.read \in BOOLEAN
  BY <1>2 DEF PartitionInstalled
<1> QED
  BY <1>4, <1>6, <1>7, <1>8

(* Nothing is left to parse: marking begins with no slot marked.           *)
LEMMA StartStep ==
  ASSUME ShardInv, StartCoverage
  PROVE  ShardInv'
<1> USE DEF ShardInv
<1>1. /\ stage = "parse" /\ document \in ShardMaps /\ document # NoMap
      /\ taken = Len(document) /\ taken = Len(assignments) /\ covered = {}
      /\ assignments \in Seq(Assignments)
      /\ stage' = "cover" /\ taken' = 0
      /\ UNCHANGED <<document, assignments, covered, cache>>
  BY DEF StartCoverage, ShardTypeOK, Assignments
<1>2. Len(document) \in Nat
  BY <1>1, EntryTypes
<1>3. ShardTypeOK'
  BY <1>1, <1>2 DEF ShardTypeOK, Assignments
<1>4. ReadUpTo(Len(document))'
  BY <1>1 DEF ParseInv, ReadUpTo
<1>5. MarkedUpTo(taken)'
  <2>1. 1 .. 0 = {}
    OBVIOUS
  <2> QED
    BY <1>1, <2>1 DEF MarkedUpTo
<1>6. CoverInv'
  BY <1>1, <1>2, <1>4, <1>5 DEF CoverInv
<1>7. ParseInv' /\ InstallInv' /\ IdleInv' /\ DecidesCorrectly'
  BY <1>1 DEF ParseInv, InstallInv, IdleInv, DecidesCorrectly
<1>8. PartitionInstalled' /\ cache'.read \in BOOLEAN
  BY <1>1 DEF PartitionInstalled
<1> QED
  BY <1>3, <1>6, <1>7, <1>8

(* A map is refused only when it is no partition.                          *)
LEMMA RejectStep ==
  ASSUME ShardInv, RejectMap, stage # "idle", ~ValidMap(document)
  PROVE  ShardInv'
<1> USE DEF ShardInv, RejectMap
<1>1. ShardTypeOK'
  BY DEF ShardTypeOK
<1>2. ParseInv' /\ CoverInv' /\ InstallInv' /\ IdleInv'
  BY DEF ParseInv, CoverInv, InstallInv, IdleInv
<1>3. PartitionInstalled' /\ cache'.read \in BOOLEAN
  BY DEF PartitionInstalled
<1>4. DecidesCorrectly'
  BY DEF DecidesCorrectly, ValidMap
<1> QED
  BY <1>1, <1>2, <1>3, <1>4

LEMMA RefusedMaps ==
  ASSUME ShardInv, ParseEntry \/ CoverRange \/ FinishCoverage, RejectMap
  PROVE  ~ValidMap(document)
<1> USE DEF ShardInv
<1>1. /\ document \in ShardMaps /\ document # NoMap
      /\ assignments \in Seq(Assignments)
      /\ taken \in Nat
      /\ stage' = "rejected"
  BY DEF ParseEntry, CoverRange, FinishCoverage, RejectMap, ShardTypeOK,
         Assignments
<1>2. Len(document) \in Nat /\ DOMAIN document = 1 .. Len(document)
  BY <1>1, EntryTypes
<1>3. CASE ParseEntry
  <2>1. taken + 1 \in DOMAIN document /\ ~WellFormed(document[taken + 1].raw)
    BY <1>1, <1>2, <1>3 DEF ParseEntry
  <2> QED
    BY <1>1, <2>1 DEF ValidMap
<1>4. CASE CoverRange \/ FinishCoverage
  <2>1. /\ stage = "cover" /\ Len(assignments) = Len(document)
        /\ taken <= Len(assignments)
        /\ ReadUpTo(Len(document)) /\ MarkedUpTo(taken)
    BY <1>4 DEF CoverRange, FinishCoverage, CoverInv, ShardTypeOK
  <2>2. /\ ValidMap(document) <=> Partition(assignments)
        /\ DOMAIN assignments = 1 .. Len(document)
    BY <1>1, <1>2, <2>1, ReadMap
  <2>3. CASE CoverRange
    <3>1. /\ taken < Len(assignments)
          /\ SlotsOf(assignments[taken + 1].range) \cap covered # {}
      BY <1>1, <2>3 DEF CoverRange
    <3>2. PICK s \in ShardSlots :
            s \in covered /\ InRange(assignments[taken + 1].range, s)
      <4>1. /\ assignments \in Seq(Assignments) /\ taken \in Nat
            /\ covered \subseteq ShardSlots
        BY DEF ShardTypeOK, Assignments
      <4>2. assignments[taken + 1] \in Assignments
        BY <3>1, <4>1
      <4> QED
        BY <3>1, <4>1, <4>2, MarkedSlots
    <3>3. PICK i \in 1 .. taken : InRange(assignments[i].range, s)
      BY <2>1, <3>2 DEF MarkedUpTo
    <3>4. i \in DOMAIN assignments /\ taken + 1 \in DOMAIN assignments
            /\ i # taken + 1
      BY <1>1, <1>2, <2>1, <2>2, <3>1
    <3> QED
      BY <2>2, <3>2, <3>3, <3>4 DEF Partition
  <2>4. CASE FinishCoverage
    <3>1. taken = Len(assignments) /\ covered # ShardSlots
      BY <1>1, <2>4 DEF FinishCoverage
    <3>2. PICK s \in ShardSlots : s \notin covered
      BY <3>1 DEF ShardInv, ShardTypeOK
    <3>3. \A i \in DOMAIN assignments : ~InRange(assignments[i].range, s)
      BY <2>1, <2>2, <3>1, <3>2 DEF MarkedUpTo
    <3> QED
      BY <2>2, <3>3 DEF Partition
  <2> QED
    BY <1>4, <2>3, <2>4
<1> QED
  BY <1>3, <1>4

(* Every slot is marked and no two ranges overlap: a partition.            *)
LEMMA FinishStep ==
  ASSUME ShardInv, FinishCoverage, stage' = "install"
  PROVE  ShardInv'
<1> USE DEF ShardInv
<1>1. /\ stage = "cover" /\ document \in ShardMaps /\ document # NoMap
      /\ taken = Len(assignments) /\ covered = ShardSlots
      /\ Len(assignments) = Len(document)
      /\ assignments \in Seq(Assignments)
      /\ UNCHANGED <<document, taken, assignments, covered, cache>>
  BY DEF FinishCoverage, RejectMap, ShardTypeOK, Assignments
<1>2. /\ ReadUpTo(Len(document)) /\ MarkedUpTo(taken)
      /\ DOMAIN assignments = 1 .. taken
  BY <1>1 DEF CoverInv
<1>3. Partition(assignments)
  <2> SUFFICES ASSUME NEW s \in ShardSlots
               PROVE  \E i \in 1 .. taken :
                        \A j \in 1 .. taken :
                          InRange(assignments[j].range, s) <=> j = i
    BY <1>2 DEF Partition
  <2>1. PICK i \in 1 .. taken : InRange(assignments[i].range, s)
    BY <1>1, <1>2 DEF MarkedUpTo
  <2>2. \A j \in 1 .. taken : InRange(assignments[j].range, s) <=> j = i
    BY <1>2, <2>1 DEF MarkedUpTo
  <2> QED
    BY <2>1, <2>2
<1>4. ShardTypeOK'
  BY <1>1 DEF ShardTypeOK, Assignments
<1>5. InstallInv'
  BY <1>1, <1>2, <1>3 DEF InstallInv, ReadUpTo, Partition
<1>6. ParseInv' /\ CoverInv' /\ IdleInv'
  BY <1>1 DEF FinishCoverage, ParseInv, CoverInv, IdleInv
<1>7. PartitionInstalled' /\ cache'.read \in BOOLEAN
  BY <1>1 DEF PartitionInstalled
<1>8. DecidesCorrectly'
  BY <1>1, <1>2, <1>3, ReadMap DEF DecidesCorrectly, ValidMap
<1> QED
  BY <1>4, <1>5, <1>6, <1>7, <1>8

LEMMA InstallStep ==
  ASSUME ShardInv, InstallMap
  PROVE  ShardInv'
<1> USE DEF ShardInv
<1>1. /\ stage = "install" /\ stage' = "accepted"
      /\ cache' = [read |-> TRUE, map |-> document,
                   assignments |-> assignments]
      /\ UNCHANGED <<document, taken, assignments, covered>>
  BY DEF InstallMap
<1>2. document \in ShardMaps
  BY <1>1 DEF ShardTypeOK
<1>3. ShardTypeOK'
  BY <1>1, <1>2 DEF ShardTypeOK
<1>4. ParseInv' /\ CoverInv' /\ InstallInv' /\ IdleInv'
  BY <1>1 DEF ParseInv, CoverInv, InstallInv, IdleInv, ReadUpTo, Partition
<1>5. PartitionInstalled' /\ cache'.read \in BOOLEAN
  BY <1>1 DEF PartitionInstalled, InstallInv, Partition
<1>6. DecidesCorrectly'
  BY <1>1 DEF DecidesCorrectly, ValidMap
<1> QED
  BY <1>3, <1>4, <1>5, <1>6

LEMMA CallStep ==
  ASSUME ShardInv, Fetch \/ EndEstablish
  PROVE  ShardInv'
<1> USE DEF ShardInv
<1>1. CASE Fetch
  <2>1. /\ document' \in ShardMaps
        /\ stage' = IF document' = NoMap THEN "install" ELSE "parse"
        /\ taken = 0 /\ assignments = <<>> /\ covered = {}
        /\ UNCHANGED <<taken, assignments, covered, cache>>
    BY <1>1 DEF Fetch, IdleInv
  <2>2. ShardTypeOK'
    BY <2>1 DEF ShardTypeOK
  <2>3. document' # NoMap => Len(document') \in Nat
    BY <2>1, EntryTypes
  <2>4. 1 .. 0 = {}
    OBVIOUS
  <2>5. ParseInv'
    BY <2>1, <2>3, <2>4 DEF ParseInv, ReadUpTo
  <2>6. CoverInv' /\ InstallInv' /\ IdleInv'
    BY <2>1 DEF CoverInv, InstallInv, IdleInv
  <2>7. PartitionInstalled' /\ cache'.read \in BOOLEAN
    BY <2>1 DEF PartitionInstalled
  <2>8. DecidesCorrectly'
    BY <2>1 DEF DecidesCorrectly, ValidMap
  <2> QED
    BY <2>2, <2>5, <2>6, <2>7, <2>8
<1>2. CASE EndEstablish
  <2> USE <1>2 DEF EndEstablish
  <2>1. ShardTypeOK'
    BY DEF ShardTypeOK
  <2>2. ParseInv' /\ CoverInv' /\ InstallInv' /\ IdleInv'
    BY DEF ParseInv, CoverInv, InstallInv, IdleInv
  <2>3. PartitionInstalled' /\ cache'.read \in BOOLEAN /\ DecidesCorrectly'
    BY DEF PartitionInstalled, DecidesCorrectly
  <2> QED
    BY <2>1, <2>2, <2>3
<1> QED
  BY <1>1, <1>2
-----------------------------------------------------------------------------
LEMMA ShardStep == ShardInv /\ [ShardNext]_shardVars => ShardInv'
<1> SUFFICES ASSUME ShardInv, [ShardNext]_shardVars PROVE ShardInv'
  OBVIOUS
<1>1. CASE Fetch \/ EndEstablish
  BY <1>1, CallStep
<1>2. CASE ParseEntry \/ CoverRange \/ FinishCoverage
  <2>1. CASE RejectMap
    <3>1. stage # "idle"
      BY <1>2 DEF ParseEntry, CoverRange, FinishCoverage
    <3> QED
      BY <1>2, <2>1, <3>1, RefusedMaps, RejectStep
  <2>2. CASE ~RejectMap
    <3>1. CASE ParseEntry
      BY <2>2, <3>1, ParseStep DEF ParseEntry
    <3>2. CASE CoverRange
      BY <2>2, <3>2, CoverStep DEF CoverRange
    <3>3. CASE FinishCoverage
      BY <2>2, <3>3, FinishStep DEF FinishCoverage
    <3> QED
      BY <1>2, <3>1, <3>2, <3>3
  <2> QED
    BY <2>1, <2>2
<1>3. CASE StartCoverage
  BY <1>3, StartStep
<1>4. CASE InstallMap
  BY <1>4, InstallStep
<1>5. CASE UNCHANGED shardVars
  <2> USE <1>5 DEF shardVars, ShardInv
  <2>1. ShardTypeOK'
    BY DEF ShardTypeOK
  <2>2. ParseInv' /\ CoverInv' /\ IdleInv'
    BY DEF ParseInv, CoverInv, IdleInv, ReadUpTo, MarkedUpTo
  <2>3. InstallInv'
    BY DEF InstallInv, ReadUpTo, Partition
  <2>4. PartitionInstalled' /\ cache'.read \in BOOLEAN /\ DecidesCorrectly'
    BY DEF PartitionInstalled, DecidesCorrectly, ValidMap
  <2> QED
    BY <2>1, <2>2, <2>3, <2>4
<1> QED
  BY <1>1, <1>2, <1>3, <1>4, <1>5 DEF ShardNext, Establishing

LEMMA ShardInvariant == ShardSpec => []ShardInv
BY ShardInitInv, ShardStep, PTL DEF ShardSpec

(* The stages of the parse hand over to each other, and the cache holds    *)
(* what was read from a map that was sent.                                 *)
THEOREM ShardTypes == ShardSpec => []ShardTypeOK
<1>1. ShardInv => ShardTypeOK
  BY DEF ShardInv
<1> QED
  BY <1>1, ShardInvariant, PTL

(* Whatever maps are fetched, in whatever order, the one that is cached    *)
(* gives each of the SlotCount slots to exactly one assignment.            *)
THEOREM MapIsPartition == ShardSpec => []PartitionInstalled
<1>1. ShardInv => PartitionInstalled
  BY DEF ShardInv
<1> QED
  BY <1>1, ShardInvariant, PTL

(* The parse and the marking accept exactly the well formed partitions.    *)
THEOREM MapDecision == ShardSpec => []DecidesCorrectly
<1>1. ShardInv => DecidesCorrectly
  BY DEF ShardInv
<1> QED
  BY <1>1, ShardInvariant, PTL
-----------------------------------------------------------------------------
(* Every nonempty set of positions has a first element, and the choice in  *)
(* ShardingPrefix is that element.                                         *)
LEMMA FirstExists ==
  ASSUME NEW S \in SUBSET Nat, S # {}
  PROVE  \E x \in S : \A y \in S : x <= y
<1> DEFINE R == OpToRel(<, Nat)
<1>1. IsWellFoundedOn(R, Nat)
  BY NatLessThanWellFounded
<1>2. \A x, y \in Nat : ~(<<y, x>> \in R) => x <= y
  BY DEF OpToRel
<1> HIDE DEF R
<1>3. PICK x \in S : \A y \in S : ~(<<y, x>> \in R)
  BY <1>1, WFMin
<1>4. ASSUME NEW y \in S PROVE x <= y
  <2>1. ~(<<y, x>> \in R) /\ x \in Nat /\ y \in Nat
    BY <1>3
  <2> QED
    BY <1>2, <2>1
<1> QED
  BY <1>4

LEMMA FirstOf ==
  ASSUME NEW S \in SUBSET Nat, NEW x \in S, \A y \in S : x <= y
  PROVE  (CHOOSE i \in S : \A j \in S : i <= j) = x
<1>1. \A i \in S : (\A j \in S : i <= j) => i = x
  OBVIOUS
<1> QED
  BY <1>1

(* shard.py cuts an id and its extensions at the same place, or the id     *)
(* whole and its extensions at the dot after it.                           *)
LEMMA SamePrefix ==
  ASSUME NEW id \in Seq(STRING), NEW child \in Seq(STRING),
         Len(id) >= MinPrefix, Len(child) > Len(id),
         SubSeq(child, 1, Len(id)) = id, child[Len(id) + 1] = "."
  PROVE  ShardingPrefix(child) = ShardingPrefix(id)
<1>1. /\ Len(id) \in Nat /\ Len(child) \in Nat
      /\ DOMAIN id = 1 .. Len(id) /\ DOMAIN child = 1 .. Len(child)
      /\ MinPrefix \in Nat
  BY MinPrefixAssumption
<1>2. \A i \in 1 .. Len(id) : child[i] = id[i]
  BY <1>1
<1>3. /\ PrefixEnds(id) \in SUBSET Nat /\ PrefixEnds(child) \in SUBSET Nat
      /\ \A i \in PrefixEnds(child) : i \in PrefixEnds(id) \/ i > Len(id)
      /\ PrefixEnds(id) \subseteq PrefixEnds(child)
      /\ Len(id) + 1 \in PrefixEnds(child)
  BY <1>1, <1>2 DEF PrefixEnds
<1>4. CASE PrefixEnds(id) = {}
  <2>1. PICK n \in PrefixEnds(child) : n = Len(id) + 1
    BY <1>3
  <2>2. \A i \in PrefixEnds(child) : n <= i
    BY <1>1, <1>3, <1>4, <2>1
  <2>3. ShardingPrefix(child) = SubSeq(child, 1, n - 1)
    <3>1. (CHOOSE i \in PrefixEnds(child) :
             \A j \in PrefixEnds(child) : i <= j) = n
      BY <1>3, <2>2, FirstOf
    <3>2. PrefixEnds(child) # {}
      BY <2>1
    <3> QED
      BY <3>1, <3>2 DEF ShardingPrefix
  <2>4. ShardingPrefix(id) = id
    BY <1>4 DEF ShardingPrefix
  <2>5. n - 1 = Len(id)
    BY <1>1, <2>1
  <2> QED
    BY <2>3, <2>4, <2>5
<1>5. CASE PrefixEnds(id) # {}
  <2>1. PICK x \in PrefixEnds(id) : \A y \in PrefixEnds(id) : x <= y
    BY <1>3, <1>5, FirstExists
  <2>2. x \in 1 .. Len(id)
    BY <1>1 DEF PrefixEnds
  <2>3. x \in PrefixEnds(child) /\ \A y \in PrefixEnds(child) : x <= y
    BY <1>1, <1>3, <2>1, <2>2
  <2>4. ShardingPrefix(id) = SubSeq(id, 1, x - 1)
    <3>1. (CHOOSE i \in PrefixEnds(id) :
             \A j \in PrefixEnds(id) : i <= j) = x
      BY <1>3, <2>1, FirstOf
    <3> QED
      BY <1>5, <3>1 DEF ShardingPrefix
  <2>5. ShardingPrefix(child) = SubSeq(child, 1, x - 1)
    <3>1. (CHOOSE i \in PrefixEnds(child) :
             \A j \in PrefixEnds(child) : i <= j) = x
      BY <1>3, <2>3, FirstOf
    <3>2. PrefixEnds(child) # {}
      BY <2>3
    <3> QED
      BY <3>1, <3>2 DEF ShardingPrefix
  <2>6. SubSeq(child, 1, x - 1) = SubSeq(id, 1, x - 1)
    BY <1>1, <1>2, <2>2
  <2> QED
    BY <2>4, <2>5, <2>6
<1> QED
  BY <1>4, <1>5

(* Under whatever map is cached, an id of MinPrefix characters and all     *)
(* that extend it by a dot and more are in one assignment.                 *)
THEOREM FamiliesStayTogether == ShardSpec => []FamiliesTogether
<1>1. FamiliesTogether
  <2> SUFFICES ASSUME NEW id \in Ids, NEW child \in Ids,
                      Len(id) >= MinPrefix, Len(child) > Len(id),
                      SubSeq(child, 1, Len(id)) = id,
                      child[Len(id) + 1] = "."
               PROVE  SlotOf(child) = SlotOf(id)
    BY DEF FamiliesTogether
  <2> QED
    BY IdsAssumption, SamePrefix DEF SlotOf
<1> QED
  BY <1>1, PTL
=============================================================================
