------------------------------ MODULE ShardMap ------------------------------
(***************************************************************************)
(* How a fetched establishment document becomes the cached shard map:      *)
(* parse_establishment reads the ranges of shardMap.default one by one     *)
(* (establishment.py, shard.py), validate_full_coverage marks the slots of *)
(* one range after the other and refuses an overlap or a gap, and only a   *)
(* document that passed both is put in the cache, in place of the old one. *)
(*                                                                         *)
(* The text of a range is its parts between dashes, each a slot or         *)
(* Malformed; the empty text has the one part Malformed.  A document id is *)
(* a sequence of characters.                                               *)
(***************************************************************************)
EXTENDS Integers, Sequences

CONSTANTS
  SlotCount,   (* 256 in the code                                           *)
  Malformed,   (* text that is not a slot; a value of the wrong JSON type   *)
  NoMap,       (* a document without shardMap.default                       *)
  NoAssignment,(* None of assignment_for_slot                               *)
  Groups,      (* the members of a shard: SOT, readers and proxy readers    *)
  NoGroup,     (* an assignment without members                             *)
  ShardMaps,   (* what the deployment may send: NoMap or entries in order   *)
  Ids,         (* document ids                                              *)
  MinPrefix,   (* 6 in the code: an earlier dot does not end the prefix     *)
  Hash         (* the CRC-32 slot of each string                            *)

ShardSlots == 0 .. SlotCount - 1

Parts   == ShardSlots \cup {Malformed}
Entries == [raw : Seq(Parts), members : Groups \cup {Malformed}]
Ranges  == [start : ShardSlots, end : ShardSlots]

ASSUME SlotCountAssumption == SlotCount \in Nat \ {0}
ASSUME MalformedAssumption == Malformed \notin ShardSlots
ASSUME ShardMapsAssumption ==
  /\ NoMap \notin Seq(Entries)
  /\ \A m \in ShardMaps : m = NoMap \/ m \in Seq(Entries)
ASSUME NoGroupAssumption   == NoGroup \notin Groups
ASSUME MinPrefixAssumption == MinPrefix \in Nat
ASSUME IdsAssumption       == Ids \subseteq Seq(STRING)

VARIABLES
  document,    (* the shard map being parsed                                *)
  stage,       (* where establish() is                                      *)
  taken,       (* how many entries this stage has dealt with                *)
  assignments, (* the assignments read so far                               *)
  covered,     (* the slots marked so far                                   *)
  cache        (* the assignments in force, and the map they were read from *)

shardVars == <<document, stage, taken, assignments, covered, cache>>

NoCache == [read |-> FALSE, map |-> NoMap, assignments |-> <<>>]
-----------------------------------------------------------------------------
(* parse_range and _parse_slot accept "A" and "A-B" with A <= B.           *)
WellFormed(raw) ==
  /\ Len(raw) \in {1, 2}
  /\ \A i \in DOMAIN raw : raw[i] \in ShardSlots
  /\ raw[1] <= raw[Len(raw)]

ParseRange(raw) == [start |-> raw[1], end |-> raw[Len(raw)]]

(* Range.contains, by which a slot is looked up.  Slip: the end is open.   *)
InRangeOpen(r, s) == r.start <= s /\ s < r.end

InRange(r, s) == r.start <= s /\ s <= r.end

(* The slots that validate_full_coverage marks, by a loop of its own.      *)
SlotsOf(r) == r.start .. r.end

(* Members that are no object leave the assignment without any.            *)
Assignment(entry) ==
  [range   |-> ParseRange(entry.raw),
   members |-> IF entry.members = Malformed THEN NoGroup ELSE entry.members]

(* assignment_for_slot takes the first that contains the slot.             *)
AssignmentForSlot(as, s) ==
  LET owners == {i \in DOMAIN as : InRange(as[i].range, s)}
  IN  IF owners = {} THEN NoAssignment
      ELSE as[CHOOSE i \in owners : \A j \in owners : i <= j]

(* slot: the hash of the id up to its first dot that is far enough on.     *)
PrefixEnds(id) == {i \in DOMAIN id : id[i] = "." /\ i > MinPrefix}

(* Slip: a dot right after the shortest prefix does not count.             *)
ShardingPrefixLate(id) ==
  LET ends == {i \in PrefixEnds(id) : i > MinPrefix + 1}
  IN  IF ends = {} THEN id
      ELSE SubSeq(id, 1, (CHOOSE i \in ends : \A j \in ends : i <= j) - 1)

ShardingPrefix(id) ==
  LET ends == PrefixEnds(id)
  IN  IF ends = {} THEN id
      ELSE SubSeq(id, 1, (CHOOSE i \in ends : \A j \in ends : i <= j) - 1)

SlotOf(id) == Hash[ShardingPrefix(id)]
-----------------------------------------------------------------------------
ShardInit ==
  /\ document = NoMap
  /\ stage = "idle"
  /\ taken = 0
  /\ assignments = <<>>
  /\ covered = {}
  /\ cache = NoCache

(* establish() has received a document.                                    *)
Fetch ==
  /\ stage = "idle"
  /\ \E m \in ShardMaps : document' = m
  /\ stage' = IF document' = NoMap THEN "install" ELSE "parse"
  /\ UNCHANGED <<taken, assignments, covered, cache>>

(* parse_establishment raises; what is in the cache stays.                 *)
RejectMap ==
  /\ stage' = "rejected"
  /\ UNCHANGED <<document, taken, assignments, covered, cache>>

(* Slip: an entry that cannot be read is tried again.                      *)
ParseEntryAgain ==
  /\ stage = "parse"
  /\ taken < Len(document)
  /\ LET entry == document[taken + 1]
     IN  \/ /\ WellFormed(entry.raw)
            /\ assignments' = Append(assignments, Assignment(entry))
            /\ taken' = taken + 1
            /\ UNCHANGED <<document, stage, covered, cache>>
         \/ ~WellFormed(entry.raw) /\ UNCHANGED shardVars

ParseEntry ==
  /\ stage = "parse"
  /\ taken < Len(document)
  /\ LET entry == document[taken + 1]
     IN  \/ /\ WellFormed(entry.raw)
            /\ assignments' = Append(assignments, Assignment(entry))
            /\ taken' = taken + 1
            /\ UNCHANGED <<document, stage, covered, cache>>
         \/ ~WellFormed(entry.raw) /\ RejectMap

StartCoverage ==
  /\ stage = "parse"
  /\ taken = Len(document)
  /\ stage' = "cover"
  /\ taken' = 0
  /\ UNCHANGED <<document, assignments, covered, cache>>

(* Slip: an overlap is not noticed.                                        *)
CoverRangeTwice ==
  /\ stage = "cover"
  /\ taken < Len(assignments)
  /\ covered' = covered \cup SlotsOf(assignments[taken + 1].range)
  /\ taken' = taken + 1
  /\ UNCHANGED <<document, stage, assignments, cache>>

CoverRange ==
  /\ stage = "cover"
  /\ taken < Len(assignments)
  /\ LET slots == SlotsOf(assignments[taken + 1].range)
     IN  \/ /\ slots \cap covered = {}
            /\ covered' = covered \cup slots
            /\ taken' = taken + 1
            /\ UNCHANGED <<document, stage, assignments, cache>>
         \/ slots \cap covered # {} /\ RejectMap

(* Slip: a gap is not noticed.                                             *)
FinishCoverageOpen ==
  /\ stage = "cover"
  /\ taken = Len(assignments)
  /\ stage' = "install"
  /\ UNCHANGED <<document, taken, assignments, covered, cache>>

FinishCoverage ==
  /\ stage = "cover"
  /\ taken = Len(assignments)
  /\ \/ /\ covered = ShardSlots
        /\ stage' = "install"
        /\ UNCHANGED <<document, taken, assignments, covered, cache>>
     \/ covered # ShardSlots /\ RejectMap

(* The catalog check and the cache.set of establish(): see RoutedCommand.  *)
InstallMap ==
  /\ stage = "install"
  /\ cache' = [read |-> TRUE, map |-> document, assignments |-> assignments]
  /\ stage' = "accepted"
  /\ UNCHANGED <<document, taken, assignments, covered>>

(* Slip: the next call appends to the list of this one.                    *)
EndEstablishShared ==
  /\ stage \in {"accepted", "rejected"}
  /\ stage' = "idle"
  /\ document' = NoMap
  /\ taken' = 0
  /\ covered' = {}
  /\ UNCHANGED <<assignments, cache>>

(* The call returns or raises, and there may be another.                   *)
EndEstablish ==
  /\ stage \in {"accepted", "rejected"}
  /\ stage' = "idle"
  /\ document' = NoMap
  /\ taken' = 0
  /\ assignments' = <<>>
  /\ covered' = {}
  /\ UNCHANGED cache

Establishing == \/ ParseEntry \/ StartCoverage \/ CoverRange
                \/ FinishCoverage \/ InstallMap

ShardNext == Fetch \/ Establishing \/ EndEstablish

ShardSpec == ShardInit /\ [][ShardNext]_shardVars
-----------------------------------------------------------------------------
(* The stages follow each other with nothing left over from the last one,  *)
(* and what is cached was read from a map that the deployment sent.        *)
ShardTypeOK ==
  /\ document \in IF stage = "idle" THEN {NoMap} ELSE ShardMaps
  /\ stage \in {"idle", "parse", "cover", "install", "accepted", "rejected"}
  /\ taken \in Nat
  /\ assignments \in Seq([range : Ranges, members : Groups \cup {NoGroup}])
  /\ covered \subseteq ShardSlots
  /\ stage = "parse" =>
       document # NoMap /\ taken = Len(assignments) /\ covered = {}
  /\ stage = "cover" =>
       document # NoMap /\ Len(assignments) = Len(document)
  /\ cache.read => cache.map \in ShardMaps

(* What validate_full_coverage is for: whatever documents came before, the *)
(* cached map gives every slot to exactly one assignment.  A slot with two *)
(* would send the writes of one document to two SOT members; one with none *)
(* would send them to the establishment server (routing.py).               *)
PartitionInstalled ==
  cache.read /\ cache.map # NoMap =>
    \A s \in ShardSlots :
      \E i \in DOMAIN cache.assignments :
        \A j \in DOMAIN cache.assignments :
          InRange(cache.assignments[j].range, s) <=> j = i

(* The map as the document means it: every range is well formed and every  *)
(* slot is in the range of exactly one entry.                              *)
ValidMap(m) ==
  m # NoMap =>
    /\ \A i \in DOMAIN m : WellFormed(m[i].raw)
    /\ \A s \in ShardSlots :
         \E i \in DOMAIN m :
           \A j \in DOMAIN m : InRange(ParseRange(m[j].raw), s) <=> j = i

(* Marking slot by slot, in the order of the document, rejects just the    *)
(* maps that are no partition, and never a good one.                       *)
DecidesCorrectly ==
  /\ stage \in {"install", "accepted"} => ValidMap(document)
  /\ stage = "rejected" => ~ValidMap(document)

(* All the documents whose ids extend one id of at least MinPrefix         *)
(* characters by a dot and more are served by the members that the map     *)
(* names for the slot of that id: shard.py cuts the id before it hashes.   *)
FamiliesTogether ==
  cache.read =>
    \A id \in Ids, child \in Ids :
      /\ Len(id) >= MinPrefix
      /\ Len(child) > Len(id)
      /\ SubSeq(child, 1, Len(id)) = id
      /\ child[Len(id) + 1] = "."
      => AssignmentForSlot(cache.assignments, SlotOf(child))
           = AssignmentForSlot(cache.assignments, SlotOf(id))
=============================================================================
