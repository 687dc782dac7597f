CONSTANTS
  SlotCount = 4
  Malformed = Malformed
  NoMap = NoMap
  NoAssignment = NoAssignment
  Groups = {"g1", "g2"}
  NoGroup = "none"
  ShardMaps <- MCShardMaps
  Ids <- MCIds
  MinPrefix = 2
  Hash <- MCHash
  Collections = {"Todos"}
  DocIds = {"a", "b", "c"}
  NoText = ""
  Unread = Unread
  Missing = Missing
  Root = Root
  Roots <- MCRoots
  Versions <- MCVersions
  Depths = {0, 1, 3}
  MaxEdits = 1
  MaxBounces = 1
SPECIFICATION SessionSpec
INVARIANTS SessionTypeOK ShardTypeOK ResolveTypeOK PartitionInstalled
  DecidesCorrectly FamiliesTogether ReadOnce Closed Grounded
PROPERTIES EstablishEnds WalkEnds
