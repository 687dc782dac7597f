CONSTANTS
  NoMember = NoMember
  Slots = {"x"}
  NoSlot = NoSlot
  NoUrl = NoUrl
  Collections = {"Todos", "Users"}
  NoVersion = NoVersion
  NoEst = NoEst
  Servers <- MCServers
  Urls <- MCUrls
  Host <- MCHost
  RewriteName <- MCRewriteName
  RewriteBase <- MCRewriteBase
  ReadSlot = "x"
  CfgCatalog = {}
  TransportRetries = 1
  Jobs <- MCJobs
  Idempotent = TRUE
  MaxDoc = 3
  Async = TRUE
  Tasks = {t1}
  Readers = {t1}
  Patchers = {t1}
  ConfigWmRetries = 1
  Policies = {"failover"}
  Topologies <- StaticTopology
  MaxVersion = 1
SPECIFICATION PatchFairSpec
CHECK_DEADLOCK FALSE
INVARIANTS PatchTypeOK OneEffect OutcomeTellsEffect NoLostUpdate
PROPERTY PatchTermination
