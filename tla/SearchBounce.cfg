CONSTANTS
  NoMember = NoMember
  Slots = {"x"}
  NoSlot = NoSlot
  NoUrl = NoUrl
  Collections = {"Todos", "Users"}
  NoVersion = NoVersion
  NoEst = NoEst
  Servers <- MCServers
  Urls <- MCUrls
  Host <- MCHost
  RewriteName <- MCRewriteName
  RewriteBase <- MCRewriteBase
  Async = FALSE
  ConfigWmRetries = 1
  TransportRetries = 0
  Tasks = {t1}
  CfgCatalog <- MCCatalog
  Topologies <- MCTopologies
  MaxVersion = 2
  Jobs <- SearchJobs
SPECIFICATION Spec
CHECK_DEADLOCK FALSE
INVARIANT SearchBounceHandled
