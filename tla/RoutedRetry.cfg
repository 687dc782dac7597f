CONSTANTS
  NoMember = NoMember
  Slots = {"x"}
  NoSlot = NoSlot
  NoUrl = NoUrl
  Collections = {"Todos", "Users"}
  NoVersion = NoVersion
  NoEst = NoEst
  Servers <- MCServers
  Urls <- MCUrls
  Host <- MCHost
  RewriteName <- MCRewriteName
  RewriteBase <- MCRewriteBase
  Async = TRUE
  ConfigWmRetries = 2
  TransportRetries = 1
  Tasks = {t1}
  CfgCatalog <- MCCatalog
  Topologies <- MCTopologies
  MaxVersion = 2
  Jobs <- AllJobs
SPECIFICATION FairSpec
CHECK_DEADLOCK FALSE
INVARIANTS WithinBudget CheckedCatalog
PROPERTIES ImplementsOnce Termination
