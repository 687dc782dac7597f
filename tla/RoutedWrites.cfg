CONSTANTS
  NoMember = NoMember
  Slots = {"x"}
  NoSlot = NoSlot
  NoUrl = NoUrl
  Collections = {"Todos", "Users"}
  NoVersion = NoVersion
  NoEst = NoEst
  Servers <- MCServers
  Urls <- MCUrls
  Host <- MCHost
  RewriteName <- MCRewriteName
  RewriteBase <- MCRewriteBase
  Async = TRUE
  ConfigWmRetries = 2
  TransportRetries = 0
  Tasks = {t1, t2}
  CfgCatalog <- MCCatalog
  Topologies <- MovingTopologies
  MaxVersion = 2
  Jobs <- WriteJobs
SPECIFICATION Spec
CHECK_DEADLOCK FALSE
INVARIANTS TypeOK FreshHop SettledRoutes RefusedNeverRan AckedRan
PROPERTY ImplementsOnce
