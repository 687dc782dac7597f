CONSTANTS
  NoMember = NoMember
  Slots = {"x"}
  NoSlot = NoSlot
  NoUrl = NoUrl
  Collections = {"Todos", "Users"}
  NoVersion = NoVersion
  NoEst = NoEst
  Servers <- MCServers
  Urls <- MCUrls
  Host <- MCHost
  RewriteName <- MCRewriteName
  RewriteBase <- MCRewriteBase
  Async = TRUE
  ReadSlot = "x"
  CfgCatalog = {}
  TransportRetries = 0
  Jobs <- MCJobs
  Nobody = Nobody
  Somebody = Somebody
  ConfigWmRetries = 1
  Tasks = {t1}
  Readers = {t1}
  Creators = {t1}
  Policies = {"failover", "preferSot"}
  Topologies <- MovingTopologies
  MaxVersion = 2
SPECIFICATION CreateFairSpec
CHECK_DEADLOCK FALSE
INVARIANTS CreateTypeOK SuccessMeansStored RefusedCreateNeverLands
PROPERTY CreateTermination
