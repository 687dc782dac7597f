CONSTANTS
  NoMember = NoMember
  Slots = {"x"}
  NoSlot = NoSlot
  NoUrl = NoUrl
  Collections = {"Todos", "Users"}
  NoVersion = NoVersion
  NoEst = NoEst
  Servers <- MCServers
  Urls <- MCUrls
  Host <- MCHost
  RewriteName <- MCRewriteName
  RewriteBase <- MCRewriteBase
  Async = FALSE
  ReadSlot = "x"
  CfgCatalog = {}
  TransportRetries = 0
  Jobs <- MCJobs
  Nobody = Nobody
  Somebody = Somebody
  ConfigWmRetries = 1
  Tasks = {t1}
  Readers = {t1}
  Creators = {t1}
  Policies = {"failover"}
  Topologies <- StaticTopology
  MaxVersion = 1
SPECIFICATION CreateSpec
CHECK_DEADLOCK FALSE
INVARIANT SuccessMeansMine
