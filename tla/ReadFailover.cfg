CONSTANTS
  NoMember = NoMember
  Slots = {"x"}
  NoSlot = NoSlot
  NoUrl = NoUrl
  Collections = {"Todos", "Users"}
  NoVersion = NoVersion
  NoEst = NoEst
  Servers <- MCServers
  Urls <- MCUrls
  Host <- MCHost
  RewriteName <- MCRewriteName
  RewriteBase <- MCRewriteBase
  Async = FALSE
  ReadSlot = "x"
  CfgCatalog = {}
  TransportRetries = 0
  Jobs <- MCJobs
  ConfigWmRetries = 1
  Tasks = {t1, t2}
  Readers = {t1}
  Policies = {"surface", "failover", "preferSot"}
  Topologies <- MCTopologies
  MaxVersion = 2
SPECIFICATION ReadSpec
CHECK_DEADLOCK FALSE
INVARIANTS ReadTypeOK AllMembersAsked SotHasLastWord ReadsRoute
