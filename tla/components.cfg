SPECIFICATION ComponentsSpec
CONSTANTS
  a1 = a1
  a2 = a2
  all = all
  read = read
  AgentIds = {a1, a2}
  Enrolled = {a1}
  Conns = {c1, c2}
  Subjects = {s1}
  Nobody = nobody
  RequireAuth = FALSE
  Tasks = {t1, t2}
  TaskSessions = {s1, s2}
  Clients = {w1, w2}
  MaxConcurrentTasks = 1
  Hosted = {h1, h2}
  ServerTasks = {k1, k2, k3}
  AdminRequests = {q1, q2}
  NoTask = no_task
  BridgeTools = {u1, u2}
  NoTool = no_tool
  MemoryAgents = {a1, a2}
  Abilities = {x}
  PlanLength = 3
  SharedPattern <- SharedKeys
  AbilityPattern <- MCAbilityPattern
  AgentPattern <- MCAgentPattern
  Scopes = {all, read}
  Covering <- MCCovering
  Ranks = {1, 2}
  RuleShapes <- MCRules
  TenantIds = {1, 2}
  TenantAgents = {a1, a2}
INVARIANT ComponentsTypeOK
INVARIANT RouteIsLive
INVARIANT BoundRoute
INVARIANT StoppedIsQuiet
INVARIANT ServedFromTable
INVARIANT StatusAgrees
INVARIANT ClosedIsQuiet
INVARIANT RegisteredAsKnown
INVARIANT NamespacesAreOwn
INVARIANT SnapshotFollowsPlan
INVARIANT ClearedStaysEmpty
INVARIANT BindingsCatalogued
INVARIANT GrantSuffices
INVARIANT AuthorityBounded
INVARIANT ExcessIsReported
INVARIANT AllowedIsClear
PROPERTY ReconnectionSurvives
PROPERTY RevokedStaysOut
PROPERTY DissolvedIsQuiet
PROPERTY PriorResultsReach
PROPERTY ShownAreShared
CHECK_DEADLOCK FALSE
