CONSTANTS
  AddrWidth = 2
  Servers <- MCServers
  Clients <- MCClients
  Home <- MCHome
  Ident <- MCIdent
  UserMasks <- MCUserMasks
  HostMasks <- MCHostMasks
  KlineReqs <- MCKlineReqs
  DlineReqs <- MCDlineReqs
  GecosMasks = {}
  ResvNames = {}
  Durations = {2}
  TimeWidth = 4
  MaxTime = 4
  MinNonWildcard = 4
  MinNonWildcardSimple = 3
  KlineMinCidr <- MCMinCidr
  DlineMinCidr <- MCMinCidr
  ConfKlines = {}
  ConfDlines = {}
  ConfXlines = {}
  InitResvs = {}
  Events <- MCEvents
  Period <- MCPeriod
  Oneshot <- MCOneshot
  Cancels <- MCCancels
  Cleanup = "cleanup"
  Jitters = {0, 999}
  MaxBack = 1
  MaxPeriod = 4
SPECIFICATION LoopSpec
INVARIANTS
  EvTypeOK
  ListWellFormed
  ListedWithinPeriod
  ExpiredSweptWithinPeriod
PROPERTIES
  EventRunComplete
  HandlerCancelHolds
  NoDueEventLeftWhenClockMoves
