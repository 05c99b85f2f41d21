CONSTANTS
  AddrWidth = 2
  Servers <- MCServers
  Clients <- MCClients
  Home <- MCHome
  Ident <- MCIdent
  UserMasks <- MCUserMasks
  HostMasks <- MCHostMasks
  KlineReqs <- MCKlineReqs
  DlineReqs <- MCDlineReqs
  GecosMasks = {}
  ResvNames <- MCResvNames
  Durations = {0, 1}
  TimeWidth = 2
  MaxTime = 2
  MinNonWildcard = 4
  MinNonWildcardSimple = 3
  KlineMinCidr <- MCMinCidr
  DlineMinCidr <- MCMinCidr
  ConfKlines = {}
  ConfDlines = {}
  ConfXlines = {}
  InitResvs <- MCInitResvs
  Opers <- MCOpers
  PaceWait = 2
  KOperOnly = 1
  MaxBack = 1
  MaxElapsed = 3
  Never = Never
  Letters <- MCLetters
SPECIFICATION StatsSpec
INVARIANTS
  StatsTypeOK
  StatsPaced
