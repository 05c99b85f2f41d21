CONSTANTS
  AddrWidth = 2
  Servers <- MCServers
  Clients <- MCSetBackClients
  Home <- MCHome
  Ident <- MCIdent
  UserMasks <- MCUserMasks
  HostMasks <- MCHostMasks
  KlineReqs = {}
  DlineReqs = {}
  GecosMasks = {}
  ResvNames <- MCResvNames
  Durations = {0}
  TimeWidth = 2
  MaxTime = 3
  MinNonWildcard = 4
  MinNonWildcardSimple = 3
  KlineMinCidr <- MCMinCidr
  DlineMinCidr <- MCMinCidr
  ConfKlines = {}
  ConfDlines = {}
  ConfXlines = {}
  InitResvs <- MCInitResvs
  Opers = {}
  PaceWait = 2
  KOperOnly = 1
  MaxBack = 1
  MaxElapsed = 4
  Never = Never
  Letters <- MCLetters
SPECIFICATION StatsSpec
INVARIANT
  RefusedOnlyWhenPaced
