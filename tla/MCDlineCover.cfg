CONSTANTS
  AddrWidth = 2
  Servers <- MCServers
  Clients <- MCClients
  Home <- MCHome
  Ident <- MCIdent
  UserMasks <- MCUserMasks
  HostMasks <- MCHostMasks
  KlineReqs <- MCKlineReqs
  DlineReqs <- MCDlineReqs
  GecosMasks <- MCGecosMasks
  ResvNames <- MCResvNames
  Durations = {0}
  TimeWidth = 2
  MaxTime = 2
  MinNonWildcard = 4
  MinNonWildcardSimple = 3
  KlineMinCidr <- MCMinCidr
  DlineMinCidr <- MCMinCidr
  ConfKlines <- MCConfKlines
  ConfDlines = {}
  ConfXlines = {}
  InitResvs <- MCInitResvs
SPECIFICATION ObsSpec
INVARIANT DlineRequestCovered
