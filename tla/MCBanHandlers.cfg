CONSTANTS
  AddrWidth = 2
  Servers <- MCServers
  Clients <- MCClients
  Home <- MCHome
  Ident <- MCIdent
  UserMasks <- MCUserMasks
  HostMasks <- MCHostMasks
  KlineReqs <- MCKlineReqs
  DlineReqs <- MCDlineReqs
  GecosMasks <- MCGecosMasks
  ResvNames <- MCResvNames
  Durations = {0, 1}
  TimeWidth = 2
  MaxTime = 2
  MinNonWildcard = 4
  MinNonWildcardSimple = 3
  KlineMinCidr <- MCMinCidr
  DlineMinCidr <- MCMinCidr
  ConfKlines <- MCConfKlines
  ConfDlines = {}
  ConfXlines = {}
  InitResvs <- MCInitResvs
SPECIFICATION Spec
INVARIANTS
  TypeOK
  EnforcementSound
PROPERTIES
  RefinesBanStore
