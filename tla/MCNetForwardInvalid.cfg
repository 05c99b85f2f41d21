CONSTANTS
  AddrWidth = 2
  Servers <- MCServers
  Links <- MCLinks
  Clients <- MCClients
  Home <- MCHome
  Ident <- MCIdent
  UserMasks <- MCUserMasks
  HostMasks <- MCHostMasks
  KlineReqs <- MCKlineReqs
  DlineReqs <- MCDlineReqs
  GecosMasks <- MCGecosMasks
  ResvNames <- MCResvNames
  Durations = {0, 1}
  TimeWidth = 2
  MaxTime = 1
  MinNonWildcard = 4
  MinNonWildcardSimple = 3
  KlineMinCidr <- MCMinCidr
  DlineMinCidr <- MCMinCidr
  ConfKlines = {}
  ConfDlines = {}
  ConfXlines = {}
  InitResvs <- MCInitResvs
  Targets <- MCTargets
  NoTarget = NoTarget
  CapabOf <- MCCapabOf
  Shared <- MCShared
  Cluster <- MCCluster
  MaxCmds = 2
  MaxSplits = 1
SPECIFICATION NetSpec
INVARIANT
  ForwardedOnlyIfValid
