SPECIFICATION FairSpec
CONSTANTS
  Null = Null
  disconnect_rpcs = disconnect_rpcs
  Initiators <- MCPairs
  Servers <- MCServers
  RootOf <- MCRootOf
  DiscOf <- MCDiscOf
  Durations <- MCDurations
  RawUsers = {}
  Apps <- MCPairs
  AppOn <- MCAppOn
  AppServer <- MCAppOn
  Ifaces <- MCIfaces
  MaxHosts = 2
  Environments <- MCEnvironments
  Params <- MCParams
INVARIANTS
  TypeOK
  ConnectedIsListed
  LeftoverWasTried
  HangsAlone
  PassedWorkedEverywhere
  SameOnAllInterfaces
  NetemAllOrNothing
PROPERTIES
  EventuallyOver
  KeepsContract
