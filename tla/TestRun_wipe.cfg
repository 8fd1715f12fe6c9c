SPECIFICATION Spec
CONSTANTS
  Null = Null
  Initiators <- MCInitiators
  Servers <- MCServers
  RootOf <- MCRootOf
  DiscOf <- MCDiscOf
  Durations <- MCDurations
  RawUsers = {"ctx0"}
  Scripts <- MCScripts
  Targets = {"tgt0"}
  TargetOf <- MCTargetOf
  Apps <- MCApps
  AppOn <- MCAppOn
  AppServer <- MCAppServer
  Fn = "nvme_disconnect"
  Repeat = 2
  Selected = {"fio_simple"}
INVARIANTS
  WipesTarget
