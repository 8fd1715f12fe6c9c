SPECIFICATION FairSpec
CONSTANTS
  Null = Null
  Initiators <- MCInitiators
  Servers <- MCServers
  RootOf <- MCRootOf
  DiscOf <- MCDiscOf
  Durations <- MCDurations
  RawUsers = {"ctx0"}
  Scripts <- MCScripts
  Targets = {"tgt0"}
  TargetOf <- MCTargetOf
  Apps <- MCApps
  AppOn <- MCAppOn
  AppServer <- MCAppServer
  Fn = "nvme_disconnect"
  Repeat = 2
  Selected = {"fio_simple", "fio_pattern", "list", "nvmecmd", "connect", "connect_all", "fio_dupconn",
              "onvme_kill", "fio_reconnect", "fio_updown", "fio_disconnparallel",
              "fio_stability_before", "fio_stability_after", "fio_parallel_traffic"}
INVARIANTS
  TypeOK
  PassedLeavesNoController
  LeftoverWasReported
  HungOnlyByRawDisconnect
  QuietDisconnect
  NoToolOutlivesTest
PROPERTIES
  LateCrashIsDivision
  EventuallyOver
  KeepsContract
