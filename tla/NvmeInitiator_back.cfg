SPECIFICATION NISpec
CONSTANTS
  i1 = i1
  i2 = i2
  i3 = i3
  root1 = root1
  disc1 = disc1
  Null = Null
  Initiators = {i1, i2, i3}
  Servers = {root1, disc1}
  RootOf <- SharedRootOf
  DiscOf <- SharedDiscOf
  Durations <- UnevenDurations
  RawUsers = {}
INVARIANTS
  InitiatorStateBack
