SPECIFICATION Spec
CONSTANTS
  Agents = {"iut", "tst"}
  Listings <- MCListings
  Residents <- MCResidents
  NullAgents = {"tst"}
  Options <- MCOptions
  Needs <- MCNeeds
INVARIANTS
  TypeOK
  PassedDelivers
  OldStaysExplained
  LoadedAfterNeeds
