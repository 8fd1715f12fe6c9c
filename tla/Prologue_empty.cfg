SPECIFICATION Spec
CONSTANTS
  Agents = {"iut", "tst"}
  Listings <- MCListings
  Residents <- MCResidents
  NullAgents = {"tst"}
  Options <- MCFilterOptions
  Needs <- MCNeeds
PROPERTIES
  EmptyEntryIsSkipped
