CONSTANTS
  Clients <- MCClients
  Filters <- MCFilters
  Messages <- MCMessages
  UserOf <- MCUserOf
  NoUser = "anonymous"
  AclFile <- MCAclFile
  MaxLeaves = 2
SPECIFICATION Spec
INVARIANT TreeOK
PROPERTY RoutesAsPromised
