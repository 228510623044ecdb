CONSTANTS
  CmdIds = {c1, c2}
  Requests <- MCRequests
  Results = {ok, failed}
  NoDetails = NoDetails
  Ids = {m1, m2}
  Names = {n1, n2}
SPECIFICATION SSpec
INVARIANTS
  STypeOK
  RegistryPartition
  NeverAnsweredTwice
  RecordedIffTold
  ReachesWhoJoined
  JoinedIsAddressable
PROPERTIES
  DetailsAreStable
  ImplementsLifecycle
