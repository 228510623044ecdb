CONSTANTS
  CmdIds = {c1}
  Requests <- MCRequests
  Results = {ok}
  NoDetails = NoDetails
  Ids = {m1, m2}
  Names = {n1, n2}
SPECIFICATION SSpec
INVARIANTS
  AwareOfAvailable
