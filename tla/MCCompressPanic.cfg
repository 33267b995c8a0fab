SPECIFICATION MCSpec
CONSTANTS
  A = A
  B = B
  C = C
  RequestPtr = RequestPtr
  NoRoute = NoRoute
  Absent = Absent
  Undecodable = Undecodable
  Type = {A, B, C}
  ComponentName = {"database", "service", "cache", "jobs"}
  Methods = {"GET", "HEAD", "POST", "OPTIONS"}
  Plans <- MCPlans
  Components <- MCComponents
  Servers <- MCServers
  Keys <- MCKeys
  Users <- MCUsers
  Nesting <- MCNesting
  Inputs <- MCInputs
  Validated <- MCValidated
  Data <- MCData
  MaxCalls = 4
  MaxExchanges = 2
INVARIANT RecoveryResponds
