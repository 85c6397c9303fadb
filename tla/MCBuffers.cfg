CONSTANTS
  Requests <- AllRequests
  Responses <- AllResponses
SPECIFICATION Spec
INVARIANTS
  NothingStale
  OnlyTerminatorOutside
  SuccessFreesAll
