CONSTANTS
  Arguments <- ClientArguments
  Lines <- TypedLines
  Leftovers <- AnyMemory
  Cuts <- CutAddresses
  Null = Null
SPECIFICATION TopologySpec
INVARIANTS
  DialsTypedHost
  AddressesSurviveText
  FloodsEnd
  NamedHostAnswers
  TopologyInv
PROPERTY
  DialsAreAnswered
