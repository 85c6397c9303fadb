CONSTANTS
  BitXor <- ByteXor
  Texts <- ClientTexts
  Probes = {}
  RouteHosts <- ThreeHosts
  Cuts = {}
  NoHost = NoHost
  Null = Null
SPECIFICATION Spec
INVARIANT GreSumInNetworkOrder
