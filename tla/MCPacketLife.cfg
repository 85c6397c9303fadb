CONSTANTS
  BitXor <- ByteXor
  Texts <- ClientTexts
  Probes <- KeyedTexts
  RouteHosts <- ThreeHosts
  Cuts <- FieldCuts
  NoHost = NoHost
  Null = Null
SPECIFICATION Spec
INVARIANTS
  BytesMatchPackets
  TextsEnd
  TunnelKeepsPrefix
  LifeInv
  MatchInv
PROPERTY RewritingIsLocal
