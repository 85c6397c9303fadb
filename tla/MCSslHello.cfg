CONSTANT
  Clients <- TwoClients
SPECIFICATION FairSpec
INVARIANTS
  BothEstablish
  SentIsReceived
  HelloInv
PROPERTY
  HandshakesEnd
