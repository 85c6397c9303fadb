CONSTANTS
  packet_length <- BytesSent
  Payloads <- SentPayloads
  Damage <- AnyDamage
  Null = Null
SPECIFICATION Spec
INVARIANTS
  SumsVerify
  ChecksumsAgree
  DamageIsDetectable
  RawInv
