CONSTANTS
  Payloads = {1, 2}
  MaxPayload = 14
  HeaderBytes = 3
  MaxRecords = 3
  MaxDamages = 1
SPECIFICATION Spec
CHECK_DEADLOCK FALSE
INVARIANT DamageIsLoud
