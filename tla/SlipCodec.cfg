SPECIFICATION CheckSpec
CONSTANTS
  Bytes <- MCBytes
  MaxLen = 4
  Garbage <- MCGarbage
INVARIANTS
  RoundTrip Flushes
