SPECIFICATION SpecQuiet
CONSTANTS
  Releasers = {w1, w2}
  NoReleaser = NoReleaser
  Reversers = {v1, v2}
  NoAsk = NoAsk
  Asks = {q1, q2}
  MaxMade = 2
SYMMETRY Symmetry
INVARIANTS
  EvidenceIsReal
PROPERTIES
  ImplementsSettlement
CHECK_DEADLOCK FALSE
