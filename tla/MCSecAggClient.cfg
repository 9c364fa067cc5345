SPECIFICATION Spec
CONSTANTS
  MaxNeighbors = 4
  MinSurviving = 2
  Width = 4
  Aborters = {a1, a2}
SYMMETRY AborterSymmetry
INVARIANTS
  SentInProtocolOrder
  UnmaskingIsSound
PROPERTIES
  AbortIsFinal
