SPECIFICATION Spec
CONSTANTS
  Lanes = {a, b}
  NoLane = none
  Sizes <- MCSizes
  AnyAlias = TRUE
SYMMETRY LaneSymmetry
INVARIANTS OutputsWritten
