SPECIFICATION Spec
CONSTANTS
  Lanes = {a, b}
  NoLane = none
  Sizes <- MCSizes
  AnyAlias = FALSE
SYMMETRY LaneSymmetry
INVARIANTS OneCallPerLane ProducersDone StateInOrder ReturnsDrained InputsIntact OutputsWritten
