CONSTANTS
  Token = {a, b}
  Payload <- Vector
  Zero = zero
  SlabCap = 2
  NIdx = 2
  Capacity = 1
  Bits = 3
  DefaultCapacity = 2
  LogTokens = TRUE
  Own = "har_fixed"
  Target = "fp_passthrough"
  NoSnap = nosnap
  MaxTokens = 2
SPECIFICATION Spec
SYMMETRY TokenSymmetry
INVARIANTS
  SnapshotHoldsWindow
PROPERTIES
  ReplayReproduces
  BranchReproduces
  CommandReproduces
