SPECIFICATION Spec
CONSTANTS
  Token = {a, b, c}
  NoToken = none
  Capacity = 3
  HybridThresh = 2
SYMMETRY TokenSymmetry
INVARIANTS TypeOK ScanIsWritten PathsAgree
PROPERTIES NoReturnToRaw ImplementsWindow
