SPECIFICATION Spec
CONSTANTS
  Token = {a, b, c}
  NoToken = none
  Capacity = 3
  HybridThresh = 3
SYMMETRY TokenSymmetry
INVARIANT PathsAgree
