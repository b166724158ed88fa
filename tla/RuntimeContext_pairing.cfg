CONSTANTS
  Token = {a, b}
  Payload <- Vector
  Zero = zero
  SlabCap = 4
  NIdx = 1
  Capacity = 2
  Bits = 4
  LogTokens = FALSE
  Own = "har_fixed"
  Policy = {keep}
  Keep = keep
  MaxAppends = 3
SPECIFICATION Spec
INVARIANT KeysMeetTheirValues
