CONSTANTS
  Token = {a, b}
  Payload <- Vector
  Zero = zero
  SlabCap = 4
  NIdx = 2
  Capacity = 2
  Bits = 4
  LogTokens = FALSE
  Own = "har_fixed"
  Policy = {keep, "fp_passthrough"}
  Keep = keep
  MaxAppends = 3
SPECIFICATION Spec
INVARIANTS StorageKeepsWindow NoStaleRead OwnFormatDecoded
