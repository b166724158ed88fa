SPECIFICATION Spec
CONSTANTS
  Dim = 12
  Padded = 16
  D <- Signs
  Vector <- MCVector
  Offered <- MCOffered
  Queries <- MCQueries
  Whole = 4
  Masses = {0, 3, 4}
INVARIANTS
  PackedRecoverable
  DecodedIsNearest
  RotationRoundTrip
  AttendsToDequantized
  SparseCoversMass
  BackendsAgree
