CONSTANTS
  d1 = d1
  d2 = d2
  narrow = narrow
  wide = wide
  Data = {d1, d2}
  Tag = {narrow, wide}
  SlotBytes <- BytesOfTag
  Blank = blank
  Capacity = 2
  Encode = 2
  MaxSlabs = 2
  MaxDrift = 2
SPECIFICATION Spec
INVARIANT CounterIsExact
PROPERTY ImplementsRings
