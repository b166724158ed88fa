SPECIFICATION FairSpec
CONSTANTS
  quantized = quantized
  mirrored = mirrored
  Thread = {t1, t2}
  Handle = {quantized, mirrored}
  Token = {a, b}
  Query = {q1, q2}
  HybridThresh <- ThreshOf
  MaxTokens = 1
  Nothing = nothing
INVARIANTS
  PairedTokens
  AnswersOwnQuery
PROPERTIES
  ReturnIsComplete
  BatchReturns
