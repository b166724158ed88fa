SPECIFICATION ApiSpec
CONSTANTS
  Token = {a}
  NoToken = none
  Capacity = 1
  HybridThresh = 2
  Thread = {t1, t2}
  Ctx = {c1}
  Mha = {m1}
  NHeads = 2
  Threshold = {0, 2}
  Null = null
INVARIANTS FailureExplained ErrorIsOwn
PROPERTY RejectedCallChangesNothing
