SPECIFICATION Spec
CONSTANTS
  Source = {s1}
  Bytes = {b1, b2}
  Null = Null
  Request = {r1}
  MaxStamp = 2
  MaxGen = 1
  Env = {"upload", "replace"}
PROPERTY ActivationIsFresh
CHECK_DEADLOCK FALSE
