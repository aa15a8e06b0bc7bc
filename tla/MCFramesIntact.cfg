SPECIFICATION Spec
CONSTANTS
  sample = sample
  key = key
  Nobody = Nobody
  Emitters = {sample, key}
  KindOf <- EmitterKinds
  Setters = {s1, s2}
  MaxEmits = 2
  MaxRequests = 2
  Streams = {x1, x2}
  AclToken = AclToken
  EnvoyToken = EnvoyToken
  Queries = {q1, q2}
  MaxStarts = 3
  MaxAccepts = 2
  BodyLen <- Lengths
  MaxSize = 2
  RespLens <- ResponseLengths
INVARIANT
  FramesIntact
CHECK_DEADLOCK FALSE
