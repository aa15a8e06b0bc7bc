SPECIFICATION Spec
CONSTANTS
  sample = sample
  key = key
  Nobody = Nobody
  Emitters = {sample, key}
  KindOf <- EmitterKinds
  Setters = {s1, s2}
  MaxEmits = 2
  MaxRequests = 2
  Streams = {x1, x2}
  AclToken = AclToken
  EnvoyToken = EnvoyToken
  Queries = {q1, q2}
  MaxStarts = 3
  MaxAccepts = 2
  BodyLen <- Lengths
  MaxSize = 2
  RespLens <- ResponseLengths
INVARIANTS
  AtMostOnce
  ReplayComplete
  LockProtects
  MergedStops
  OneErrorIsReported
  MergedBody
  
  
  OneRun
  AnswersOwnQuestion
  Pipelined
PROPERTIES
  EverybodyReturns
  UDPStops
  ConnEnds
\* A panicked process, a stream that has ended and a closed connection take
\* no more steps; the liveness properties rule out that a part blocks for
\* another reason.
CHECK_DEADLOCK FALSE
