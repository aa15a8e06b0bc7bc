SPECIFICATION Spec
CONSTANTS
  MaxGiven = 3
  MaxSettings = 3
  MaxExtra = 4
INVARIANTS
  
  OneIdentity
  
  ProbesEnvoy
  RoutesResolve
  
  
  SinksAgree
  
  
  ArgsInBounds
  LogLevelOnce
\* Each part ends when its result is there.
CHECK_DEADLOCK FALSE
