SPECIFICATION ProxyFairSpec
CONSTANTS
  Callers = {c1, c2}
  Listeners = {l1, l2}
INVARIANTS
  ProxyInv
  NotifiedAfterExit
  KillIsFinal
PROPERTIES
  ImplementsLifecycle
  ListenersReleased
