SPECIFICATION ManagerSpec
CHECK_DEADLOCK FALSE
CONSTANTS
  Callers = {http, start}
  Listeners = {}
  Shutdowns = {http}
  Startups = {start}
  Flags = {"dump", "drain", "startup"}
INVARIANT StartupGate
PROPERTIES
  StartupAnswered
  ShutdownCompletes
