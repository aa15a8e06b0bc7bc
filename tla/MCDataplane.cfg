SPECIFICATION Spec
CONSTANTS
  Callers = {main, select, sigterm, http}
  Listeners = {select}
  Shutdowns = {sigterm, http}
  Startups = {}
  Flags = {"drain"}
  Main = main
  Select = select
  Sigterm = sigterm
INVARIANTS
  DataplaneInv
  GraceHonoured
  ServerExitStopsEnvoy
  NoOtherPanic
  StatusTruthful
