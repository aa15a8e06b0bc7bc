SPECIFICATION FairSpec
CONSTANTS
  Callers = {main, select, sigterm}
  Listeners = {select}
  Shutdowns = {sigterm}
  Startups = {}
  Flags = {"drain"}
  Main = main
  Select = select
  Sigterm = sigterm
PROPERTY SigtermTerminates
