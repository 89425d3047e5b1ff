\* Two monitors in a row, two calls of stop() and the one of shutdown().
SPECIFICATION FairSpec
CONSTANTS
  Tasks = {1, 2}
  Stops = {s1, s2, app}
  AppStop = app
  NoTask = NoTask
  Other = Other
INVARIANTS OneOwner SessionExclusive StopRemembered ActiveStatesAreTrue
PROPERTIES NoStartAfterShutdown ShutdownCompletes
