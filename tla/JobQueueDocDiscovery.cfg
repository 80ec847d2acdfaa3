\* The denormalised status of a Discovery.
CONSTANTS
  main = main
  aux = aux
  Workers = {main}
  Route <- OneWorker
  Scopes = {d1}
  NoScope = NoScope
  MaxTasks = 2
  MaxCrashes = 0
SPECIFICATION Spec
INVARIANTS
  DiscoveryMirrorsJob
