\* Two full workers (a redeployment, a scaled service) competing for two tasks,
\* fair, one kill.
CONSTANTS
  main = main
  aux = aux
  Workers = {main, aux}
  Route <- TwoWorkers
  Scopes = {d1}
  NoScope = NoScope
  MaxTasks = 2
  MaxCrashes = 1
SPECIFICATION FairSpec
INVARIANTS
  AtMostOnce
PROPERTIES
  CancelledNeverStarts
  ImplementsEnvelope
  QueuedIsServed
  EveryJobEnds
