\* The deployed worker, a chain of three tasks or three requests, one kill.
CONSTANTS
  main = main
  aux = aux
  Workers = {main}
  Route <- OneWorker
  Scopes = {d1}
  NoScope = NoScope
  MaxTasks = 3
  MaxCrashes = 1
SPECIFICATION Spec
INVARIANTS
  TypeOK
  TaskMirrorsJob
  CancelledRecomputeNeverRan
  EnvelopeConsistent
  FollowUpOnce
  AbandonedOnlyByCrash
  ScopeExclusive
PROPERTIES
  FinishedIsFinal
