\* A performance run queued behind one whose evaluation row was deleted.
CONSTANTS
  main = main
  aux = aux
  Workers = {main}
  Route <- OneWorker
  Scopes = {d1}
  NoScope = NoScope
  MaxTasks = 2
  MaxCrashes = 0
SPECIFICATION FairSpec
PROPERTIES
  AvailabilityIsMeasured
