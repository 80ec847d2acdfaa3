\* The cancellation of a RUNNING job as the scenarios describe it.
CONSTANTS
  main = main
  aux = aux
  Workers = {main}
  Route <- OneWorker
  Scopes = {d1}
  NoScope = NoScope
  MaxTasks = 1
  MaxCrashes = 0
SPECIFICATION Spec
PROPERTIES
  RunningCancelOnlyRequests
