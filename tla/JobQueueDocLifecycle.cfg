\* The state machine of the data model document.
CONSTANTS
  main = main
  aux = aux
  Workers = {main}
  Route <- OneWorker
  Scopes = {d1}
  NoScope = NoScope
  MaxTasks = 1
  MaxCrashes = 0
SPECIFICATION Spec
PROPERTIES
  ImplementsDocumentedLifecycle
