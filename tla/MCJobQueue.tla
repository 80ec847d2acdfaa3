----------------------------- MODULE MCJobQueue -----------------------------
(* Instances of JobQueue for TLC.                                          *)
EXTENDS JobQueue, TLC

CONSTANTS main, aux   \* model values: the worker processes

\* process_queued_jobs (docker-compose.yml, service worker)
MainLoop == <<"scan_job", "discovery", "recompute",
              "qualitative_assessment", "performance_run">>

OneWorker  == main :> MainLoop
TwoWorkers == main :> MainLoop @@ aux :> MainLoop
=============================================================================
