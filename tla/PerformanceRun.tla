--------------------------- MODULE PerformanceRun ---------------------------
(***************************************************************************)
(* Performance runs of a snapshot: requests create, patch and fill them,   *)
(* a worker measures the assets of one and fills it too.  Each reads the   *)
(* row of the run, works, and saves some columns of what it read; no one   *)
(* but the claim and the failure of a task locks it.                       *)
(***************************************************************************)
EXTENDS Naturals, Sequences, FiniteSets

CONSTANTS
    Runs,        \* runs requests create
    AutoStart,   \* the runs created with auto_start
    Posters,     \* clients that POST a result
    Patchers,    \* clients that PATCH a run
    Measurable,  \* the assets with a target, in the order of the runner
    Snapshot,    \* id of the snapshot; earlier ones have smaller ids
    None

Assets   == {Measurable[i] : i \in DOMAIN Measurable}
Final    == {"COMPLETED", "FAILED"}
Statuses == {"PENDING", "RUNNING"} \cup Final

\* A row: runner and counted are kept in its summary, a start and an end are times.
RunRow == [status : Statuses, started : BOOLEAN, completed : BOOLEAN,
           runner : {None, "queued", "running", "completed", "failed"}, counted : SUBSET Assets,
           trigger : {"manual", "post_migration"}, baseline : {None, Snapshot - 1, Snapshot}]

RunAssumption ==
    /\ AutoStart \subseteq Runs /\ Posters \cap Patchers = {}
    /\ Snapshot \in Nat \ {0} /\ Measurable \in Seq(Assets)
    /\ None \notin Runs \cup RunRow \cup {"queued", "running", "completed", "failed"}

VARIABLES
    run,      \* run[r]: the row, or None
    results,  \* results[r]: the assets with a result
    linked,   \* snapshot.summary.migration.post_migration_runs
    task,     \* task[r]: status of its queued task, or None
    creator,  \* creator[r]: the request that creates r: [pc, summary]
    worker,   \* [pc, of, row, next]: the run it holds, as it read it
    client,   \* client[c]: [pc, of, row, asset, status]
    left      \* clients that may still begin

vars == <<run, results, linked, task, creator, worker, client, left>>

Row(trigger, baseline) == [status |-> "PENDING", started |-> FALSE, completed |-> FALSE, runner |-> None,
                           counted |-> {}, trigger |-> trigger, baseline |-> baseline]
Resting == [pc |-> "idle", of |-> None, row |-> None, next |-> 1]
Waiting == [pc |-> "idle", of |-> None, row |-> None, asset |-> None, status |-> None]
Clients == Posters \cup Patchers

Init ==
    /\ run = [r \in Runs |-> None] /\ results = [r \in Runs |-> {}] /\ linked = {}
    /\ task = [r \in Runs |-> None] /\ creator = [r \in Runs |-> [pc |-> "idle", summary |-> {}]]
    /\ worker = Resting /\ client = [c \in Clients |-> Waiting] /\ left = Clients

-----------------------------------------------------------------------------
(* What is saved of a row: x is the row as it was read.                    *)

\* update_run_status.
Updated(x, status) ==
    [x EXCEPT !.status = status, !.started = @ \/ status = "RUNNING", !.completed = @ \/ status \in Final]
\* Fault: the start is not among the fields saved.
SaveRunStatus(r, x) ==
    run' = [run EXCEPT ![r] = [@ EXCEPT !.status = x.status, !.completed = x.completed,
                                        !.runner = x.runner, !.counted = x.counted]]
SaveRun(r, x) ==   \* save(update_fields=[status, started_at, completed_at, summary])
    run' = [run EXCEPT ![r] = [@ EXCEPT !.status = x.status, !.started = x.started, !.completed = x.completed,
                                        !.runner = x.runner, !.counted = x.counted]]
Ran(x, state) == [x EXCEPT !.runner = state]

\* upsert_result: a pending run starts; only if it was read as pending.
Started(x) == IF x.status = "PENDING" THEN [x EXCEPT !.status = "RUNNING", !.started = TRUE] ELSE x
SaveStarted(r, x) ==
    IF x.status = "PENDING"
    THEN [run EXCEPT ![r] = [@ EXCEPT !.status = "RUNNING", !.started = TRUE]]
    ELSE run
\* refresh_run_summary: the summary is counted anew, what else it held is dropped.
Counted(r, x) == [x EXCEPT !.counted = results[r], !.runner = None]
SaveSummary(r, x) == run' = [run EXCEPT ![r] = [@ EXCEPT !.runner = x.runner, !.counted = x.counted]]

-----------------------------------------------------------------------------
(* POST /snapshots/{id}/performance-runs.                                  *)

\* _resolve_baseline_snapshot: None is no baseline, 0 a request refused.
BaselineFor(asked, trigger) ==
    CASE asked # None -> IF asked = Snapshot \/ (trigger = "post_migration" /\ asked > Snapshot) THEN 0 ELSE asked
      [] asked = None /\ trigger # "post_migration" -> None
      [] OTHER -> Snapshot - 1

\* The snapshot is read with its summary, then the run is created.
ReadSnapshot(r) ==
    /\ creator[r].pc = "idle"
    /\ creator' = [creator EXCEPT ![r] = [pc |-> "create", summary |-> linked]]
    /\ UNCHANGED <<run, results, linked, task, worker, client, left>>

Create(r) ==
    /\ creator[r].pc = "create"
    /\ \E asked \in {None, Snapshot - 1, Snapshot} \ {0}, trigger \in {"manual", "post_migration"} :
         LET baseline == BaselineFor(asked, trigger)
         IN IF baseline = 0
            THEN /\ creator' = [creator EXCEPT ![r].pc = "refused"]
                 /\ UNCHANGED run
            ELSE /\ run' = [run EXCEPT ![r] = Row(trigger, baseline)]
                 /\ creator' = [creator EXCEPT ![r].pc = IF trigger = "post_migration" THEN "link" ELSE "enqueue"]
    /\ UNCHANGED <<results, linked, task, worker, client, left>>

\* _link_post_migration_snapshot, into the summary as it was read.
Link(r) ==
    /\ creator[r].pc = "link"
    /\ linked' = creator[r].summary \cup {r}
    /\ creator' = [creator EXCEPT ![r].pc = "enqueue"]
    /\ UNCHANGED <<run, results, task, worker, client, left>>

\* enqueue_run, in a transaction of its own, and the answer.
Enqueue(r) ==
    /\ creator[r].pc = "enqueue"
    /\ task' = [task EXCEPT ![r] = IF r \in AutoStart THEN "queued" ELSE None]
    /\ creator' = [creator EXCEPT ![r].pc = "answered"]
    /\ UNCHANGED <<run, results, linked, worker, client, left>>

-----------------------------------------------------------------------------
(* process_performance_run_task.                                           *)

Claim(r) ==
    /\ worker.pc = "idle" /\ task[r] = "queued"
    /\ task' = [task EXCEPT ![r] = "running"]
    /\ run' = [run EXCEPT ![r] = IF @.status = "PENDING" THEN Ran(Updated(@, "RUNNING"), "queued") ELSE @]
    /\ worker' = [Resting EXCEPT !.pc = "read", !.of = r]
    /\ UNCHANGED <<results, linked, creator, client, left>>

\* run_performance_run: the run is read once for the whole of it.
ReadRun ==
    /\ worker.pc = "read"
    /\ worker' = [worker EXCEPT !.pc = "mark", !.row = Ran(Updated(run[worker.of], "RUNNING"), "running")]
    /\ UNCHANGED <<run, results, linked, task, creator, client, left>>

MarkRunning ==
    /\ worker.pc = "mark"
    /\ SaveRun(worker.of, worker.row)
    /\ worker' = [worker EXCEPT !.pc = "measure"]
    /\ UNCHANGED <<results, linked, task, creator, client, left>>

\* A target is measured and the result of an asset saved.
Measure ==
    /\ worker.pc = "measure" /\ worker.next <= Len(Measurable)
    /\ results' = [results EXCEPT ![worker.of] = @ \cup {Measurable[worker.next]}]
    /\ run' = SaveStarted(worker.of, worker.row)
    /\ worker' = [worker EXCEPT !.pc = "count", !.row = Started(@)]
    /\ UNCHANGED <<linked, task, creator, client, left>>

Count ==
    /\ worker.pc = "count"
    /\ worker' = [worker EXCEPT !.pc = "summary", !.row = Counted(worker.of, @)]
    /\ UNCHANGED <<run, results, linked, task, creator, client, left>>

Summarise ==
    /\ worker.pc = "summary"
    /\ SaveSummary(worker.of, worker.row)
    /\ worker' = [worker EXCEPT !.pc = "measure", !.next = @ + 1]
    /\ UNCHANGED <<results, linked, task, creator, client, left>>

MarkCompleted ==
    /\ worker.pc = "measure" /\ worker.next > Len(Measurable)
    /\ SaveRun(worker.of, Ran(Updated(worker.row, "COMPLETED"), "completed"))
    /\ worker' = [worker EXCEPT !.pc = "done"]
    /\ UNCHANGED <<results, linked, task, creator, client, left>>

\* _complete_performance_run_task.
Complete ==
    /\ worker.pc = "done"
    /\ task' = [task EXCEPT ![worker.of] = "completed"]
    /\ worker' = Resting
    /\ UNCHANGED <<run, results, linked, creator, client, left>>

\* _fail_performance_run_task: an error of the runner; the run is read anew.
Fail ==
    /\ worker.pc \in {"mark", "measure", "count", "summary"}
    /\ task' = [task EXCEPT ![worker.of] = "failed"]
    /\ SaveRun(worker.of, Ran(Updated(run[worker.of], "FAILED"), "failed"))
    /\ worker' = Resting
    /\ UNCHANGED <<results, linked, creator, client, left>>

-----------------------------------------------------------------------------
(* The other requests.                                                     *)

Begin(c, r) == [Waiting EXCEPT !.of = r, !.row = run[r]]

\* PATCH of the status: read, then saved with the summary as read.
ReadPatch(c, r) ==
    /\ c \in Patchers \cap left /\ client[c].pc = "idle" /\ run[r] # None
    /\ \E status \in Statuses :
         client' = [client EXCEPT ![c] = [Begin(c, r) EXCEPT !.pc = "patch", !.status = status]]
    /\ left' = left \ {c}
    /\ UNCHANGED <<run, results, linked, task, creator, worker>>

SavePatch(c) ==
    /\ client[c].pc = "patch"
    /\ SaveRun(client[c].of, Updated(client[c].row, client[c].status))
    /\ client' = [client EXCEPT ![c] = Waiting]
    /\ UNCHANGED <<results, linked, task, creator, worker, left>>

\* POST of a result.
ReadPost(c, r) ==
    /\ c \in Posters \cap left /\ client[c].pc = "idle" /\ run[r] # None
    /\ \E a \in Assets : client' = [client EXCEPT ![c] = [Begin(c, r) EXCEPT !.pc = "upsert", !.asset = a]]
    /\ left' = left \ {c}
    /\ UNCHANGED <<run, results, linked, task, creator, worker>>

Upsert(c) ==
    /\ client[c].pc = "upsert"
    /\ results' = [results EXCEPT ![client[c].of] = @ \cup {client[c].asset}]
    /\ client' = [client EXCEPT ![c].pc = "start"]
    /\ UNCHANGED <<run, linked, task, creator, worker, left>>

StartPosted(c) ==
    /\ client[c].pc = "start"
    /\ run' = SaveStarted(client[c].of, client[c].row)
    /\ client' = [client EXCEPT ![c].pc = "count", ![c].row = Started(@)]
    /\ UNCHANGED <<results, linked, task, creator, worker, left>>

CountPosted(c) ==
    /\ client[c].pc = "count"
    /\ client' = [client EXCEPT ![c].pc = "summary", ![c].row = Counted(client[c].of, @)]
    /\ UNCHANGED <<run, results, linked, task, creator, worker, left>>

SummarisePosted(c) ==
    /\ client[c].pc = "summary"
    /\ SaveSummary(client[c].of, client[c].row)
    /\ client' = [client EXCEPT ![c] = Waiting]
    /\ UNCHANGED <<results, linked, task, creator, worker, left>>

Work == ReadRun \/ MarkRunning \/ Measure \/ Count \/ Summarise \/ MarkCompleted \/ Complete
Next ==
    \/ \E r \in Runs : ReadSnapshot(r) \/ Create(r) \/ Link(r) \/ Enqueue(r) \/ Claim(r)
    \/ Work \/ Fail
    \/ \E c \in Clients, r \in Runs : ReadPatch(c, r) \/ ReadPost(c, r)
    \/ \E c \in Clients : SavePatch(c) \/ Upsert(c) \/ StartPosted(c) \/ CountPosted(c) \/ SummarisePosted(c)

Fairness == WF_vars(Work) /\ \A r \in Runs : SF_vars(Claim(r))
Spec == Init /\ [][Next]_vars /\ Fairness

TypeOK == \A r \in Runs :
    /\ task[r] \in {None, "queued", "running", "completed", "failed"}
    /\ (task[r] = "running") = (worker.of = r)
    /\ run[r] # None => run[r] \in RunRow

-----------------------------------------------------------------------------
(* Properties.                                                             *)

Exists(r) == run[r] # None

\* Whatever rows are written over by whom, status and times agree: a running run
\* has a start, one that ended an end.
TimesFitStatus == \A r \in Runs : Exists(r) =>
    /\ run[r].status = "RUNNING" => run[r].started
    /\ run[r].status \in Final => run[r].completed

\* A summary counts nothing that has no result, stale or not.
CountsOnlyResults == \A r \in Runs : Exists(r) => run[r].counted \subseteq results[r]

\* Left to the worker, a completed task leaves a run that is completed, has a
\* result for every measurable asset and counts them all, although the runner
\* saves a row it read at its start.
CompletedIsWhole == \A r \in Runs : task[r] = "completed" =>
    run[r].status = "COMPLETED" /\ results[r] = Assets /\ run[r].counted = Assets

\* A run answered as created with auto_start ends.
LeftToWorker(r) == r \in AutoStart /\ creator[r].pc = "answered"
TaskOver(r) == task[r] \in {"completed", "failed"}

=============================================================================
