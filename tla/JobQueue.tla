------------------------------ MODULE JobQueue ------------------------------
(***************************************************************************)
(* The durable job queue of the backend: AsyncJob rows (what the API       *)
(* shows), QueuedTask rows (what a worker consumes), Discovery rows (the   *)
(* denormalised status of the discovery jobs), and the worker processes.   *)
(*                                                                         *)
(* A row and its task are created in one transaction and belong to each    *)
(* other, so both are indexed by the id of the task.  A block of the code  *)
(* under transaction.atomic() is one action; whatever a worker does        *)
(* between two such blocks (the payload of the task) is the time it spends *)
(* in "running", where a crash may find it.                                *)
(***************************************************************************)
EXTENDS Naturals, Sequences, FiniteSets

CONSTANTS
    Workers,      \* the worker processes
    Route,        \* Route[w]: the task names w polls, in the order of its loop
    Scopes,       \* discovery scopes: (scope type, value, executor, agent)
    NoScope,      \* the scope of a task that is no discovery
    MaxTasks,     \* bound: QueuedTask rows ever created
    MaxCrashes    \* bound: kills of a worker process

JobKind  == {"scan_job", "discovery", "recompute"}
TaskName == JobKind \cup {"qualitative_assessment", "performance_run"}
Option   == {"auto_scan", "auto_availability_check"}
Tasks    == 1 .. MaxTasks

ASSUME QueueAssumption ==
    /\ Route \in [Workers -> Seq(TaskName) \ {<<>>}]
    /\ NoScope \notin Scopes
    /\ MaxTasks \in Nat
    /\ MaxCrashes \in Nat

VARIABLES
    last,         \* id of the newest QueuedTask (ids are never reused)
    job,          \* job[t]: the AsyncJob of task t
    task,         \* task[t]: the QueuedTask t
    discovery,    \* discovery[d]: the Discovery row of scope d
    worker,       \* worker[w]: where process w is
    crashes       \* kills so far

vars == <<last, job, task, discovery, worker, crashes>>

JobStatus  == {"PENDING", "RUNNING", "COMPLETED", "FAILED", "CANCELLED"}
TaskStatus == {"QUEUED", "RUNNING", "COMPLETED", "FAILED", "CANCELLED"}

Job == [kind : JobKind \cup {"none"}, status : JobStatus \cup {"NONE"},
        cancelRequested : BOOLEAN, finished : BOOLEAN,
        result : BOOLEAN, error : BOOLEAN]

\* scope: the Discovery row named by the payload; origin: the task whose
\* completion enqueued this one; wants: what the chain may still enqueue;
\* run: the PerformanceEvaluationRun named by the payload exists.
Task == [name : TaskName \cup {"none"}, status : TaskStatus \cup {"NONE"},
         attempts : Nat, scope : Scopes \cup {NoScope},
         origin : Tasks \cup {0}, wants : SUBSET Option, run : BOOLEAN]

NoJob  == [kind |-> "none", status |-> "NONE", cancelRequested |-> FALSE,
           finished |-> FALSE, result |-> FALSE, error |-> FALSE]
NoTask == [name |-> "none", status |-> "NONE", attempts |-> 0,
           scope |-> NoScope, origin |-> 0, wants |-> {}, run |-> FALSE]

NewJob(kind) ==
    [kind |-> kind, status |-> "PENDING", cancelRequested |-> FALSE,
     finished |-> FALSE, result |-> FALSE, error |-> FALSE]
NewTask(name, scope, origin, wants) ==
    [name |-> name, status |-> "QUEUED", attempts |-> 0, scope |-> scope,
     origin |-> origin, wants |-> wants, run |-> name = "performance_run"]
Asked(name) == NewTask(name, NoScope, 0, {})   \* asked for by a request

TypeOK ==
    /\ last \in 0 .. MaxTasks
    /\ job \in [Tasks -> Job]
    /\ task \in [Tasks -> Task]
    /\ discovery \in [Scopes -> [job : Tasks \cup {0},
                                 status : JobStatus \cup {"NONE"}]]
    /\ worker \in [Workers -> [pc : {"poll", "selected", "running", "down"},
                               turn : Nat \ {0}, held : Tasks \cup {0}]]
    /\ \A w \in Workers : worker[w].turn <= Len(Route[w])
    /\ crashes \in 0 .. MaxCrashes

Init ==
    /\ last = 0
    /\ job = [t \in Tasks |-> NoJob]
    /\ task = [t \in Tasks |-> NoTask]
    /\ discovery = [d \in Scopes |-> [job |-> 0, status |-> "NONE"]]
    /\ worker = [w \in Workers |-> [pc |-> "poll", turn |-> 1, held |-> 0]]
    /\ crashes = 0

-----------------------------------------------------------------------------
(* Requests: each is one transaction of an API handler.                    *)

\* A discovery row whose job is being worked on, as the API judges it.
Live(t) == job[t].status \in {"PENDING", "RUNNING"}

\* Rows that live chains may still enqueue.  Requests leave them room under
\* MaxTasks, so that the bound stops new requests and never a completion.
Promised == {x \in Tasks \X Option : Live(x[1]) /\ x[2] \in task[x[1]].wants}
Room(rows) == last + rows + Cardinality(Promised) <= MaxTasks

\* enqueue_task, with the AsyncJob the caller made in the same transaction.
Enqueue(t, newJob, newTask) ==
    /\ last' = t
    /\ job' = [job EXCEPT ![t] = newJob]
    /\ task' = [task EXCEPT ![t] = newTask]

\* POST /jobs: a scan asked for by hand has no availability check.
CreateScanJob ==
    /\ Room(1)
    /\ Enqueue(last + 1, NewJob("scan_job"), Asked("scan_job"))
    /\ UNCHANGED <<discovery, worker, crashes>>

\* POST /snapshots/{id}/recompute and the PATCH of a context.
CreateRecomputeJob ==
    /\ Room(1)
    /\ Enqueue(last + 1, NewJob("recompute"), Asked("recompute"))
    /\ UNCHANGED <<discovery, worker, crashes>>

BusyUnlessRunning(d) == discovery[d].status = "PENDING"   \* fault
Busy(d) == discovery[d].status \in {"PENDING", "RUNNING"}

\* POST /discoveries: a live row is returned as it is (no step); any other
\* row is taken over by the new job.
CreateDiscovery(d, wants) ==
    /\ ~ Busy(d)
    /\ Room(1 + Cardinality(wants))
    /\ Enqueue(last + 1, NewJob("discovery"),
               NewTask("discovery", d, 0, wants))
    /\ discovery' = [discovery EXCEPT
                        ![d] = [job |-> last + 1, status |-> "PENDING"]]
    /\ UNCHANGED <<worker, crashes>>

\* Tasks without an AsyncJob: a qualitative assessment, and a performance
\* run created with auto_start.
EnqueueDetached(name) ==
    /\ Room(1)
    /\ Enqueue(last + 1, NoJob, Asked(name))
    /\ UNCHANGED <<discovery, worker, crashes>>

\* Faults of the refusal: a case forgotten.
RefusedIfFinished(t)  == job[t].status \in {"NONE", "COMPLETED", "FAILED"}
RefusedUnlessFailed(t) ==
    \/ job[t].status \in {"NONE", "COMPLETED"}
    \/ job[t].kind = "recompute" /\ job[t].status = "RUNNING"
RefusedUnlessCompleted(t) ==
    \/ job[t].status \in {"NONE", "FAILED"}
    \/ job[t].kind = "recompute" /\ job[t].status = "RUNNING"

\* 404 for a missing job, 409 for COMPLETED, FAILED and a RUNNING recompute.
Refused(t) ==
    \/ job[t].status \in {"NONE", "COMPLETED", "FAILED"}
    \/ job[t].kind = "recompute" /\ job[t].status = "RUNNING"

CancellableQueued == {"QUEUED"}   \* fault: the running task is left alone
Cancellable == {"QUEUED", "RUNNING"}

\* request_cancel; repeated on a CANCELLED job it only settles the same fields.
Cancel(t) ==
    /\ ~ Refused(t)
    /\ job' = [job EXCEPT ![t] = [@ EXCEPT !.status = "CANCELLED",
                                           !.cancelRequested = TRUE,
                                           !.finished = TRUE]]
    /\ task' = [task EXCEPT ![t].status =
                    IF @ \in Cancellable THEN "CANCELLED" ELSE @]
    /\ discovery' = [d \in Scopes |->
                        IF job[t].kind = "discovery" /\ discovery[d].job = t
                        THEN [discovery[d] EXCEPT !.status = "CANCELLED"]
                        ELSE discovery[d]]
    /\ UNCHANGED <<last, worker, crashes>>

\* DELETE /settings/snapshots: the ids are listed before the transaction, so
\* the rows deleted are those of some earlier moment (seen).  Jobs take their
\* tasks along; snapshots take their performance runs along but not the runs'
\* tasks.  A run created after the listing is lost too if its snapshot was
\* already there (late).
DeleteSnapshotResults(seen, late) ==
    LET listed == {t \in 1 .. seen : job[t].kind \in {"scan_job", "recompute"}}
        lost   == (1 .. seen) \cup late
    IN /\ job' = [t \in Tasks |-> IF t \in listed THEN NoJob ELSE job[t]]
       /\ task' = [t \in Tasks |->
                      IF t \in listed THEN NoTask
                      ELSE [task[t] EXCEPT !.run = @ /\ t \notin lost]]
       /\ UNCHANGED <<last, discovery, worker, crashes>>

-----------------------------------------------------------------------------
(* The worker: one turn of the polling loop, or a task in hand.            *)

Goto(w, pc, held) ==
    worker' = [worker EXCEPT ![w] = [@ EXCEPT !.pc = pc, !.held = held]]

\* Faults of the loop: it runs past its end; it never gets past its start.
AdvanceForever(w) ==
    worker' = [worker EXCEPT ![w] =
                  [pc |-> "poll", held |-> 0, turn |-> @.turn + 1]]
AdvanceFromTop(w) ==
    worker' = [worker EXCEPT ![w] = [pc |-> "poll", held |-> 0, turn |-> 1]]

\* The processor returned: the loop goes on to the next task name.
Advance(w) ==
    worker' = [worker EXCEPT ![w] =
                  [pc |-> "poll", held |-> 0,
                   turn |-> IF @.turn = Len(Route[w]) THEN 1 ELSE @.turn + 1]]

\* An exception leaves the command, or the process is killed.
Die(w) == Goto(w, "down", 0)

Queued(name) == {t \in Tasks : task[t].name = name /\ task[t].status = "QUEUED"}

\* process_next_*: the first queued task of this name, read outside any
\* transaction.
Poll(w) ==
    /\ worker[w].pc = "poll"
    /\ LET found == Queued(Route[w][worker[w].turn])
       IN \/ found = {} /\ Advance(w)
          \/ \E t \in found : /\ \A u \in found : t <= u
                              /\ Goto(w, "selected", t)
    /\ UNCHANGED <<last, job, task, discovery, crashes>>

\* Faults of the second look at the row: another status passes.
StartableTwice(t) == task[t].status \in {"QUEUED", "RUNNING"}
StartableIfCancelled(t) == task[t].status \in {"QUEUED", "CANCELLED"}

\* The row is still QUEUED, and the performance run it names still exists.
Startable(t) ==
    /\ task[t].status = "QUEUED"
    /\ task[t].name = "performance_run" => task[t].run

\* The first transaction of process_*_task.
Claim(w) ==
    LET t == worker[w].held
        stopped == job[t].status = "CANCELLED"
    IN /\ worker[w].pc = "selected"
       /\ Startable(t)
       /\ task' = [task EXCEPT
                      ![t].status = IF stopped THEN "CANCELLED" ELSE "RUNNING",
                      ![t].attempts = @ + 1]
       /\ job' = IF stopped \/ job[t].kind = "none" THEN job
                 ELSE [job EXCEPT ![t].status = "RUNNING"]
       /\ discovery' = IF stopped \/ task[t].name # "discovery" THEN discovery
                       ELSE [discovery EXCEPT
                                ![task[t].scope].status = "RUNNING"]
       /\ IF stopped THEN Advance(w) ELSE Goto(w, "running", t)
       /\ UNCHANGED <<last, crashes>>

\* The row was cancelled after the poll: the processor returns {}.
ClaimCancelled(w) ==
    /\ worker[w].pc = "selected"
    /\ task[worker[w].held].status = "CANCELLED"
    /\ Advance(w)
    /\ UNCHANGED <<last, job, task, discovery, crashes>>

\* Fault: no transaction around the claim, so the status is not rolled back.
ClaimRaisesHalfway(w) ==
    LET t == worker[w].held
    IN /\ worker[w].pc = "selected"
       /\ task[t].status # "CANCELLED" /\ ~ Startable(t)
       /\ task' = [task EXCEPT ![t].status = IF @ = "QUEUED" THEN "RUNNING" ELSE @]
       /\ Die(w)
       /\ UNCHANGED <<last, job, discovery, crashes>>

\* The row is gone (DoesNotExist), another worker has it (ValueError), or the
\* performance run it measures is gone (DoesNotExist, rolled back: the task
\* stays QUEUED).
ClaimRaises(w) ==
    LET t == worker[w].held
    IN /\ worker[w].pc = "selected"
       /\ task[t].status # "CANCELLED" /\ ~ Startable(t)
       /\ Die(w)
       /\ UNCHANGED <<last, job, task, discovery, crashes>>

SupersededNever(t) == FALSE   \* fault: the completion does not look
Superseded(t) ==
    task[t].name \in {"scan_job", "discovery"} /\ job[t].status = "CANCELLED"

\* A scan or discovery cancelled while it ran: _complete_* only closes the task.
CompleteCancelled(w) ==
    LET t == worker[w].held
    IN /\ worker[w].pc = "running"
       /\ Superseded(t)
       /\ task' = [task EXCEPT ![t].status = "CANCELLED"]
       /\ Advance(w)
       /\ UNCHANGED <<last, job, discovery, crashes>>

\* What completing task t enqueues: a scan of the promoted targets, or an
\* availability run of the new snapshot.
FollowUp(t) ==
    IF task[t].name = "discovery"
    THEN NewTask("scan_job", NoScope, t, task[t].wants \ {"auto_scan"})
    ELSE NewTask("performance_run", NoScope, t, {})

FollowUpJob(t) == IF task[t].name = "discovery" THEN NewJob("scan_job") ELSE NoJob

Asks(t) ==
    \/ task[t].name = "discovery" /\ "auto_scan" \in task[t].wants
    \/ task[t].name = "scan_job" /\ "auto_availability_check" \in task[t].wants

Completed(row) == [row EXCEPT !.status = "COMPLETED", !.finished = TRUE,
                              !.result = TRUE, !.error = FALSE]

\* _complete_*: task, job, discovery row and follow-up in one transaction.
\* A discovery that promoted no target has no follow-up.
Complete(w) ==
    LET t == worker[w].held
        c == last + 1
        job2 == IF job[t].kind = "none" THEN job
                ELSE [job EXCEPT ![t] = Completed(@)]
        task2 == [task EXCEPT ![t].status = "COMPLETED"]
    IN /\ worker[w].pc = "running"
       /\ task[t].status # "NONE"
       /\ ~ Superseded(t)
       /\ \/ /\ Asks(t) => task[t].name = "discovery"
             /\ job' = job2
             /\ task' = task2
             /\ UNCHANGED last
          \/ /\ Asks(t)
             /\ c <= MaxTasks
             /\ job' = [job2 EXCEPT ![c] = FollowUpJob(t)]
             /\ task' = [task2 EXCEPT ![c] = FollowUp(t)]
             /\ last' = c
       /\ discovery' = IF task[t].name = "discovery"
                       THEN [discovery EXCEPT
                                ![task[t].scope].status = "COMPLETED"]
                       ELSE discovery
       /\ Advance(w)
       /\ UNCHANGED crashes

\* Faults of the failure: a field that is not saved.
FailedStillRunning(row) == [row EXCEPT !.error = TRUE]
FailedUnfinished(row)   == [row EXCEPT !.status = "FAILED", !.error = TRUE]
Failed(row) == [row EXCEPT !.status = "FAILED", !.finished = TRUE, !.error = TRUE]

\* The payload raised: _fail_* closes task, job and discovery row whatever
\* they are now, and the exception is raised again.
Fail(w) ==
    LET t == worker[w].held
    IN /\ worker[w].pc = "running"
       /\ task[t].status # "NONE"
       /\ task' = [task EXCEPT ![t].status = "FAILED"]
       /\ job' = IF job[t].kind = "none" THEN job
                 ELSE [job EXCEPT ![t] = Failed(@)]
       /\ discovery' = IF task[t].name = "discovery"
                       THEN [discovery EXCEPT ![task[t].scope].status = "FAILED"]
                       ELSE discovery
       /\ Die(w)
       /\ UNCHANGED <<last, crashes>>

\* The row was deleted while its payload ran: _complete_* and _fail_* both
\* raise DoesNotExist.
FinishDeleted(w) ==
    /\ worker[w].pc = "running"
    /\ task[worker[w].held].status = "NONE"
    /\ Die(w)
    /\ UNCHANGED <<last, job, task, discovery, crashes>>

\* docker-compose.yml, restart: unless-stopped; the new process starts its loop from the top and
\* knows nothing of the task the old one held.
Restart(w) ==
    /\ worker[w].pc = "down"
    /\ worker' = [worker EXCEPT ![w] = [pc |-> "poll", turn |-> 1, held |-> 0]]
    /\ UNCHANGED <<last, job, task, discovery, crashes>>

\* The process is killed at any point.
Crash(w) ==
    /\ worker[w].pc # "down"
    /\ crashes < MaxCrashes
    /\ crashes' = crashes + 1
    /\ Die(w)
    /\ UNCHANGED <<last, job, task, discovery>>

-----------------------------------------------------------------------------

Request ==
    \/ CreateScanJob
    \/ CreateRecomputeJob
    \/ \E d \in Scopes, wants \in SUBSET Option : CreateDiscovery(d, wants)
    \/ \E name \in TaskName \ JobKind : EnqueueDetached(name)
    \/ \E t \in Tasks : Cancel(t)
    \/ \E seen \in 0 .. last :
          \E late \in SUBSET {t \in Tasks : t > seen /\ task[t].run} :
             DeleteSnapshotResults(seen, late)

WorkerStep(w) ==
    \/ Poll(w) \/ Claim(w) \/ ClaimCancelled(w) \/ ClaimRaises(w)
    \/ CompleteCancelled(w) \/ Complete(w) \/ Fail(w) \/ FinishDeleted(w)
    \/ Restart(w)

Next == Request \/ \E w \in Workers : WorkerStep(w) \/ Crash(w)

Spec == Init /\ [][Next]_vars

\* The polling loop never blocks: payloads end (their network calls have
\* timeouts) and a dead process is restarted.  Users need not ask anything.
FairSpec == Spec /\ \A w \in Workers : WF_vars(WorkerStep(w))

-----------------------------------------------------------------------------
(* Properties.                                                             *)

\* Two tables, one truth: after every transaction the status of a task is the
\* one its job implies, whichever of claim, cancel, complete and fail came
\* last (jobs/services.py request_cancel, _complete_* and _fail_*).
TaskMirrorsJob ==
    \A t \in Tasks : job[t].kind # "none" =>
        /\ task[t].name = job[t].kind
        /\ task[t].status = IF job[t].status = "PENDING" THEN "QUEUED"
                            ELSE job[t].status

\* A task is executed at most once: a poll outside the transaction, a second
\* worker, a crash and a restart never lead to a second claim.
AtMostOnce == \A t \in Tasks : task[t].attempts <= 1

\* A recompute that started is never reported as cancelled: it may already
\* have rewritten scores (docs/07-data-model.md:271).
CancelledRecomputeNeverRan ==
    \A t \in Tasks :
        job[t].kind = "recompute" /\ job[t].status = "CANCELLED"
            => task[t].attempts = 0

\* The envelope a client polls is consistent: result only of a COMPLETED job,
\* error only of a FAILED one, finished exactly when the job is over
\* (docs/08-api-contract.md:144).
EnvelopeConsistent ==
    \A t \in Tasks :
        /\ job[t].result <=> job[t].status = "COMPLETED"
        /\ job[t].error <=> job[t].status = "FAILED"
        /\ job[t].finished <=> job[t].status \in {"COMPLETED", "FAILED", "CANCELLED"}

\* A pipeline never goes on from a job that was cancelled or failed, and goes
\* on at most once from a completed one.
FollowUpOnce ==
    \A c \in Tasks : task[c].origin # 0 =>
        /\ job[task[c].origin].status \in {"COMPLETED", "NONE"}
        /\ \A b \in Tasks : task[b].origin = task[c].origin => b = c

\* Only a kill leaves a task RUNNING with no process behind it: no exception
\* path of the worker does.
AbandonedOnlyByCrash ==
    Cardinality({t \in Tasks : task[t].status = "RUNNING"
                     /\ \A w \in Workers : ~ (worker[w].pc = "running"
                                              /\ worker[w].held = t)})
        <= crashes

\* A cancelled discovery whose payload failed afterwards.
LateFailure(t) == job[t].status = "FAILED" /\ job[t].cancelRequested

\* As long as no cancelled discovery of a scope fails afterwards, the row of
\* the scope shows the status of its newest job and no other job of the scope
\* is live.
ScopeExclusive ==
    \A d \in Scopes :
        (\A t \in Tasks : task[t].scope = d => ~ LateFailure(t)) =>
            /\ discovery[d].job # 0 =>
                  discovery[d].status = job[discovery[d].job].status
            /\ \A t \in Tasks : task[t].scope = d /\ Live(t)
                  => discovery[d].job = t

\* Once a job is CANCELLED no worker starts it, not even one that had read
\* its task as QUEUED before the cancellation.
CancelledNeverStarts ==
    [][\A t \in Tasks : job[t].status = "CANCELLED"
           => task'[t].attempts <= task[t].attempts]_vars

\* COMPLETED and FAILED are final: apart from the deletion of the row, no
\* cancel, crash or second worker changes them, nor the fields of the result.
FinishedIsFinal ==
    [][\A t \in Tasks : job[t].status \in {"COMPLETED", "FAILED"}
           => job'[t] \in {job[t], NoJob}]_vars

\* Every task with a job, and every assessment, is taken up in the end,
\* although a failing payload ends the process it runs in.
QueuedIsServed ==
    \A t \in Tasks :
        (task[t].status = "QUEUED" /\ task[t].name # "performance_run")
            ~> task[t].status # "QUEUED"

\* Unless a worker is killed, every job ends (or is deleted).
EveryJobEnds == \A t \in Tasks : Live(t) ~> (~ Live(t) \/ crashes > 0)

\* What the API promises of a job, with the transition the documents leave
\* out and without it (docs/07-data-model.md:262-266).
Envelope   == INSTANCE JobEnvelope
                  WITH Jobs <- Tasks, LateFailures <- TRUE, envelope <- job
Documented == INSTANCE JobEnvelope
                  WITH Jobs <- Tasks, LateFailures <- FALSE, envelope <- job

\* The queue, seen through the AsyncJob rows alone, is such a job service.
ImplementsEnvelope == Envelope!Spec

\* docs/07-data-model.md:262-266: CANCELLED has no outgoing transition.
ImplementsDocumentedLifecycle == Documented!Spec

\* test-contracts/api/scenarios.md:417-418: the answer to the cancellation of
\* a RUNNING job still says RUNNING; the worker confirms it later.
RunningCancelOnlyRequests ==
    [][\A t \in Tasks :
          job[t].status = "RUNNING" /\ ~ job[t].cancelRequested
              /\ job'[t].cancelRequested => job'[t].status = "RUNNING"]_vars

\* docs/07-data-model.md:487: the status of a Discovery keeps the value of its
\* AsyncJob.
DiscoveryMirrorsJob ==
    \A d \in Scopes : discovery[d].job # 0 =>
        discovery[d].status = job[discovery[d].job].status

\* docs/api/openapi.yaml:3715: auto_start queues a worker task that measures
\* availability for the run.
AvailabilityIsMeasured ==
    \A t \in Tasks :
        (task[t].name = "performance_run" /\ task[t].run)
            ~> (task[t].status # "QUEUED" \/ ~ task[t].run)
=============================================================================
