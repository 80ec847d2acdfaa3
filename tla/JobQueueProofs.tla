--------------------------- MODULE JobQueueProofs ---------------------------
(***************************************************************************)
(* Theorems about JobQueue for every set of workers, every route, every    *)
(* set of scopes and every bound.  They rest on one inductive invariant,   *)
(* IInv, a conjunction of named parts:                                     *)
(*   HeldInv      what a worker knows about the task in its hand           *)
(*   FreshInv     ids above last are unused everywhere                     *)
(*   RowInv       what the row of a task and of its job say of each other  *)
(* and the properties of JobQueue it establishes, JobEnvelope among them.  *)
(* Two more, on what processes and discoveries leave behind, add to it: a  *)
(* task stays RUNNING without a process only after a kill, and the row of  *)
(* a discovery scope stands for the one live job of the scope.             *)
(***************************************************************************)
EXTENDS JobQueue, FiniteSetTheorems, TLAPS

USE DEF JobKind, TaskName, Option, JobStatus, TaskStatus, Tasks

-----------------------------------------------------------------------------
(* The inductive invariant.                                                *)

Holds(w) == worker[w].pc \in {"selected", "running"}
Runs(w)  == worker[w].pc = "running"

\* A task in hand exists or existed; one whose payload runs was claimed by
\* this worker and by no other.
HeldInv ==
    \A w \in Workers :
        /\ Holds(w) => worker[w].held \in Tasks /\ worker[w].held <= last
        /\ Runs(w) =>
              LET t == worker[w].held
              IN /\ task[t].status \in {"RUNNING", "CANCELLED", "NONE"}
                 /\ task[t].status # "NONE" => task[t].attempts = 1
                 /\ task[t].name \notin JobKind => task[t].status # "CANCELLED"
        /\ \A v \in Workers : Runs(v) /\ Runs(w)
              /\ worker[v].held = worker[w].held => v = w

\* The next id is not yet used by a row, an origin or a Discovery.
FreshInv ==
    /\ \A t \in Tasks : t > last => job[t] = NoJob /\ task[t] = NoTask
    /\ \A t \in Tasks : task[t].origin <= last
    /\ \A d \in Scopes : discovery[d].job <= last

\* A task that was never claimed has not been counted, one that was, once; a
\* job and its task come and go together.
RowInv ==
    \A t \in Tasks :
        /\ task[t].attempts <= 1
        /\ task[t].status \in {"QUEUED", "NONE"} => task[t].attempts = 0
        /\ task[t].name = "none" <=> task[t].status = "NONE"
        /\ job[t].kind = "none" <=> job[t].status = "NONE"
        /\ task[t].name \in JobKind => job[t].kind = task[t].name
        /\ job[t].status = "CANCELLED" => job[t].cancelRequested

IInv ==
    /\ TypeOK
    /\ HeldInv
    /\ FreshInv
    /\ RowInv
    /\ TaskMirrorsJob
    /\ EnvelopeConsistent
    /\ CancelledRecomputeNeverRan

-----------------------------------------------------------------------------
(* Rows as they are created.                                               *)

\* A job row made by AsyncJob.objects.create is a well-formed PENDING row.
LEMMA NewJobType ==
    ASSUME NEW k \in JobKind
    PROVE  NewJob(k) \in Job /\ NoJob \in Job
BY DEF NewJob, NoJob, Job

\* A task row made by enqueue_task is a well-formed QUEUED row.
LEMMA NewTaskType ==
    ASSUME NEW n \in TaskName, NEW d \in Scopes \cup {NoScope},
           NEW t \in Tasks \cup {0}, NEW o \in SUBSET Option
    PROVE  NewTask(n, d, t, o) \in Task /\ NoTask \in Task
BY DEF NewTask, NoTask, Task

\* The next turn of a polling loop is one of its turns.
LEMMA TurnType ==
    ASSUME NEW w \in Workers, NEW k \in Nat \ {0}, k <= Len(Route[w])
    PROVE  LET n == IF k = Len(Route[w]) THEN 1 ELSE k + 1
           IN n \in Nat \ {0} /\ n <= Len(Route[w])
<1>1. Route[w] \in Seq(TaskName) \ {<<>>}
  BY QueueAssumption
<1>2. Len(Route[w]) \in Nat \ {0}
  BY <1>1
<1>. QED
  BY <1>2

\* The options of a discovery chain.
LEMMA OptionFinite == IsFiniteSet(Option)
<1>1. IsFiniteSet({"auto_scan"})
  BY FS_Singleton
<1>2. IsFiniteSet({"auto_scan"} \cup {"auto_availability_check"})
  BY <1>1, FS_AddElement
<1>. QED
  BY <1>2

\* A request that leaves room for the promised rows has an id for its own.
LEMMA RoomBound ==
    ASSUME TypeOK, NEW n \in Nat, n > 0, Room(n)
    PROVE  last + 1 \in Tasks /\ last + 1 <= MaxTasks /\ last \in Nat
<1>1. IsFiniteSet(Tasks)
  BY QueueAssumption, FS_Interval
<1>2. IsFiniteSet(Option)
  BY OptionFinite
<1>3. IsFiniteSet(Tasks \X Option)
  BY <1>1, <1>2, FS_Product
<1>4. Promised \subseteq Tasks \X Option
  BY DEF Promised
<1>5. Cardinality(Promised) \in Nat
  BY <1>3, <1>4, FS_Subset, FS_CardinalityType
<1>. QED
  BY <1>5, QueueAssumption DEF Room, TypeOK

-----------------------------------------------------------------------------
(* Every request preserves the invariant.                                  *)

\* A row and its task, inserted together under a fresh id.
LEMMA EnqueueStep ==
    ASSUME IInv, NEW n \in Nat, n > 0, Room(n),
           NEW j \in Job, NEW k \in Task,
           j = NoJob \/ (j = NewJob(k.name) /\ k.name \in JobKind),
           j = NoJob => k.name \notin JobKind,
           k.name # "none", k.status = "QUEUED", k.attempts = 0, k.origin = 0,
           Enqueue(last + 1, j, k), UNCHANGED worker,
           \A d \in Scopes : discovery'[d].job <= last',
           discovery' \in [Scopes -> [job : Tasks \cup {0},
                                      status : JobStatus \cup {"NONE"}]],
           UNCHANGED crashes
    PROVE  IInv'
<1>1. last + 1 \in Tasks /\ last \in Nat /\ last' = last + 1
  BY RoomBound DEF IInv, Enqueue
<1>2. /\ job \in [Tasks -> Job] /\ task \in [Tasks -> Task]
      /\ job' = [job EXCEPT ![last + 1] = j]
      /\ task' = [task EXCEPT ![last + 1] = k]
  BY DEF IInv, TypeOK, Enqueue
<1>3. job'[last + 1] = j /\ task'[last + 1] = k
  BY <1>1, <1>2
<1>4. \A t \in Tasks : t # last + 1 => job'[t] = job[t] /\ task'[t] = task[t]
  BY <1>2
<1>5. TypeOK'
  BY <1>1, <1>2 DEF IInv, TypeOK
<1>6. HeldInv'
  BY <1>1, <1>4 DEF IInv, HeldInv, TypeOK, Holds, Runs
<1>7. FreshInv'
  <2>1. \A t \in Tasks : t > last' => job'[t] = NoJob /\ task'[t] = NoTask
    BY <1>1, <1>4 DEF IInv, FreshInv
  <2>2. \A t \in Tasks : task[t].origin \in Nat /\ task[t].origin <= last
    BY DEF IInv, FreshInv, TypeOK, Task
  <2>3. \A t \in Tasks : task'[t].origin <= last'
    BY <1>1, <1>3, <1>4, <2>2
  <2>. QED
    BY <2>1, <2>3 DEF FreshInv
<1>8. RowInv'
  BY <1>3, <1>4 DEF IInv, RowInv, NewJob, NoJob
<1>9. TaskMirrorsJob'
  BY <1>3, <1>4 DEF IInv, TaskMirrorsJob, NewJob, NoJob
<1>10. EnvelopeConsistent'
  BY <1>3, <1>4 DEF IInv, EnvelopeConsistent, NewJob, NoJob
<1>11. CancelledRecomputeNeverRan'
  BY <1>3, <1>4 DEF IInv, CancelledRecomputeNeverRan
<1>. QED
  BY <1>5, <1>6, <1>7, <1>8, <1>9, <1>10, <1>11 DEF IInv

\* POST /jobs inserts a well-formed pair of rows.
LEMMA CreateScanJobStep == ASSUME IInv, CreateScanJob PROVE IInv'
<1>1. Room(1)
  BY DEF CreateScanJob
<1>2. NewJob("scan_job") \in Job /\ Asked("scan_job") \in Task
  BY NewJobType, NewTaskType DEF Asked
<1>3. /\ Asked("scan_job").name = "scan_job"
      /\ Asked("scan_job").status = "QUEUED"
      /\ Asked("scan_job").attempts = 0 /\ Asked("scan_job").origin = 0
      /\ NewJob("scan_job") # NoJob
  BY DEF Asked, NewTask, NewJob, NoJob
<1>4. /\ Enqueue(last + 1, NewJob("scan_job"), Asked("scan_job"))
      /\ UNCHANGED <<discovery, worker, crashes>>
  BY DEF CreateScanJob
<1>5. \A d \in Scopes : discovery'[d].job <= last'
  BY <1>1, <1>4, RoomBound DEF IInv, FreshInv, Enqueue, TypeOK
<1>. QED
  BY <1>1, <1>2, <1>3, <1>4, <1>5, EnqueueStep DEF IInv, TypeOK

\* A recompute request inserts a well-formed pair of rows.
LEMMA CreateRecomputeJobStep == ASSUME IInv, CreateRecomputeJob PROVE IInv'
<1>1. Room(1)
  BY DEF CreateRecomputeJob
<1>2. NewJob("recompute") \in Job /\ Asked("recompute") \in Task
  BY NewJobType, NewTaskType DEF Asked
<1>3. /\ Asked("recompute").name = "recompute"
      /\ Asked("recompute").status = "QUEUED"
      /\ Asked("recompute").attempts = 0 /\ Asked("recompute").origin = 0
      /\ NewJob("recompute") # NoJob
  BY DEF Asked, NewTask, NewJob, NoJob
<1>4. /\ Enqueue(last + 1, NewJob("recompute"), Asked("recompute"))
      /\ UNCHANGED <<discovery, worker, crashes>>
  BY DEF CreateRecomputeJob
<1>5. \A d \in Scopes : discovery'[d].job <= last'
  BY <1>1, <1>4, RoomBound DEF IInv, FreshInv, Enqueue, TypeOK
<1>. QED
  BY <1>1, <1>2, <1>3, <1>4, <1>5, EnqueueStep DEF IInv, TypeOK

\* POST /discoveries inserts a pair of rows and takes over the row of its scope.
LEMMA CreateDiscoveryStep ==
    ASSUME IInv, NEW d \in Scopes, NEW wants \in SUBSET Option,
           CreateDiscovery(d, wants)
    PROVE  IInv'
<1> DEFINE n == 1 + Cardinality(wants)
           k == NewTask("discovery", d, 0, wants)
<1>1. n \in Nat /\ n > 0
  <2>1. IsFiniteSet(wants)
    BY OptionFinite, FS_Subset
  <2>2. Cardinality(wants) \in Nat
    BY <2>1, FS_CardinalityType
  <2>. QED
    BY <2>2
<1>2. Room(n)
  BY DEF CreateDiscovery
<1>3. NewJob("discovery") \in Job /\ k \in Task
  BY NewJobType, NewTaskType
<1>4. /\ k.name = "discovery" /\ k.status = "QUEUED"
      /\ k.attempts = 0 /\ k.origin = 0
      /\ NewJob("discovery") # NoJob
  BY DEF NewTask, NewJob, NoJob
<1>5. /\ Enqueue(last + 1, NewJob("discovery"), k)
      /\ discovery' = [discovery EXCEPT
                          ![d] = [job |-> last + 1, status |-> "PENDING"]]
      /\ UNCHANGED <<worker, crashes>>
  BY DEF CreateDiscovery
<1>6. last + 1 \in Tasks /\ last \in Nat /\ last' = last + 1
  BY <1>1, <1>2, <1>5, RoomBound DEF IInv, Enqueue
<1>7. discovery' \in [Scopes -> [job : Tasks \cup {0},
                                 status : JobStatus \cup {"NONE"}]]
  BY <1>5, <1>6 DEF IInv, TypeOK
<1>8. \A e \in Scopes : discovery'[e].job <= last'
  BY <1>5, <1>6 DEF IInv, FreshInv, TypeOK
<1> HIDE DEF n, k
<1>. QED
  BY <1>1, <1>2, <1>3, <1>4, <1>5, <1>7, <1>8, EnqueueStep

\* A task without a job is a row alone.
LEMMA EnqueueDetachedStep ==
    ASSUME IInv, NEW name \in TaskName \ JobKind, EnqueueDetached(name)
    PROVE  IInv'
<1>1. Room(1)
  BY DEF EnqueueDetached
<1>2. NoJob \in Job /\ Asked(name) \in Task
  BY NewJobType, NewTaskType DEF Asked
<1>3. /\ Asked(name).name = name /\ Asked(name).status = "QUEUED"
      /\ Asked(name).attempts = 0 /\ Asked(name).origin = 0
  BY DEF Asked, NewTask
<1>4. /\ Enqueue(last + 1, NoJob, Asked(name))
      /\ UNCHANGED <<discovery, worker, crashes>>
  BY DEF EnqueueDetached
<1>5. \A d \in Scopes : discovery'[d].job <= last'
  BY <1>1, <1>4, RoomBound DEF IInv, FreshInv, Enqueue, TypeOK
<1>. QED
  BY <1>1, <1>2, <1>3, <1>4, <1>5, EnqueueStep DEF IInv, TypeOK

\* A new status of the row of a scope leaves its type and its job alone.
LEMMA ScopeRow ==
    ASSUME IInv, NEW s, NEW x \in JobStatus
    PROVE  /\ [discovery EXCEPT ![s].status = x]
                  \in [Scopes -> [job : Tasks \cup {0}, status : JobStatus \cup {"NONE"}]]
           /\ \A d \in Scopes : [discovery EXCEPT ![s].status = x][d].job = discovery[d].job
<1> DEFINE row == [discovery[s] EXCEPT !.status = x]
<1>1. discovery \in [Scopes -> [job : Tasks \cup {0}, status : JobStatus \cup {"NONE"}]]
  BY DEF IInv, TypeOK
<1>2. s \in Scopes => /\ row \in [job : Tasks \cup {0}, status : JobStatus \cup {"NONE"}]
                      /\ row.job = discovery[s].job
  BY <1>1
<1>3. [discovery EXCEPT ![s].status = x] = [discovery EXCEPT ![s] = row]
  OBVIOUS
<1> HIDE DEF row
<1>. QED
  BY <1>1, <1>2, <1>3

\* request_cancel: the job and its task turn CANCELLED together, and a
\* recompute only if it never started.
LEMMA CancelStep == ASSUME IInv, NEW t \in Tasks, Cancel(t) PROVE IInv'
<1>1. /\ job[t].status \in {"PENDING", "RUNNING", "CANCELLED"}
      /\ ~ (job[t].kind = "recompute" /\ job[t].status = "RUNNING")
      /\ UNCHANGED <<last, worker, crashes>>
  BY DEF Cancel, Refused, IInv, TypeOK, Job
<1>2. /\ job \in [Tasks -> Job] /\ task \in [Tasks -> Task]
      /\ job' = [job EXCEPT ![t] = [@ EXCEPT !.status = "CANCELLED",
                            !.cancelRequested = TRUE, !.finished = TRUE]]
      /\ task' = [task EXCEPT ![t].status =
                      IF @ \in {"QUEUED", "RUNNING"} THEN "CANCELLED" ELSE @]
  BY DEF IInv, TypeOK, Cancel, Cancellable
<1>3. \A u \in Tasks : u # t => job'[u] = job[u] /\ task'[u] = task[u]
  BY <1>2
<1>4. job'[t] = [job[t] EXCEPT !.status = "CANCELLED",
                    !.cancelRequested = TRUE, !.finished = TRUE]
  BY <1>2
<1>5. job[t].kind # "none"
  BY <1>1 DEF IInv, RowInv
<1>6. task[t].status \in {"QUEUED", "RUNNING", "CANCELLED"}
  BY <1>1, <1>5 DEF IInv, TaskMirrorsJob
<1>7. task'[t] = [task[t] EXCEPT !.status = "CANCELLED"]
  BY <1>2, <1>6 DEF Task
<1>8. TypeOK'
  <2>1. job' \in [Tasks -> Job]
    <3>1. job'[t] \in Job
      BY <1>2, <1>4 DEF Job, JobStatus
    <3>. QED
      BY <1>2, <3>1
  <2>2. task' \in [Tasks -> Task]
    BY <1>2 DEF Task
  <2>3. discovery' \in [Scopes -> [job : Tasks \cup {0},
                                   status : JobStatus \cup {"NONE"}]]
    BY DEF Cancel, IInv, TypeOK
  <2>. QED
    BY <1>1, <2>1, <2>2, <2>3 DEF IInv, TypeOK
<1>9. \A u \in Tasks : /\ task'[u].name = task[u].name
                       /\ task'[u].origin = task[u].origin
                       /\ task'[u].attempts = task[u].attempts
                       /\ job'[u].kind = job[u].kind
  BY <1>2 DEF Task, Job
<1>10. HeldInv'
  <2>1. task'[t].status = "CANCELLED" /\ task[t].name \in JobKind
    BY <1>2, <1>5, <1>7 DEF IInv, TaskMirrorsJob, Task, TypeOK, Job
  <2>2. \A u \in Tasks : task'[u].status # task[u].status
                          => task'[u].status = "CANCELLED" /\ task[u].name \in JobKind
    BY <1>3, <2>1
  <2>3. ASSUME NEW w \in Workers, worker[w].pc = "running"
        PROVE  LET u == worker[w].held
               IN /\ task'[u].status \in {"RUNNING", "CANCELLED", "NONE"}
                  /\ task'[u].status # "NONE" => task'[u].attempts = 1
                  /\ task'[u].name \notin JobKind => task'[u].status # "CANCELLED"
    <3>1. worker[w].held \in Tasks
      BY <2>3 DEF IInv, HeldInv, Holds
    <3>2. /\ task[worker[w].held].status \in {"RUNNING", "CANCELLED", "NONE"}
          /\ task[worker[w].held].status # "NONE"
                => task[worker[w].held].attempts = 1
          /\ task[worker[w].held].name \notin JobKind
                => task[worker[w].held].status # "CANCELLED"
      BY <2>3 DEF IInv, HeldInv, Runs
    <3>3. task[worker[w].held].status = "NONE"
             => task'[worker[w].held].status = "NONE"
      BY <1>3, <1>6, <3>1
    <3>. QED
      BY <1>9, <2>2, <3>1, <3>2, <3>3
  <2>. QED
    BY <1>1, <2>3 DEF IInv, HeldInv, Holds, Runs
<1>11. FreshInv'
  <2>1. t <= last
    BY <1>5 DEF IInv, FreshInv, NoJob, TypeOK
  <2>2. \A d \in Scopes : discovery'[d].job = discovery[d].job
    BY DEF Cancel, IInv, TypeOK
  <2>. QED
    BY <1>1, <1>3, <1>9, <2>1, <2>2 DEF IInv, FreshInv, TypeOK
<1>12. \A u \in Tasks : u = t => job'[u].status = "CANCELLED"
                        /\ job'[u].cancelRequested /\ job'[u].finished
                        /\ job'[u].result = job[u].result
                        /\ job'[u].error = job[u].error
                        /\ task'[u].status = "CANCELLED"
  BY <1>2, <1>4, <1>7 DEF Job, Task
<1>13. task[t].name # "none"
  BY <1>6 DEF IInv, RowInv
<1>14. RowInv'
  BY <1>3, <1>5, <1>9, <1>12, <1>13 DEF IInv, RowInv
<1>15. TaskMirrorsJob'
  BY <1>3, <1>9, <1>12 DEF IInv, TaskMirrorsJob
<1>16. EnvelopeConsistent'
  BY <1>1, <1>3, <1>12 DEF IInv, EnvelopeConsistent
<1>17. CancelledRecomputeNeverRan'
  <2>1. job[t].kind = "recompute" => task[t].attempts = 0
    BY <1>1, <1>5 DEF IInv, RowInv, TaskMirrorsJob, CancelledRecomputeNeverRan
  <2>. QED
    BY <1>3, <1>9, <2>1 DEF IInv, CancelledRecomputeNeverRan
<1>. QED
  BY <1>8, <1>10, <1>11, <1>14, <1>15, <1>16, <1>17 DEF IInv

\* The deletion of the scan results takes jobs and tasks together; a worker
\* that runs one of them is left with a row that no longer exists.
LEMMA DeleteSnapshotResultsStep ==
    ASSUME IInv, NEW seen \in 0 .. last, NEW late \in SUBSET Tasks,
           DeleteSnapshotResults(seen, late)
    PROVE  IInv'
<1> DEFINE listed == {t \in 1 .. seen : job[t].kind \in {"scan_job", "recompute"}}
<1>1. UNCHANGED <<last, discovery, worker, crashes>>
  BY DEF DeleteSnapshotResults
<1>2. /\ job \in [Tasks -> Job] /\ task \in [Tasks -> Task]
      /\ job' = [t \in Tasks |-> IF t \in listed THEN NoJob ELSE job[t]]
  BY DEF IInv, TypeOK, DeleteSnapshotResults
<1>3. \A t \in Tasks : t \notin listed =>
         task'[t] = [task[t] EXCEPT !.run = @ /\ t \notin (1 .. seen) \cup late]
  BY DEF DeleteSnapshotResults
<1>4. \A t \in Tasks : t \in listed => job'[t] = NoJob /\ task'[t] = NoTask
  BY DEF DeleteSnapshotResults
<1>5. \A t \in Tasks : t \notin listed =>
         /\ job'[t] = job[t]
         /\ task'[t].name = task[t].name /\ task'[t].status = task[t].status
         /\ task'[t].attempts = task[t].attempts
         /\ task'[t].origin = task[t].origin
         /\ task'[t] \in Task
  <2>1. SUFFICES ASSUME NEW t \in Tasks, t \notin listed
                 PROVE  /\ job'[t] = job[t]
                        /\ task'[t].name = task[t].name
                        /\ task'[t].status = task[t].status
                        /\ task'[t].attempts = task[t].attempts
                        /\ task'[t].origin = task[t].origin
                        /\ task'[t] \in Task
    OBVIOUS
  <2>2. task[t] \in Task
    BY <1>2
  <2>3. PICK r \in BOOLEAN : task'[t] = [task[t] EXCEPT !.run = r]
    BY <1>3, <2>1, <2>2
  <2>. QED
    BY <1>2, <2>1, <2>2, <2>3 DEF Task
<1>6. \A t \in Tasks : task'[t] \in Task
  <2>1. NoTask \in Task
    BY DEF NoTask, Task
  <2>. QED
    BY <1>4, <1>5, <2>1
<1> HIDE DEF listed
<1>7. TypeOK'
  <2>1. task' = [t \in Tasks |-> task'[t]]
    BY DEF DeleteSnapshotResults
  <2>2. task' \in [Tasks -> Task]
    BY <1>6, <2>1
  <2>3. job' \in [Tasks -> Job]
    BY <1>2, NewJobType
  <2>. QED
    BY <1>1, <2>2, <2>3 DEF IInv, TypeOK
<1>8. HeldInv'
  BY <1>1, <1>4, <1>5 DEF IInv, HeldInv, Holds, Runs, NoTask
<1>9. FreshInv'
  <2>1. \A t \in Tasks : t > last => t \notin listed
    BY DEF IInv, TypeOK, listed
  <2>2. \A t \in Tasks : t > last => task'[t] = NoTask
    <3>1. SUFFICES ASSUME NEW t \in Tasks, t > last PROVE task'[t] = NoTask
      OBVIOUS
    <3>2. task[t] = NoTask
      BY <3>1 DEF IInv, FreshInv
    <3>3. task'[t] = [NoTask EXCEPT !.run = NoTask.run /\ t \notin (1 .. seen) \cup late]
      BY <2>1, <3>1, <3>2 DEF DeleteSnapshotResults, listed
    <3>. QED
      BY <3>3 DEF NoTask
  <2>3. \A t \in Tasks : t > last => job'[t] = NoJob
    BY <1>5, <2>1 DEF IInv, FreshInv
  <2>4. \A t \in Tasks : task'[t].origin <= last
    BY <1>4, <1>5 DEF IInv, FreshInv, NoTask, TypeOK
  <2>. QED
    BY <1>1, <2>2, <2>3, <2>4 DEF IInv, FreshInv
<1>10. RowInv'
  BY <1>4, <1>5 DEF IInv, RowInv, NoTask, NoJob
<1>11. TaskMirrorsJob'
  BY <1>4, <1>5 DEF IInv, TaskMirrorsJob, NoJob
<1>12. EnvelopeConsistent'
  BY <1>4, <1>5 DEF IInv, EnvelopeConsistent, NoJob
<1>13. CancelledRecomputeNeverRan'
  BY <1>4, <1>5 DEF IInv, CancelledRecomputeNeverRan, NoJob
<1>. QED
  BY <1>7, <1>8, <1>9, <1>10, <1>11, <1>12, <1>13 DEF IInv

-----------------------------------------------------------------------------
(* Every step of a worker preserves the invariant.                         *)

\* What the invariant says of one row and its job.
RowOK(t) ==
    /\ task[t].attempts <= 1
    /\ task[t].status \in {"QUEUED", "NONE"} => task[t].attempts = 0
    /\ task[t].name = "none" <=> task[t].status = "NONE"
    /\ job[t].kind = "none" <=> job[t].status = "NONE"
    /\ task[t].name \in JobKind => job[t].kind = task[t].name
    /\ job[t].status = "CANCELLED" => job[t].cancelRequested
    /\ job[t].kind # "none" =>
          /\ task[t].name = job[t].kind
          /\ task[t].status = IF job[t].status = "PENDING" THEN "QUEUED"
                              ELSE job[t].status
    /\ job[t].result <=> job[t].status = "COMPLETED"
    /\ job[t].error <=> job[t].status = "FAILED"
    /\ job[t].finished <=> job[t].status \in {"COMPLETED", "FAILED", "CANCELLED"}
    /\ job[t].kind = "recompute" /\ job[t].status = "CANCELLED"
          => task[t].attempts = 0

\* The parts of the invariant about rows hold row by row.
LEMMA RowByRow ==
    (\A t \in Tasks : RowOK(t))
        <=> RowInv /\ TaskMirrorsJob /\ EnvelopeConsistent
               /\ CancelledRecomputeNeverRan
BY DEF RowOK, RowInv, TaskMirrorsJob, EnvelopeConsistent,
       CancelledRecomputeNeverRan

WorkerType ==
    /\ worker \in [Workers -> [pc : {"poll", "selected", "running", "down"},
                               turn : Nat \ {0}, held : Tasks \cup {0}]]
    /\ \A w \in Workers : worker[w].turn <= Len(Route[w])

\* Process w let go of its task, or had none; the others did nothing.
Freed(w) ==
    /\ WorkerType'
    /\ worker'[w].pc \notin {"selected", "running"}
    /\ \A v \in Workers : v # w => worker'[v] = worker[v]

\* A processor that returned, a process that died or was restarted holds nothing.
LEMMA AdvanceFrees == ASSUME TypeOK, NEW w \in Workers, Advance(w) PROVE Freed(w)
<1> DEFINE n == IF worker[w].turn = Len(Route[w]) THEN 1 ELSE worker[w].turn + 1
<1>1. worker' = [worker EXCEPT ![w] = [pc |-> "poll", held |-> 0, turn |-> n]]
  BY DEF Advance
<1>2. n \in Nat \ {0} /\ n <= Len(Route[w])
  BY TurnType DEF TypeOK
<1> HIDE DEF n
<1>. QED
  BY <1>1, <1>2 DEF Freed, WorkerType, TypeOK

\* An exception or a kill lets go of the task.
LEMMA DieFrees == ASSUME TypeOK, NEW w \in Workers, Die(w) PROVE Freed(w)
BY DEF Die, Goto, Freed, WorkerType, TypeOK

\* A restarted loop begins at a turn it has.
LEMMA RestartFrees ==
    ASSUME TypeOK, NEW w \in Workers, Restart(w) PROVE Freed(w)
<1>1. Route[w] \in Seq(TaskName) \ {<<>>}
  BY QueueAssumption
<1>2. 1 <= Len(Route[w])
  BY <1>1
<1>. QED
  BY <1>2 DEF Restart, Freed, WorkerType, TypeOK

\* Steps that leave every row alone and free the process.
LEMMA FreeStep ==
    ASSUME IInv, NEW w \in Workers, Freed(w),
           UNCHANGED <<last, job, task, discovery>>, crashes' \in 0 .. MaxCrashes
    PROVE  IInv'
<1>1. TypeOK'
  BY DEF IInv, TypeOK, Freed, WorkerType
<1>2. HeldInv'
  BY DEF IInv, HeldInv, Holds, Runs, Freed
<1>3. FreshInv' /\ RowInv' /\ TaskMirrorsJob' /\ EnvelopeConsistent'
      /\ CancelledRecomputeNeverRan'
  BY DEF IInv, FreshInv, RowInv, TaskMirrorsJob, EnvelopeConsistent,
         CancelledRecomputeNeverRan
<1>. QED
  BY <1>1, <1>2, <1>3 DEF IInv

\* The transaction that ends a task (t) some process runs, and may enqueue
\* the next one (c).
LEMMA EndStep ==
    ASSUME IInv, NEW w \in Workers, Runs(w), Freed(w), TypeOK',
           NEW t \in Tasks, t = worker[w].held,
           last' = last \/ (last' = last + 1 /\ last + 1 \in Tasks),
           \A u \in Tasks : u # t /\ (u <= last \/ u > last')
                => job'[u] = job[u] /\ task'[u] = task[u],
           RowOK(t)',
           task'[t].origin = task[t].origin,
           \A u \in Tasks : u > last /\ u <= last'
                => RowOK(u)' /\ task'[u].origin <= last',
           \A d \in Scopes : discovery'[d].job = discovery[d].job
    PROVE  IInv'
<1>1. last \in Nat /\ last' \in Nat /\ last <= last'
  BY DEF IInv, TypeOK
<1>2. t <= last
  BY DEF IInv, HeldInv, Holds, Runs
<1>3. HeldInv'
  <2>1. ASSUME NEW v \in Workers, v # w, Runs(v)
        PROVE  /\ task'[worker[v].held] = task[worker[v].held]
               /\ worker[v].held # t
    BY <1>1, <2>1 DEF IInv, HeldInv, Holds, Runs
  <2>2. \A v \in Workers : Holds(v)' => v # w /\ Holds(v) /\ worker'[v] = worker[v]
    BY DEF Freed, Holds
  <2>3. \A v \in Workers : Runs(v)' => v # w /\ Runs(v) /\ worker'[v] = worker[v]
    BY DEF Freed, Runs
  <2>. QED
    BY <1>1, <2>1, <2>2, <2>3 DEF IInv, HeldInv, TypeOK
<1>4. FreshInv'
  <2>1. \A u \in Tasks : u > last' => job'[u] = NoJob /\ task'[u] = NoTask
    BY <1>1, <1>2 DEF IInv, FreshInv
  <2>2. \A u \in Tasks : task[u].origin \in Nat /\ task[u].origin <= last
    BY DEF IInv, FreshInv, TypeOK, Task
  <2>3. \A u \in Tasks : task'[u].origin <= last'
    BY <1>1, <2>2
  <2>4. \A d \in Scopes : discovery'[d].job <= last'
    BY <1>1 DEF IInv, FreshInv, TypeOK
  <2>. QED
    BY <2>1, <2>3, <2>4 DEF FreshInv
<1>5. \A u \in Tasks : RowOK(u)'
  <2>1. \A u \in Tasks : RowOK(u)
    BY RowByRow DEF IInv
  <2>2. ASSUME NEW u \in Tasks, u # t, u <= last \/ u > last' PROVE RowOK(u)'
    BY <2>1, <2>2 DEF RowOK
  <2>. QED
    BY <1>1, <2>2
<1>6. RowInv' /\ TaskMirrorsJob' /\ EnvelopeConsistent'
      /\ CancelledRecomputeNeverRan'
  BY <1>5 DEF RowOK, RowInv, TaskMirrorsJob, EnvelopeConsistent,
              CancelledRecomputeNeverRan
<1>. QED
  BY <1>3, <1>4, <1>6 DEF IInv

\* The poll reads the queue outside any transaction: all it establishes is
\* that the row it found exists.
LEMMA PollStep == ASSUME IInv, NEW w \in Workers, Poll(w) PROVE IInv'
<1>1. UNCHANGED <<last, job, task, discovery, crashes>>
  BY DEF Poll
<1>2. CASE Advance(w)
  BY <1>1, <1>2, AdvanceFrees, FreeStep DEF IInv, TypeOK
<1>3. CASE \E t \in Queued(Route[w][worker[w].turn]) : Goto(w, "selected", t)
  <2>1. PICK t \in Tasks : task[t].status = "QUEUED" /\ Goto(w, "selected", t)
    BY <1>3 DEF Queued
  <2>2. t <= last
    BY <2>1 DEF IInv, FreshInv, NoTask, TypeOK
  <2>3. worker' = [worker EXCEPT ![w] = [@ EXCEPT !.pc = "selected", !.held = t]]
    BY <2>1 DEF Goto
  <2>4. TypeOK'
    BY <1>1, <2>3 DEF IInv, TypeOK
  <2>5. HeldInv'
    BY <1>1, <2>2, <2>3 DEF IInv, HeldInv, Holds, Runs, TypeOK
  <2>6. FreshInv' /\ RowInv' /\ TaskMirrorsJob' /\ EnvelopeConsistent'
        /\ CancelledRecomputeNeverRan'
    BY <1>1 DEF IInv, FreshInv, RowInv, TaskMirrorsJob, EnvelopeConsistent,
                CancelledRecomputeNeverRan
  <2>. QED
    BY <2>4, <2>5, <2>6 DEF IInv
<1>. QED
  BY <1>2, <1>3 DEF Poll

\* A row and the claim's two assignments.
LEMMA ClaimedRow ==
    ASSUME NEW r \in Task, NEW c,
           c = [r EXCEPT !.status = "RUNNING", !.attempts = 1]
    PROVE  /\ c \in Task /\ c.status = "RUNNING" /\ c.attempts = 1
           /\ c.name = r.name /\ c.origin = r.origin
<1>1. c \in Task
  BY DEF Task
<1>2. c.status = "RUNNING" /\ c.attempts = 1 /\ c.name = r.name
  BY DEF Task
<1>3. c.origin = r.origin
  BY DEF Task
<1>. QED
  BY <1>1, <1>2, <1>3

\* The claim finds the row still QUEUED, hence never claimed and its job not
\* cancelled; from here on no other process can claim it.
LEMMA ClaimStep == ASSUME IInv, NEW w \in Workers, Claim(w) PROVE IInv'
<1>0. PICK t \in Tasks : t = worker[w].held /\ t <= last
  BY DEF Claim, IInv, HeldInv, Holds
<1>1. /\ worker[w].pc = "selected" /\ task[t].status = "QUEUED"
      /\ t \in Tasks /\ t <= last
  BY <1>0 DEF Claim, Startable
<1>2. /\ job \in [Tasks -> Job] /\ task \in [Tasks -> Task]
      /\ job[t] \in Job /\ task[t] \in Task
  BY <1>1 DEF IInv, TypeOK
<1>3. job[t].status # "CANCELLED" /\ task[t].attempts = 0
  BY <1>1, <1>2 DEF IInv, TaskMirrorsJob, RowInv
<1>4. /\ UNCHANGED <<last, crashes>> /\ Goto(w, "running", t)
      /\ task' = [task EXCEPT ![t].status = "RUNNING", ![t].attempts = @ + 1]
      /\ job' = IF job[t].kind = "none" THEN job
                ELSE [job EXCEPT ![t].status = "RUNNING"]
      /\ discovery' = IF task[t].name # "discovery" THEN discovery
                      ELSE [discovery EXCEPT
                               ![task[t].scope].status = "RUNNING"]
  BY <1>0, <1>3 DEF Claim
<1>5. /\ \A u \in Tasks : u # t => task'[u] = task[u] /\ job'[u] = job[u]
      /\ job'[t] = IF job[t].kind = "none" THEN job[t]
                   ELSE [job[t] EXCEPT !.status = "RUNNING"]
  BY <1>1, <1>2, <1>4
<1>6. /\ task'[t].status = "RUNNING" /\ task'[t].attempts = 1
      /\ task'[t].name = task[t].name /\ task'[t].origin = task[t].origin
      /\ task'[t] \in Task
  <2>1. task'[t] = [task[t] EXCEPT !.status = "RUNNING",
                                   !.attempts = 1]
    BY <1>1, <1>2, <1>3, <1>4 DEF Task
  <2>. QED
    BY <1>2, <2>1, ClaimedRow
<1>7. job'[t] \in Job /\ task' \in [Tasks -> Task] /\ job' \in [Tasks -> Job]
  BY <1>1, <1>2, <1>4, <1>5, <1>6 DEF Job
<1>8. discovery' \in [Scopes -> [job : Tasks \cup {0},
                                 status : JobStatus \cup {"NONE"}]]
      /\ \A d \in Scopes : discovery'[d].job = discovery[d].job
  <2>1. discovery \in [Scopes -> [job : Tasks \cup {0}, status : JobStatus \cup {"NONE"}]]
    BY DEF IInv, TypeOK
  <2>2. /\ [discovery EXCEPT ![task[t].scope].status = "RUNNING"]
              \in [Scopes -> [job : Tasks \cup {0}, status : JobStatus \cup {"NONE"}]]
        /\ \A d \in Scopes :
              [discovery EXCEPT ![task[t].scope].status = "RUNNING"][d].job = discovery[d].job
    BY ScopeRow DEF JobStatus
  <2>3. \/ discovery' = discovery
        \/ discovery' = [discovery EXCEPT ![task[t].scope].status = "RUNNING"]
    BY <1>4
  <2>. QED
    BY <2>1, <2>2, <2>3
<1>9. worker' = [worker EXCEPT ![w] = [@ EXCEPT !.pc = "running", !.held = t]]
  BY <1>4 DEF Goto
<1>10. TypeOK'
  <2>1. WorkerType'
    BY <1>1, <1>9 DEF IInv, TypeOK, WorkerType
  <2>. QED
    BY <1>4, <1>7, <1>8, <2>1 DEF IInv, TypeOK, WorkerType
<1>11. HeldInv'
  <2>1. ASSUME NEW v \in Workers, v # w, worker[v].pc = "running"
        PROVE  /\ worker[v].held # t
               /\ task'[worker[v].held] = task[worker[v].held]
    BY <1>1, <1>5, <2>1 DEF IInv, HeldInv, Holds, Runs
  <2>2. \A v \in Workers : v # w => worker'[v] = worker[v]
    BY <1>9 DEF IInv, TypeOK
  <2>3. worker'[w].pc = "running" /\ worker'[w].held = t
    BY <1>9 DEF IInv, TypeOK
  <2>4. ASSUME NEW v \in Workers
        PROVE  /\ Holds(v)' => worker'[v].held \in Tasks /\ worker'[v].held <= last'
               /\ Runs(v)' =>
                     LET u == worker'[v].held
                     IN /\ task'[u].status \in {"RUNNING", "CANCELLED", "NONE"}
                        /\ task'[u].status # "NONE" => task'[u].attempts = 1
                        /\ task'[u].name \notin JobKind
                              => task'[u].status # "CANCELLED"
    <3>1. CASE v = w
      BY <1>1, <1>4, <1>6, <2>3, <3>1
    <3>2. CASE v # w
      <4>1. worker'[v] = worker[v] /\ last' = last
        BY <1>4, <2>2, <3>2
      <4>2. Runs(v) => task'[worker[v].held] = task[worker[v].held]
        BY <2>1, <3>2 DEF Runs
      <4>. QED
        BY <4>1, <4>2 DEF IInv, HeldInv, Holds, Runs
    <3>. QED
      BY <3>1, <3>2
  <2>5. ASSUME NEW v \in Workers, NEW x \in Workers, Runs(v)', Runs(x)',
               worker'[v].held = worker'[x].held
        PROVE  v = x
    BY <2>1, <2>2, <2>3, <2>5 DEF IInv, HeldInv, Runs
  <2>. QED
    BY <2>4, <2>5 DEF HeldInv
<1>12. FreshInv'
  BY <1>1, <1>4, <1>5, <1>6, <1>8 DEF IInv, FreshInv, TypeOK
<1>13. RowOK(t)
  BY <1>1, RowByRow DEF IInv
<1>14. RowOK(t)'
  <2>1. CASE job[t].kind = "none"
    BY <1>1, <1>2, <1>5, <1>6, <1>13, <2>1 DEF RowOK
  <2>2. CASE job[t].kind # "none"
    <3>1. /\ job'[t].status = "RUNNING" /\ job'[t].kind = job[t].kind
          /\ job'[t].result = job[t].result /\ job'[t].error = job[t].error
          /\ job'[t].finished = job[t].finished
      BY <1>2, <1>5, <2>2 DEF Job
    <3>2. job[t].status = "PENDING"
      BY <1>1, <1>2, <1>13, <2>2 DEF RowOK, Job
    <3>. QED
      BY <1>1, <1>6, <1>13, <2>2, <3>1, <3>2 DEF RowOK
  <2>. QED
    BY <2>1, <2>2
<1>15. \A u \in Tasks : RowOK(u)'
  <2>1. \A u \in Tasks : RowOK(u)
    BY RowByRow DEF IInv
  <2>2. \A u \in Tasks : u # t => RowOK(u)'
    BY <1>5, <2>1 DEF RowOK
  <2>. QED
    BY <1>14, <2>2
<1>16. RowInv' /\ TaskMirrorsJob' /\ EnvelopeConsistent'
       /\ CancelledRecomputeNeverRan'
  BY <1>15 DEF RowOK, RowInv, TaskMirrorsJob, EnvelopeConsistent,
               CancelledRecomputeNeverRan
<1>. QED
  BY <1>10, <1>11, <1>12, <1>16 DEF IInv

\* The exits of a worker that write nothing preserve the invariant.
LEMMA ClaimCancelledStep ==
    ASSUME IInv, NEW w \in Workers, ClaimCancelled(w) PROVE IInv'
BY AdvanceFrees, FreeStep DEF ClaimCancelled, IInv, TypeOK

\* A claim that raises is rolled back.
LEMMA ClaimRaisesStep ==
    ASSUME IInv, NEW w \in Workers, ClaimRaises(w) PROVE IInv'
BY DieFrees, FreeStep DEF ClaimRaises, IInv, TypeOK

\* The closing transaction of a deleted row is rolled back.
LEMMA FinishDeletedStep ==
    ASSUME IInv, NEW w \in Workers, FinishDeleted(w) PROVE IInv'
BY DieFrees, FreeStep DEF FinishDeleted, IInv, TypeOK

\* A restart touches no row.
LEMMA RestartStep == ASSUME IInv, NEW w \in Workers, Restart(w) PROVE IInv'
BY RestartFrees, FreeStep DEF Restart, IInv, TypeOK

\* A kill touches no row.
LEMMA CrashStep == ASSUME IInv, NEW w \in Workers, Crash(w) PROVE IInv'
<1>1. crashes' \in 0 .. MaxCrashes
  BY QueueAssumption DEF Crash, IInv, TypeOK
<1>. QED
  BY <1>1, DieFrees, FreeStep DEF Crash, IInv

\* Facts about the rows a closing transaction writes.
LEMMA ClosedTask ==
    ASSUME NEW r \in Task, NEW s \in TaskStatus, NEW c, c = [r EXCEPT !.status = s]
    PROVE  /\ c \in Task /\ c.status = s /\ c.name = r.name
           /\ c.attempts = r.attempts /\ c.origin = r.origin
BY DEF Task

\* A completed row is well formed and carries a result only.
LEMMA CompletedJob ==
    ASSUME NEW r \in Job, NEW c,
           c = Completed(r)
    PROVE  /\ c \in Job /\ c.status = "COMPLETED" /\ c.kind = r.kind
           /\ c.finished /\ c.result /\ ~ c.error
<1>1. c \in Job
  BY DEF Job, Completed
<1>2. c.status = "COMPLETED" /\ c.kind = r.kind
  BY DEF Job, Completed
<1>3. c.finished /\ c.result /\ ~ c.error
  BY DEF Job, Completed
<1>. QED
  BY <1>1, <1>2, <1>3

\* A failed row is well formed and carries an error.
LEMMA FailedJob ==
    ASSUME NEW r \in Job, NEW c,
           c = Failed(r)
    PROVE  /\ c \in Job /\ c.status = "FAILED" /\ c.kind = r.kind
           /\ c.finished /\ c.error /\ c.result = r.result
<1>1. c \in Job
  BY DEF Job, Failed
<1>2. c.status = "FAILED" /\ c.kind = r.kind
  BY DEF Job, Failed
<1>3. c.finished /\ c.error /\ c.result = r.result
  BY DEF Job, Failed
<1>. QED
  BY <1>1, <1>2, <1>3

\* What a worker about to close its task can count on.
LEMMA RunningRow ==
    ASSUME IInv, NEW w \in Workers, Runs(w), task[worker[w].held].status # "NONE"
    PROVE  \E t \in Tasks :
              /\ t = worker[w].held /\ t <= last
              /\ task[t] \in Task /\ job[t] \in Job /\ RowOK(t)
              /\ task[t].status \in {"RUNNING", "CANCELLED"}
              /\ task[t].attempts = 1 /\ task[t].name # "none"
              /\ task[t].name \notin JobKind => job[t].kind = "none"
              /\ job[t].kind # "none" =>
                    /\ job[t].status \in {"RUNNING", "CANCELLED"}
                    /\ job[t].kind = "recompute" => job[t].status = "RUNNING"
<1>1. PICK t \in Tasks : t = worker[w].held /\ t <= last
  BY DEF IInv, HeldInv, Holds, Runs
<1>2. task[t] \in Task /\ job[t] \in Job
  BY DEF IInv, TypeOK
<1>3. RowOK(t)
  BY RowByRow DEF IInv
<1>4. task[t].status \in {"RUNNING", "CANCELLED"} /\ task[t].attempts = 1
  BY <1>1 DEF IInv, HeldInv
<1>5. job[t].kind # "none" =>
          /\ job[t].status \in {"RUNNING", "CANCELLED"}
          /\ job[t].kind = "recompute" => job[t].status = "RUNNING"
  BY <1>2, <1>3, <1>4 DEF RowOK
<1>6. task[t].name # "none" /\ (task[t].name \notin JobKind => job[t].kind = "none")
  BY <1>2, <1>3, <1>4 DEF RowOK, Job
<1>. QED
  BY <1>1, <1>2, <1>3, <1>4, <1>5, <1>6

\* A task superseded by a cancellation is closed as its job already is.
LEMMA CompleteCancelledStep ==
    ASSUME IInv, NEW w \in Workers, CompleteCancelled(w) PROVE IInv'
<1>1. Runs(w) /\ Freed(w)
  BY AdvanceFrees DEF CompleteCancelled, Runs, IInv
<1>2. task[worker[w].held].status # "NONE"
  <2>1. PICK t \in Tasks : t = worker[w].held
    BY <1>1 DEF IInv, HeldInv, Holds, Runs
  <2>. QED
    BY <2>1 DEF CompleteCancelled, Superseded, IInv, RowInv
<1>3. PICK t \in Tasks :
              /\ t = worker[w].held /\ t <= last
              /\ task[t] \in Task /\ job[t] \in Job /\ RowOK(t)
              /\ task[t].status \in {"RUNNING", "CANCELLED"}
              /\ task[t].attempts = 1 /\ task[t].name # "none"
  BY <1>1, <1>2, RunningRow
<1>4. /\ task' = [task EXCEPT ![t].status = "CANCELLED"]
      /\ job[t].status = "CANCELLED"
      /\ UNCHANGED <<last, job, discovery, crashes>>
  BY <1>3 DEF CompleteCancelled, Superseded
<1>5. task'[t] = [task[t] EXCEPT !.status = "CANCELLED"]
      /\ \A u \in Tasks : u # t => task'[u] = task[u]
  BY <1>4 DEF IInv, TypeOK
<1>6. /\ task'[t] \in Task /\ task'[t].status = "CANCELLED"
      /\ task'[t].name = task[t].name /\ task'[t].attempts = task[t].attempts
      /\ task'[t].origin = task[t].origin
  BY <1>3, <1>5, ClosedTask
<1>7. TypeOK'
  <2>1. task' \in [Tasks -> Task]
    BY <1>4, <1>6 DEF IInv, TypeOK
  <2>. QED
    BY <1>1, <1>4, <2>1 DEF IInv, TypeOK, Freed, WorkerType
<1>8. RowOK(t)'
  BY <1>3, <1>4, <1>6 DEF RowOK
<1>9. last \in Nat
  BY DEF IInv, TypeOK
<1>. QED
  BY <1>1, <1>3, <1>4, <1>5, <1>6, <1>7, <1>8, <1>9, EndStep

\* A failure closes whatever row it finds: that may be a CANCELLED one.
LEMMA FailStep == ASSUME IInv, NEW w \in Workers, Fail(w) PROVE IInv'
<1>1. Runs(w) /\ Freed(w) /\ task[worker[w].held].status # "NONE"
  BY DieFrees DEF Fail, Runs, IInv
<1>2. PICK t \in Tasks :
              /\ t = worker[w].held /\ t <= last
              /\ task[t] \in Task /\ job[t] \in Job /\ RowOK(t)
              /\ task[t].attempts = 1 /\ task[t].name # "none"
              /\ job[t].kind # "none" => job[t].status \in {"RUNNING", "CANCELLED"}
  BY <1>1, RunningRow
<1>3. /\ task' = [task EXCEPT ![t].status = "FAILED"]
      /\ job' = IF job[t].kind = "none" THEN job
                ELSE [job EXCEPT ![t] = Failed(@)]
      /\ discovery' = IF task[t].name = "discovery"
                      THEN [discovery EXCEPT ![task[t].scope].status = "FAILED"]
                      ELSE discovery
      /\ UNCHANGED <<last, crashes>>
  BY <1>2 DEF Fail
<1>4. task'[t] = [task[t] EXCEPT !.status = "FAILED"]
      /\ \A u \in Tasks : u # t => task'[u] = task[u] /\ job'[u] = job[u]
  BY <1>3 DEF IInv, TypeOK
<1>5. /\ task'[t] \in Task /\ task'[t].status = "FAILED"
      /\ task'[t].name = task[t].name /\ task'[t].attempts = task[t].attempts
      /\ task'[t].origin = task[t].origin
  BY <1>2, <1>4, ClosedTask
<1>6. /\ last' = last
      /\ \A u \in Tasks : u # t /\ (u <= last \/ u > last')
            => job'[u] = job[u] /\ task'[u] = task[u]
      /\ \A u \in Tasks : ~ (u > last /\ u <= last')
  BY <1>3, <1>4 DEF IInv, TypeOK
<1>10. discovery' \in [Scopes -> [job : Tasks \cup {0}, status : JobStatus \cup {"NONE"}]]
       /\ \A d \in Scopes : discovery'[d].job = discovery[d].job
  <2>1. discovery \in [Scopes -> [job : Tasks \cup {0}, status : JobStatus \cup {"NONE"}]]
    BY DEF IInv, TypeOK
  <2>2. /\ [discovery EXCEPT ![task[t].scope].status = "FAILED"]
              \in [Scopes -> [job : Tasks \cup {0}, status : JobStatus \cup {"NONE"}]]
        /\ \A d \in Scopes :
              [discovery EXCEPT ![task[t].scope].status = "FAILED"][d].job = discovery[d].job
    BY ScopeRow DEF JobStatus
  <2>3. \/ discovery' = discovery
        \/ discovery' = [discovery EXCEPT ![task[t].scope].status = "FAILED"]
    BY <1>3
  <2>. QED
    BY <2>1, <2>2, <2>3
<1>7. CASE job[t].kind = "none"
  <2>1. job' = job
    BY <1>3, <1>7
  <2>2. RowOK(t)'
    BY <1>2, <1>5, <1>7, <2>1 DEF RowOK
  <2>3. TypeOK'
    <3>1. task' \in [Tasks -> Task]
      BY <1>3, <1>5 DEF IInv, TypeOK
    <3>2. discovery' \in [Scopes -> [job : Tasks \cup {0},
                                     status : JobStatus \cup {"NONE"}]]
      BY <1>10
    <3>3. WorkerType'
      BY <1>1 DEF IInv, TypeOK, Freed, WorkerType
    <3>4. last' \in 0 .. MaxTasks /\ crashes' \in 0 .. MaxCrashes /\ job' \in [Tasks -> Job]
      BY <1>3, <2>1 DEF IInv, TypeOK
    <3>. QED
      BY <3>1, <3>2, <3>3, <3>4 DEF TypeOK, WorkerType
  <2>4. \A d \in Scopes : discovery'[d].job = discovery[d].job
    BY <1>10
  <2>. QED
    BY <1>1, <1>2, <1>3, <1>4, <1>5, <1>6, <2>2, <2>3, <2>4, EndStep
<1>8. CASE job[t].kind # "none"
  <2>1. job'[t] = Failed(job[t])
    BY <1>3, <1>8 DEF IInv, TypeOK
  <2>2. /\ job'[t] \in Job /\ job'[t].status = "FAILED"
        /\ job'[t].kind = job[t].kind
        /\ job'[t].finished /\ job'[t].error /\ job'[t].result = job[t].result
    BY <1>2, <2>1, FailedJob
  <2>3. RowOK(t)'
    BY <1>2, <1>5, <1>8, <2>2 DEF RowOK
  <2>4. discovery' \in [Scopes -> [job : Tasks \cup {0},
                                   status : JobStatus \cup {"NONE"}]]
        /\ \A d \in Scopes : discovery'[d].job = discovery[d].job
    BY <1>10
  <2>5. TypeOK'
    <3>1. task' \in [Tasks -> Task] /\ job' \in [Tasks -> Job]
      BY <1>3, <1>5, <1>8, <2>2 DEF IInv, TypeOK
    <3>. QED
      BY <1>1, <1>3, <2>4, <3>1 DEF IInv, TypeOK, Freed, WorkerType
  <2>. QED
    BY <1>1, <1>2, <1>3, <1>4, <1>5, <1>6, <2>3, <2>4, <2>5, EndStep
<1>. QED
  BY <1>7, <1>8

\* The row a completed task hands over to.
LEMMA FollowUpRow ==
    ASSUME NEW t \in Tasks, task[t] \in Task, Asks(t)
    PROVE  /\ FollowUp(t) \in Task /\ FollowUpJob(t) \in Job
           /\ FollowUp(t).origin = t /\ FollowUp(t).status = "QUEUED"
           /\ FollowUp(t).attempts = 0
           /\ \/ /\ FollowUp(t).name = "scan_job"
                 /\ FollowUpJob(t) = NewJob("scan_job")
              \/ /\ FollowUp(t).name = "performance_run"
                 /\ FollowUpJob(t) = NoJob
<1>1. task[t].wants \in SUBSET Option
  BY DEF Task
<1>2. CASE task[t].name = "discovery"
  BY <1>1, <1>2, NewJobType DEF FollowUp, FollowUpJob, NewTask, Task
<1>3. CASE task[t].name # "discovery"
  BY <1>3, NewJobType DEF FollowUp, FollowUpJob, NewTask, Task
<1>. QED
  BY <1>2, <1>3

\* A completion closes a row whose job is RUNNING, and what it enqueues is
\* a row like any other.
LEMMA CompleteStep == ASSUME IInv, NEW w \in Workers, Complete(w) PROVE IInv'
<1>1. Runs(w) /\ Freed(w) /\ task[worker[w].held].status # "NONE"
  BY AdvanceFrees DEF Complete, Runs, IInv
<1>2. PICK t \in Tasks :
              /\ t = worker[w].held /\ t <= last
              /\ task[t] \in Task /\ job[t] \in Job /\ RowOK(t)
              /\ task[t].attempts = 1 /\ task[t].name # "none"
              /\ job[t].kind # "none" =>
                    /\ job[t].status \in {"RUNNING", "CANCELLED"}
                    /\ job[t].kind = "recompute" => job[t].status = "RUNNING"
  BY <1>1, RunningRow
<1> DEFINE c == last + 1
           job2 == IF job[t].kind = "none" THEN job
                   ELSE [job EXCEPT ![t] = Completed(@)]
           task2 == [task EXCEPT ![t].status = "COMPLETED"]
<1>3. /\ \/ job' = job2 /\ task' = task2 /\ last' = last
         \/ /\ Asks(t) /\ c <= MaxTasks /\ last' = c
            /\ job' = [job2 EXCEPT ![c] = FollowUpJob(t)]
            /\ task' = [task2 EXCEPT ![c] = FollowUp(t)]
      /\ discovery' = IF task[t].name = "discovery"
                      THEN [discovery EXCEPT ![task[t].scope].status = "COMPLETED"]
                      ELSE discovery
      /\ UNCHANGED crashes
  BY <1>2 DEF Complete
<1>4. /\ last \in Nat /\ c # t /\ c > last
      /\ job \in [Tasks -> Job] /\ task \in [Tasks -> Task]
  BY <1>2 DEF IInv, TypeOK
<1>5. /\ task2[t] = [task[t] EXCEPT !.status = "COMPLETED"]
      /\ job[t].kind # "none" =>
            job2[t] = Completed(job[t])
      /\ job[t].kind = "none" => job2[t] = job[t]
      /\ \A u \in Tasks : u # t => task2[u] = task[u] /\ job2[u] = job[u]
  BY <1>4
<1>6. /\ task2[t] \in Task /\ task2[t].status = "COMPLETED"
      /\ task2[t].name = task[t].name /\ task2[t].attempts = task[t].attempts
      /\ task2[t].origin = task[t].origin
  BY <1>2, <1>5, ClosedTask
<1>7. job[t].kind # "none" =>
         /\ job2[t] \in Job /\ job2[t].status = "COMPLETED"
         /\ job2[t].kind = job[t].kind
         /\ job2[t].finished /\ job2[t].result /\ ~ job2[t].error
  BY <1>2, <1>5, CompletedJob
<1>8. job2 \in [Tasks -> Job] /\ task2 \in [Tasks -> Task]
  BY <1>4, <1>6, <1>7
<1> HIDE DEF job2, task2, c
<1>9. /\ task'[t] = task2[t] /\ job'[t] = job2[t]
      /\ task' \in [Tasks -> Task] /\ job' \in [Tasks -> Job]
      /\ last' = last \/ (last' = last + 1 /\ last + 1 \in Tasks)
      /\ \A u \in Tasks : u # t /\ (u <= last \/ u > last')
            => job'[u] = job[u] /\ task'[u] = task[u]
  <2>1. CASE job' = job2 /\ task' = task2 /\ last' = last
    BY <1>5, <1>8, <2>1
  <2>2. CASE /\ Asks(t) /\ c <= MaxTasks /\ last' = c
             /\ job' = [job2 EXCEPT ![c] = FollowUpJob(t)]
             /\ task' = [task2 EXCEPT ![c] = FollowUp(t)]
    <3>1. FollowUp(t) \in Task /\ FollowUpJob(t) \in Job
      BY <1>2, <2>2, FollowUpRow
    <3>2. c \in Tasks /\ c = last + 1
      BY <1>4, <2>2, QueueAssumption DEF c
    <3>3. \A u \in Tasks : u # c => job'[u] = job2[u] /\ task'[u] = task2[u]
      BY <1>8, <2>2
    <3>4. \A u \in Tasks : u <= last \/ u > last' => u # c
      BY <1>4, <2>2, <3>2
    <3>. QED
      BY <1>2, <1>4, <1>5, <1>8, <2>2, <3>1, <3>2, <3>3, <3>4
  <2>. QED
    BY <1>3, <2>1, <2>2
<1>10. RowOK(t)'
  <2>1. CASE job[t].kind = "none"
    BY <1>2, <1>5, <1>6, <1>9, <2>1 DEF RowOK
  <2>2. CASE job[t].kind # "none"
    BY <1>2, <1>6, <1>7, <1>9, <2>2 DEF RowOK
  <2>. QED
    BY <2>1, <2>2
<1>11. ASSUME NEW u \in Tasks, u > last, u <= last'
       PROVE  RowOK(u)' /\ task'[u].origin <= last'
  <2>1. /\ last' = c /\ u = c /\ Asks(t)
        /\ job' = [job2 EXCEPT ![c] = FollowUpJob(t)]
        /\ task' = [task2 EXCEPT ![c] = FollowUp(t)]
    BY <1>3, <1>4, <1>11 DEF c
  <2>2. job'[u] = FollowUpJob(t) /\ task'[u] = FollowUp(t)
    BY <1>8, <2>1
  <2>3. task'[u].origin = t /\ task'[u].status = "QUEUED" /\ task'[u].attempts = 0
        /\ \/ task'[u].name = "scan_job" /\ job'[u] = NewJob("scan_job")
           \/ task'[u].name = "performance_run" /\ job'[u] = NoJob
    BY <1>2, <2>1, <2>2, FollowUpRow
  <2>4. RowOK(u)'
    BY <2>3 DEF RowOK, NewJob, NoJob
  <2>. QED
    BY <1>2, <1>4, <2>1, <2>3, <2>4 DEF c
<1>12. discovery' \in [Scopes -> [job : Tasks \cup {0},
                                  status : JobStatus \cup {"NONE"}]]
       /\ \A d \in Scopes : discovery'[d].job = discovery[d].job
  <2>1. discovery \in [Scopes -> [job : Tasks \cup {0},
                                  status : JobStatus \cup {"NONE"}]]
    BY DEF IInv, TypeOK
  <2>2. CASE task[t].name = "discovery"
    <3>1. discovery' = [discovery EXCEPT ![task[t].scope].status = "COMPLETED"]
      BY <1>3, <2>2
    <3>. QED
      BY <2>1, <3>1
  <2>3. CASE task[t].name # "discovery"
    BY <1>3, <2>1, <2>3
  <2>. QED
    BY <2>2, <2>3
<1>13. TypeOK'
  BY <1>1, <1>3, <1>9, <1>12 DEF IInv, TypeOK, Freed, WorkerType
<1>14. task'[t].origin = task[t].origin
  BY <1>6, <1>9
<1>. QED
  BY <1>1, <1>2, <1>9, <1>10, <1>11, <1>12, <1>13, <1>14, EndStep

-----------------------------------------------------------------------------
(* The invariant and what follows from it.                                 *)

\* The empty queue satisfies the invariant.
LEMMA InitInv == Init => IInv
<1> SUFFICES ASSUME Init PROVE IInv
  OBVIOUS
<1>1. \A w \in Workers : 1 <= Len(Route[w])
  <2>1. SUFFICES ASSUME NEW w \in Workers PROVE 1 <= Len(Route[w])
    OBVIOUS
  <2>2. Route[w] \in Seq(TaskName) \ {<<>>}
    BY QueueAssumption
  <2>. QED
    BY <2>2
<1>2. NoJob \in Job /\ NoTask \in Task
  BY DEF NoJob, Job, NoTask, Task
<1>3. TypeOK
  BY <1>1, <1>2, QueueAssumption DEF Init, TypeOK
<1>4. HeldInv
  BY DEF Init, HeldInv, Holds, Runs
<1>5. FreshInv
  BY DEF Init, FreshInv, NoTask
<1>6. RowInv /\ TaskMirrorsJob /\ EnvelopeConsistent /\ CancelledRecomputeNeverRan
  BY DEF Init, RowInv, TaskMirrorsJob, EnvelopeConsistent,
         CancelledRecomputeNeverRan, NoJob, NoTask
<1>. QED
  BY <1>3, <1>4, <1>5, <1>6 DEF IInv

\* No step of a user or of a worker breaks it.
LEMMA NextInv == IInv /\ [Next]_vars => IInv'
<1> SUFFICES ASSUME IInv, [Next]_vars PROVE IInv'
  OBVIOUS
<1>1. CASE Request
  <2>1. \A seen \in 0 .. last, late \in SUBSET Tasks :
           DeleteSnapshotResults(seen, late) => IInv'
    BY DeleteSnapshotResultsStep
  <2>. QED
    BY <1>1, <2>1, CreateScanJobStep, CreateRecomputeJobStep,
       CreateDiscoveryStep, EnqueueDetachedStep, CancelStep DEF Request
<1>2. ASSUME NEW w \in Workers, WorkerStep(w) \/ Crash(w) PROVE IInv'
  BY <1>2, PollStep, ClaimStep, ClaimCancelledStep, ClaimRaisesStep,
     CompleteCancelledStep, CompleteStep, FailStep, FinishDeletedStep,
     RestartStep, CrashStep DEF WorkerStep
<1>3. CASE UNCHANGED vars
  BY <1>3 DEF vars, IInv, TypeOK, HeldInv, Holds, Runs, FreshInv, RowInv,
     TaskMirrorsJob, EnvelopeConsistent, CancelledRecomputeNeverRan
<1>. QED
  BY <1>1, <1>2, <1>3 DEF Next

\* The inductive invariant holds in every reachable state: what claim, cancel,
\* complete, fail, deletion and crash have in common.
THEOREM Invariance == Spec => []IInv
BY InitInv, NextInv, PTL DEF Spec

\* Every variable keeps its type: rows are rows, a worker's turn is one of
\* its loop, and no bound is passed.
THEOREM TypeCorrect == Spec => []TypeOK
BY Invariance, PTL DEF IInv

\* Whatever the interleaving of claim, cancel, complete, fail, deletion and
\* crash, the two tables agree after every transaction.
THEOREM TasksMirrorJobs == Spec => []TaskMirrorsJob
BY Invariance, PTL DEF IInv

\* Any number of workers polling the same names executes a task at most once.
THEOREM ExecutedAtMostOnce == Spec => []AtMostOnce
<1>1. IInv => AtMostOnce
  BY DEF IInv, RowInv, AtMostOnce
<1>. QED
  BY <1>1, Invariance, PTL

\* A polled envelope never carries the fields of another status.
THEOREM EnvelopesAreConsistent == Spec => []EnvelopeConsistent
BY Invariance, PTL DEF IInv

\* A recompute reported as CANCELLED has not touched a score.
THEOREM CancelledRecomputesNeverRan == Spec => []CancelledRecomputeNeverRan
BY Invariance, PTL DEF IInv

-----------------------------------------------------------------------------
(* What one step does to the rows that exist, and to the one it adds.      *)

\* A row older than the step keeps its origin or goes, a job that is over or
\* gone stays so, and a cancelled one is not claimed.
OldRow(t) ==
    /\ task'[t].origin \in {0, task[t].origin}
    /\ job[t].status \in {"COMPLETED", "NONE"}
          => job'[t].status \in {"COMPLETED", "NONE"}
    /\ job[t].status = "CANCELLED" => task'[t].attempts <= task[t].attempts

\* An id that was free stays free, or gets the row of a request, or that of a
\* follow-up whose origin completes in this very step.
NewRow(t) ==
    LET o == task'[t].origin
    IN o # 0 => /\ t = last + 1
                /\ o <= last
                /\ job[o].status = "RUNNING"
                /\ job'[o].status = "COMPLETED"

Rows == /\ \A t \in Tasks : t <= last => OldRow(t)
        /\ \A t \in Tasks : t > last => NewRow(t)

\* A step that leaves jobs, origins and attempts alone.
LEMMA SameRowsStep ==
    ASSUME IInv, UNCHANGED job,
           \A t \in Tasks : /\ task'[t].origin = task[t].origin
                            /\ task'[t].attempts = task[t].attempts
    PROVE  Rows
<1>1. \A t \in Tasks : t > last => task[t].origin = 0
  BY DEF IInv, FreshInv, NoTask
<1>2. \A t \in Tasks : task[t].attempts \in Nat
  BY DEF IInv, TypeOK, Task
<1>. QED
  BY <1>1, <1>2 DEF Rows, OldRow, NewRow

\* A row whose job stays as it is, or was neither over nor gone.
LEMMA KeptRow ==
    ASSUME IInv, NEW t \in Tasks,
           task'[t].origin = task[t].origin,
           task'[t].attempts = task[t].attempts
             \/ job[t].status # "CANCELLED",
           job'[t] = job[t] \/ job[t].status \notin {"COMPLETED", "NONE"}
    PROVE  OldRow(t) /\ (t > last => NewRow(t))
<1>1. task[t].attempts \in Nat /\ (t > last => task[t].origin = 0)
  BY DEF IInv, TypeOK, Task, FreshInv, NoTask
<1>. QED
  BY <1>1 DEF OldRow, NewRow

\* An insertion touches no older row.
LEMMA EnqueueRows ==
    ASSUME IInv, NEW j, NEW k, last + 1 \in Tasks,
           Enqueue(last + 1, j, k), k.origin = 0
    PROVE  Rows
<1>1. \A t \in Tasks : t # last + 1 => job'[t] = job[t] /\ task'[t] = task[t]
  BY DEF Enqueue, IInv, TypeOK
<1>2. task'[last + 1] = k
  BY DEF Enqueue, IInv, TypeOK
<1>3. \A t \in Tasks : t > last => task[t].origin = 0
  BY DEF IInv, FreshInv, NoTask
<1>4. \A t \in Tasks : task[t].attempts \in Nat
  BY DEF IInv, TypeOK, Task
<1>5. last \in Nat
  BY DEF IInv, TypeOK
<1>. QED
  BY <1>1, <1>2, <1>3, <1>4, <1>5 DEF Rows, OldRow, NewRow

\* No request revives a job, and none inserts a follow-up.
LEMMA RequestRows == ASSUME IInv, Request PROVE Rows
<1>1. CASE CreateScanJob \/ CreateRecomputeJob
  <2>1. last + 1 \in Tasks
    BY <1>1, RoomBound DEF CreateScanJob, CreateRecomputeJob, IInv
  <2>2. Asked("scan_job").origin = 0 /\ Asked("recompute").origin = 0
    BY DEF Asked, NewTask
  <2>. QED
    BY <1>1, <2>1, <2>2, EnqueueRows DEF CreateScanJob, CreateRecomputeJob
<1>2. ASSUME NEW d \in Scopes, NEW wants \in SUBSET Option, CreateDiscovery(d, wants)
      PROVE  Rows
  <2>1. IsFiniteSet(wants)
    BY OptionFinite, FS_Subset
  <2>2. 1 + Cardinality(wants) \in Nat /\ 1 + Cardinality(wants) > 0
    <3>1. Cardinality(wants) \in Nat
      BY <2>1, FS_CardinalityType
    <3>. QED
      BY <3>1
  <2>3. last + 1 \in Tasks
    BY <1>2, <2>2, RoomBound DEF CreateDiscovery, IInv
  <2>4. NewTask("discovery", d, 0, wants).origin = 0
    BY DEF NewTask
  <2>. QED
    BY <1>2, <2>3, <2>4, EnqueueRows DEF CreateDiscovery
<1>3. ASSUME NEW name \in TaskName \ JobKind, EnqueueDetached(name) PROVE Rows
  <2>1. last + 1 \in Tasks
    BY <1>3, RoomBound DEF EnqueueDetached, IInv
  <2>2. Asked(name).origin = 0
    BY DEF Asked, NewTask
  <2>. QED
    BY <1>3, <2>1, <2>2, EnqueueRows DEF EnqueueDetached
<1>4. ASSUME NEW t \in Tasks, Cancel(t) PROVE Rows
  <2>1. job[t].status \notin {"COMPLETED", "NONE"}
    BY <1>4 DEF Cancel, Refused
  <2>2. \A u \in Tasks : u # t => job'[u] = job[u]
    BY <1>4 DEF Cancel, IInv, TypeOK
  <2>3. \A u \in Tasks : /\ task'[u].origin = task[u].origin
                         /\ task'[u].attempts = task[u].attempts
    BY <1>4 DEF Cancel, IInv, TypeOK, Task
  <2>4. \A u \in Tasks : u > last => task[u].origin = 0
    BY DEF IInv, FreshInv, NoTask
  <2>5. \A u \in Tasks : task[u].attempts \in Nat
    BY DEF IInv, TypeOK, Task
  <2>. QED
    BY <2>1, <2>2, <2>3, <2>4, <2>5 DEF Rows, OldRow, NewRow
<1>5. ASSUME NEW seen \in 0 .. last, NEW late, DeleteSnapshotResults(seen, late)
      PROVE  Rows
  <2> DEFINE listed == {t \in 1 .. seen : job[t].kind \in {"scan_job", "recompute"}}
  <2>1. \A t \in Tasks : t \in listed => job'[t] = NoJob /\ task'[t] = NoTask
    BY <1>5 DEF DeleteSnapshotResults
  <2>2. \A t \in Tasks : t \notin listed =>
           /\ job'[t] = job[t]
           /\ task'[t].origin = task[t].origin
           /\ task'[t].attempts = task[t].attempts
    <3>1. SUFFICES ASSUME NEW t \in Tasks, t \notin listed
                   PROVE  /\ job'[t] = job[t]
                          /\ task'[t].origin = task[t].origin
                          /\ task'[t].attempts = task[t].attempts
      OBVIOUS
    <3>2. task[t] \in Task /\ job'[t] = job[t]
      BY <1>5, <3>1 DEF IInv, TypeOK, DeleteSnapshotResults
    <3>3. task'[t] = [task[t] EXCEPT !.run = @ /\ t \notin (1 .. seen) \cup late]
      BY <1>5, <3>1 DEF DeleteSnapshotResults
    <3>. QED
      BY <3>2, <3>3 DEF Task
  <2>3. \A t \in Tasks : t > last => task[t].origin = 0
    BY DEF IInv, FreshInv, NoTask
  <2>4. \A t \in Tasks : task[t].attempts \in Nat
    BY DEF IInv, TypeOK, Task
  <2> HIDE DEF listed
  <2>. QED
    BY <2>1, <2>2, <2>3, <2>4 DEF Rows, OldRow, NewRow, NoJob, NoTask
<1>. QED
  BY <1>1, <1>2, <1>3, <1>4, <1>5 DEF Request

\* Only the completion of a running job inserts a follow-up, and a claim
\* counts only a job that is not cancelled.
LEMMA WorkerRows ==
    ASSUME IInv, NEW w \in Workers, WorkerStep(w) \/ Crash(w) PROVE Rows
<1>0. /\ \A t \in Tasks : t > last => task[t].origin = 0
      /\ \A t \in Tasks : task[t].attempts \in Nat
      /\ job \in [Tasks -> Job] /\ task \in [Tasks -> Task] /\ last \in Nat
  BY DEF IInv, FreshInv, TypeOK, NoTask, Task
<1>1. CASE Claim(w)
  <2>1. PICK t \in Tasks : t = worker[w].held
    BY <1>1 DEF Claim, IInv, HeldInv, Holds
  <2>2. task[t].status = "QUEUED"
    BY <1>1, <2>1 DEF Claim, Startable
  <2>3. job[t].status = "PENDING" \/ job[t].kind = "none"
    BY <1>0, <2>2 DEF IInv, TaskMirrorsJob, Job
  <2>4. \A u \in Tasks : u # t => job'[u] = job[u] /\ task'[u] = task[u]
    BY <1>0, <1>1, <2>1 DEF Claim
  <2>5. task'[t].origin = task[t].origin
    <3>1. task[t] \in Task /\ t \in DOMAIN task
      BY <1>0
    <3>2. "origin" \in DOMAIN task[t]
      BY <3>1 DEF Task
    <3>. QED
      BY <1>1, <2>1, <3>1, <3>2 DEF Claim
  <2>6. job[t].kind = "none" => job'[t] = job[t] /\ job[t].status = "NONE"
    BY <1>1, <2>1 DEF Claim, IInv, RowInv
  <2>. QED
    <3>1. job[t].status # "CANCELLED"
      BY <2>3, <2>6
    <3>2. job'[t] = job[t] \/ job[t].status \notin {"COMPLETED", "NONE"}
      BY <2>3, <2>6
    <3>3. \A u \in Tasks : OldRow(u) /\ (u > last => NewRow(u))
      BY <2>4, <2>5, <3>1, <3>2, KeptRow
    <3>. QED
      BY <3>3 DEF Rows
<1>2. CASE Complete(w)
  <2>1. PICK t \in Tasks :
          /\ t = worker[w].held /\ t <= last
          /\ task[t] \in Task /\ job[t] \in Job /\ RowOK(t)
          /\ job[t].kind # "none" =>
                /\ job[t].status \in {"RUNNING", "CANCELLED"}
                /\ job[t].kind = "recompute" => job[t].status = "RUNNING"
    BY <1>2, RunningRow DEF Complete, Runs
  <2>2. job[t].kind # "none" => job[t].status = "RUNNING"
    BY <1>2, <2>1 DEF Complete, Superseded, RowOK, Job
  <2> DEFINE job2 == IF job[t].kind = "none" THEN job
                     ELSE [job EXCEPT ![t] = Completed(@)]
             task2 == [task EXCEPT ![t].status = "COMPLETED"]
  <2>3. \/ job' = job2 /\ task' = task2
        \/ /\ Asks(t) /\ last + 1 <= MaxTasks
           /\ job' = [job2 EXCEPT ![last + 1] = FollowUpJob(t)]
           /\ task' = [task2 EXCEPT ![last + 1] = FollowUp(t)]
    BY <1>2, <2>1 DEF Complete
  <2>4. /\ \A u \in Tasks : u # t => job2[u] = job[u] /\ task2[u] = task[u]
        /\ task2[t] = [task[t] EXCEPT !.status = "COMPLETED"]
        /\ job[t].kind = "none" => job2[t] = job[t] /\ job[t].status = "NONE"
        /\ job[t].kind # "none" => job2[t] = Completed(job[t])
        /\ DOMAIN job2 = Tasks /\ DOMAIN task2 = Tasks
    BY <1>0, <2>1 DEF RowOK
  <2>5. task2[t].origin = task[t].origin /\ task2[t].attempts = task[t].attempts
    BY <2>1, <2>4, ClosedTask
  <2>6. job[t].kind # "none" => job2[t].status = "COMPLETED"
    BY <2>1, <2>4, CompletedJob
  <2> HIDE DEF job2, task2
  <2>7. CASE job' = job2 /\ task' = task2
    <3>1. \A u \in Tasks : OldRow(u) /\ (u > last => NewRow(u))
      BY <2>2, <2>4, <2>5, <2>7, KeptRow
    <3>. QED
      BY <3>1 DEF Rows
  <2>8. CASE /\ Asks(t) /\ last + 1 <= MaxTasks
             /\ job' = [job2 EXCEPT ![last + 1] = FollowUpJob(t)]
             /\ task' = [task2 EXCEPT ![last + 1] = FollowUp(t)]
    <3>1. last + 1 \in Tasks /\ last + 1 # t
      BY <1>0, <2>1, <2>8, QueueAssumption
    <3>2. \A u \in Tasks : u # last + 1 => job'[u] = job2[u] /\ task'[u] = task2[u]
      BY <2>4, <2>8
    <3>3. task'[last + 1].origin = t
      BY <2>1, <2>4, <2>8, <3>1, FollowUpRow
    <3>4. job[t].kind # "none"
      BY <2>1, <2>8 DEF Asks, RowOK
    <3>5. job[t].status = "RUNNING" /\ job'[t].status = "COMPLETED"
      BY <2>2, <2>6, <3>1, <3>2, <3>4
    <3>6. ASSUME NEW u \in Tasks, u <= last PROVE OldRow(u)
      <4>1. u # last + 1
        BY <1>0, <3>6
      <4>2. task'[u].origin = task[u].origin /\ task'[u].attempts = task[u].attempts
        BY <2>4, <2>5, <3>2, <4>1
      <4>3. job'[u] = job[u] \/ job[u].status \notin {"COMPLETED", "NONE"}
        BY <2>4, <3>2, <3>5, <4>1
      <4>. QED
        BY <4>2, <4>3, KeptRow
    <3>7. ASSUME NEW u \in Tasks, u > last PROVE NewRow(u)
      <4>1. u # t
        BY <1>0, <2>1, <3>7
      <4>. QED
        BY <1>0, <2>1, <2>4, <3>2, <3>3, <3>5, <3>7, <4>1 DEF NewRow
    <3>. QED
      BY <3>6, <3>7 DEF Rows
  <2>. QED
    BY <2>3, <2>7, <2>8
<1>3. CASE Fail(w)
  <2>1. PICK t \in Tasks :
          /\ t = worker[w].held /\ job[t] \in Job /\ task[t] \in Task /\ RowOK(t)
          /\ job[t].kind # "none" => job[t].status \in {"RUNNING", "CANCELLED"}
    BY <1>3, RunningRow DEF Fail, Runs
  <2>2. \A u \in Tasks : /\ task'[u].origin = task[u].origin
                         /\ task'[u].attempts = task[u].attempts
    BY <1>0, <1>3, <2>1 DEF Fail, Task
  <2>3. \A u \in Tasks : u # t => job'[u] = job[u]
    BY <1>0, <1>3, <2>1 DEF Fail
  <2>4. job[t].kind = "none" => job' = job
    BY <1>3, <2>1 DEF Fail
  <2>. QED
    <3>1. \A u \in Tasks : OldRow(u) /\ (u > last => NewRow(u))
      BY <2>1, <2>2, <2>3, <2>4, KeptRow
    <3>. QED
      BY <3>1 DEF Rows
<1>4. CASE CompleteCancelled(w)
  <2>1. UNCHANGED job
    BY <1>4 DEF CompleteCancelled
  <2>2. \A u \in Tasks : /\ task'[u].origin = task[u].origin
                         /\ task'[u].attempts = task[u].attempts
    BY <1>0, <1>4 DEF CompleteCancelled, Task
  <2>. QED
    BY <2>1, <2>2, SameRowsStep
<1>5. CASE \/ Poll(w) \/ ClaimCancelled(w) \/ ClaimRaises(w)
           \/ FinishDeleted(w) \/ Restart(w) \/ Crash(w)
  BY <1>5, SameRowsStep DEF Poll, ClaimCancelled, ClaimRaises,
              FinishDeleted, Restart, Crash
<1>. QED
  BY <1>1, <1>2, <1>3, <1>4, <1>5 DEF WorkerStep

\* Every step of the system.
LEMMA StepRows == IInv /\ [Next]_vars => Rows
<1> SUFFICES ASSUME IInv, [Next]_vars PROVE Rows
  OBVIOUS
<1>1. CASE Request
  BY <1>1, RequestRows
<1>2. ASSUME NEW w \in Workers, WorkerStep(w) \/ Crash(w) PROVE Rows
  BY <1>2, WorkerRows
<1>3. CASE UNCHANGED vars
  BY <1>3, SameRowsStep DEF vars
<1>. QED
  BY <1>1, <1>2, <1>3 DEF Next

\* Once a job is CANCELLED no process starts it, not even one that had read
\* its task as QUEUED before.
THEOREM CancelledJobsNeverStart == Spec => CancelledNeverStarts
<1>1. IInv /\ [Next]_vars =>
         [\A t \in Tasks : job[t].status = "CANCELLED"
              => task'[t].attempts <= task[t].attempts]_vars
  <2>1. IInv => \A t \in Tasks : job[t].status = "CANCELLED" => t <= last
    BY DEF IInv, FreshInv, TypeOK, NoJob
  <2>. QED
    BY <2>1, StepRows DEF Rows, OldRow
<1>. QED
  BY <1>1, Invariance, PTL DEF Spec, CancelledNeverStarts

\* A follow-up stays the only one of its origin: when it is inserted its
\* origin is RUNNING, which a job that already has one never is again.
LEMMA FollowUpStep == IInv /\ FollowUpOnce /\ [Next]_vars => FollowUpOnce'
<1> SUFFICES ASSUME IInv, FollowUpOnce, Rows,
                    NEW c \in Tasks, task'[c].origin # 0
             PROVE  /\ job'[task'[c].origin].status \in {"COMPLETED", "NONE"}
                    /\ \A b \in Tasks : task'[b].origin = task'[c].origin => b = c
  BY StepRows DEF FollowUpOnce
<1> DEFINE o == task'[c].origin
<1>1. /\ last \in Nat
      /\ \A b \in Tasks : task[b].origin \in Tasks \cup {0} /\ task[b].origin <= last
  BY DEF IInv, TypeOK, FreshInv, Task
<1>2. \A b \in Tasks : task'[b].origin = o /\ b <= last
         => /\ task[b].origin = o /\ o \in Tasks /\ o <= last
            /\ job[o].status \in {"COMPLETED", "NONE"}
  BY <1>1 DEF Rows, OldRow, FollowUpOnce
<1>3. \A b \in Tasks : task'[b].origin = o /\ b > last
         => b = last + 1 /\ job[o].status = "RUNNING" /\ job'[o].status = "COMPLETED"
  BY DEF Rows, NewRow
<1>4. \A b \in Tasks : task'[b].origin = o /\ b <= last
         => job'[o].status \in {"COMPLETED", "NONE"}
  BY <1>2 DEF Rows, OldRow
<1>5. \A b \in Tasks : b <= last \/ b > last
  BY <1>1
<1>6. job'[o].status \in {"COMPLETED", "NONE"}
  BY <1>3, <1>4, <1>5
<1>7. ASSUME NEW b \in Tasks, task'[b].origin = o PROVE b = c
  <2>1. CASE b <= last /\ c <= last
    BY <1>2, <1>7, <2>1 DEF FollowUpOnce
  <2>2. CASE b > last /\ c > last
    BY <1>3, <1>7, <2>2
  <2>3. CASE (b <= last /\ c > last) \/ (b > last /\ c <= last)
    BY <1>2, <1>3, <1>7, <2>3
  <2>. QED
    BY <1>5, <2>1, <2>2, <2>3
<1>. QED
  BY <1>6, <1>7

\* A pipeline goes on only from a completed job, and once.
THEOREM FollowUpsOnlyOnce == Spec => []FollowUpOnce
<1>1. Init => FollowUpOnce
  BY DEF Init, FollowUpOnce, NoTask
<1>. QED
  BY <1>1, Invariance, FollowUpStep, PTL DEF Spec

-----------------------------------------------------------------------------
(* JobQueue implements JobEnvelope (with late failures), and what follows  *)
(* from that: each step of the queue, seen through the AsyncJob rows, is a *)
(* step of the abstract job service or none.                               *)

(* The two vocabularies agree.                                             *)

\* An id without an AsyncJob is an absent envelope, a new AsyncJob a pending
\* one.
LEMMA SameRows ==
    /\ NoJob = Envelope!Absent
    /\ \A k \in JobKind : NewJob(k) = Envelope!Pending(k)
    /\ Envelope!Kind = JobKind
BY DEF NoJob, NewJob, Envelope!Absent, Envelope!Pending, Envelope!Kind

\* Inserting a row for a fresh id submits a job, or nothing if the task has
\* no job.
LEMMA EnqueueSubmits ==
    ASSUME IInv, last + 1 \in Tasks, NEW j, NEW k, Enqueue(last + 1, j, k),
           j = NoJob \/ \E kind \in JobKind : j = NewJob(kind)
    PROVE  [Envelope!Next]_job
<1>1. /\ job' = [job EXCEPT ![last + 1] = j]
      /\ job[last + 1] = NoJob
      /\ job \in [Tasks -> Job]
  BY DEF Enqueue, IInv, FreshInv, TypeOK
<1>2. CASE j = NoJob
  BY <1>1, <1>2
<1>3. CASE \E kind \in JobKind : j = NewJob(kind)
  <2>1. PICK kind \in JobKind : j = NewJob(kind)
    BY <1>3
  <2>2. Envelope!Submit(last + 1, kind)
    BY <1>1, <2>1, SameRows DEF Envelope!Submit
  <2>. QED
    BY <2>2, SameRows DEF Envelope!Next
<1>. QED
  BY <1>2, <1>3

\* Every request is a submission, a cancellation, a purge or invisible.
LEMMA RequestImplements == ASSUME IInv, Request PROVE [Envelope!Next]_job
<1>1. CASE CreateScanJob
  BY <1>1, RoomBound, EnqueueSubmits DEF CreateScanJob, IInv
<1>2. CASE CreateRecomputeJob
  BY <1>2, RoomBound, EnqueueSubmits DEF CreateRecomputeJob, IInv
<1>3. ASSUME NEW d \in Scopes, NEW wants \in SUBSET Option, CreateDiscovery(d, wants)
      PROVE  [Envelope!Next]_job
  <2>1. IsFiniteSet(wants)
    BY OptionFinite, FS_Subset
  <2>2. 1 + Cardinality(wants) \in Nat /\ 1 + Cardinality(wants) > 0
    <3>1. Cardinality(wants) \in Nat
      BY <2>1, FS_CardinalityType
    <3>. QED
      BY <3>1
  <2>3. last + 1 \in Tasks
    BY <1>3, <2>2, RoomBound DEF CreateDiscovery, IInv
  <2>. QED
    BY <1>3, <2>3, EnqueueSubmits DEF CreateDiscovery
<1>4. ASSUME NEW name \in TaskName \ JobKind, EnqueueDetached(name)
      PROVE  [Envelope!Next]_job
  BY <1>4, RoomBound, EnqueueSubmits DEF EnqueueDetached, IInv
<1>5. ASSUME NEW t \in Tasks, Cancel(t) PROVE [Envelope!Next]_job
  <2>1. /\ job' = [job EXCEPT ![t] = [@ EXCEPT !.status = "CANCELLED",
                              !.cancelRequested = TRUE, !.finished = TRUE]]
        /\ job \in [Tasks -> Job] /\ job[t] \in Job
    BY <1>5 DEF Cancel, IInv, TypeOK
  <2>2. CASE job[t].status = "CANCELLED"
    <3>1. job[t].cancelRequested /\ job[t].finished
      BY <2>2 DEF IInv, RowInv, EnvelopeConsistent
    <3>2. job[t].cancelRequested = TRUE /\ job[t].finished = TRUE
      BY <2>1, <3>1 DEF Job
    <3>3. [job[t] EXCEPT !.status = "CANCELLED", !.cancelRequested = TRUE,
                         !.finished = TRUE] = job[t]
      BY <2>1, <2>2, <3>2 DEF Job
    <3>. QED
      BY <2>1, <3>3
  <2>3. CASE job[t].status # "CANCELLED"
    <3>1. \/ job[t].status = "PENDING"
          \/ job[t].status = "RUNNING" /\ job[t].kind # "recompute"
      BY <1>5, <2>1, <2>3 DEF Cancel, Refused, Job
    <3>2. Envelope!Cancel(t)
      BY <2>1, <3>1 DEF Envelope!Cancel, Envelope!Is
    <3>. QED
      BY <3>2 DEF Envelope!Next
  <2>. QED
    BY <2>2, <2>3
<1>6. ASSUME NEW seen \in 0 .. last, NEW late, DeleteSnapshotResults(seen, late)
      PROVE  [Envelope!Next]_job
  <2> DEFINE listed == {t \in 1 .. seen : job[t].kind \in {"scan_job", "recompute"}}
  <2>1. job' = [t \in Tasks |-> IF t \in listed THEN NoJob ELSE job[t]]
    BY <1>6 DEF DeleteSnapshotResults
  <2>2. listed \in SUBSET Tasks
    <3>1. last \in Nat /\ last <= MaxTasks /\ seen \in Nat /\ seen <= last
      BY QueueAssumption DEF IInv, TypeOK
    <3>. QED
      BY <3>1, QueueAssumption
  <2>3. Envelope!Purge(listed)
    BY <2>1, SameRows DEF Envelope!Purge
  <2>. QED
    BY <2>2, <2>3 DEF Envelope!Next
<1>. QED
  BY <1>1, <1>2, <1>3, <1>4, <1>5, <1>6 DEF Request

\* A claim starts the job of its task; a completion completes it, alone or
\* with the scan it hands over to; a failure fails it, even a cancelled one;
\* everything else a worker does is invisible.
LEMMA WorkerImplements ==
    ASSUME IInv, NEW w \in Workers, WorkerStep(w) \/ Crash(w)
    PROVE  [Envelope!Next]_job
<1>1. CASE Claim(w)
  <2>1. PICK t \in Tasks : t = worker[w].held
    BY <1>1 DEF Claim, IInv, HeldInv, Holds
  <2>2. task[t].status = "QUEUED" /\ job[t] \in Job
    BY <1>1, <2>1 DEF Claim, Startable, IInv, TypeOK
  <2>3. job[t].kind # "none" => job[t].status = "PENDING"
    BY <2>2 DEF IInv, TaskMirrorsJob, Job
  <2>4. job' = job \/ (job[t].kind # "none"
                          /\ job' = [job EXCEPT ![t].status = "RUNNING"])
    BY <1>1, <2>1 DEF Claim
  <2>. QED
    BY <2>3, <2>4 DEF Envelope!Next, Envelope!Start, Envelope!Is
<1>2. CASE Complete(w)
  <2>1. PICK t \in Tasks :
          /\ t = worker[w].held /\ t <= last
          /\ task[t] \in Task /\ job[t] \in Job /\ RowOK(t)
          /\ job[t].kind # "none" =>
                /\ job[t].status \in {"RUNNING", "CANCELLED"}
                /\ job[t].kind = "recompute" => job[t].status = "RUNNING"
    BY <1>2, RunningRow DEF Complete, Runs
  <2>2. job[t].kind # "none" => job[t].status = "RUNNING"
    BY <1>2, <2>1 DEF Complete, Superseded, RowOK, Job
  <2> DEFINE job2 == IF job[t].kind = "none" THEN job
                     ELSE [job EXCEPT ![t] = Completed(@)]
  <2>3. \/ job' = job2
        \/ /\ Asks(t) /\ last + 1 <= MaxTasks
           /\ job' = [job2 EXCEPT ![last + 1] = FollowUpJob(t)]
    BY <1>2, <2>1 DEF Complete
  <2>4. /\ job \in [Tasks -> Job] /\ last \in Nat /\ last + 1 # t
        /\ job2 \in [Tasks -> Job \cup {Completed(job[t])}]
    BY <2>1 DEF IInv, TypeOK
  <2>5. job[t].kind # "none" => Completed(job[t]) = Envelope!Completed(t)
    BY DEF Completed, Envelope!Completed
  <2>6. CASE job' = job2
    <3>1. job[t].kind = "none" \/ Envelope!Complete(t)
      BY <2>2, <2>5, <2>6, <2>4 DEF Envelope!Complete, Envelope!Is
    <3>. QED
      BY <2>6, <3>1 DEF Envelope!Next
  <2>7. CASE /\ Asks(t) /\ last + 1 <= MaxTasks
             /\ job' = [job2 EXCEPT ![last + 1] = FollowUpJob(t)]
    <3>1. last + 1 \in Tasks /\ job[last + 1] = NoJob
      BY <2>4, <2>7, QueueAssumption DEF IInv, FreshInv
    <3>2. CASE task[t].name = "discovery"
      <4>1. job[t].kind = "discovery" /\ job[t].status = "RUNNING"
        BY <2>1, <2>2, <3>2 DEF RowOK
      <4>2. FollowUpJob(t) = Envelope!Pending("scan_job")
        BY <3>2, SameRows DEF FollowUpJob
      <4>3. job' = [job EXCEPT ![t] = Envelope!Completed(t),
                               ![last + 1] = Envelope!Pending("scan_job")]
        BY <2>4, <2>5, <2>7, <4>1, <4>2
      <4>4. Envelope!CompleteAndSubmit(t, last + 1)
        BY <3>1, <4>1, <4>3, SameRows DEF Envelope!CompleteAndSubmit, Envelope!Is
      <4>. QED
        BY <3>1, <4>4 DEF Envelope!Next
    <3>3. CASE task[t].name # "discovery"
      <4>1. job[t].kind # "none"
        BY <2>1, <2>7, <3>3 DEF Asks, RowOK
      <4>2. job2[last + 1] = NoJob /\ FollowUpJob(t) = NoJob
        BY <2>4, <3>1, <3>3 DEF FollowUpJob
      <4>3. job' = job2
        BY <2>4, <2>7, <3>1, <4>2
      <4>. QED
        BY <2>6, <4>3
    <3>. QED
      BY <3>2, <3>3
  <2>. QED
    BY <2>3, <2>6, <2>7
<1>3. CASE Fail(w)
  <2>1. PICK t \in Tasks :
          /\ t = worker[w].held /\ job[t] \in Job
          /\ job[t].kind # "none" => job[t].status \in {"RUNNING", "CANCELLED"}
    BY <1>3, RunningRow DEF Fail, Runs
  <2>2. job' = job \/ (job[t].kind # "none" /\ job' = [job EXCEPT ![t] = Failed(@)])
    BY <1>3, <2>1 DEF Fail
  <2>3. CASE job[t].kind # "none" /\ job' = [job EXCEPT ![t] = Failed(@)]
    <3>1. Envelope!Fail(t)
      BY <2>1, <2>3 DEF Envelope!Fail, Envelope!Is, Failed
    <3>. QED
      BY <3>1 DEF Envelope!Next
  <2>. QED
    BY <2>2, <2>3
<1>4. CASE \/ Poll(w) \/ ClaimCancelled(w) \/ ClaimRaises(w) \/ CompleteCancelled(w)
           \/ FinishDeleted(w) \/ Restart(w) \/ Crash(w)
  BY <1>4 DEF Poll, ClaimCancelled, ClaimRaises, CompleteCancelled,
              FinishDeleted, Restart, Crash
<1>. QED
  BY <1>1, <1>2, <1>3, <1>4 DEF WorkerStep

\* The refinement, step by step.
LEMMA StepImplements == IInv /\ [Next]_vars => [Envelope!Next]_job
<1> SUFFICES ASSUME IInv, [Next]_vars PROVE [Envelope!Next]_job
  OBVIOUS
<1>1. CASE Request
  BY <1>1, RequestImplements
<1>2. ASSUME NEW w \in Workers, WorkerStep(w) \/ Crash(w)
      PROVE  [Envelope!Next]_job
  BY <1>2, WorkerImplements
<1>3. CASE UNCHANGED vars
  BY <1>3 DEF vars
<1>. QED
  BY <1>1, <1>2, <1>3 DEF Next

\* The queue implements the abstract job service: whatever workers, routes,
\* crashes and deletions do, a client sees only the documented transitions
\* and CANCELLED -> FAILED.
THEOREM QueueImplementsEnvelope == Spec => ImplementsEnvelope
<1>1. Init => Envelope!Init
  BY SameRows DEF Init, Envelope!Init
<1>. QED
  BY <1>1, Invariance, StepImplements, PTL DEF Spec, ImplementsEnvelope, Envelope!Spec

\* COMPLETED and FAILED are final: no transition of the abstract service
\* leaves them but a purge.
THEOREM FinishedStaysFinal == Spec => FinishedIsFinal
<1>1. ASSUME [Envelope!Next]_job, TypeOK, NEW t \in Tasks,
             job[t].status \in {"COMPLETED", "FAILED"}
      PROVE  job'[t] \in {job[t], NoJob}
  <2>0. job \in [Tasks -> Job] /\ job[t] # Envelope!Absent
    BY <1>1 DEF TypeOK, Envelope!Absent
  <2>1. CASE \E j \in Tasks, k \in Envelope!Kind : Envelope!Submit(j, k)
    BY <2>0, <2>1 DEF Envelope!Submit
  <2>2. CASE \E j \in Tasks : Envelope!Start(j)
    BY <1>1, <2>0, <2>2 DEF Envelope!Start, Envelope!Is
  <2>3. CASE \E j \in Tasks : Envelope!Complete(j)
    BY <1>1, <2>0, <2>3 DEF Envelope!Complete, Envelope!Is
  <2>4. CASE \E j \in Tasks : Envelope!Fail(j)
    BY <1>1, <2>0, <2>4 DEF Envelope!Fail, Envelope!Is
  <2>5. CASE \E j \in Tasks : Envelope!Cancel(j)
    BY <1>1, <2>0, <2>5 DEF Envelope!Cancel, Envelope!Is
  <2>6. CASE \E j, c \in Tasks : Envelope!CompleteAndSubmit(j, c)
    BY <1>1, <2>0, <2>6 DEF Envelope!CompleteAndSubmit, Envelope!Is
  <2>7. CASE \E S \in SUBSET Tasks : Envelope!Purge(S)
    BY <2>7, SameRows DEF Envelope!Purge
  <2>8. CASE UNCHANGED job
    BY <2>8
  <2>. QED
    BY <1>1, <2>1, <2>2, <2>3, <2>4, <2>5, <2>6, <2>7, <2>8 DEF Envelope!Next
<1>2. IInv /\ [Next]_vars => [\A t \in Tasks : job[t].status \in {"COMPLETED", "FAILED"}
                                => job'[t] \in {job[t], NoJob}]_vars
  BY <1>1, StepImplements DEF IInv
<1>. QED
  BY <1>2, Invariance, PTL DEF Spec, FinishedIsFinal

-----------------------------------------------------------------------------
(* Abandoned tasks.                                                        *)

Abandoned ==
    {t \in Tasks : task[t].status = "RUNNING"
        /\ \A w \in Workers : ~ (worker[w].pc = "running" /\ worker[w].held = t)}

\* A step of process w abandons nothing if what it held is closed, and what
\* becomes RUNNING is what it holds.
LEMMA KeepsHold ==
    ASSUME NEW w \in Workers,
           \A v \in Workers : v # w => worker'[v] = worker[v],
           \A t \in Tasks : task'[t].status = "RUNNING"
              => \/ task[t].status = "RUNNING"
                 \/ worker'[w].pc = "running" /\ worker'[w].held = t,
           worker[w].pc = "running" => task'[worker[w].held].status # "RUNNING"
    PROVE  Abandoned' \subseteq Abandoned
BY DEF Abandoned

\* A request abandons nothing: it moves no process and starts no task.
LEMMA RequestKeepsHold == ASSUME IInv, Request PROVE Abandoned' \subseteq Abandoned
<1>0. task \in [Tasks -> Task]
  BY DEF IInv, TypeOK
<1>1. ASSUME NEW j, NEW k, Enqueue(last + 1, j, k), k.status = "QUEUED"
      PROVE  \A t \in Tasks : task'[t].status = "RUNNING" => task[t].status = "RUNNING"
  BY <1>0, <1>1 DEF Enqueue
<1>2. ASSUME NEW n, NEW s, NEW o, NEW x PROVE NewTask(n, s, o, x).status = "QUEUED"
  BY DEF NewTask
<1>3. ASSUME NEW t \in Tasks, Cancel(t)
      PROVE  \A u \in Tasks : task'[u].status = "RUNNING" => task[u].status = "RUNNING"
  BY <1>0, <1>3 DEF Cancel, Cancellable, Task
<1>4. ASSUME NEW seen \in 0 .. last, NEW late, DeleteSnapshotResults(seen, late)
      PROVE  \A u \in Tasks : task'[u].status = "RUNNING" => task[u].status = "RUNNING"
  BY <1>0, <1>4 DEF DeleteSnapshotResults, Task, NoTask
<1>5. /\ UNCHANGED worker
      /\ \A t \in Tasks : task'[t].status = "RUNNING" => task[t].status = "RUNNING"
  <2>1. CASE CreateScanJob
    BY <2>1, <1>1, <1>2 DEF CreateScanJob, Asked
  <2>2. CASE CreateRecomputeJob
    BY <2>2, <1>1, <1>2 DEF CreateRecomputeJob, Asked
  <2>3. ASSUME NEW d \in Scopes, NEW wants \in SUBSET Option, CreateDiscovery(d, wants)
        PROVE  /\ UNCHANGED worker
               /\ \A t \in Tasks : task'[t].status = "RUNNING"
                                      => task[t].status = "RUNNING"
    BY <2>3, <1>1, <1>2 DEF CreateDiscovery
  <2>4. ASSUME NEW name \in TaskName \ JobKind, EnqueueDetached(name)
        PROVE  /\ UNCHANGED worker
               /\ \A t \in Tasks : task'[t].status = "RUNNING"
                                      => task[t].status = "RUNNING"
    BY <2>4, <1>1, <1>2 DEF EnqueueDetached, Asked
  <2>5. CASE \E t \in Tasks : Cancel(t)
    BY <2>5, <1>3 DEF Cancel
  <2>6. CASE \E seen \in 0 .. last :
                \E late \in SUBSET {t \in Tasks : t > seen /\ task[t].run} :
                   DeleteSnapshotResults(seen, late)
    BY <2>6, <1>4 DEF DeleteSnapshotResults
  <2>. QED
    BY <2>1, <2>2, <2>3, <2>4, <2>5, <2>6 DEF Request
<1>. QED
  BY <1>5 DEF Abandoned

\* A task that some process ends is RUNNING no more, and no other is touched
\* but the follow-up, which is QUEUED.
LEMMA EndingKeepsHold ==
    ASSUME IInv, NEW w \in Workers, CompleteCancelled(w) \/ Complete(w) \/ Fail(w)
    PROVE  Abandoned' \subseteq Abandoned
<1>0. /\ task \in [Tasks -> Task] /\ last \in Nat
      /\ worker[w].pc = "running" /\ worker[w].held \in Tasks
  <2>1. worker[w].pc = "running"
    BY DEF CompleteCancelled, Complete, Fail
  <2>2. worker[w].held \in Tasks
    BY <2>1 DEF IInv, HeldInv, Holds
  <2>. QED
    BY <2>1, <2>2 DEF IInv, TypeOK
<1> DEFINE t == worker[w].held
<1>1. \A v \in Workers : v # w => worker'[v] = worker[v]
  BY AdvanceFrees, DieFrees DEF IInv, Freed, CompleteCancelled, Complete, Fail
<1>2. CASE CompleteCancelled(w)
  <2>1. task' = [task EXCEPT ![t].status = "CANCELLED"]
    BY <1>2 DEF CompleteCancelled
  <2>. QED
    BY <1>0, <1>1, <2>1, KeepsHold DEF Task
<1>3. CASE Fail(w)
  <2>1. task' = [task EXCEPT ![t].status = "FAILED"]
    BY <1>3 DEF Fail
  <2>. QED
    BY <1>0, <1>1, <2>1, KeepsHold DEF Task
<1>4. CASE Complete(w)
  <2> DEFINE task2 == [task EXCEPT ![t].status = "COMPLETED"]
  <2>1. task' = task2 \/ task' = [task2 EXCEPT ![last + 1] = FollowUp(t)]
    BY <1>4 DEF Complete
  <2>2. FollowUp(t).status = "QUEUED"
    BY DEF FollowUp, NewTask
  <2>3. /\ \A u \in Tasks : task2[u].status = "RUNNING" => task[u].status = "RUNNING"
        /\ task2[t].status # "RUNNING" /\ DOMAIN task2 = Tasks
    BY <1>0 DEF Task
  <2> HIDE DEF task2
  <2>4. /\ \A u \in Tasks : task'[u].status = "RUNNING" => task[u].status = "RUNNING"
        /\ task'[t].status # "RUNNING"
    BY <1>0, <2>1, <2>2, <2>3
  <2>. QED
    BY <1>0, <1>1, <2>4, KeepsHold
<1>. QED
  BY <1>2, <1>3, <1>4

\* No step of the loop abandons a task: whatever ends the process, the task
\* is closed in the same step or was never taken.
LEMMA WorkerKeepsHold ==
    ASSUME IInv, NEW w \in Workers, WorkerStep(w) PROVE Abandoned' \subseteq Abandoned
<1>1. CASE Poll(w)
  <2>1. UNCHANGED task /\ worker[w].pc = "poll"
    BY <1>1 DEF Poll
  <2>2. \A v \in Workers : v # w => worker'[v] = worker[v]
    BY <1>1 DEF Poll, Advance, Goto, IInv, TypeOK
  <2>. QED
    BY <2>1, <2>2, KeepsHold
<1>2. CASE Claim(w)
  <2>1. PICK t \in Tasks : t = worker[w].held
    BY <1>2 DEF Claim, IInv, HeldInv, Holds
  <2>2. /\ worker[w].pc = "selected" /\ \A u \in Tasks : u # t => task'[u] = task[u]
        /\ \A v \in Workers : v # w => worker'[v] = worker[v]
    BY <1>2, <2>1 DEF Claim, Advance, Goto, IInv, TypeOK
  <2>3. CASE job[t].status = "CANCELLED"
    <3>1. task'[t].status = "CANCELLED"
      BY <1>2, <2>1, <2>3 DEF Claim, IInv, TypeOK, Task
    <3>. QED
      BY <2>2, <3>1, KeepsHold
  <2>4. CASE job[t].status # "CANCELLED"
    <3>1. worker'[w].pc = "running" /\ worker'[w].held = t
      BY <1>2, <2>1, <2>4 DEF Claim, Goto, IInv, TypeOK
    <3>. QED
      BY <2>2, <3>1, KeepsHold
  <2>. QED
    BY <2>3, <2>4
<1>3. CASE ClaimCancelled(w) \/ ClaimRaises(w) \/ Restart(w)
  <2>1. /\ UNCHANGED task /\ worker[w].pc # "running"
        /\ \A v \in Workers : v # w => worker'[v] = worker[v]
    BY <1>3, AdvanceFrees, DieFrees, RestartFrees
       DEF ClaimCancelled, ClaimRaises, Restart, IInv, Freed
  <2>. QED
    BY <2>1, KeepsHold
<1>4. CASE FinishDeleted(w)
  <2>1. /\ UNCHANGED task /\ task[worker[w].held].status # "RUNNING"
        /\ \A v \in Workers : v # w => worker'[v] = worker[v]
    BY <1>4, DieFrees DEF FinishDeleted, IInv, Freed
  <2>. QED
    BY <2>1, KeepsHold
<1>. QED
  BY <1>1, <1>2, <1>3, <1>4, EndingKeepsHold DEF WorkerStep

\* A kill abandons at most the task of the process killed.
LEMMA CrashAbandonsOne ==
    ASSUME IInv, NEW w \in Workers, Crash(w)
    PROVE  \E t : Abandoned' \subseteq Abandoned \cup {t}
<1>1. UNCHANGED task /\ \A v \in Workers : v # w => worker'[v] = worker[v]
  BY DieFrees DEF Crash, IInv, Freed
<1>2. Abandoned' \subseteq Abandoned \cup {worker[w].held}
  BY <1>1 DEF Abandoned
<1>. QED
  BY <1>2

\* The number of tasks left RUNNING without a process never passes the number
\* of kills: every other end of a process closes its task or had none.
THEOREM OnlyKillsAbandon == Spec => []AbandonedOnlyByCrash
<1>1. AbandonedOnlyByCrash <=> Cardinality(Abandoned) <= crashes
  BY DEF AbandonedOnlyByCrash, Abandoned
<1>2. ASSUME TypeOK
      PROVE  IsFiniteSet(Abandoned) /\ Cardinality(Abandoned) \in Nat /\ crashes \in Nat
  <2>1. IsFiniteSet(Tasks)
    BY QueueAssumption, FS_Interval
  <2>2. Abandoned \subseteq Tasks
    BY DEF Abandoned
  <2>3. IsFiniteSet(Abandoned)
    BY <2>1, <2>2, FS_Subset
  <2>4. crashes \in Nat
    BY <1>2, QueueAssumption DEF TypeOK
  <2>. QED
    BY <2>3, <2>4, FS_CardinalityType
<1>3. Init => AbandonedOnlyByCrash
  <2>1. Init => Abandoned = {}
    BY DEF Init, Abandoned, NoTask
  <2>2. Init => Cardinality(Abandoned) = 0
    BY <2>1, FS_EmptySet
  <2>3. Init => crashes = 0
    BY DEF Init
  <2>. QED
    BY <1>1, <2>2, <2>3
<1>4. IInv /\ AbandonedOnlyByCrash /\ [Next]_vars => AbandonedOnlyByCrash'
  <2> SUFFICES ASSUME IInv, AbandonedOnlyByCrash, [Next]_vars
               PROVE  Cardinality(Abandoned') <= crashes'
    BY DEF AbandonedOnlyByCrash, Abandoned
  <2>1. /\ IsFiniteSet(Abandoned) /\ Cardinality(Abandoned) \in Nat
        /\ crashes \in Nat /\ Cardinality(Abandoned) <= crashes
    BY <1>1, <1>2 DEF IInv
  <2>2. CASE Abandoned' \subseteq Abandoned /\ UNCHANGED crashes
    <3>1. Cardinality(Abandoned') \in Nat /\ Cardinality(Abandoned') <= Cardinality(Abandoned)
      BY <2>1, <2>2, FS_Subset, FS_CardinalityType
    <3>. QED
      BY <2>1, <2>2, <3>1
  <2>3. ASSUME NEW w \in Workers, Crash(w) PROVE Cardinality(Abandoned') <= crashes'
    <3>1. PICK t : Abandoned' \subseteq Abandoned \cup {t}
      BY <2>3, CrashAbandonsOne
    <3>2. /\ IsFiniteSet(Abandoned \cup {t})
          /\ Cardinality(Abandoned \cup {t}) \in Nat
          /\ Cardinality(Abandoned \cup {t}) <= Cardinality(Abandoned) + 1
      <4>1. IsFiniteSet(Abandoned \cup {t})
        BY <2>1, FS_AddElement
      <4>2. Cardinality(Abandoned \cup {t})
               \in {Cardinality(Abandoned), Cardinality(Abandoned) + 1}
        BY <2>1, FS_AddElement
      <4>. QED
        BY <2>1, <4>1, <4>2
    <3>3. Cardinality(Abandoned') \in Nat
          /\ Cardinality(Abandoned') <= Cardinality(Abandoned \cup {t})
      BY <3>1, <3>2, FS_Subset, FS_CardinalityType
    <3>4. crashes' = crashes + 1
      BY <2>3 DEF Crash
    <3>. QED
      BY <2>1, <3>2, <3>3, <3>4
  <2>4. CASE UNCHANGED vars
    BY <2>2, <2>4 DEF vars, Abandoned
  <2>5. CASE Request
    <3>1. UNCHANGED crashes
      BY <2>5 DEF Request, CreateScanJob, CreateRecomputeJob, CreateDiscovery,
                  EnqueueDetached, Cancel, DeleteSnapshotResults
    <3>. QED
      BY <2>2, <2>5, <3>1, RequestKeepsHold
  <2>6. ASSUME NEW w \in Workers, WorkerStep(w) PROVE Cardinality(Abandoned') <= crashes'
    <3>1. UNCHANGED crashes
      BY <2>6 DEF WorkerStep, Poll, Claim, ClaimCancelled, ClaimRaises,
                  CompleteCancelled, Complete, Fail, FinishDeleted, Restart
    <3>. QED
      BY <2>2, <2>6, <3>1, WorkerKeepsHold
  <2>. QED
    BY <2>3, <2>4, <2>5, <2>6 DEF Next
<1>. QED
  BY <1>3, <1>4, Invariance, PTL DEF Spec

-----------------------------------------------------------------------------
(* Discovery rows.                                                         *)

\* A task has a scope exactly if it is a discovery, and the row of a scope
\* names a task of that scope.
ScopeInv ==
    /\ \A t \in Tasks : task[t].name = "discovery" <=> task[t].scope \in Scopes
    /\ \A d \in Scopes : discovery[d].job # 0 => task[discovery[d].job].scope = d

\* Rows of tasks that belong to a scope stay, and no row joins a scope.
SameScopes ==
    \A u \in Tasks :
        /\ task'[u].name = "discovery" <=> task'[u].scope \in Scopes
        /\ task'[u].scope \in Scopes <=> task[u].scope \in Scopes
        /\ task[u].scope \in Scopes => task'[u].scope = task[u].scope

SInv == IInv /\ ScopeInv /\ ScopeExclusive

\* A step that leaves discovery rows and their tasks' jobs alone.
LEMMA OtherRowsStep ==
    ASSUME SInv, SameScopes, UNCHANGED discovery,
           \A u \in Tasks : task[u].scope \in Scopes => job'[u] = job[u]
    PROVE  (ScopeInv /\ ScopeExclusive)'
<1>1. \A d \in Scopes : discovery[d].job \in Tasks \cup {0}
  BY DEF SInv, IInv, TypeOK
<1>2. ScopeInv'
  BY <1>1 DEF SInv, ScopeInv, SameScopes
<1>3. ASSUME NEW d \in Scopes,
             \A t \in Tasks : task'[t].scope = d => ~ LateFailure(t)'
      PROVE  /\ discovery'[d].job # 0 =>
                   discovery'[d].status = job'[discovery'[d].job].status
             /\ \A t \in Tasks : task'[t].scope = d /\ Live(t)' => discovery'[d].job = t
  <2>1. \A t \in Tasks : task[t].scope = d <=> task'[t].scope = d
    BY DEF SameScopes
  <2>2. \A t \in Tasks : task[t].scope = d => job'[t] = job[t]
    OBVIOUS
  <2>3. \A t \in Tasks : task[t].scope = d => ~ LateFailure(t)
    BY <1>3, <2>1, <2>2 DEF LateFailure
  <2>4. /\ discovery[d].job # 0 =>
              discovery[d].status = job[discovery[d].job].status
        /\ \A t \in Tasks : task[t].scope = d /\ Live(t) => discovery[d].job = t
    BY <2>3 DEF SInv, ScopeExclusive
  <2>5. discovery[d].job # 0 => task[discovery[d].job].scope = d
    BY DEF SInv, ScopeInv
  <2>. QED
    BY <1>1, <2>1, <2>2, <2>4, <2>5 DEF Live
<1>. QED
  BY <1>2, <1>3 DEF ScopeExclusive

\* A step that changes one discovery task t and the row of its scope d.
LEMMA OneScopeStep ==
    ASSUME SInv, SameScopes, NEW t \in Tasks, NEW d \in Scopes, task[t].scope = d,
           \A u \in Tasks : u # t /\ task[u].scope \in Scopes => job'[u] = job[u],
           \A e \in Scopes : discovery'[e].job = discovery[e].job,
           \A e \in Scopes : e # d => discovery'[e] = discovery[e],
           LateFailure(t) => LateFailure(t)',
           \/ LateFailure(t)'
           \/ /\ Live(t) \/ (discovery[d].job = t /\ ~ Live(t)')
              /\ discovery'[d].status = job'[t].status
           \/ /\ discovery[d].job # t /\ ~ Live(t)'
              /\ discovery'[d] = discovery[d]
    PROVE  (ScopeInv /\ ScopeExclusive)'
<1>1. \A e \in Scopes : discovery[e].job \in Tasks \cup {0}
  BY DEF SInv, IInv, TypeOK
<1>2. ScopeInv'
  BY <1>1 DEF SInv, ScopeInv, SameScopes
<1>3. ASSUME NEW e \in Scopes,
             \A u \in Tasks : task'[u].scope = e => ~ LateFailure(u)'
      PROVE  /\ discovery'[e].job # 0 =>
                   discovery'[e].status = job'[discovery'[e].job].status
             /\ \A u \in Tasks : task'[u].scope = e /\ Live(u)' => discovery'[e].job = u
  <2>1. \A u \in Tasks : task[u].scope = e <=> task'[u].scope = e
    BY DEF SameScopes
  <2>2. \A u \in Tasks : u # t /\ task[u].scope = e => job'[u] = job[u]
    OBVIOUS
  <2>3. \A u \in Tasks : task[u].scope = e => ~ LateFailure(u)
    BY <1>3, <2>1, <2>2 DEF LateFailure
  <2>4. /\ discovery[e].job # 0 =>
              discovery[e].status = job[discovery[e].job].status
        /\ \A u \in Tasks : task[u].scope = e /\ Live(u) => discovery[e].job = u
    BY <2>3 DEF SInv, ScopeExclusive
  <2>5. discovery[e].job # 0 => task[discovery[e].job].scope = e
    BY DEF SInv, ScopeInv
  <2>6. CASE e # d
    BY <1>1, <2>1, <2>2, <2>4, <2>5, <2>6 DEF Live
  <2>7. CASE e = d
    <3>1. ~ LateFailure(t)'
      BY <1>3, <2>1, <2>7
    <3>2. CASE discovery[d].job = t
      <4>1. discovery'[d].status = job'[t].status
        BY <3>1, <3>2
      <4>2. \A u \in Tasks : u # t /\ task[u].scope = d => ~ Live(u)'
        BY <2>2, <2>4, <2>7, <3>2 DEF Live
      <4>. QED
        BY <2>1, <2>7, <3>2, <4>1, <4>2
    <3>3. CASE discovery[d].job # t
      <4>1. ~ Live(t)
        BY <2>4, <2>7, <3>3
      <4>2. ~ Live(t)' /\ discovery'[d] = discovery[d]
        BY <3>1, <3>3, <4>1
      <4>. QED
        BY <1>1, <2>1, <2>2, <2>4, <2>5, <2>7, <3>3, <4>2 DEF Live
    <3>. QED
      BY <3>2, <3>3
  <2>. QED
    BY <2>6, <2>7
<1>. QED
  BY <1>2, <1>3 DEF ScopeExclusive

\* An insertion that is no discovery leaves every scope as it was.
LEMMA EnqueueOther ==
    ASSUME SInv, NEW j, NEW k, Enqueue(last + 1, j, k), last + 1 \in Tasks,
           k.scope = NoScope, k.name # "discovery", UNCHANGED discovery
    PROVE  (ScopeInv /\ ScopeExclusive)'
<1>1. /\ \A u \in Tasks : u # last + 1 => job'[u] = job[u] /\ task'[u] = task[u]
      /\ task'[last + 1] = k
  BY DEF Enqueue, SInv, IInv, TypeOK
<1>2. task[last + 1] = NoTask
  BY DEF SInv, IInv, FreshInv, TypeOK
<1>3. NoTask.scope \notin Scopes /\ k.scope \notin Scopes
  BY QueueAssumption DEF NoTask
<1>4. SameScopes
  BY <1>1, <1>2, <1>3 DEF SameScopes, SInv, ScopeInv
<1>. QED
  BY <1>1, <1>2, <1>3, <1>4, OtherRowsStep

\* POST /discoveries takes over a row that is not busy: then no other job of
\* the scope is live.
LEMMA CreateDiscoveryScopes ==
    ASSUME SInv, NEW d \in Scopes, NEW wants \in SUBSET Option,
           CreateDiscovery(d, wants)
    PROVE  (ScopeInv /\ ScopeExclusive)'
<1> DEFINE c == last + 1
           k == NewTask("discovery", d, 0, wants)
<1>1. c \in Tasks /\ last \in Nat
  <2>1. IsFiniteSet(wants)
    BY OptionFinite, FS_Subset
  <2>2. 1 + Cardinality(wants) \in Nat /\ 1 + Cardinality(wants) > 0
    <3>1. Cardinality(wants) \in Nat
      BY <2>1, FS_CardinalityType
    <3>. QED
      BY <3>1
  <2>. QED
    BY <2>2, RoomBound DEF CreateDiscovery, SInv, IInv
<1>2. /\ \A u \in Tasks : u # c => job'[u] = job[u] /\ task'[u] = task[u]
      /\ task'[c] = k /\ job'[c] = NewJob("discovery")
  BY <1>1 DEF CreateDiscovery, Enqueue, SInv, IInv, TypeOK
<1>3. /\ k.scope = d /\ k.name = "discovery" /\ NewJob("discovery").status = "PENDING"
      /\ NoTask.scope \notin Scopes
  BY QueueAssumption DEF NewTask, NewJob, NoTask
<1>4. task[c] = NoTask /\ \A e \in Scopes : discovery[e].job # c
  BY <1>1 DEF SInv, IInv, FreshInv, TypeOK
<1>5. /\ \A e \in Scopes : e # d => discovery'[e] = discovery[e]
      /\ discovery'[d].job = c /\ discovery'[d].status = "PENDING"
      /\ discovery[d].status \notin {"PENDING", "RUNNING"}
  BY DEF CreateDiscovery, Busy, SInv, IInv, TypeOK
<1> HIDE DEF c, k
<1>6. \A e \in Scopes : discovery[e].job \in Tasks \cup {0}
  BY DEF SInv, IInv, TypeOK
<1>7. \A u \in Tasks, e \in Scopes : u # c => (task'[u].scope = e <=> task[u].scope = e)
  BY <1>2
<1>8. ScopeInv'
  <2>1. \A u \in Tasks : task'[u].name = "discovery" <=> task'[u].scope \in Scopes
    BY <1>2, <1>3 DEF SInv, ScopeInv
  <2>2. ASSUME NEW e \in Scopes, discovery'[e].job # 0
        PROVE  task'[discovery'[e].job].scope = e
    <3>1. CASE e = d
      BY <1>2, <1>3, <1>5, <3>1
    <3>2. CASE e # d
      BY <1>2, <1>4, <1>5, <1>6, <2>2, <3>2 DEF SInv, ScopeInv
    <3>. QED
      BY <3>1, <3>2
  <2>. QED
    BY <2>1, <2>2 DEF ScopeInv
<1>9. ASSUME NEW e \in Scopes,
             \A u \in Tasks : task'[u].scope = e => ~ LateFailure(u)'
      PROVE  /\ discovery'[e].job # 0 =>
                   discovery'[e].status = job'[discovery'[e].job].status
             /\ \A u \in Tasks : task'[u].scope = e /\ Live(u)' => discovery'[e].job = u
  <2>1. \A u \in Tasks : task[u].scope = e => u # c
    BY <1>3, <1>4
  <2>2. \A u \in Tasks : task[u].scope = e => ~ LateFailure(u)
    BY <1>2, <1>7, <1>9, <2>1 DEF LateFailure
  <2>3. /\ discovery[e].job # 0 =>
              discovery[e].status = job[discovery[e].job].status
        /\ \A u \in Tasks : task[u].scope = e /\ Live(u) => discovery[e].job = u
    BY <2>2 DEF SInv, ScopeExclusive
  <2>4. CASE e # d
    <3>1. \A u \in Tasks : task'[u].scope = e => u # c
      BY <1>2, <1>3, <2>4
    <3>. QED
      BY <1>2, <1>4, <1>5, <1>6, <1>7, <2>3, <2>4, <3>1 DEF Live
  <2>5. CASE e = d
    <3>1. \A u \in Tasks : task[u].scope = d => ~ Live(u)
      BY <1>5, <2>3, <2>5 DEF Live
    <3>2. \A u \in Tasks : task'[u].scope = d /\ Live(u)' => u = c
      BY <1>2, <1>7, <3>1 DEF Live
    <3>. QED
      BY <1>2, <1>3, <1>5, <2>5, <3>2
  <2>. QED
    BY <2>4, <2>5
<1>. QED
  BY <1>8, <1>9 DEF ScopeExclusive

\* request_cancel settles the row of the scope only if it shows this job; if
\* it shows another one, this job was not live.
LEMMA CancelScopes ==
    ASSUME SInv, NEW t \in Tasks, Cancel(t) PROVE (ScopeInv /\ ScopeExclusive)'
<1>1. /\ job[t].status # "FAILED" /\ job[t].kind # "none"
      /\ task[t].name = job[t].kind
  BY DEF Cancel, Refused, SInv, IInv, RowInv, TaskMirrorsJob
<1>2. /\ \A u \in Tasks : u # t => job'[u] = job[u]
      /\ job'[t].status = "CANCELLED"
  BY DEF Cancel, SInv, IInv, TypeOK, Job
<1>3. \A u \in Tasks : task'[u].name = task[u].name /\ task'[u].scope = task[u].scope
  BY DEF Cancel, SInv, IInv, TypeOK, Task
<1>4. SameScopes
  BY <1>3 DEF SameScopes, SInv, ScopeInv
<1>5. CASE task[t].scope \notin Scopes
  <2>1. job[t].kind # "discovery"
    BY <1>1, <1>5 DEF SInv, ScopeInv
  <2>2. discovery' = [e \in Scopes |-> discovery[e]]
    BY <2>1 DEF Cancel
  <2>3. UNCHANGED discovery
    BY <2>2 DEF SInv, IInv, TypeOK
  <2>. QED
    BY <1>2, <1>4, <1>5, <2>3, OtherRowsStep
<1>6. ASSUME NEW d \in Scopes, task[t].scope = d PROVE (ScopeInv /\ ScopeExclusive)'
  <2>1. job[t].kind = "discovery"
    BY <1>1, <1>6 DEF SInv, ScopeInv
  <2>2. \A e \in Scopes : discovery'[e].job = discovery[e].job
    BY DEF Cancel, SInv, IInv, TypeOK
  <2>3. \A e \in Scopes : e # d => discovery[e].job # t
    BY <1>6 DEF SInv, ScopeInv
  <2>4. \A e \in Scopes : discovery[e].job # t => discovery'[e] = discovery[e]
    BY DEF Cancel
  <2>5. discovery[d].job = t => discovery'[d].status = "CANCELLED"
    BY <2>1 DEF Cancel, SInv, IInv, TypeOK
  <2>6. ~ LateFailure(t) /\ ~ Live(t)'
    BY <1>1, <1>2 DEF LateFailure, Live
  <2>. QED
    BY <1>2, <1>4, <1>6, <2>2, <2>3, <2>4, <2>5, <2>6, OneScopeStep
<1>. QED
  BY <1>5, <1>6

\* DELETE /settings/snapshots takes no discovery job.
LEMMA DeleteScopes ==
    ASSUME SInv, NEW seen \in 0 .. last, NEW late, DeleteSnapshotResults(seen, late)
    PROVE  (ScopeInv /\ ScopeExclusive)'
<1> DEFINE listed == {t \in 1 .. seen : job[t].kind \in {"scan_job", "recompute"}}
<1>1. ASSUME NEW u \in Tasks, u \in listed
      PROVE  task[u].scope \notin Scopes /\ task'[u] = NoTask
  <2>1. task[u].name # "discovery"
    BY <1>1 DEF SInv, IInv, TaskMirrorsJob
  <2>. QED
    BY <1>1, <2>1 DEF SInv, ScopeInv, DeleteSnapshotResults
<1>2. ASSUME NEW u \in Tasks, u \notin listed
      PROVE  /\ job'[u] = job[u] /\ task'[u].name = task[u].name
             /\ task'[u].scope = task[u].scope
  <2>1. task[u] \in Task /\ job'[u] = job[u]
    BY <1>2 DEF SInv, IInv, TypeOK, DeleteSnapshotResults
  <2>2. task'[u] = [task[u] EXCEPT !.run = @ /\ u \notin (1 .. seen) \cup late]
    BY <1>2 DEF DeleteSnapshotResults
  <2>. QED
    BY <2>1, <2>2 DEF Task
<1>3. UNCHANGED discovery
  BY DEF DeleteSnapshotResults
<1>4. NoTask.scope \notin Scopes /\ NoTask.name # "discovery"
  BY QueueAssumption DEF NoTask
<1> HIDE DEF listed
<1>5. SameScopes
  BY <1>1, <1>2, <1>4 DEF SameScopes, SInv, ScopeInv
<1>. QED
  BY <1>1, <1>2, <1>3, <1>5, OtherRowsStep

\* No request lets two live jobs share a scope.
LEMMA RequestScopes == ASSUME SInv, Request PROVE (ScopeInv /\ ScopeExclusive)'
<1>0. \A name : /\ Asked(name).scope = NoScope /\ Asked(name).name = name
  BY DEF Asked, NewTask
<1>1. CASE CreateScanJob
  BY <1>0, <1>1, RoomBound, EnqueueOther DEF CreateScanJob, SInv, IInv
<1>2. CASE CreateRecomputeJob
  BY <1>0, <1>2, RoomBound, EnqueueOther DEF CreateRecomputeJob, SInv, IInv
<1>3. ASSUME NEW name \in TaskName \ JobKind, EnqueueDetached(name)
      PROVE  (ScopeInv /\ ScopeExclusive)'
  <2>1. last + 1 \in Tasks
    BY <1>3, RoomBound DEF EnqueueDetached, SInv, IInv
  <2>2. Enqueue(last + 1, NoJob, Asked(name)) /\ UNCHANGED discovery
    BY <1>3 DEF EnqueueDetached
  <2>3. name # "discovery"
    OBVIOUS
  <2>. QED
    BY <1>0, <2>1, <2>2, <2>3, EnqueueOther
<1>. QED
  BY <1>1, <1>2, <1>3, CreateDiscoveryScopes, CancelScopes, DeleteScopes DEF Request

\* A claim shows the job RUNNING in both places: it was live, hence the one
\* the row of its scope names.
LEMMA ClaimScopes ==
    ASSUME SInv, NEW w \in Workers, Claim(w) PROVE (ScopeInv /\ ScopeExclusive)'
<1>1. PICK t \in Tasks : t = worker[w].held /\ task[t].status = "QUEUED"
  BY DEF Claim, Startable, SInv, IInv, HeldInv, Holds
<1>2. /\ task[t] \in Task /\ job[t] \in Job /\ task \in [Tasks -> Task]
      /\ job \in [Tasks -> Job]
  BY DEF SInv, IInv, TypeOK
<1>3. job[t].kind = "none" \/ job[t].status = "PENDING"
  BY <1>1, <1>2 DEF SInv, IInv, TaskMirrorsJob, Job
<1>4. job[t].status # "CANCELLED"
  BY <1>3 DEF SInv, IInv, RowInv
<1>5. /\ task' = [task EXCEPT ![t].status = "RUNNING", ![t].attempts = @ + 1]
      /\ job' = IF job[t].kind = "none" THEN job
                ELSE [job EXCEPT ![t].status = "RUNNING"]
      /\ discovery' = IF task[t].name # "discovery" THEN discovery
                      ELSE [discovery EXCEPT ![task[t].scope].status = "RUNNING"]
  BY <1>1, <1>4 DEF Claim
<1>6. SameScopes
  <2>1. \A u \in Tasks : /\ task'[u].name = task[u].name
                         /\ task'[u].scope = task[u].scope
    BY <1>2, <1>5 DEF Task
  <2>. QED
    BY <2>1 DEF SameScopes, SInv, ScopeInv
<1>7. \A u \in Tasks : u # t => job'[u] = job[u]
  BY <1>2, <1>5
<1>8. CASE task[t].name # "discovery"
  <2>1. task[t].scope \notin Scopes /\ UNCHANGED discovery
    BY <1>5, <1>8 DEF SInv, ScopeInv
  <2>. QED
    BY <1>6, <1>7, <2>1, OtherRowsStep
<1>9. CASE task[t].name = "discovery"
  <2>1. PICK d \in Scopes : task[t].scope = d
    BY <1>9 DEF SInv, ScopeInv
  <2>2. job[t].kind = "discovery"
    BY <1>9 DEF SInv, IInv, RowInv
  <2>3. job'[t].status = "RUNNING" /\ Live(t) /\ ~ LateFailure(t)
    BY <1>2, <1>3, <1>5, <2>2 DEF Live, LateFailure, Job
  <2>4. /\ \A e \in Scopes : discovery'[e].job = discovery[e].job
        /\ \A e \in Scopes : e # d => discovery'[e] = discovery[e]
        /\ discovery'[d].status = "RUNNING"
    BY <1>5, <1>9, <2>1 DEF SInv, IInv, TypeOK
  <2>. QED
    BY <1>6, <1>7, <2>1, <2>3, <2>4, OneScopeStep
<1>. QED
  BY <1>8, <1>9

\* A failure settles job and row alike, unless the job had been cancelled:
\* then it is a late failure, of which ScopeExclusive says nothing.
LEMMA FailScopes ==
    ASSUME SInv, NEW w \in Workers, Fail(w) PROVE (ScopeInv /\ ScopeExclusive)'
<1>1. PICK t \in Tasks :
              /\ t = worker[w].held /\ task[t] \in Task /\ job[t] \in Job
              /\ job[t].kind # "none" => job[t].status \in {"RUNNING", "CANCELLED"}
  BY RunningRow DEF Fail, Runs, SInv
<1>2. /\ task \in [Tasks -> Task] /\ job \in [Tasks -> Job]
  BY DEF SInv, IInv, TypeOK
<1>3. /\ task' = [task EXCEPT ![t].status = "FAILED"]
      /\ job' = IF job[t].kind = "none" THEN job ELSE [job EXCEPT ![t] = Failed(@)]
      /\ discovery' = IF task[t].name = "discovery"
                      THEN [discovery EXCEPT ![task[t].scope].status = "FAILED"]
                      ELSE discovery
  BY <1>1 DEF Fail
<1>4. SameScopes
  <2>1. \A u \in Tasks : /\ task'[u].name = task[u].name
                         /\ task'[u].scope = task[u].scope
    BY <1>2, <1>3 DEF Task
  <2>. QED
    BY <2>1 DEF SameScopes, SInv, ScopeInv
<1>5. \A u \in Tasks : u # t => job'[u] = job[u]
  BY <1>2, <1>3
<1>6. CASE task[t].name # "discovery"
  <2>1. task[t].scope \notin Scopes /\ UNCHANGED discovery
    BY <1>3, <1>6 DEF SInv, ScopeInv
  <2>. QED
    BY <1>4, <1>5, <2>1, OtherRowsStep
<1>7. CASE task[t].name = "discovery"
  <2>1. PICK d \in Scopes : task[t].scope = d
    BY <1>7 DEF SInv, ScopeInv
  <2>2. job[t].kind = "discovery"
    BY <1>7 DEF SInv, IInv, RowInv
  <2>3. job'[t] = [job[t] EXCEPT !.status = "FAILED", !.finished = TRUE, !.error = TRUE]
    BY <1>2, <1>3, <2>2 DEF Failed
  <2>4. job'[t].status = "FAILED" /\ job'[t].cancelRequested = job[t].cancelRequested
    BY <1>1, <2>3 DEF Job
  <2>5. job[t].status = "CANCELLED" => LateFailure(t)'
    BY <2>4 DEF SInv, IInv, RowInv, LateFailure
  <2>6. job[t].status = "RUNNING" => Live(t)
    BY DEF Live
  <2>7. ~ LateFailure(t)
    BY <1>1, <2>2 DEF LateFailure
  <2>8. /\ \A e \in Scopes : discovery'[e].job = discovery[e].job
        /\ \A e \in Scopes : e # d => discovery'[e] = discovery[e]
        /\ discovery'[d].status = "FAILED"
    BY <1>3, <1>7, <2>1 DEF SInv, IInv, TypeOK
  <2>. QED
    BY <1>1, <1>4, <1>5, <2>1, <2>2, <2>4, <2>5, <2>6, <2>7, <2>8, OneScopeStep
<1>. QED
  BY <1>6, <1>7

\* A completion settles job and row alike, and its follow-up is no discovery.
LEMMA CompleteScopes ==
    ASSUME SInv, NEW w \in Workers, Complete(w) PROVE (ScopeInv /\ ScopeExclusive)'
<1>1. PICK t \in Tasks :
              /\ t = worker[w].held /\ t <= last
              /\ task[t] \in Task /\ job[t] \in Job
              /\ job[t].kind # "none" => job[t].status \in {"RUNNING", "CANCELLED"}
  BY RunningRow DEF Complete, Runs, SInv
<1>2. /\ task \in [Tasks -> Task] /\ job \in [Tasks -> Job] /\ last \in Nat
  BY DEF SInv, IInv, TypeOK
<1> DEFINE c == last + 1
           job2 == IF job[t].kind = "none" THEN job
                   ELSE [job EXCEPT ![t] = Completed(@)]
           task2 == [task EXCEPT ![t].status = "COMPLETED"]
<1>3. /\ \/ job' = job2 /\ task' = task2
         \/ /\ c <= MaxTasks /\ job' = [job2 EXCEPT ![c] = FollowUpJob(t)]
            /\ task' = [task2 EXCEPT ![c] = FollowUp(t)]
      /\ discovery' = IF task[t].name = "discovery"
                      THEN [discovery EXCEPT ![task[t].scope].status = "COMPLETED"]
                      ELSE discovery
      /\ ~ Superseded(t)
  BY <1>1 DEF Complete
<1>4. /\ DOMAIN job2 = Tasks /\ DOMAIN task2 = Tasks
      /\ \A u \in Tasks : u # t => job2[u] = job[u]
      /\ \A u \in Tasks : task2[u].name = task[u].name /\ task2[u].scope = task[u].scope
  BY <1>2 DEF Task
<1>5. /\ FollowUp(t).scope = NoScope /\ FollowUp(t).name # "discovery"
      /\ NoTask.scope = NoScope /\ NoScope \notin Scopes
  BY QueueAssumption DEF FollowUp, NewTask, NoTask
<1>6. /\ task[t].name = "discovery" => task[t].scope \in Scopes
      /\ task[t].name # "discovery" => task[t].scope \notin Scopes
      /\ \A u \in Tasks : u > last => task[u] = NoTask
  BY DEF SInv, ScopeInv, IInv, FreshInv
<1>7. job[t].kind # "none" => job2[t].status = "COMPLETED"
  BY <1>1, <1>2, CompletedJob
<1> HIDE DEF job2, task2
<1>8. \A u \in Tasks : u # c => job'[u] = job2[u] /\ task'[u] = task2[u]
  BY <1>3, <1>4
<1>9. c # t /\ (c \in Tasks => task[c].scope \notin Scopes)
  BY <1>1, <1>2, <1>5, <1>6
<1>10. c \in Tasks => /\ task'[c].scope \notin Scopes
                      /\ task'[c].name # "discovery"
  <2>1. c \in Tasks => task[c].scope = NoScope /\ task[c].name # "discovery"
    BY <1>2, <1>5, <1>6 DEF NoTask
  <2>. QED
    BY <1>3, <1>4, <1>5, <2>1
<1>11. SameScopes
  BY <1>4, <1>8, <1>9, <1>10 DEF SameScopes, SInv, ScopeInv
<1>12. \A u \in Tasks : u # t /\ task[u].scope \in Scopes => job'[u] = job[u]
  BY <1>4, <1>8, <1>9
<1>13. CASE task[t].name # "discovery"
  BY <1>3, <1>6, <1>11, <1>12, <1>13, OtherRowsStep
<1>14. CASE task[t].name = "discovery"
  <2>1. PICK d \in Scopes : task[t].scope = d
    BY <1>6, <1>14
  <2>2. job[t].kind = "discovery"
    BY <1>14 DEF SInv, IInv, RowInv
  <2>3. Live(t) /\ ~ LateFailure(t)
    BY <1>1, <1>3, <1>14, <2>2 DEF Superseded, Live, LateFailure
  <2>4. job'[t].status = "COMPLETED"
    BY <1>7, <1>8, <1>9, <2>2
  <2>5. /\ \A e \in Scopes : discovery'[e].job = discovery[e].job
        /\ \A e \in Scopes : e # d => discovery'[e] = discovery[e]
        /\ discovery'[d].status = "COMPLETED"
    BY <1>3, <1>14, <2>1 DEF SInv, IInv, TypeOK
  <2>. QED
    BY <1>11, <1>12, <2>1, <2>3, <2>4, <2>5, OneScopeStep
<1>. QED
  BY <1>13, <1>14

\* Every step keeps the scopes apart.
LEMMA NextScopes == SInv /\ [Next]_vars => (ScopeInv /\ ScopeExclusive)'
<1> SUFFICES ASSUME SInv, [Next]_vars PROVE (ScopeInv /\ ScopeExclusive)'
  OBVIOUS
<1>1. ASSUME UNCHANGED <<job, task, discovery>> PROVE (ScopeInv /\ ScopeExclusive)'
  <2>1. SameScopes
    BY <1>1 DEF SameScopes, SInv, ScopeInv
  <2>. QED
    BY <1>1, <2>1, OtherRowsStep
<1>2. ASSUME NEW w \in Workers, CompleteCancelled(w) PROVE (ScopeInv /\ ScopeExclusive)'
  <2>1. UNCHANGED <<job, discovery>>
    BY <1>2 DEF CompleteCancelled
  <2>2. \A u \in Tasks : /\ task'[u].name = task[u].name
                         /\ task'[u].scope = task[u].scope
    BY <1>2 DEF CompleteCancelled, SInv, IInv, TypeOK, Task
  <2>3. SameScopes
    BY <2>2 DEF SameScopes, SInv, ScopeInv
  <2>. QED
    BY <2>1, <2>3, OtherRowsStep
<1>3. ASSUME NEW w \in Workers, WorkerStep(w) \/ Crash(w)
      PROVE  (ScopeInv /\ ScopeExclusive)'
  BY <1>1, <1>2, <1>3, ClaimScopes, FailScopes, CompleteScopes
     DEF WorkerStep, Crash, Poll, ClaimCancelled, ClaimRaises, FinishDeleted, Restart
<1>4. CASE UNCHANGED vars
  BY <1>1, <1>4 DEF vars
<1>. QED
  BY <1>3, <1>4, RequestScopes DEF Next

\* As long as no cancelled discovery of a scope fails afterwards, its row shows
\* its newest job and no other job of the scope is live, whoever asks, cancels,
\* claims, completes, fails, deletes or is killed.
THEOREM ScopesAreExclusive == Spec => []ScopeExclusive
<1>1. Init => ScopeInv /\ ScopeExclusive
  BY QueueAssumption DEF Init, ScopeInv, ScopeExclusive, NoTask, NoJob, Live
<1>2. IInv /\ ScopeInv /\ ScopeExclusive /\ [Next]_vars => (ScopeInv /\ ScopeExclusive)'
  BY NextScopes DEF SInv
<1>. QED
  BY <1>1, <1>2, Invariance, PTL DEF Spec
=============================================================================
