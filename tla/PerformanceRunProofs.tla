------------------------ MODULE PerformanceRunProofs ------------------------
(***************************************************************************)
(* Performance runs, for any number of runs, clients and measurable        *)
(* assets: the rows that are stored, and those that are held to be written *)
(* over them, fit themselves; and a run that is left to the worker is      *)
(* whole when its task completes.  ServicesProofs and ScansProofs carry    *)
(* this over to their systems.                                             *)
(***************************************************************************)
EXTENDS PerformanceRun, TLAPS

-----------------------------------------------------------------------------
(* The inductive invariant.                                                *)

CreatorState == [pc : {"idle", "create", "refused", "link", "enqueue", "answered"}, summary : SUBSET Runs]

WorkerState == [pc : {"idle", "read", "mark", "measure", "count", "summary", "done"},
                of : Runs \cup {None}, row : RunRow \cup {None}, next : Nat \ {0}]

ClientState == [pc : {"idle", "patch", "upsert", "start", "count", "summary"}, of : Runs \cup {None},
                row : RunRow \cup {None}, asset : Assets \cup {None}, status : Statuses \cup {None}]

RunTypes ==
    /\ run \in [Runs -> RunRow \cup {None}]
    /\ results \in [Runs -> SUBSET Assets]
    /\ task \in [Runs -> {None, "queued", "running", "completed", "failed"}]
    /\ creator \in [Runs -> CreatorState]
    /\ worker \in WorkerState
    /\ client \in [Clients -> ClientState]
    /\ linked \subseteq Runs

\* Status and times agree, and no asset is counted without a result.
Fits(x) ==
    /\ x.status = "RUNNING" => x.started
    /\ x.status \in Final => x.completed

Sound(r, x) == x \in RunRow /\ Fits(x) /\ x.counted \subseteq results[r]

\* The rows that are stored, and those that will be written over them.
RowsSound ==
    /\ \A r \in Runs : run[r] # None => Sound(r, run[r])
    /\ worker.pc \in {"mark", "measure", "count", "summary"} => Sound(worker.of, worker.row)
    /\ \A c \in Clients : client[c].pc # "idle" => Sound(client[c].of, client[c].row)

\* Who works on a run works on one that is there.
RunsThere ==
    /\ \A r \in Runs : /\ creator[r].pc \in {"link", "enqueue", "answered"} => run[r] # None
                       /\ task[r] # None => creator[r].pc = "answered"
                       /\ (task[r] = "running") = (worker.of = r)
    /\ worker.pc = "idle" => worker.of = None
    /\ worker.pc # "idle" => worker.of \in Runs
    /\ \A c \in Clients :
          /\ client[c].pc # "idle" => client[c].of \in Runs /\ run[client[c].of] # None
          /\ client[c].pc = "upsert" => client[c].asset \in Assets
          /\ client[c].pc = "patch" => client[c].status \in Statuses

RunInv == RunTypes /\ RowsSound /\ RunsThere

-----------------------------------------------------------------------------
(* Rows.                                                                   *)

\* The columns of x saved over y.
Saved(y, x) == [y EXCEPT !.status = x.status, !.started = x.started, !.completed = x.completed,
                         !.runner = x.runner, !.counted = x.counted]
Begun(y) == [y EXCEPT !.status = "RUNNING", !.started = TRUE]
Summed(y, x) == [y EXCEPT !.runner = x.runner, !.counted = x.counted]

LEMMA NewRowFits ==
    ASSUME NEW t \in {"manual", "post_migration"}, NEW b \in {None, Snapshot - 1, Snapshot}
    PROVE  Row(t, b) \in RunRow /\ Fits(Row(t, b)) /\ Row(t, b).counted = {}
BY DEF Row, RunRow, Fits, Statuses, Final

LEMMA UpdatedFits ==
    ASSUME NEW x \in RunRow, NEW s \in Statuses, Fits(x)
    PROVE  Updated(x, s) \in RunRow /\ Fits(Updated(x, s)) /\ Updated(x, s).counted = x.counted
           /\ Updated(x, s).status = s
BY DEF Updated, RunRow, Fits, Statuses, Final

LEMMA RanFits ==
    ASSUME NEW x \in RunRow, NEW s \in {"queued", "running", "completed", "failed"}, Fits(x)
    PROVE  Ran(x, s) \in RunRow /\ Fits(Ran(x, s)) /\ Ran(x, s).counted = x.counted
           /\ Ran(x, s).status = x.status
BY DEF Ran, RunRow, Fits

LEMMA StartedFits ==
    ASSUME NEW x \in RunRow, Fits(x)
    PROVE  Started(x) \in RunRow /\ Fits(Started(x)) /\ Started(x).counted = x.counted
BY DEF Started, RunRow, Fits, Statuses, Final

LEMMA BegunFits ==
    ASSUME NEW y \in RunRow
    PROVE  Begun(y) \in RunRow /\ Fits(Begun(y)) /\ Begun(y).counted = y.counted
BY DEF Begun, RunRow, Fits, Statuses, Final

LEMMA SavedFits ==
    ASSUME NEW y \in RunRow, NEW x \in RunRow, Fits(x)
    PROVE  Saved(y, x) \in RunRow /\ Fits(Saved(y, x)) /\ Saved(y, x).counted = x.counted
           /\ Saved(y, x).status = x.status
BY DEF Saved, RunRow, Fits

LEMMA SummedFits ==
    ASSUME NEW y \in RunRow, NEW x \in RunRow, Fits(y)
    PROVE  Summed(y, x) \in RunRow /\ Fits(Summed(y, x)) /\ Summed(y, x).counted = x.counted
           /\ Summed(y, x).status = y.status
BY DEF Summed, RunRow, Fits

LEMMA CountedFits ==
    ASSUME NEW x \in RunRow, Fits(x), NEW r, results[r] \in SUBSET Assets
    PROVE  Counted(r, x) \in RunRow /\ Fits(Counted(r, x)) /\ Counted(r, x).counted = results[r]
BY DEF Counted, RunRow, Fits

-----------------------------------------------------------------------------
(* The steps.                                                              *)

LEMMA RunsInit == ASSUME RunAssumption, Init PROVE RunInv
<1>1. Resting \in WorkerState /\ Resting.pc = "idle" /\ Resting.of = None
  BY DEF Resting, WorkerState
<1>2. Waiting \in ClientState /\ Waiting.pc = "idle"
  BY DEF Waiting, ClientState
<1>3. RunTypes
  BY <1>1, <1>2 DEF Init, RunTypes, CreatorState
<1>4. RowsSound
  BY <1>1, <1>2 DEF Init, RowsSound
<1>5. RunsThere
  BY <1>1, <1>2 DEF Init, RunsThere, RunAssumption
<1>. QED
  BY <1>3, <1>4, <1>5 DEF RunInv

SoundAfter(r, x) == x \in RunRow /\ Fits(x) /\ x.counted \subseteq results'[r]

\* Results are only added.
ResultsGrow == results' \in [Runs -> SUBSET Assets] /\ \A q \in Runs : results[q] \subseteq results'[q]

\* Rows are written that are sound.
RowsWritten ==
    run' = run \/ \E r \in Runs, y \in RunRow : SoundAfter(r, y) /\ run' = [run EXCEPT ![r] = y]

LEMMA StoredRows ==
    ASSUME RunAssumption, RunTypes, RowsSound, ResultsGrow, RowsWritten
    PROVE  /\ run' \in [Runs -> RunRow \cup {None}]
           /\ \A q \in Runs : run'[q] # None => SoundAfter(q, run'[q])
           /\ \A q \in Runs : run[q] # None => run'[q] # None
<1>1. CASE run' = run
  BY <1>1 DEF RunTypes, RowsSound, Sound, SoundAfter, ResultsGrow
<1>2. ASSUME NEW r \in Runs, NEW y, SoundAfter(r, y), run' = [run EXCEPT ![r] = y]
      PROVE  /\ run' \in [Runs -> RunRow \cup {None}]
             /\ \A q \in Runs : run'[q] # None => SoundAfter(q, run'[q])
             /\ \A q \in Runs : run[q] # None => run'[q] # None
  BY <1>2 DEF RunTypes, RowsSound, Sound, SoundAfter, ResultsGrow, RunAssumption
<1>. QED
  BY <1>1, <1>2 DEF RowsWritten

\* A step of the worker: what it holds afterwards is sound.
LEMMA WorkerMoves ==
    ASSUME RunAssumption, RunInv, ResultsGrow, RowsWritten, UNCHANGED <<creator, client, linked>>,
           worker' \in WorkerState,
           task' \in [Runs -> {None, "queued", "running", "completed", "failed"}],
           worker'.pc \in {"mark", "measure", "count", "summary"} => SoundAfter(worker'.of, worker'.row),
           \A r \in Runs : /\ (task'[r] = "running") = (worker'.of = r)
                           /\ task'[r] # None => task[r] # None,
           worker'.pc = "idle" => worker'.of = None,
           worker'.pc # "idle" => worker'.of \in Runs
    PROVE  RunInv'
<1>1. /\ run' \in [Runs -> RunRow \cup {None}]
      /\ \A q \in Runs : run'[q] # None => SoundAfter(q, run'[q])
      /\ \A q \in Runs : run[q] # None => run'[q] # None
  BY StoredRows DEF RunInv
<1>2. RunTypes'
  BY <1>1 DEF RunInv, RunTypes, ResultsGrow
<1>3. RowsSound'
  BY <1>1 DEF RunInv, RunTypes, RowsSound, RunsThere, Sound, SoundAfter, ResultsGrow
<1>4. RunsThere'
  BY <1>1 DEF RunInv, RunsThere
<1>. QED
  BY <1>2, <1>3, <1>4 DEF RunInv

\* A step of a client.
LEMMA ClientMoves ==
    ASSUME RunAssumption, RunInv, ResultsGrow, RowsWritten, UNCHANGED <<creator, worker, task, linked>>,
           NEW c \in Clients, NEW k \in ClientState, client' = [client EXCEPT ![c] = k],
           k.pc # "idle" => k.of \in Runs /\ run[k.of] # None /\ SoundAfter(k.of, k.row),
           k.pc = "upsert" => k.asset \in Assets,
           k.pc = "patch" => k.status \in Statuses
    PROVE  RunInv'
<1>1. /\ run' \in [Runs -> RunRow \cup {None}]
      /\ \A q \in Runs : run'[q] # None => SoundAfter(q, run'[q])
      /\ \A q \in Runs : run[q] # None => run'[q] # None
  BY StoredRows DEF RunInv
<1>2. /\ client' \in [Clients -> ClientState] /\ client'[c] = k
      /\ \A d \in Clients \ {c} : client'[d] = client[d]
  BY DEF RunInv, RunTypes
<1>3. RunTypes'
  BY <1>1, <1>2 DEF RunInv, RunTypes, ResultsGrow
<1>4. RowsSound'
  BY <1>1, <1>2 DEF RunInv, RunTypes, RowsSound, RunsThere, Sound, SoundAfter, ResultsGrow
<1>5. RunsThere'
  BY <1>1, <1>2 DEF RunInv, RunsThere
<1>. QED
  BY <1>3, <1>4, <1>5 DEF RunInv

\* A step of the request that creates a run.
LEMMA CreatorMoves ==
    ASSUME RunAssumption, RunInv, RowsWritten, UNCHANGED <<results, worker, client>>, linked' \subseteq Runs,
           NEW r \in Runs, NEW k \in CreatorState, creator' = [creator EXCEPT ![r] = k],
           k.pc \in {"link", "enqueue", "answered"} => run'[r] # None,
           task' \in [Runs -> {None, "queued", "running", "completed", "failed"}],
           \A q \in Runs : /\ task'[q] # None => task[q] # None \/ (q = r /\ k.pc = "answered")
                           /\ (task'[q] = "running") = (task[q] = "running"),
           task[r] = None
    PROVE  RunInv'
<1>0. ResultsGrow
  BY DEF ResultsGrow, RunInv, RunTypes
<1>1. /\ run' \in [Runs -> RunRow \cup {None}]
      /\ \A q \in Runs : run'[q] # None => SoundAfter(q, run'[q])
      /\ \A q \in Runs : run[q] # None => run'[q] # None
  BY <1>0, StoredRows DEF RunInv
<1>2. /\ creator' \in [Runs -> CreatorState] /\ creator'[r] = k
      /\ \A q \in Runs \ {r} : creator'[q] = creator[q]
  BY DEF RunInv, RunTypes
<1>3. RunTypes'
  BY <1>1, <1>2 DEF RunInv, RunTypes
<1>4. RowsSound'
  BY <1>1 DEF RunInv, RunTypes, RowsSound, RunsThere, Sound, SoundAfter
<1>5. RunsThere'
  BY <1>1, <1>2 DEF RunInv, RunsThere
<1>. QED
  BY <1>3, <1>4, <1>5 DEF RunInv

-----------------------------------------------------------------------------
(* The request that creates a run.                                         *)

LEMMA ReadSnapshotStep ==
    ASSUME RunAssumption, RunInv, NEW r \in Runs, ReadSnapshot(r) PROVE RunInv'
<1> DEFINE k == [pc |-> "create", summary |-> linked]
<1>1. k \in CreatorState /\ k.pc = "create"
  BY DEF RunInv, RunTypes, CreatorState
<1>2. creator' = [creator EXCEPT ![r] = k] /\ UNCHANGED <<run, results, linked, task, worker, client>>
  BY DEF ReadSnapshot
<1>3. task[r] = None
  BY DEF RunInv, RunsThere, ReadSnapshot
<1> HIDE DEF k
<1>. QED
  BY <1>1, <1>2, <1>3, CreatorMoves DEF RowsWritten, RunInv, RunTypes

\* A pc of the request of r.
LEMMA CreatorAt ==
    ASSUME RunInv, NEW r \in Runs, NEW p \in {"refused", "link", "enqueue", "answered"}
    PROVE  /\ [creator[r] EXCEPT !.pc = p] \in CreatorState
           /\ [creator[r] EXCEPT !.pc = p].pc = p
BY DEF RunInv, RunTypes, CreatorState

LEMMA CreateStep ==
    ASSUME RunAssumption, RunInv, NEW r \in Runs, Create(r) PROVE RunInv'
<1>1. PICK asked \in {None, Snapshot - 1, Snapshot} \ {0}, trigger \in {"manual", "post_migration"} :
         LET baseline == BaselineFor(asked, trigger)
         IN IF baseline = 0
            THEN /\ creator' = [creator EXCEPT ![r].pc = "refused"]
                 /\ UNCHANGED run
            ELSE /\ run' = [run EXCEPT ![r] = Row(trigger, baseline)]
                 /\ creator' = [creator EXCEPT ![r].pc = IF trigger = "post_migration" THEN "link" ELSE "enqueue"]
  BY DEF Create
<1>2. /\ creator[r].pc = "create" /\ UNCHANGED <<results, linked, task, worker, client>>
  BY DEF Create
<1>3. task[r] = None
  BY <1>2 DEF RunInv, RunsThere
<1> DEFINE b == BaselineFor(asked, trigger)
<1>4. b \in {0, None, Snapshot - 1, Snapshot}
  BY DEF BaselineFor
<1> HIDE DEF b
<1>5. CASE b = 0
  <2> DEFINE k == [creator[r] EXCEPT !.pc = "refused"]
  <2>1. creator' = [creator EXCEPT ![r] = k] /\ UNCHANGED run
    BY <1>1, <1>5 DEF b
  <2>2. k \in CreatorState /\ k.pc = "refused"
    BY CreatorAt
  <2> HIDE DEF k
  <2>. QED
    BY <1>2, <1>3, <2>1, <2>2, CreatorMoves DEF RowsWritten, RunInv, RunTypes
<1>6. CASE b # 0
  <2> DEFINE p == IF trigger = "post_migration" THEN "link" ELSE "enqueue"
             k == [creator[r] EXCEPT !.pc = p]
             y == Row(trigger, b)
  <2>1. creator' = [creator EXCEPT ![r] = k] /\ run' = [run EXCEPT ![r] = y]
    BY <1>1, <1>6 DEF b
  <2>2. k \in CreatorState /\ k.pc \in {"link", "enqueue"}
    BY CreatorAt
  <2> HIDE DEF k
  <2>3. y \in RunRow /\ Fits(y) /\ y.counted = {}
    BY <1>4, <1>6, NewRowFits
  <2> HIDE DEF y
  <2>4. y # None /\ run'[r] = y /\ SoundAfter(r, y)
    BY <2>1, <2>3 DEF RunAssumption, RunInv, RunTypes, SoundAfter
  <2>5. RowsWritten
    BY <2>1, <2>3, <2>4 DEF RowsWritten
  <2>. QED
    BY <1>2, <1>3, <2>1, <2>2, <2>4, <2>5, CreatorMoves DEF RunInv, RunTypes
<1>. QED
  BY <1>5, <1>6

LEMMA LinkStep == ASSUME RunAssumption, RunInv, NEW r \in Runs, Link(r) PROVE RunInv'
<1> DEFINE k == [creator[r] EXCEPT !.pc = "enqueue"]
<1>1. k \in CreatorState /\ k.pc = "enqueue"
  BY CreatorAt
<1>2. creator' = [creator EXCEPT ![r] = k] /\ UNCHANGED <<run, results, task, worker, client>>
  BY DEF Link
<1>3. task[r] = None /\ run[r] # None
  BY DEF RunInv, RunsThere, Link
<1>4. linked' \subseteq Runs
  BY DEF RunInv, RunTypes, CreatorState, Link
<1> HIDE DEF k
<1>. QED
  BY <1>1, <1>2, <1>3, <1>4, CreatorMoves DEF RowsWritten, RunInv, RunTypes

LEMMA EnqueueStep ==
    ASSUME RunAssumption, RunInv, NEW r \in Runs, Enqueue(r) PROVE RunInv'
<1> DEFINE k == [creator[r] EXCEPT !.pc = "answered"]
<1>1. k \in CreatorState /\ k.pc = "answered"
  BY CreatorAt
<1>2. creator' = [creator EXCEPT ![r] = k] /\ UNCHANGED <<run, results, linked, worker, client>>
  BY DEF Enqueue
<1>3. task[r] = None /\ run[r] # None
  BY DEF RunInv, RunsThere, Enqueue
<1>4. /\ task' \in [Runs -> {None, "queued", "running", "completed", "failed"}]
      /\ task'[r] \in {None, "queued"} /\ \A q \in Runs \ {r} : task'[q] = task[q]
  BY DEF RunInv, RunTypes, Enqueue
<1>5. None # "running"
  BY DEF RunAssumption
<1> HIDE DEF k
<1>6. /\ RowsWritten /\ linked' \subseteq Runs /\ run'[r] # None
      /\ \A q \in Runs : /\ task'[q] # None => task[q] # None \/ (q = r /\ k.pc = "answered")
                        /\ (task'[q] = "running") = (task[q] = "running")
  BY <1>1, <1>2, <1>3, <1>4, <1>5 DEF RowsWritten, RunInv, RunTypes
<1>. QED
  BY <1>1, <1>2, <1>3, <1>4, <1>6, CreatorMoves

-----------------------------------------------------------------------------
(* The worker.                                                             *)

\* What the worker and the clients know of the run they are at.
LEMMA WorkerNow ==
    ASSUME RunAssumption, RunInv, worker.pc # "idle"
    PROVE  /\ worker \in WorkerState /\ worker.of \in Runs /\ worker.next \in Nat \ {0}
           /\ run[worker.of] \in RunRow /\ Fits(run[worker.of])
           /\ run[worker.of].counted \subseteq results[worker.of] /\ results[worker.of] \in SUBSET Assets
           /\ task[worker.of] = "running" /\ \A r \in Runs : (task[r] = "running") = (worker.of = r)
           /\ worker.pc \in {"mark", "measure", "count", "summary"}
                => worker.row \in RunRow /\ Fits(worker.row) /\ worker.row.counted \subseteq results[worker.of]
<1>1. /\ worker \in WorkerState /\ worker.of \in Runs /\ worker.next \in Nat \ {0}
      /\ task[worker.of] = "running" /\ \A r \in Runs : (task[r] = "running") = (worker.of = r)
  BY DEF RunInv, RunTypes, RunsThere, WorkerState
<1>2. run[worker.of] # None
  BY <1>1 DEF RunInv, RunsThere, RunAssumption
<1>3. Sound(worker.of, run[worker.of]) /\ results[worker.of] \in SUBSET Assets
  BY <1>1, <1>2 DEF RunInv, RunTypes, RowsSound
<1>. QED
  BY <1>1, <1>3 DEF RunInv, RowsSound, Sound

LEMMA ResultsStay == ASSUME RunInv, UNCHANGED results PROVE ResultsGrow
BY DEF RunInv, RunTypes, ResultsGrow

\* The worker holds its run and moves on, with the row x.
LEMMA WorkerGoesOn ==
    ASSUME RunAssumption, RunInv, ResultsGrow, RowsWritten, worker.pc # "idle",
           UNCHANGED <<creator, client, linked, task>>,
           NEW k \in WorkerState, worker' = k, k.of = worker.of, k.pc # "idle",
           k.pc \in {"mark", "measure", "count", "summary"} => SoundAfter(worker.of, k.row)
    PROVE  RunInv'
<1>1. task' \in [Runs -> {None, "queued", "running", "completed", "failed"}]
  BY DEF RunInv, RunTypes
<1>. QED
  BY <1>1, WorkerNow, WorkerMoves

\* It leaves its run, which ended.
LEMMA WorkerLeaves ==
    ASSUME RunAssumption, RunInv, RowsWritten, worker.pc # "idle",
           UNCHANGED <<creator, client, linked, results>>, worker' = Resting,
           NEW s \in {"completed", "failed"}, task' = [task EXCEPT ![worker.of] = s]
    PROVE  RunInv'
<1>1. Resting \in WorkerState /\ Resting.pc = "idle" /\ Resting.of = None
  BY DEF Resting, WorkerState
<1>2. /\ task' \in [Runs -> {None, "queued", "running", "completed", "failed"}]
      /\ task'[worker.of] = s /\ \A r \in Runs \ {worker.of} : task'[r] = task[r]
  BY WorkerNow DEF RunInv, RunTypes
<1>3. \A r \in Runs : /\ (task'[r] = "running") = (worker'.of = r)
                      /\ task'[r] # None => task[r] # None
  <2>1. None \notin Runs /\ None # "running"
    BY DEF RunAssumption
  <2>. QED
    BY <1>1, <1>2, <2>1, WorkerNow
<1>. QED
  BY <1>1, <1>2, <1>3, ResultsStay, WorkerMoves

LEMMA ClaimStep == ASSUME RunAssumption, RunInv, NEW r \in Runs, Claim(r) PROVE RunInv'
<1> DEFINE k == [Resting EXCEPT !.pc = "read", !.of = r]
<1>1. /\ worker.pc = "idle" /\ task[r] = "queued" /\ task' = [task EXCEPT ![r] = "running"]
      /\ run' = [run EXCEPT ![r] = IF run[r].status = "PENDING"
                                   THEN Ran(Updated(run[r], "RUNNING"), "queued") ELSE run[r]]
      /\ worker' = k /\ UNCHANGED <<results, linked, creator, client>>
  BY DEF Claim
<1>2. k \in WorkerState /\ k.pc = "read" /\ k.of = r
  <2>1. Resting \in WorkerState
    BY DEF Resting, WorkerState
  <2>. QED
    BY <2>1 DEF WorkerState
<1> HIDE DEF k
<1>3. run[r] \in RunRow /\ Fits(run[r]) /\ run[r].counted \subseteq results[r]
  BY <1>1 DEF RunInv, RunTypes, RowsSound, RunsThere, Sound, RunAssumption
<1> DEFINE u == Updated(run[r], "RUNNING")
           y == IF run[r].status = "PENDING" THEN Ran(u, "queued") ELSE run[r]
<1>4. u \in RunRow /\ Fits(u) /\ u.counted = run[r].counted
  BY <1>3, UpdatedFits DEF Statuses
<1> HIDE DEF u
<1>5. Ran(u, "queued") \in RunRow /\ Fits(Ran(u, "queued")) /\ Ran(u, "queued").counted = u.counted
  BY <1>4, RanFits
<1>6. y \in RunRow /\ Fits(y) /\ y.counted = run[r].counted
  BY <1>3, <1>4, <1>5
<1>7. run' = [run EXCEPT ![r] = y]
  BY <1>1 DEF u
<1> HIDE DEF y
<1>8. RowsWritten
  BY <1>1, <1>3, <1>6, <1>7 DEF RowsWritten, SoundAfter
<1>9. /\ task' \in [Runs -> {None, "queued", "running", "completed", "failed"}]
      /\ task'[r] = "running" /\ \A q \in Runs \ {r} : task'[q] = task[q] /\ task[q] # "running"
      /\ task[r] # None
  BY <1>1 DEF RunInv, RunTypes, RunsThere, RunAssumption
<1>10. \A q \in Runs : /\ (task'[q] = "running") = (worker'.of = q)
                       /\ task'[q] # None => task[q] # None
  BY <1>1, <1>2, <1>9
<1>. QED
  BY <1>1, <1>2, <1>8, <1>9, <1>10, ResultsStay, WorkerMoves

LEMMA ReadRunStep == ASSUME RunAssumption, RunInv, ReadRun PROVE RunInv'
<1> DEFINE u == Updated(run[worker.of], "RUNNING")
           x == Ran(u, "running")
           k == [worker EXCEPT !.pc = "mark", !.row = x]
<1>1. worker.pc = "read" /\ worker' = k /\ UNCHANGED <<run, results, linked, task, creator, client>>
  BY DEF ReadRun
<1>2. u \in RunRow /\ Fits(u) /\ u.counted = run[worker.of].counted
  BY <1>1, WorkerNow, UpdatedFits DEF Statuses
<1> HIDE DEF u
<1>3. x \in RunRow /\ Fits(x) /\ x.counted = run[worker.of].counted
  BY <1>2, RanFits
<1> HIDE DEF x
<1>4. k \in WorkerState /\ k.pc = "mark" /\ k.of = worker.of /\ k.row = x
  BY <1>1, <1>3, WorkerNow DEF WorkerState
<1> HIDE DEF k
<1>5. SoundAfter(worker.of, x)
  BY <1>1, <1>3, WorkerNow DEF SoundAfter
<1>. QED
  BY <1>1, <1>4, <1>5, ResultsStay, WorkerGoesOn DEF RowsWritten

\* Columns of x saved over the row of the run of the worker.
LEMMA SavedOver ==
    ASSUME RunInv, UNCHANGED results, NEW r \in Runs, run[r] \in RunRow,
           NEW x \in RunRow, Fits(x), x.counted \subseteq results[r], SaveRun(r, x)
    PROVE  RowsWritten
<1>1. run' = [run EXCEPT ![r] = Saved(run[r], x)]
  BY DEF SaveRun, Saved
<1>. QED
  BY <1>1, SavedFits DEF RowsWritten, SoundAfter

LEMMA MarkRunningStep == ASSUME RunAssumption, RunInv, MarkRunning PROVE RunInv'
<1> DEFINE k == [worker EXCEPT !.pc = "measure"]
<1>1. worker.pc = "mark" /\ worker' = k /\ UNCHANGED <<results, linked, task, creator, client>>
  BY DEF MarkRunning
<1>2. k \in WorkerState /\ k.pc = "measure" /\ k.of = worker.of /\ k.row = worker.row
  BY <1>1, WorkerNow DEF WorkerState
<1> HIDE DEF k
<1>3. RowsWritten
  BY <1>1, WorkerNow, SavedOver DEF MarkRunning
<1>4. SoundAfter(worker.of, worker.row)
  BY <1>1, WorkerNow DEF SoundAfter
<1>. QED
  BY <1>1, <1>2, <1>3, <1>4, ResultsStay, WorkerGoesOn

\* The start of a run that was read as pending.
LEMMA StartSaved ==
    ASSUME RunInv, ResultsGrow, NEW r \in Runs, run[r] \in RunRow, run[r].counted \subseteq results[r],
           NEW x, run' = SaveStarted(r, x)
    PROVE  RowsWritten
<1>1. run' = run \/ run' = [run EXCEPT ![r] = Begun(run[r])]
  BY DEF SaveStarted, Begun
<1>. QED
  BY <1>1, BegunFits DEF RowsWritten, SoundAfter, ResultsGrow

LEMMA MeasureStep == ASSUME RunAssumption, RunInv, Measure PROVE RunInv'
<1> DEFINE x == Started(worker.row)
           k == [worker EXCEPT !.pc = "count", !.row = x]
<1>1. /\ worker.pc = "measure" /\ worker' = k /\ UNCHANGED <<linked, task, creator, client>>
      /\ run' = SaveStarted(worker.of, worker.row) /\ worker.next <= Len(Measurable)
      /\ results' = [results EXCEPT ![worker.of] = @ \cup {Measurable[worker.next]}]
  BY DEF Measure
<1>2. Measurable[worker.next] \in Assets
  BY <1>1, WorkerNow DEF RunAssumption, Assets
<1>3. ResultsGrow /\ worker.of \in Runs
  BY <1>1, <1>2, WorkerNow DEF RunInv, RunTypes, ResultsGrow
<1>4. RowsWritten
  BY <1>1, <1>3, WorkerNow, StartSaved
<1>5. x \in RunRow /\ Fits(x) /\ x.counted = worker.row.counted
  BY <1>1, WorkerNow, StartedFits
<1> HIDE DEF x
<1>6. k \in WorkerState /\ k.pc = "count" /\ k.of = worker.of /\ k.row = x
  BY <1>1, <1>5, WorkerNow DEF WorkerState
<1> HIDE DEF k
<1>7. SoundAfter(worker.of, x)
  BY <1>1, <1>3, <1>5, WorkerNow DEF SoundAfter, ResultsGrow
<1>. QED
  BY <1>1, <1>3, <1>4, <1>6, <1>7, WorkerGoesOn

LEMMA CountStep == ASSUME RunAssumption, RunInv, Count PROVE RunInv'
<1> DEFINE x == Counted(worker.of, worker.row)
           k == [worker EXCEPT !.pc = "summary", !.row = x]
<1>1. worker.pc = "count" /\ worker' = k /\ UNCHANGED <<run, results, linked, task, creator, client>>
  BY DEF Count
<1>2. x \in RunRow /\ Fits(x) /\ x.counted = results[worker.of]
  BY <1>1, WorkerNow, CountedFits
<1> HIDE DEF x
<1>3. k \in WorkerState /\ k.pc = "summary" /\ k.of = worker.of /\ k.row = x
  BY <1>1, <1>2, WorkerNow DEF WorkerState
<1> HIDE DEF k
<1>4. SoundAfter(worker.of, x)
  BY <1>1, <1>2 DEF SoundAfter
<1>. QED
  BY <1>1, <1>3, <1>4, ResultsStay, WorkerGoesOn DEF RowsWritten

\* A summary saved over the row of a run.
LEMMA SummedOver ==
    ASSUME RunInv, UNCHANGED results, NEW r \in Runs, run[r] \in RunRow, Fits(run[r]),
           NEW x \in RunRow, x.counted \subseteq results[r], SaveSummary(r, x)
    PROVE  RowsWritten
<1>1. run' = [run EXCEPT ![r] = Summed(run[r], x)]
  BY DEF SaveSummary, Summed
<1>. QED
  BY <1>1, SummedFits DEF RowsWritten, SoundAfter

LEMMA SummariseStep == ASSUME RunAssumption, RunInv, Summarise PROVE RunInv'
<1> DEFINE k == [worker EXCEPT !.pc = "measure", !.next = worker.next + 1]
<1>1. worker.pc = "summary" /\ worker' = k /\ UNCHANGED <<results, linked, task, creator, client>>
  BY DEF Summarise
<1>2. k \in WorkerState /\ k.pc = "measure" /\ k.of = worker.of /\ k.row = worker.row
  <2>1. worker \in WorkerState /\ worker.next + 1 \in Nat \ {0}
    BY <1>1, WorkerNow
  <2>. QED
    BY <2>1 DEF WorkerState
<1> HIDE DEF k
<1>3. RowsWritten
  BY <1>1, WorkerNow, SummedOver DEF Summarise
<1>4. SoundAfter(worker.of, worker.row)
  BY <1>1, WorkerNow DEF SoundAfter
<1>. QED
  BY <1>1, <1>2, <1>3, <1>4, ResultsStay, WorkerGoesOn

LEMMA MarkCompletedStep == ASSUME RunAssumption, RunInv, MarkCompleted PROVE RunInv'
<1> DEFINE u == Updated(worker.row, "COMPLETED")
           k == [worker EXCEPT !.pc = "done"]
<1>1. /\ worker.pc = "measure" /\ worker' = k /\ UNCHANGED <<results, linked, task, creator, client>>
      /\ SaveRun(worker.of, Ran(u, "completed"))
  BY DEF MarkCompleted
<1>2. k \in WorkerState /\ k.pc = "done" /\ k.of = worker.of
  BY <1>1, WorkerNow DEF WorkerState
<1> HIDE DEF k
<1>3. u \in RunRow /\ Fits(u) /\ u.counted = worker.row.counted
  BY <1>1, WorkerNow, UpdatedFits DEF Statuses, Final
<1> HIDE DEF u
<1>4. Ran(u, "completed") \in RunRow /\ Fits(Ran(u, "completed")) /\ Ran(u, "completed").counted = u.counted
  BY <1>3, RanFits
<1>5. RowsWritten
  BY <1>1, <1>3, <1>4, WorkerNow, SavedOver
<1>. QED
  BY <1>1, <1>2, <1>5, ResultsStay, WorkerGoesOn

LEMMA CompleteStep == ASSUME RunAssumption, RunInv, Complete PROVE RunInv'
BY WorkerLeaves DEF Complete, RowsWritten

LEMMA FailStep == ASSUME RunAssumption, RunInv, Fail PROVE RunInv'
<1> DEFINE u == Updated(run[worker.of], "FAILED")
<1>1. /\ worker.pc # "idle" /\ worker' = Resting /\ UNCHANGED <<results, linked, creator, client>>
      /\ task' = [task EXCEPT ![worker.of] = "failed"] /\ SaveRun(worker.of, Ran(u, "failed"))
  BY DEF Fail
<1>2. u \in RunRow /\ Fits(u) /\ u.counted = run[worker.of].counted
  BY <1>1, WorkerNow, UpdatedFits DEF Statuses, Final
<1> HIDE DEF u
<1>3. Ran(u, "failed") \in RunRow /\ Fits(Ran(u, "failed")) /\ Ran(u, "failed").counted = u.counted
  BY <1>2, RanFits
<1>4. RowsWritten
  BY <1>1, <1>2, <1>3, WorkerNow, SavedOver
<1>. QED
  BY <1>1, <1>4, WorkerLeaves

-----------------------------------------------------------------------------
(* The other requests.                                                     *)

LEMMA ClientNow ==
    ASSUME RunAssumption, RunInv, NEW c \in Clients, client[c].pc # "idle"
    PROVE  /\ client[c] \in ClientState /\ client[c].of \in Runs
           /\ run[client[c].of] \in RunRow /\ Fits(run[client[c].of]) /\ run[client[c].of] # None
           /\ run[client[c].of].counted \subseteq results[client[c].of]
           /\ results[client[c].of] \in SUBSET Assets
           /\ client[c].row \in RunRow /\ Fits(client[c].row)
           /\ client[c].row.counted \subseteq results[client[c].of]
           /\ client[c].pc = "upsert" => client[c].asset \in Assets
           /\ client[c].pc = "patch" => client[c].status \in Statuses
<1>1. client[c] \in ClientState /\ client[c].of \in Runs /\ run[client[c].of] # None
  BY DEF RunInv, RunTypes, RunsThere
<1>2. Sound(client[c].of, run[client[c].of]) /\ results[client[c].of] \in SUBSET Assets
  BY <1>1 DEF RunInv, RunTypes, RowsSound
<1>. QED
  BY <1>1, <1>2 DEF RunInv, RowsSound, RunsThere, Sound

\* It waits again.
LEMMA ClientRests ==
    ASSUME RunAssumption, RunInv, RowsWritten, UNCHANGED <<results, creator, worker, task, linked>>,
           NEW c \in Clients, client' = [client EXCEPT ![c] = Waiting]
    PROVE  RunInv'
<1>1. Waiting \in ClientState /\ Waiting.pc = "idle"
  BY DEF Waiting, ClientState
<1>. QED
  BY <1>1, ResultsStay, ClientMoves

\* It begins with the row as it is.
LEMMA ClientBegins ==
    ASSUME RunAssumption, RunInv, UNCHANGED <<run, results, creator, worker, task, linked>>,
           NEW c \in Clients, NEW r \in Runs, run[r] # None,
           NEW k \in ClientState, client' = [client EXCEPT ![c] = k], k.of = r, k.row = run[r],
           k.pc = "upsert" => k.asset \in Assets,
           k.pc = "patch" => k.status \in Statuses
    PROVE  RunInv'
<1>1. SoundAfter(r, run[r])
  BY DEF RunInv, RowsSound, Sound, SoundAfter
<1>. QED
  BY <1>1, ResultsStay, ClientMoves DEF RowsWritten

\* What a client that reads the run holds.
PatchOf(c, r, s) == [Begin(c, r) EXCEPT !.pc = "patch", !.status = s]
PostOf(c, r, a) == [Begin(c, r) EXCEPT !.pc = "upsert", !.asset = a]

LEMMA BeginAt ==
    ASSUME RunInv, NEW c, NEW r \in Runs, run[r] # None
    PROVE  Begin(c, r) \in ClientState /\ Begin(c, r).of = r /\ Begin(c, r).row = run[r]
<1>1. run[r] \in RunRow
  BY DEF RunInv, RowsSound, Sound
<1>2. Waiting \in ClientState
  BY DEF Waiting, ClientState
<1>. QED
  BY <1>1, <1>2 DEF Begin, ClientState

LEMMA PatchAt ==
    ASSUME RunInv, NEW c, NEW r \in Runs, run[r] # None, NEW s \in Statuses
    PROVE  /\ PatchOf(c, r, s) \in ClientState /\ PatchOf(c, r, s).pc = "patch" /\ PatchOf(c, r, s).of = r
           /\ PatchOf(c, r, s).row = run[r] /\ PatchOf(c, r, s).status = s
<1>1. Begin(c, r) \in ClientState /\ Begin(c, r).of = r /\ Begin(c, r).row = run[r]
  BY BeginAt
<1>. QED
  BY <1>1 DEF PatchOf, ClientState

LEMMA PostAt ==
    ASSUME RunInv, NEW c, NEW r \in Runs, run[r] # None, NEW a \in Assets
    PROVE  /\ PostOf(c, r, a) \in ClientState /\ PostOf(c, r, a).pc = "upsert" /\ PostOf(c, r, a).of = r
           /\ PostOf(c, r, a).row = run[r] /\ PostOf(c, r, a).asset = a
<1>1. Begin(c, r) \in ClientState /\ Begin(c, r).of = r /\ Begin(c, r).row = run[r]
  BY BeginAt
<1>. QED
  BY <1>1 DEF PostOf, ClientState

LEMMA ReadPatchStep ==
    ASSUME RunAssumption, RunInv, NEW c \in Clients, NEW r \in Runs, ReadPatch(c, r) PROVE RunInv'
<1>1. PICK s \in Statuses : client' = [client EXCEPT ![c] = PatchOf(c, r, s)]
  BY DEF ReadPatch, Statuses, Final, PatchOf
<1>2. run[r] # None /\ UNCHANGED <<run, results, linked, task, creator, worker>>
  BY DEF ReadPatch
<1> DEFINE k == PatchOf(c, r, s)
<1>3. k \in ClientState /\ k.pc = "patch" /\ k.of = r /\ k.row = run[r] /\ k.status = s
  BY <1>2, PatchAt
<1> HIDE DEF k
<1>4. client' = [client EXCEPT ![c] = k]
  BY <1>1 DEF k
<1>. QED
  BY <1>2, <1>3, <1>4, ClientBegins

LEMMA ReadPostStep ==
    ASSUME RunAssumption, RunInv, NEW c \in Clients, NEW r \in Runs, ReadPost(c, r) PROVE RunInv'
<1>1. PICK a \in Assets : client' = [client EXCEPT ![c] = PostOf(c, r, a)]
  BY DEF ReadPost, PostOf
<1>2. run[r] # None /\ UNCHANGED <<run, results, linked, task, creator, worker>>
  BY DEF ReadPost
<1> DEFINE k == PostOf(c, r, a)
<1>3. k \in ClientState /\ k.pc = "upsert" /\ k.of = r /\ k.row = run[r] /\ k.asset = a
  BY <1>2, PostAt
<1> HIDE DEF k
<1>4. client' = [client EXCEPT ![c] = k]
  BY <1>1 DEF k
<1>. QED
  BY <1>2, <1>3, <1>4, ClientBegins

LEMMA SavePatchStep ==
    ASSUME RunAssumption, RunInv, NEW c \in Clients, SavePatch(c) PROVE RunInv'
<1> DEFINE x == Updated(client[c].row, client[c].status)
<1>1. /\ client[c].pc = "patch" /\ SaveRun(client[c].of, x) /\ client' = [client EXCEPT ![c] = Waiting]
      /\ UNCHANGED <<results, linked, task, creator, worker>>
  BY DEF SavePatch
<1>2. x \in RunRow /\ Fits(x) /\ x.counted = client[c].row.counted
  BY <1>1, ClientNow, UpdatedFits
<1> HIDE DEF x
<1>3. RowsWritten
  BY <1>1, <1>2, ClientNow, SavedOver
<1>. QED
  BY <1>1, <1>3, ClientRests

LEMMA UpsertStep ==
    ASSUME RunAssumption, RunInv, NEW c \in Clients, Upsert(c) PROVE RunInv'
<1> DEFINE k == [client[c] EXCEPT !.pc = "start"]
<1>1. /\ client[c].pc = "upsert" /\ client' = [client EXCEPT ![c] = k]
      /\ results' = [results EXCEPT ![client[c].of] = @ \cup {client[c].asset}]
      /\ UNCHANGED <<run, linked, task, creator, worker>>
  BY DEF Upsert
<1>2. k \in ClientState /\ k.pc = "start" /\ k.of = client[c].of /\ k.row = client[c].row
  BY <1>1, ClientNow DEF ClientState
<1> HIDE DEF k
<1>3. ResultsGrow
  BY <1>1, ClientNow DEF RunInv, RunTypes, ResultsGrow
<1>4. SoundAfter(k.of, k.row)
  BY <1>1, <1>2, <1>3, ClientNow DEF SoundAfter, ResultsGrow
<1>. QED
  BY <1>1, <1>2, <1>3, <1>4, ClientNow, ClientMoves DEF RowsWritten

LEMMA StartPostedStep ==
    ASSUME RunAssumption, RunInv, NEW c \in Clients, StartPosted(c) PROVE RunInv'
<1> DEFINE x == Started(client[c].row)
           k == [client[c] EXCEPT !.pc = "count", !.row = x]
<1>1. client[c].pc = "start"
  BY DEF StartPosted
<1>2. client' = [client EXCEPT ![c] = k]
  BY <1>1, ClientNow DEF StartPosted, RunInv, RunTypes, ClientState
<1>3. run' = SaveStarted(client[c].of, client[c].row) /\ UNCHANGED <<results, linked, task, creator, worker>>
  BY DEF StartPosted
<1>4. x \in RunRow /\ Fits(x) /\ x.counted = client[c].row.counted
  BY <1>1, ClientNow, StartedFits
<1> HIDE DEF x
<1>5. k \in ClientState /\ k.pc = "count" /\ k.of = client[c].of /\ k.row = x
  BY <1>1, <1>4, ClientNow DEF ClientState
<1> HIDE DEF k
<1>6. RowsWritten
  BY <1>1, <1>3, ClientNow, ResultsStay, StartSaved
<1>7. SoundAfter(k.of, k.row)
  BY <1>1, <1>3, <1>4, <1>5, ClientNow DEF SoundAfter
<1>. QED
  BY <1>1, <1>2, <1>3, <1>5, <1>6, <1>7, ClientNow, ResultsStay, ClientMoves

LEMMA CountPostedStep ==
    ASSUME RunAssumption, RunInv, NEW c \in Clients, CountPosted(c) PROVE RunInv'
<1> DEFINE x == Counted(client[c].of, client[c].row)
           k == [client[c] EXCEPT !.pc = "summary", !.row = x]
<1>1. client[c].pc = "count"
  BY DEF CountPosted
<1>2. client' = [client EXCEPT ![c] = k]
  BY <1>1, ClientNow DEF CountPosted, RunInv, RunTypes, ClientState
<1>3. UNCHANGED <<run, results, linked, task, creator, worker>>
  BY DEF CountPosted
<1>4. x \in RunRow /\ Fits(x) /\ x.counted = results[client[c].of]
  BY <1>1, ClientNow, CountedFits
<1> HIDE DEF x
<1>5. k \in ClientState /\ k.pc = "summary" /\ k.of = client[c].of /\ k.row = x
  BY <1>1, <1>4, ClientNow DEF ClientState
<1> HIDE DEF k
<1>6. SoundAfter(k.of, k.row)
  BY <1>3, <1>4, <1>5 DEF SoundAfter
<1>. QED
  BY <1>1, <1>2, <1>3, <1>5, <1>6, ClientNow, ResultsStay, ClientMoves DEF RowsWritten

LEMMA SummarisePostedStep ==
    ASSUME RunAssumption, RunInv, NEW c \in Clients, SummarisePosted(c) PROVE RunInv'
<1>1. /\ client[c].pc = "summary" /\ SaveSummary(client[c].of, client[c].row)
      /\ client' = [client EXCEPT ![c] = Waiting]
      /\ UNCHANGED <<results, linked, task, creator, worker>>
  BY DEF SummarisePosted
<1>2. RowsWritten
  BY <1>1, ClientNow, SummedOver
<1>. QED
  BY <1>1, <1>2, ClientRests

-----------------------------------------------------------------------------
(* Every step.                                                             *)

LEMMA RunsNext ==
    ASSUME RunAssumption, RunInv, [Next]_vars
    PROVE  RunInv'
<1>1. CASE UNCHANGED vars
  BY <1>1 DEF vars, RunInv, RunTypes, RowsSound, RunsThere, Sound
<1>2. ASSUME NEW r \in Runs, ReadSnapshot(r) \/ Create(r) \/ Link(r) \/ Enqueue(r) \/ Claim(r)
      PROVE  RunInv'
  BY <1>2, ReadSnapshotStep, CreateStep, LinkStep, EnqueueStep, ClaimStep
<1>3. CASE Work \/ Fail
  BY <1>3, ReadRunStep, MarkRunningStep, MeasureStep, CountStep, SummariseStep, MarkCompletedStep,
     CompleteStep, FailStep DEF Work
<1>4. ASSUME NEW c \in Clients, NEW r \in Runs, ReadPatch(c, r) \/ ReadPost(c, r)
      PROVE  RunInv'
  BY <1>4, ReadPatchStep, ReadPostStep
<1>5. ASSUME NEW c \in Clients,
             SavePatch(c) \/ Upsert(c) \/ StartPosted(c) \/ CountPosted(c) \/ SummarisePosted(c)
      PROVE  RunInv'
  BY <1>5, SavePatchStep, UpsertStep, StartPostedStep, CountPostedStep, SummarisePostedStep
<1>. QED
  BY <1>1, <1>2, <1>3, <1>4, <1>5 DEF Next

LEMMA RunsSound ==
    ASSUME RunInv
    PROVE  TypeOK /\ TimesFitStatus /\ CountsOnlyResults
<1>1. TypeOK
  BY DEF RunInv, RunTypes, RowsSound, RunsThere, Sound, RunRow, Statuses, TypeOK
<1>2. TimesFitStatus
  BY DEF RunInv, RowsSound, Sound, Fits, TimesFitStatus, Exists
<1>3. CountsOnlyResults
  BY DEF RunInv, RowsSound, Sound, CountsOnlyResults, Exists
<1>. QED
  BY <1>1, <1>2, <1>3

-----------------------------------------------------------------------------
(* A run that is left to the worker.                                       *)

LeftAlone == Posters = {} /\ Patchers = {}

Whole(r) == run[r].status = "COMPLETED" /\ results[r] = Assets /\ run[r].counted = Assets

\* What was measured before the worker comes to n.
Before(n) == {Measurable[i] : i \in {j \in DOMAIN Measurable : j < n}}

\* It has a result for all it passed, and counts them once it passed one.
WholeInv ==
    /\ \A r \in Runs : task[r] = "completed" => Whole(r)
    /\ worker.pc \in {"read", "mark"} => worker.next = 1
    /\ worker.pc = "measure" => /\ Before(worker.next) \subseteq results[worker.of]
                                /\ worker.next > 1 => worker.row.counted = results[worker.of]
    /\ worker.pc \in {"count", "summary"} => Before(worker.next + 1) \subseteq results[worker.of]
    /\ worker.pc = "summary" => worker.row.counted = results[worker.of]
    /\ worker.pc = "done" => Whole(worker.of)

LEMMA WholeInit == ASSUME RunAssumption, Init PROVE WholeInv
BY DEF Init, WholeInv, Resting, RunAssumption

\* What is not the run q stays as it was.
LEMMA OthersStayWhole ==
    ASSUME WholeInv, NEW q, task[q] # "completed",
           \A r \in Runs \ {q} : run'[r] = run[r] /\ results'[r] = results[r] /\ task'[r] = task[r],
           task'[q] = "completed" => run'[q].status = "COMPLETED" /\ results'[q] = Assets /\ run'[q].counted = Assets
    PROVE  \A r \in Runs : task'[r] = "completed" => Whole(r)'
BY DEF WholeInv, Whole

LEMMA BeforeNext ==
    ASSUME RunAssumption, NEW n \in Nat \ {0}
    PROVE  /\ n <= Len(Measurable) => Before(n + 1) = Before(n) \cup {Measurable[n]}
           /\ n > Len(Measurable) => Before(n) = Assets
           /\ Before(1) = {}
<1>1. DOMAIN Measurable = 1 .. Len(Measurable) /\ Len(Measurable) \in Nat
  BY DEF RunAssumption
<1>2. ASSUME n <= Len(Measurable) PROVE Before(n + 1) = Before(n) \cup {Measurable[n]}
  <2>1. n \in DOMAIN Measurable /\ \A j \in DOMAIN Measurable : j < n + 1 <=> j < n \/ j = n
    BY <1>1, <1>2
  <2>. QED
    BY <2>1 DEF Before
<1>3. ASSUME n > Len(Measurable) PROVE Before(n) = Assets
  <2>1. \A j \in DOMAIN Measurable : j < n
    BY <1>1, <1>3
  <2>. QED
    BY <2>1 DEF Before, Assets
<1>4. Before(1) = {}
  <2>1. \A j \in DOMAIN Measurable : ~(j < 1)
    BY <1>1
  <2>. QED
    BY <2>1 DEF Before
<1>. QED
  BY <1>2, <1>3, <1>4

\* Requests that do not create, claim or work leave nothing unmeasured.
LEMMA CreatorWhole ==
    ASSUME RunAssumption, RunInv, WholeInv, NEW r \in Runs,
           ReadSnapshot(r) \/ Create(r) \/ Link(r) \/ Enqueue(r)
    PROVE  WholeInv'
<1>1. /\ task[r] = None /\ UNCHANGED <<worker, results>>
      /\ \A q \in Runs \ {r} : run'[q] = run[q] /\ task'[q] = task[q]
      /\ task'[r] \in {None, "queued"}
  BY DEF ReadSnapshot, Create, Link, Enqueue, RunInv, RunTypes, RunsThere
<1>2. None \notin {"completed", "running"} /\ None \notin Runs
  BY DEF RunAssumption
<1>3. \A q \in Runs : task'[q] = "completed" => Whole(q)'
  BY <1>1, <1>2, OthersStayWhole
<1>4. worker.pc = "done" => Whole(worker.of)'
  <2>1. SUFFICES ASSUME worker.pc = "done" PROVE Whole(worker.of)'
    OBVIOUS
  <2>2. worker.of # r /\ worker.of \in Runs
    BY <1>1, <1>2, <2>1 DEF RunInv, RunsThere
  <2>. QED
    BY <1>1, <2>1, <2>2 DEF WholeInv, Whole
<1>. QED
  BY <1>1, <1>3, <1>4 DEF WholeInv

LEMMA ClaimWhole == ASSUME RunAssumption, RunInv, WholeInv, NEW r \in Runs, Claim(r) PROVE WholeInv'
<1>1. /\ task[r] = "queued" /\ UNCHANGED results
      /\ \A q \in Runs \ {r} : run'[q] = run[q] /\ task'[q] = task[q]
      /\ task'[r] = "running" /\ worker'.pc = "read" /\ worker'.next = 1
  BY DEF Claim, RunInv, RunTypes, Resting
<1>2. \A q \in Runs : task'[q] = "completed" => Whole(q)'
  BY <1>1, OthersStayWhole
<1>. QED
  BY <1>1, <1>2 DEF WholeInv

\* The worker works on its run and leaves the others alone.
LEMMA OneRun ==
    ASSUME RunAssumption, RunInv, Work \/ Fail
    PROVE  /\ worker.pc # "idle" /\ worker.of \in Runs /\ task[worker.of] = "running"
           /\ \A r \in Runs \ {worker.of} : run'[r] = run[r] /\ results'[r] = results[r] /\ task'[r] = task[r]
           /\ ~Complete => task'[worker.of] # "completed"
<1>1. worker.pc # "idle"
  BY DEF Work, Fail, ReadRun, MarkRunning, Measure, Count, Summarise, MarkCompleted, Complete
<1>2. worker.of \in Runs /\ task[worker.of] = "running"
  BY <1>1, WorkerNow
<1>3. \A r \in Runs \ {worker.of} : run'[r] = run[r]
  BY <1>2 DEF Work, Fail, ReadRun, MarkRunning, Measure, Count, Summarise, MarkCompleted, Complete,
              SaveRun, SaveStarted, SaveSummary, RunInv, RunTypes
<1>4. \A r \in Runs \ {worker.of} : results'[r] = results[r]
  BY <1>2 DEF Work, Fail, ReadRun, MarkRunning, Measure, Count, Summarise, MarkCompleted, Complete,
              RunInv, RunTypes
<1>5. /\ \A r \in Runs \ {worker.of} : task'[r] = task[r]
      /\ ~Complete => task'[worker.of] # "completed"
  BY <1>2 DEF Work, Fail, ReadRun, MarkRunning, Measure, Count, Summarise, MarkCompleted, Complete,
              RunInv, RunTypes
<1>. QED
  BY <1>1, <1>2, <1>3, <1>4, <1>5

LEMMA OthersWhole ==
    ASSUME RunAssumption, RunInv, WholeInv, Work \/ Fail, ~Complete
    PROVE  \A r \in Runs : task'[r] = "completed" => Whole(r)'
BY OneRun DEF WholeInv, Whole

LEMMA MeasureWhole == ASSUME RunAssumption, RunInv, WholeInv, Measure PROVE WholeInv'
<1>1. /\ worker.pc = "measure" /\ worker.next \in Nat \ {0} /\ worker.next <= Len(Measurable)
      /\ results'[worker.of] = results[worker.of] \cup {Measurable[worker.next]}
  BY WorkerNow DEF Measure, RunInv, RunTypes
<1>2. worker'.pc = "count" /\ worker'.next = worker.next /\ worker'.of = worker.of
  BY WorkerNow DEF Measure, WorkerState
<1>3. Before(worker.next + 1) \subseteq results'[worker.of]
  BY <1>1, BeforeNext DEF WholeInv
<1>. QED
  BY <1>2, <1>3, OthersWhole DEF Work, WholeInv, Measure, Complete

LEMMA CountWhole == ASSUME RunAssumption, RunInv, WholeInv, Count PROVE WholeInv'
<1>1. /\ worker.pc = "count" /\ worker'.pc = "summary" /\ worker'.next = worker.next /\ worker'.of = worker.of
      /\ UNCHANGED results
  BY WorkerNow DEF Count, WorkerState
<1>2. worker'.row.counted = results[worker.of]
  <2>1. worker.row \in RunRow /\ worker \in WorkerState
    BY <1>1, WorkerNow
  <2>2. Counted(worker.of, worker.row).counted = results[worker.of]
    BY <2>1 DEF Counted, RunRow
  <2>. QED
    BY <2>1, <2>2 DEF Count, WorkerState
<1>. QED
  BY <1>1, <1>2, OthersWhole DEF Work, WholeInv, Count, Complete

LEMMA SummariseWhole == ASSUME RunAssumption, RunInv, WholeInv, Summarise PROVE WholeInv'
<1>1. /\ worker.pc = "summary" /\ worker'.pc = "measure" /\ worker'.next = worker.next + 1
      /\ worker'.of = worker.of /\ worker'.row = worker.row /\ UNCHANGED results
  BY WorkerNow DEF Summarise, WorkerState
<1>. QED
  BY <1>1, OthersWhole DEF Work, WholeInv, Summarise, Complete

LEMMA MarkCompletedWhole == ASSUME RunAssumption, RunInv, WholeInv, MarkCompleted PROVE WholeInv'
<1>1. /\ worker.pc = "measure" /\ worker'.pc = "done" /\ worker'.of = worker.of /\ UNCHANGED results
      /\ worker.next > Len(Measurable)
  BY WorkerNow DEF MarkCompleted, WorkerState
<1>2. results[worker.of] = Assets
  <2>1. Before(worker.next) = Assets
    BY <1>1, WorkerNow, BeforeNext
  <2>. QED
    BY <1>1, <2>1, WorkerNow DEF WholeInv
<1>3. worker.row.counted = Assets
  <2>1. CASE worker.next > 1
    BY <1>1, <1>2, <2>1 DEF WholeInv
  <2>2. CASE ~(worker.next > 1)
    <3>1. worker.next = 1
      BY <1>1, <2>2, WorkerNow
    <3>2. Assets = {}
      BY <1>1, <3>1, BeforeNext
    <3>. QED
      BY <1>1, <1>2, <3>2, WorkerNow
  <2>. QED
    BY <2>1, <2>2
<1>4. run'[worker.of].status = "COMPLETED" /\ run'[worker.of].counted = Assets
  <2> DEFINE x == Ran(Updated(worker.row, "COMPLETED"), "completed")
  <2>1. x.status = "COMPLETED" /\ x.counted = Assets
    <3>1. worker.row \in RunRow
      BY <1>1, WorkerNow
    <3>. QED
      BY <1>3, <3>1 DEF RunRow, Ran, Updated
  <2>2. SaveRun(worker.of, x)
    BY DEF MarkCompleted
  <2> HIDE DEF x
  <2>3. run[worker.of] \in RunRow /\ worker.of \in Runs
    BY <1>1, WorkerNow
  <2>. QED
    BY <2>1, <2>2, <2>3 DEF SaveRun, RunRow, RunInv, RunTypes
<1>. QED
  BY <1>1, <1>2, <1>4, OthersWhole DEF Work, WholeInv, Whole, MarkCompleted, Complete

LEMMA CompleteWhole == ASSUME RunAssumption, RunInv, WholeInv, Complete PROVE WholeInv'
<1>1. worker.pc = "done" /\ worker'.pc = "idle" /\ UNCHANGED <<run, results>>
  BY DEF Complete, Resting
<1>2. Whole(worker.of)
  BY <1>1 DEF WholeInv
<1>3. \A r \in Runs : task'[r] = "completed" => Whole(r)'
  BY <1>1, <1>2, OneRun DEF Work, WholeInv, Whole
<1>. QED
  BY <1>1, <1>3 DEF WholeInv

LEMMA WholeNext ==
    ASSUME RunAssumption, LeftAlone, RunInv, WholeInv, [Next]_vars
    PROVE  WholeInv'
<1>1. CASE UNCHANGED vars
  BY <1>1 DEF vars, WholeInv, Whole
<1>2. ASSUME NEW r \in Runs, ReadSnapshot(r) \/ Create(r) \/ Link(r) \/ Enqueue(r) \/ Claim(r)
      PROVE  WholeInv'
  BY <1>2, CreatorWhole, ClaimWhole
<1>3. CASE ReadRun
  BY <1>3, OthersWhole DEF Work, WholeInv, ReadRun, Complete, RunInv, RunTypes, WorkerState
<1>4. CASE MarkRunning
  <2>1. worker.pc = "mark" /\ worker'.pc = "measure" /\ worker'.next = worker.next
    BY <1>4, WorkerNow DEF MarkRunning, WorkerState
  <2>2. worker'.next = 1 /\ Before(worker'.next) = {}
    BY <2>1, BeforeNext DEF WholeInv
  <2>. QED
    BY <1>4, <2>1, <2>2, OthersWhole DEF Work, WholeInv, MarkRunning, Complete
<1>5. CASE Fail
  BY <1>5, OthersWhole DEF WholeInv, Fail, Resting, Complete
<1>6. CASE Work
  BY <1>3, <1>4, <1>6, MeasureWhole, CountWhole, SummariseWhole, MarkCompletedWhole, CompleteWhole DEF Work
<1>. QED
  BY <1>1, <1>2, <1>5, <1>6 DEF Next, LeftAlone, Clients

LEMMA WholeRuns == ASSUME WholeInv PROVE CompletedIsWhole
BY DEF WholeInv, Whole, CompletedIsWhole

=============================================================================
