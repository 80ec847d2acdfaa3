-------------------------- MODULE ScansWorkerProofs -------------------------
(***************************************************************************)
(* The scan of the worker and its bookkeeping, the probes of a discovery   *)
(* and the performance runs left to the worker, as behaviours of Scans:    *)
(* one log row for every scanner on every target, a progress bar that is   *)
(* full when the scanning is over and a snapshot of all that was found,    *)
(* for targets, agents and scanners of every number.                       *)
(***************************************************************************)
EXTENDS ScansProofs

-----------------------------------------------------------------------------
(* The scan of the worker.                                                 *)

Looping == {"network", "agents", "call", "log", "progress", "next"}
Storing == {"assets", "score", "close", "done"}

\* What the worker holds: all it found it found of targets it was asked for.
WorkerTyped ==
    /\ DOMAIN run = {"pc", "then", "i", "asked", "todo", "found", "at"}
    /\ run.i \in Nat /\ run.then \in {"start", "agents", "call", "next"}
    /\ run.pc \in Looping \cup {"start"} => run.i \in 1 .. Len(TargetIds)
    /\ run.at \in Nat
    /\ run.pc \in Looping \cup {"start", "persist"} => run.at = 0
    /\ \E S : run.found \in Seq(S)
    /\ \A k \in DOMAIN run.found : run.found[k].target \in Scan!ToSet(TargetIds)

SnapshotTyped ==
    /\ DOMAIN snapshot = {"made", "rows", "scored"} /\ snapshot.made \in BOOLEAN
    /\ snapshot.scored \in 0 .. Len(snapshot.rows) /\ \E S : snapshot.rows \in Seq(S)

\* The rows are those of the first observations so far, no two of the same thing.
RowsAreFirsts ==
    /\ \A k \in Scan!Firsts(run.found) : k <= run.at =>
          \E j \in DOMAIN snapshot.rows : snapshot.rows[j] = Scan!Merged(run.found, k)
    /\ \A j \in DOMAIN snapshot.rows :
          \E k \in Scan!Firsts(run.found) : k <= run.at /\ snapshot.rows[j] = Scan!Merged(run.found, k)
    /\ \A i, j \in DOMAIN snapshot.rows : Scan!Same(snapshot.rows[i], snapshot.rows[j]) => i = j

\* Unless the job is taken away its snapshot stays and is filled in order.
Filling ==
    job # "GONE" /\ run.pc \in Storing =>
        /\ snapshot.made /\ RowsAreFirsts
        /\ run.pc # "assets" => \A k \in Scan!Firsts(run.found) : k <= run.at
        /\ run.pc \in {"close", "done"} => snapshot.scored = Len(snapshot.rows)

ScanInv ==
    /\ WorkerTyped /\ SnapshotTyped /\ Filling
    /\ job = "COMPLETED" => run.pc = "done"

LEMMA ScanInit == ASSUME Scan!Init PROVE ScanInv
<1>1. /\ run.pc = "start" /\ run.then = "start" /\ run.i = 1 /\ run.found = <<>> /\ run.at = 0
      /\ DOMAIN run = {"pc", "then", "i", "asked", "todo", "found", "at"}
      /\ snapshot = [made |-> FALSE, rows |-> <<>>, scored |-> 0] /\ job = "RUNNING"
  BY DEF Scan!Init, Scan!NoSnapshot
<1>2. 1 \in 1 .. Len(TargetIds)
  BY ScansAssumption DEF ScansAssumption, Scan!ScanAssumption
<1>3. \E S : <<>> \in Seq(S)
  <2>1. <<>> \in Seq(Nat)
    OBVIOUS
  <2>. QED
    BY <2>1
<1>4. WorkerTyped
  BY <1>1, <1>2, <1>3 DEF WorkerTyped, Looping
<1>5. SnapshotTyped
  BY <1>1, <1>3 DEF SnapshotTyped
<1>. QED
  BY <1>1, <1>4, <1>5 DEF ScanInv, Filling, Storing

\* Whatever leaves the worker and the snapshot alone, and makes no job of none.
LEMMA ScanRests ==
    ASSUME ScanInv, UNCHANGED <<run, snapshot>>, job' # "GONE" => job # "GONE",
           job' = "COMPLETED" => job = "COMPLETED"
    PROVE  ScanInv'
<1>1. WorkerTyped' /\ SnapshotTyped'
  BY DEF ScanInv, WorkerTyped, SnapshotTyped
<1>2. Filling'
  BY DEF ScanInv, Filling, RowsAreFirsts
<1>. QED
  BY <1>1, <1>2 DEF ScanInv

\* A worker that goes to a place where nothing is stored.
LEMMA Going ==
    ASSUME ScanInv, NEW to \in Looping \cup {"persist", "raised", "killed"}, Scan!Goto(to),
           run.pc \notin Storing \/ to \in {"raised", "killed"},
           to \in Looping => run.pc \in Looping \cup {"start"},
           to = "persist" => run.pc \in Looping,
           UNCHANGED snapshot, job' # "COMPLETED"
    PROVE  ScanInv'
<1>1. /\ run'.pc = to /\ run'.then = run.then /\ run'.i = run.i /\ run'.found = run.found /\ run'.at = run.at
      /\ DOMAIN run' = DOMAIN run
  BY DEF Scan!Goto, ScanInv, WorkerTyped
<1>2. WorkerTyped'
  BY <1>1 DEF ScanInv, WorkerTyped, Looping
<1>3. SnapshotTyped'
  BY DEF ScanInv, SnapshotTyped
<1>4. run'.pc \notin Storing
  BY <1>1 DEF Storing, Looping
<1>. QED
  BY <1>2, <1>3, <1>4 DEF ScanInv, Filling

LEMMA Raising ==
    ASSUME ScanInv, Scan!Raise, UNCHANGED snapshot, run.pc # "done"
    PROVE  ScanInv'
<1>1. Scan!Goto("raised") /\ job' # "COMPLETED"
  BY DEF Scan!Raise, Scan!Goto, ScanInv
<1>. QED
  BY <1>1, Going DEF Looping

\* What was found on the target is added to what was found before.
LEMMA Adding ==
    ASSUME NEW s, NEW t, \E S : s \in Seq(S), \E S : t \in Seq(S), NEW Q,
           \A j \in DOMAIN s : s[j].target \in Q, \A j \in DOMAIN t : t[j].target \in Q
    PROVE  /\ \E S : s \o t \in Seq(S)
           /\ \A k \in DOMAIN (s \o t) : (s \o t)[k].target \in Q
<1>1. PICK S : s \in Seq(S)
  OBVIOUS
<1>2. PICK T : t \in Seq(T)
  OBVIOUS
<1>3. s \in Seq(S \cup T) /\ t \in Seq(S \cup T)
  BY <1>1, <1>2
<1>. QED
  BY <1>3

LEMMA Logging ==
    ASSUME ScanInv, run.pc \in Looping, NEW rows, NEW to \in {"agents", "call", "next"}, NEW new,
           \E S : new \in Seq(S), NEW asked, Scan!LogThen(rows, to, new, asked),
           UNCHANGED <<job, snapshot>>
    PROVE  ScanInv' /\ run'.pc # "raised"
<1>1. /\ run'.pc \in {to, "log"} /\ run'.then = to /\ run'.i = run.i /\ run'.at = run.at
      /\ run'.found = run.found \o Scan!OfTarget(new) /\ DOMAIN run' = DOMAIN run
  BY DEF Scan!LogThen, ScanInv, WorkerTyped
<1>2. run.i \in 1 .. Len(TargetIds) /\ run.at = 0 /\ job # "COMPLETED"
  <2>1. run.i \in 1 .. Len(TargetIds) /\ run.at = 0
    BY DEF ScanInv, WorkerTyped
  <2>2. run.pc # "done"
    BY DEF Looping
  <2>. QED
    BY <2>1, <2>2 DEF ScanInv
<1>3. Scan!Here \in Scan!ToSet(TargetIds)
  BY <1>2, ScansAssumption DEF ScansAssumption, Scan!ScanAssumption, Scan!Here, Scan!ToSet
<1>4. /\ \E S : Scan!OfTarget(new) \in Seq(S)
      /\ \A k \in DOMAIN Scan!OfTarget(new) : Scan!OfTarget(new)[k].target = Scan!Here
  <2>1. PICK S : new \in Seq(S)
    OBVIOUS
  <2>2. DOMAIN new = 1 .. Len(new) /\ Len(new) \in Nat
    BY <2>1
  <2> DEFINE Entry(k) == [target |-> Scan!Here, ref |-> new[k].ref, print |-> new[k].print, kinds |-> new[k].kinds]
  <2>3. Scan!OfTarget(new) = [k \in 1 .. Len(new) |-> Entry(k)]
    BY <2>2 DEF Scan!OfTarget
  <2>4. \A k : Entry(k).target = Scan!Here
    OBVIOUS
  <2>5. Scan!OfTarget(new) \in Seq({Entry(k) : k \in 1 .. Len(new)})
    <3> HIDE DEF Entry
    <3>. QED
      BY <2>2, <2>3
  <2>6. \A k \in DOMAIN Scan!OfTarget(new) : Scan!OfTarget(new)[k] = Entry(k)
    <3> HIDE DEF Entry
    <3>. QED
      BY <2>3
  <2> HIDE DEF Entry
  <2>. QED
    BY <2>4, <2>5, <2>6
<1>5. \E S : run.found \in Seq(S)
  BY DEF ScanInv, WorkerTyped
<1>6. /\ \E S : run'.found \in Seq(S)
      /\ \A k \in DOMAIN run'.found : run'.found[k].target \in Scan!ToSet(TargetIds)
  <2> DEFINE t == Scan!OfTarget(new)
  <2>1. \E S : t \in Seq(S)
    BY <1>4
  <2>2. \A j \in DOMAIN t : t[j].target \in Scan!ToSet(TargetIds)
    BY <1>3, <1>4
  <2>3. \A j \in DOMAIN run.found : run.found[j].target \in Scan!ToSet(TargetIds)
    BY DEF ScanInv, WorkerTyped
  <2>4. run'.found = run.found \o t
    BY <1>1
  <2> HIDE DEF t
  <2>5. \E S : run.found \o t \in Seq(S)
    BY <1>5, <2>1, <2>2, <2>3, Adding
  <2>6. \A k \in DOMAIN (run.found \o t) : (run.found \o t)[k].target \in Scan!ToSet(TargetIds)
    BY <1>5, <2>1, <2>2, <2>3, Adding
  <2>. QED
    BY <2>4, <2>5, <2>6
<1>7. WorkerTyped'
  BY <1>1, <1>2, <1>6 DEF ScanInv, WorkerTyped, Looping
<1>8. SnapshotTyped'
  BY DEF ScanInv, SnapshotTyped
<1>9. run'.pc \notin Storing /\ run'.pc # "raised"
  BY <1>1 DEF Storing
<1>. QED
  BY <1>2, <1>7, <1>8, <1>9 DEF ScanInv, Filling

\* Why a scan may fail.
Reason ==
    \/ Scan!Collision
    \/ job = "GONE"
    \/ \E t \in Scan!ToSet(TargetIds) : ~ target[t]
    \/ run.pc = "call" /\ ~ agent[HostOf[Scan!Here]].active

\* A step of the worker leaves the invariant and fails only for a reason.
Sound == ScanInv' /\ (run'.pc = "raised" => Reason)

LEMMA HereIsAsked ==
    ASSUME ScanInv, run.pc \in Looping \cup {"start"}
    PROVE  Scan!Here \in Scan!ToSet(TargetIds) /\ Scan!Here \in Targets
<1>1. run.i \in 1 .. Len(TargetIds)
  BY DEF ScanInv, WorkerTyped
<1>. QED
  BY <1>1, ScansAssumption DEF ScansAssumption, Scan!ScanAssumption, Scan!Here, Scan!ToSet

LEMMA NotOver ==
    ASSUME ScanInv, run.pc # "done" PROVE job # "COMPLETED"
BY DEF ScanInv

\* The findings that were asked for are a sequence.
LEMMA WantedIsSequence ==
    ASSUME NEW findings, \E S : findings \in Seq(S), NEW kinds
    PROVE  \E S : Scan!Wanted(findings, kinds) \in Seq(S)
<1> DEFINE kept == {i \in DOMAIN findings : findings[i].kinds \subseteq kinds}
           Nth(n) == findings[CHOOSE i \in kept : Scan!Cardinality({j \in kept : j <= i}) = n]
           N == Scan!Cardinality(kept)
<1>1. N \in Nat
  <2>1. PICK S : findings \in Seq(S)
    OBVIOUS
  <2>2. kept \subseteq 1 .. Len(findings) /\ Len(findings) \in Nat
    BY <2>1
  <2>3. IsFiniteSet(1 .. Len(findings))
    BY <2>2, FS_Interval
  <2>4. IsFiniteSet(kept)
    BY <2>2, <2>3, FS_Subset
  <2>5. Cardinality(kept) \in Nat
    BY <2>4, FS_CardinalityType
  <2> HIDE DEF kept
  <2>6. Scan!Cardinality(kept) = Cardinality(kept)
    BY DEF Scan!Cardinality, Cardinality
  <2>. QED
    BY <2>5, <2>6
<1>2. Scan!Wanted(findings, kinds) = [n \in 1 .. N |-> Nth(n)]
  BY DEF Scan!Wanted, Scan!Keep
<1> HIDE DEF N, Nth, kept
<1>3. [n \in 1 .. N |-> Nth(n)] \in [1 .. N -> {Nth(n) : n \in 1 .. N}]
  OBVIOUS
<1>4. \A S : \A f \in [1 .. N -> S] : f \in Seq(S)
  BY <1>1
<1>5. [n \in 1 .. N |-> Nth(n)] \in Seq({Nth(n) : n \in 1 .. N})
  BY <1>3, <1>4
<1>. QED
  BY <1>2, <1>5, Zenon

LEMMA ReadTargetsSound == ASSUME ScanInv, Scan!ReadTargets PROVE Sound
<1>1. run.pc = "start" /\ UNCHANGED snapshot /\ job # "COMPLETED"
  BY NotOver DEF Scan!ReadTargets
<1>2. CASE \A t \in Scan!ToSet(TargetIds) : target[t]
  <2>1. Scan!Goto("network") /\ job' = job
    BY <1>2 DEF Scan!ReadTargets
  <2>2. ScanInv'
    BY <1>1, <2>1, Going DEF Looping, Storing
  <2>3. run'.pc # "raised"
    BY <2>1 DEF Scan!Goto, ScanInv, WorkerTyped
  <2>. QED
    BY <2>2, <2>3 DEF Sound
<1>3. CASE ~ \A t \in Scan!ToSet(TargetIds) : target[t]
  <2>1. Scan!Raise
    BY <1>3 DEF Scan!ReadTargets
  <2>. QED
    BY <1>1, <1>3, <2>1, Raising DEF Sound, Reason
<1>. QED
  BY <1>2, <1>3

LEMMA NextTargetSound == ASSUME ScanInv, Scan!NextTarget PROVE Sound
<1>1. /\ run.pc = "next" /\ UNCHANGED <<job, snapshot>> /\ job # "COMPLETED"
      /\ run'.pc = (IF run.i < Len(TargetIds) THEN "network" ELSE "persist")
      /\ run'.i = run.i + 1 /\ run'.then = run.then /\ run'.found = run.found /\ run'.at = run.at
      /\ DOMAIN run' = DOMAIN run
  BY NotOver DEF Scan!NextTarget, ScanInv, WorkerTyped
<1>2. run.i \in 1 .. Len(TargetIds) /\ Len(TargetIds) \in Nat
  BY <1>1, ScansAssumption DEF ScanInv, WorkerTyped, Looping, ScansAssumption, Scan!ScanAssumption
<1>3. run'.pc \in Looping \cup {"start"} => run'.i \in 1 .. Len(TargetIds)
  BY <1>1, <1>2 DEF Looping
<1>4. WorkerTyped'
  BY <1>1, <1>2, <1>3 DEF ScanInv, WorkerTyped, Looping
<1>5. SnapshotTyped'
  BY <1>1 DEF ScanInv, SnapshotTyped
<1>6. run'.pc \notin Storing /\ run'.pc # "raised"
  BY <1>1 DEF Storing
<1>. QED
  BY <1>1, <1>4, <1>5, <1>6 DEF Sound, ScanInv, Filling

LEMMA NetworkSound == ASSUME ScanInv, Scan!NetworkScan \/ Scan!NetworkError PROVE Sound
<1>1. run.pc = "network" /\ UNCHANGED <<job, snapshot>> /\ job # "COMPLETED"
  BY NotOver DEF Scan!NetworkScan, Scan!NetworkError
<1>2. run.pc \in Looping
  BY <1>1 DEF Looping
<1>3. CASE Scan!Goto("agents")
  <2>1. ScanInv'
    BY <1>1, <1>3, Going DEF Looping, Storing
  <2>2. run'.pc # "raised"
    BY <1>3 DEF Scan!Goto, ScanInv, WorkerTyped
  <2>. QED
    BY <2>1, <2>2 DEF Sound
<1>4. ASSUME NEW finds \in NetworkFinds[Scan!Here],
             Scan!LogThen(Scan!Rows(<<Scan!Network>>, "SUCCESS"), "agents", finds, <<>>)
      PROVE  Sound
  <2>1. finds \in Seq(Scan!ToSet(finds))
    BY <1>2, HereIsAsked, ScansAssumption DEF ScansAssumption, Scan!ScanAssumption
  <2>. QED
    BY <1>1, <1>2, <1>4, <2>1, Logging DEF Sound
<1>5. CASE Scan!LogThen(Scan!Rows(<<Scan!Network>>, "ERROR"), "agents", <<>>, <<>>)
  <2>1. <<>> \in Seq(Nat)
    OBVIOUS
  <2>. QED
    BY <1>1, <1>2, <1>5, <2>1, Logging DEF Sound
<1>. QED
  BY <1>3, <1>4, <1>5 DEF Scan!NetworkScan, Scan!NetworkError

LEMMA WriteLogSound == ASSUME ScanInv, Scan!WriteLog PROVE Sound
<1>1. run.pc = "log" /\ UNCHANGED snapshot /\ job # "COMPLETED"
  BY NotOver DEF Scan!WriteLog
<1>2. CASE target[Scan!Here] /\ job # "GONE"
  <2>1. Scan!Goto("progress") /\ job' = job
    BY <1>2 DEF Scan!WriteLog
  <2>2. ScanInv'
    BY <1>1, <2>1, Going DEF Looping, Storing
  <2>3. run'.pc # "raised"
    BY <2>1 DEF Scan!Goto, ScanInv, WorkerTyped
  <2>. QED
    BY <2>2, <2>3 DEF Sound
<1>3. CASE ~ (target[Scan!Here] /\ job # "GONE")
  <2>1. Scan!Raise
    BY <1>3 DEF Scan!WriteLog
  <2>2. Scan!Here \in Scan!ToSet(TargetIds)
    BY <1>1, HereIsAsked DEF Looping
  <2>. QED
    BY <1>1, <1>3, <2>1, <2>2, Raising DEF Sound, Reason
<1>. QED
  BY <1>2, <1>3

LEMMA ProgressSound == ASSUME ScanInv, Scan!Progress PROVE Sound
<1>1. /\ run.pc = "progress" /\ UNCHANGED <<job, snapshot>> /\ job # "COMPLETED"
      /\ run'.pc \in {run.then, "log"} /\ run'.i = run.i /\ run'.then = run.then
      /\ run'.found = run.found /\ run'.at = run.at /\ DOMAIN run' = DOMAIN run
  BY NotOver DEF Scan!Progress, ScanInv, WorkerTyped
<1>2. run.i \in 1 .. Len(TargetIds) /\ run.at = 0 /\ run.then \in {"start", "agents", "call", "next"}
  BY <1>1 DEF ScanInv, WorkerTyped, Looping
<1>3. WorkerTyped'
  BY <1>1, <1>2 DEF ScanInv, WorkerTyped
<1>4. SnapshotTyped'
  BY <1>1 DEF ScanInv, SnapshotTyped
<1>5. run'.pc \notin Storing /\ run'.pc # "raised"
  BY <1>1, <1>2 DEF Storing
<1>. QED
  BY <1>1, <1>3, <1>4, <1>5 DEF Sound, ScanInv, Filling

LEMMA AgentsSound == ASSUME ScanInv, Scan!ChooseAgentScanners PROVE Sound
<1>1. run.pc = "agents" /\ UNCHANGED <<job, snapshot>>
  BY DEF Scan!ChooseAgentScanners
<1>2. PICK rows, asked : Scan!LogThen(rows, IF asked = <<>> THEN "next" ELSE "call", <<>>, asked)
  BY Zenon DEF Scan!ChooseAgentScanners
<1>3. <<>> \in Seq(Nat) /\ run.pc \in Looping
  BY <1>1 DEF Looping
<1>. QED
  BY <1>1, <1>2, <1>3, Logging DEF Sound

LEMMA CallSound == ASSUME ScanInv, Scan!CallAgent PROVE Sound
<1>1. run.pc = "call" /\ run.pc \in Looping /\ UNCHANGED snapshot
  BY DEF Scan!CallAgent, Looping
<1> DEFINE a == agent[HostOf[Scan!Here]]
<1>2. CASE ~ a.active /\ Scan!Raise
  BY <1>1, <1>2, Raising DEF Sound, Reason
<1>3. CASE UNCHANGED job /\ Scan!LogThen(Scan!Rows(run.asked, "ERROR"), "next", <<>>, <<>>)
  <2>1. <<>> \in Seq(Nat)
    OBVIOUS
  <2>. QED
    BY <1>1, <1>3, <2>1, Logging DEF Sound
<1>4. ASSUME UNCHANGED job, NEW findings \in AgentFinds[HostOf[Scan!Here]],
             Scan!LogThen(Scan!Rows(run.asked, "SUCCESS"), "next", Scan!Wanted(findings, Scan!ToSet(run.asked)), <<>>)
      PROVE  Sound
  <2>1. HostOf[Scan!Here] \in Hosts
    BY <1>1, HereIsAsked, ScansAssumption DEF ScansAssumption, Scan!ScanAssumption
  <2>2. findings \in Seq(Scan!ToSet(findings))
    BY <2>1, ScansAssumption DEF ScansAssumption, Scan!ScanAssumption
  <2>3. \E S : Scan!Wanted(findings, Scan!ToSet(run.asked)) \in Seq(S)
    BY <2>2, WantedIsSequence
  <2>. QED
    BY <1>1, <1>4, <2>3, Logging DEF Sound
<1>. QED
  BY <1>2, <1>3, <1>4 DEF Scan!CallAgent

LEMMA PersistSnapshotSound == ASSUME ScanInv, Scan!PersistSnapshot PROVE Sound
<1>1. run.pc = "persist" /\ job # "COMPLETED" /\ run.at = 0
  BY NotOver DEF Scan!PersistSnapshot, ScanInv, WorkerTyped
<1>2. CASE job = "GONE"
  BY <1>1, <1>2, Raising DEF Scan!PersistSnapshot, Sound, Reason
<1>3. CASE job # "GONE"
  <2>1. /\ snapshot' = [made |-> TRUE, rows |-> <<>>, scored |-> 0] /\ job' = job
        /\ run'.pc = "assets" /\ run'.i = run.i /\ run'.then = run.then /\ run'.found = run.found /\ run'.at = run.at
        /\ DOMAIN run' = DOMAIN run
    BY <1>3 DEF Scan!PersistSnapshot, Scan!NoSnapshot, Scan!Goto, ScanInv, WorkerTyped
  <2>2. WorkerTyped'
    BY <2>1 DEF ScanInv, WorkerTyped, Looping
  <2>3. SnapshotTyped'
    <3>1. <<>> \in Seq(Nat)
      OBVIOUS
    <3>. QED
      BY <2>1, <3>1 DEF SnapshotTyped
  <2>4. \A k \in Scan!Firsts(run.found) : ~ (k <= 0)
    <3>1. \A k \in DOMAIN run.found : k \in Nat \ {0}
      BY DEF ScanInv, WorkerTyped
    <3>. QED
      BY <3>1 DEF Scan!Firsts
  <2>5. RowsAreFirsts'
    BY <1>1, <2>1, <2>4 DEF RowsAreFirsts
  <2>6. Filling'
    BY <2>1, <2>5 DEF Filling
  <2>. QED
    BY <1>1, <2>1, <2>2, <2>3, <2>6 DEF Sound, ScanInv
<1>. QED
  BY <1>2, <1>3

\* A row is what its first observation says, seen by whoever saw it.
LEMMA MergedRow ==
    ASSUME NEW s, NEW k
    PROVE  /\ Scan!Merged(s, k).ref = s[k].ref /\ Scan!Merged(s, k).print = s[k].print
           /\ \A i \in DOMAIN s : Scan!Key(s[i]) = Scan!Key(s[k]) => s[i].kinds \subseteq Scan!Merged(s, k).kinds
<1> DEFINE seenBy == UNION {s[j].kinds : j \in {i \in DOMAIN s : Scan!Key(s[i]) = Scan!Key(s[k])}}
<1>1. Scan!Merged(s, k) = [ref |-> s[k].ref, print |-> s[k].print, kinds |-> seenBy]
  BY DEF Scan!Merged
<1>2. \A i \in DOMAIN s : Scan!Key(s[i]) = Scan!Key(s[k]) => s[i].kinds \subseteq seenBy
  OBVIOUS
<1> HIDE DEF seenBy
<1>. QED
  BY <1>1, <1>2

\* Of two firsts that do not claim one bom_ref the rows are not the same.
LEMMA FirstsDiffer ==
    ASSUME NEW s, NEW k \in Scan!Firsts(s), NEW n \in Scan!Firsts(s), DOMAIN s \subseteq Nat \ {0}, k < n
    PROVE  /\ s[k].ref = s[n].ref => s[k].print # s[n].print
           /\ s[k].ref # s[n].ref => /\ ~ Scan!Same(Scan!Merged(s, k), Scan!Merged(s, n))
                                     /\ ~ Scan!Same(Scan!Merged(s, n), Scan!Merged(s, k))
<1>1. k \in 1 .. n - 1
  BY DEF Scan!Firsts
<1>2. Scan!Key(s[k]) # Scan!Key(s[n])
  BY <1>1 DEF Scan!Firsts
<1>3. s[k].ref = s[n].ref => s[k].print # s[n].print
  BY <1>2 DEF Scan!Key
<1>4. s[k].print = s[n].print => s[k].print = NoPrint
  BY <1>2 DEF Scan!Key
<1>5. /\ Scan!Same(Scan!Merged(s, k), Scan!Merged(s, n)) =>
           IF NoPrint \in {s[k].print, s[n].print} THEN s[k].ref = s[n].ref ELSE s[k].print = s[n].print
      /\ Scan!Same(Scan!Merged(s, n), Scan!Merged(s, k)) =>
           IF NoPrint \in {s[k].print, s[n].print} THEN s[k].ref = s[n].ref ELSE s[k].print = s[n].print
  BY MergedRow DEF Scan!Same
<1>. QED
  BY <1>3, <1>4, <1>5

\* One row more.
LEMMA Appending ==
    ASSUME NEW s, \E S : s \in Seq(S), NEW e
    PROVE  /\ \E S : Append(s, e) \in Seq(S)
           /\ Len(s) \in Nat /\ Len(Append(s, e)) = Len(s) + 1
           /\ DOMAIN s = 1 .. Len(s) /\ DOMAIN Append(s, e) = 1 .. Len(s) + 1
           /\ \A j \in DOMAIN s : Append(s, e)[j] = s[j]
           /\ Append(s, e)[Len(s) + 1] = e
<1>1. PICK S : s \in Seq(S)
  OBVIOUS
<1>2. s \in Seq(S \cup {e}) /\ e \in S \cup {e}
  BY <1>1
<1>3. Append(s, e) \in Seq(S \cup {e})
  BY <1>2
<1>4. /\ Len(s) \in Nat /\ Len(Append(s, e)) = Len(s) + 1
      /\ DOMAIN s = 1 .. Len(s) /\ DOMAIN Append(s, e) = 1 .. Len(s) + 1
      /\ \A j \in DOMAIN s : Append(s, e)[j] = s[j]
      /\ Append(s, e)[Len(s) + 1] = e
  BY <1>2
<1>. QED
  BY <1>3, <1>4

LEMMA RowsGrow ==
    ASSUME ScanInv, RowsAreFirsts, NEW n \in Scan!Firsts(run.found), n > run.at,
           \A m \in Scan!Firsts(run.found) : m > run.at => n <= m,
           \A i \in DOMAIN snapshot.rows : snapshot.rows[i].ref # run.found[n].ref,
           snapshot'.rows = Append(snapshot.rows, Scan!Merged(run.found, n)),
           run'.found = run.found, run'.at = n
    PROVE  RowsAreFirsts'
<1> DEFINE s == run.found
           rows == snapshot.rows
           new == Scan!Merged(s, n)
<1>1. DOMAIN s \subseteq Nat \ {0} /\ run.at \in Nat
  BY DEF ScanInv, WorkerTyped
<1>2. \A k \in Scan!Firsts(s) : k \in Nat \ {0}
  BY <1>1 DEF Scan!Firsts
<1>3. /\ Len(rows) \in Nat /\ DOMAIN rows = 1 .. Len(rows)
      /\ DOMAIN snapshot'.rows = 1 .. Len(rows) + 1
      /\ \A j \in DOMAIN rows : snapshot'.rows[j] = rows[j]
      /\ snapshot'.rows[Len(rows) + 1] = new
  BY Appending DEF ScanInv, SnapshotTyped
<1>4. \A k \in Scan!Firsts(s) : k <= n => k <= run.at \/ k = n
  BY <1>1, <1>2
<1>5. ASSUME NEW k \in Scan!Firsts(s), k <= n
      PROVE  \E j \in DOMAIN snapshot'.rows : snapshot'.rows[j] = Scan!Merged(s, k)
  <2>1. CASE k <= run.at
    <3>1. PICK j \in DOMAIN rows : rows[j] = Scan!Merged(s, k)
      BY <2>1 DEF RowsAreFirsts
    <3>. QED
      BY <1>3, <3>1
  <2>2. CASE k = n
    BY <1>3, <2>2
  <2>. QED
    BY <1>4, <1>5, <2>1, <2>2
<1>6. ASSUME NEW j \in DOMAIN rows
      PROVE  \E k \in Scan!Firsts(s) : k <= run.at /\ rows[j] = Scan!Merged(s, k)
  BY DEF RowsAreFirsts
<1>7. ASSUME NEW j \in DOMAIN snapshot'.rows
      PROVE  \E k \in Scan!Firsts(s) : k <= n /\ snapshot'.rows[j] = Scan!Merged(s, k)
  <2>1. CASE j \in DOMAIN rows
    <3>1. PICK k \in Scan!Firsts(s) : k <= run.at /\ rows[j] = Scan!Merged(s, k)
      BY <1>6, <2>1
    <3>2. k <= n
      BY <1>1, <1>2, <3>1
    <3>. QED
      BY <1>3, <2>1, <3>1, <3>2
  <2>2. CASE j = Len(rows) + 1
    BY <1>2, <1>3, <2>2
  <2>. QED
    BY <1>3, <2>1, <2>2
<1>8. ASSUME NEW j \in DOMAIN rows
      PROVE  ~ Scan!Same(rows[j], new) /\ ~ Scan!Same(new, rows[j])
  <2>1. PICK k \in Scan!Firsts(s) : k <= run.at /\ rows[j] = Scan!Merged(s, k)
    BY <1>6
  <2>2. k < n
    BY <1>1, <1>2, <2>1
  <2>3. s[k].ref # s[n].ref
    BY <2>1, MergedRow
  <2>. QED
    BY <1>1, <2>1, <2>2, <2>3, FirstsDiffer
<1>9. ASSUME NEW i \in DOMAIN snapshot'.rows, NEW j \in DOMAIN snapshot'.rows,
             Scan!Same(snapshot'.rows[i], snapshot'.rows[j])
      PROVE  i = j
  <2>1. CASE i \in DOMAIN rows /\ j \in DOMAIN rows
    BY <1>3, <1>9, <2>1 DEF RowsAreFirsts
  <2>2. CASE i \in DOMAIN rows /\ j = Len(rows) + 1
    BY <1>3, <1>8, <1>9, <2>2
  <2>3. CASE i = Len(rows) + 1 /\ j \in DOMAIN rows
    BY <1>3, <1>8, <1>9, <2>3
  <2>. QED
    BY <1>3, <2>1, <2>2, <2>3
<1>10. \A k \in Scan!Firsts(run'.found) : k <= run'.at =>
           \E j \in DOMAIN snapshot'.rows : snapshot'.rows[j] = Scan!Merged(run'.found, k)
  BY <1>5
<1>11. \A j \in DOMAIN snapshot'.rows :
           \E k \in Scan!Firsts(run'.found) : k <= run'.at /\ snapshot'.rows[j] = Scan!Merged(run'.found, k)
  BY <1>7
<1>12. \A i, j \in DOMAIN snapshot'.rows : Scan!Same(snapshot'.rows[i], snapshot'.rows[j]) => i = j
  BY <1>9
<1>. QED
  BY <1>10, <1>11, <1>12 DEF RowsAreFirsts

LEMMA PersistAssetSound == ASSUME ScanInv, Scan!PersistAsset PROVE Sound
<1>1. run.pc = "assets" /\ job # "COMPLETED" /\ run.at \in Nat
  BY NotOver DEF Scan!PersistAsset, ScanInv, WorkerTyped
<1>2. \A k \in Scan!Firsts(run.found) : k \in Nat \ {0} /\ k \in DOMAIN run.found
  BY DEF ScanInv, WorkerTyped, Scan!Firsts
<1>3. job # "GONE" => snapshot.made /\ RowsAreFirsts
  BY <1>1 DEF ScanInv, Filling, Storing
<1>4. CASE /\ {i \in Scan!Firsts(run.found) : i > run.at} = {}
           /\ Scan!Goto("score") /\ UNCHANGED <<job, snapshot>>
  <2>1. /\ run'.pc = "score" /\ run'.i = run.i /\ run'.then = run.then /\ run'.found = run.found
        /\ run'.at = run.at /\ DOMAIN run' = DOMAIN run
    BY <1>4 DEF Scan!Goto, ScanInv, WorkerTyped
  <2>2. \A k \in Scan!Firsts(run.found) : k <= run.at
    BY <1>1, <1>2, <1>4
  <2>3. WorkerTyped' /\ SnapshotTyped'
    BY <1>4, <2>1 DEF ScanInv, WorkerTyped, SnapshotTyped, Looping
  <2>4. RowsAreFirsts => RowsAreFirsts'
    BY <1>4, <2>1 DEF RowsAreFirsts
  <2>5. Filling'
    BY <1>3, <1>4, <2>1, <2>2, <2>4 DEF Filling
  <2>. QED
    BY <1>1, <1>4, <2>1, <2>3, <2>5 DEF Sound, ScanInv
<1>5. ASSUME NEW n \in Scan!Firsts(run.found), n > run.at,
             \A m \in Scan!Firsts(run.found) : m > run.at => n <= m,
             \A i \in DOMAIN snapshot.rows : snapshot.rows[i].ref # run.found[n].ref,
             snapshot' = [snapshot EXCEPT !.rows = Append(@, Scan!Merged(run.found, n))],
             run' = [run EXCEPT !.at = n], UNCHANGED job
      PROVE  Sound
  <2>1. /\ run'.pc = "assets" /\ run'.i = run.i /\ run'.then = run.then /\ run'.found = run.found
        /\ run'.at = n /\ DOMAIN run' = DOMAIN run
    BY <1>1, <1>5 DEF ScanInv, WorkerTyped
  <2>2. /\ snapshot'.made = snapshot.made /\ snapshot'.scored = snapshot.scored
        /\ snapshot'.rows = Append(snapshot.rows, Scan!Merged(run.found, n))
        /\ DOMAIN snapshot' = DOMAIN snapshot
    BY <1>5 DEF ScanInv, SnapshotTyped
  <2>3. WorkerTyped'
    BY <1>2, <2>1 DEF ScanInv, WorkerTyped, Looping
  <2>4. SnapshotTyped'
    <3>1. /\ \E S : snapshot'.rows \in Seq(S)
          /\ Len(snapshot.rows) \in Nat /\ Len(snapshot'.rows) = Len(snapshot.rows) + 1
      BY <2>2, Appending DEF ScanInv, SnapshotTyped
    <3>. QED
      BY <2>2, <3>1 DEF ScanInv, SnapshotTyped
  <2>5. RowsAreFirsts => RowsAreFirsts'
    BY <1>5, <2>1, <2>2, RowsGrow
  <2>6. Filling'
    BY <1>3, <1>5, <2>1, <2>2, <2>5 DEF Filling
  <2>. QED
    BY <1>1, <1>5, <2>1, <2>3, <2>4, <2>6 DEF Sound, ScanInv
<1>6. ASSUME NEW n \in Scan!Firsts(run.found), n > run.at, Scan!Raise, UNCHANGED snapshot,
             ~ (/\ snapshot.made /\ target[run.found[n].target]
                /\ \A i \in DOMAIN snapshot.rows : snapshot.rows[i].ref # run.found[n].ref)
      PROVE  Sound
  <2>1. ScanInv'
    BY <1>1, <1>6, Raising
  <2>2. SUFFICES ASSUME job # "GONE" PROVE Reason
    BY <2>1 DEF Sound, Reason
  <2>3. CASE ~ target[run.found[n].target]
    BY <1>2, <2>3 DEF Reason, ScanInv, WorkerTyped
  <2>4. ASSUME NEW i \in DOMAIN snapshot.rows, snapshot.rows[i].ref = run.found[n].ref
        PROVE  Reason
    <3>1. PICK k \in Scan!Firsts(run.found) : k <= run.at /\ snapshot.rows[i] = Scan!Merged(run.found, k)
      BY <1>3, <2>2 DEF RowsAreFirsts
    <3>2. k < n /\ run.found[k].ref = run.found[n].ref
      BY <1>1, <1>2, <1>6, <2>4, <3>1, MergedRow
    <3>3. DOMAIN run.found \subseteq Nat \ {0}
      BY DEF ScanInv, WorkerTyped
    <3>4. run.found[k].print # run.found[n].print
      BY <3>2, <3>3, FirstsDiffer
    <3>5. run.found[k] \in Scan!ToSet(run.found) /\ run.found[n] \in Scan!ToSet(run.found)
      BY <1>2 DEF Scan!ToSet
    <3>. QED
      BY <3>2, <3>4, <3>5 DEF Reason, Scan!Collision
  <2>. QED
    BY <1>3, <1>6, <2>2, <2>3, <2>4
<1>. QED
  BY <1>4, <1>5, <1>6 DEF Scan!PersistAsset

LEMMA ScoreSound == ASSUME ScanInv, Scan!Score PROVE Sound
<1>1. run.pc = "score" /\ job # "COMPLETED"
  BY NotOver DEF Scan!Score
<1>2. job # "GONE" => snapshot.made
  BY <1>1 DEF ScanInv, Filling, Storing
<1>3. CASE snapshot.scored = Len(snapshot.rows) /\ Scan!Goto("close") /\ UNCHANGED <<job, snapshot>>
  <2>1. /\ run'.pc = "close" /\ run'.i = run.i /\ run'.then = run.then /\ run'.found = run.found
        /\ run'.at = run.at /\ DOMAIN run' = DOMAIN run
    BY <1>3 DEF Scan!Goto, ScanInv, WorkerTyped
  <2>2. WorkerTyped' /\ SnapshotTyped'
    BY <1>3, <2>1 DEF ScanInv, WorkerTyped, SnapshotTyped, Looping
  <2>3. RowsAreFirsts => RowsAreFirsts'
    BY <1>3, <2>1 DEF RowsAreFirsts
  <2>4. Filling'
    BY <1>1, <1>3, <2>1, <2>3 DEF ScanInv, Filling, Storing
  <2>. QED
    BY <1>1, <1>3, <2>1, <2>2, <2>4 DEF Sound, ScanInv
<1>4. CASE /\ snapshot.scored < Len(snapshot.rows)
           /\ snapshot' = [snapshot EXCEPT !.scored = @ + 1] /\ UNCHANGED <<job, run>>
  <2>1. /\ snapshot'.made = snapshot.made /\ snapshot'.scored = snapshot.scored + 1
        /\ snapshot'.rows = snapshot.rows /\ DOMAIN snapshot' = DOMAIN snapshot
    BY <1>4 DEF ScanInv, SnapshotTyped
  <2>2. WorkerTyped'
    BY <1>4 DEF ScanInv, WorkerTyped
  <2>3. SnapshotTyped'
    <3>1. Len(snapshot.rows) \in Nat
      BY DEF ScanInv, SnapshotTyped
    <3>. QED
      BY <1>4, <2>1, <3>1 DEF ScanInv, SnapshotTyped
  <2>4. RowsAreFirsts => RowsAreFirsts'
    BY <1>4, <2>1 DEF RowsAreFirsts
  <2>5. Filling'
    BY <1>1, <1>4, <2>1, <2>4 DEF ScanInv, Filling
  <2>. QED
    BY <1>1, <1>4, <2>2, <2>3, <2>5 DEF Sound, ScanInv
<1>5. CASE ~ snapshot.made /\ Scan!Raise /\ UNCHANGED snapshot
  BY <1>1, <1>2, <1>5, Raising DEF Sound, Reason
<1>. QED
  BY <1>3, <1>4, <1>5 DEF Scan!Score

LEMMA CloseSound == ASSUME ScanInv, Scan!Close PROVE Sound
<1>1. run.pc = "close" /\ job # "COMPLETED" /\ UNCHANGED snapshot
  BY NotOver DEF Scan!Close
<1>2. CASE job = "GONE"
  BY <1>1, <1>2, Raising DEF Scan!Close, Sound, Reason
<1>3. CASE job # "GONE"
  <2>1. /\ run'.pc = "done" /\ run'.i = run.i /\ run'.then = run.then /\ run'.found = run.found
        /\ run'.at = run.at /\ DOMAIN run' = DOMAIN run
    BY <1>3 DEF Scan!Close, Scan!Goto, ScanInv, WorkerTyped
  <2>2. WorkerTyped' /\ SnapshotTyped'
    BY <1>1, <2>1 DEF ScanInv, WorkerTyped, SnapshotTyped, Looping
  <2>3. RowsAreFirsts => RowsAreFirsts'
    BY <1>1, <2>1 DEF RowsAreFirsts
  <2>4. Filling'
    BY <1>1, <1>3, <2>1, <2>3 DEF ScanInv, Filling, Storing
  <2>. QED
    BY <2>1, <2>2, <2>4 DEF Sound, ScanInv
<1>. QED
  BY <1>2, <1>3

\* Requests beside the scan, and a kill.
LEMMA OthersSound == ASSUME ScanInv, Scan!Others \/ Scan!Kill PROVE ScanInv' /\ (run.pc # "raised" => run'.pc # "raised")
<1>1. ASSUME NEW S, Scan!DeleteTargets(S) PROVE UNCHANGED <<run, snapshot, job>>
  BY <1>1 DEF Scan!DeleteTargets
<1>2. ASSUME NEW h, NEW wired, NEW can, Scan!RegisterAgent(h, wired, can) PROVE UNCHANGED <<run, snapshot, job>>
  BY <1>2 DEF Scan!RegisterAgent, Scan!Idle
<1>3. ASSUME NEW h, NEW heard, Scan!Heartbeat(h, heard) \/ Scan!DeactivateAgent(h) PROVE UNCHANGED <<run, snapshot, job>>
  BY <1>3 DEF Scan!Heartbeat, Scan!DeactivateAgent, Scan!Idle
<1>4. CASE Scan!CancelJob \/ Scan!ListForReset
  <2>1. UNCHANGED <<run, snapshot>> /\ (job' # job => job = "RUNNING" /\ job' = "CANCELLED")
    BY <1>4 DEF Scan!CancelJob, Scan!ListForReset, Scan!Idle
  <2>. QED
    BY <2>1, ScanRests
<1>5. CASE Scan!DeleteListed
  <2>1. /\ UNCHANGED run /\ job' = "GONE"
        /\ snapshot' \in {snapshot, [made |-> FALSE, rows |-> <<>>, scored |-> 0]}
    BY <1>5 DEF Scan!DeleteListed, Scan!NoSnapshot
  <2>2. SnapshotTyped'
    <3>1. CASE snapshot' = [made |-> FALSE, rows |-> <<>>, scored |-> 0]
      <4>1. <<>> \in Seq(Nat)
        OBVIOUS
      <4>. QED
        BY <3>1, <4>1 DEF SnapshotTyped
    <3>2. CASE snapshot' = snapshot
      BY <3>2 DEF ScanInv, SnapshotTyped
    <3>. QED
      BY <2>1, <3>1, <3>2
  <2>3. WorkerTyped'
    BY <2>1 DEF ScanInv, WorkerTyped
  <2>. QED
    BY <2>1, <2>2, <2>3 DEF ScanInv, Filling
<1>6. CASE Scan!Kill
  <2>1. /\ Scan!Goto("killed") /\ UNCHANGED <<job, snapshot>> /\ run.pc # "done"
    BY <1>6 DEF Scan!Kill, Scan!Over
  <2>2. ScanInv'
    BY <2>1, Going, NotOver DEF Looping
  <2>3. run'.pc = "killed"
    BY <2>1 DEF Scan!Goto, ScanInv, WorkerTyped
  <2>. QED
    BY <2>2, <2>3
<1>7. CASE UNCHANGED <<run, snapshot, job>>
  BY <1>7, ScanRests
<1>. QED
  BY <1>1, <1>2, <1>3, <1>4, <1>5, <1>6, <1>7 DEF Scan!Others

LEMMA ScanNext ==
    ASSUME ScanInv, [Scan!Next]_scanVars
    PROVE  ScanInv' /\ (run'.pc = "raised" /\ run.pc # "raised" => Reason)
<1>1. CASE UNCHANGED scanVars
  <2>1. UNCHANGED <<run, snapshot, job>>
    BY <1>1 DEF scanVars
  <2>. QED
    BY <2>1, ScanRests
<1>2. CASE Scan!Work
  <2>1. Sound
    BY <1>2, ReadTargetsSound, NetworkSound, WriteLogSound, ProgressSound, AgentsSound, CallSound,
       NextTargetSound, PersistSnapshotSound, PersistAssetSound, ScoreSound, CloseSound DEF Scan!Work
  <2>. QED
    BY <2>1 DEF Sound
<1>3. CASE Scan!Others \/ Scan!Kill
  BY <1>3, OthersSound
<1>. QED
  BY <1>1, <1>2, <1>3 DEF Scan!Next

\* Each candidate has a first with its key.
LEMMA FirstOfKey ==
    ASSUME NEW s, DOMAIN s \subseteq Nat \ {0}, \A i \in DOMAIN s : 1 .. i \subseteq DOMAIN s, NEW i \in DOMAIN s
    PROVE  \E k \in Scan!Firsts(s) : Scan!Key(s[k]) = Scan!Key(s[i])
<1> DEFINE K == {j \in DOMAIN s : Scan!Key(s[j]) = Scan!Key(s[i])}
<1>1. K \subseteq Nat /\ K # {}
  OBVIOUS
<1>2. PICK k \in K : \A j \in K : k <= j
  BY <1>1, LeastOf, Zenon
<1>3. ASSUME NEW j \in 1 .. k - 1 PROVE Scan!Key(s[j]) # Scan!Key(s[k])
  <2>1. j \in DOMAIN s /\ j < k /\ k \in Nat /\ j \in Nat
    BY <1>2
  <2>2. j \notin K
    BY <1>2, <2>1
  <2>. QED
    BY <1>2, <2>1, <2>2
<1>. QED
  BY <1>2, <1>3 DEF Scan!Firsts

LEMMA ScannedWhole == ASSUME ScanInv PROVE Scan!CompletedIsWhole
<1>1. SUFFICES ASSUME job = "COMPLETED" PROVE
        /\ snapshot.made /\ snapshot.scored = Len(snapshot.rows)
        /\ \A i \in DOMAIN run.found :
              \E r \in Scan!ToSet(snapshot.rows) : Scan!Same(r, run.found[i]) /\ run.found[i].kinds \subseteq r.kinds
        /\ \A i, j \in DOMAIN snapshot.rows : Scan!Same(snapshot.rows[i], snapshot.rows[j]) => i = j
  BY DEF Scan!CompletedIsWhole
<1>2. /\ snapshot.made /\ snapshot.scored = Len(snapshot.rows) /\ RowsAreFirsts
      /\ \A k \in Scan!Firsts(run.found) : k <= run.at
  BY <1>1 DEF ScanInv, Filling, Storing
<1>3. ASSUME NEW i \in DOMAIN run.found
      PROVE  \E r \in Scan!ToSet(snapshot.rows) : Scan!Same(r, run.found[i]) /\ run.found[i].kinds \subseteq r.kinds
  <2>1. /\ DOMAIN run.found \subseteq Nat \ {0}
        /\ \A j \in DOMAIN run.found : 1 .. j \subseteq DOMAIN run.found
    <3>1. PICK S : run.found \in Seq(S)
      BY DEF ScanInv, WorkerTyped
    <3>2. DOMAIN run.found = 1 .. Len(run.found) /\ Len(run.found) \in Nat
      BY <3>1
    <3>. QED
      BY <3>2
  <2>2. PICK k \in Scan!Firsts(run.found) : Scan!Key(run.found[k]) = Scan!Key(run.found[i])
    BY <2>1, FirstOfKey
  <2>3. PICK j \in DOMAIN snapshot.rows : snapshot.rows[j] = Scan!Merged(run.found, k)
    BY <1>2, <2>2 DEF RowsAreFirsts
  <2> DEFINE r == Scan!Merged(run.found, k)
  <2>4. r.ref = run.found[k].ref /\ r.print = run.found[k].print /\ run.found[i].kinds \subseteq r.kinds
    BY <2>2, MergedRow
  <2>5. /\ run.found[k].print # NoPrint => run.found[k].print = run.found[i].print
        /\ run.found[k].print = NoPrint => run.found[i].print = NoPrint /\ run.found[k].ref = run.found[i].ref
    BY <2>2 DEF Scan!Key
  <2>6. r \in Scan!ToSet(snapshot.rows)
    BY <2>3 DEF Scan!ToSet
  <2> HIDE DEF r
  <2>7. Scan!Same(r, run.found[i])
    BY <2>4, <2>5 DEF Scan!Same
  <2>. QED
    BY <2>4, <2>6, <2>7
<1>4. \A i, j \in DOMAIN snapshot.rows : Scan!Same(snapshot.rows[i], snapshot.rows[j]) => i = j
  BY <1>2 DEF RowsAreFirsts
<1>. QED
  BY <1>2, <1>3, <1>4

-----------------------------------------------------------------------------
(* Sequences of sets.                                                      *)

\* The sequence of a finite set holds each of its members once.
LEMMA SequenceOfEach ==
    ASSUME NEW S, IsFiniteSet(S)
    PROVE  /\ Scan!SetToSeq(S) \in Seq(S) /\ Len(Scan!SetToSeq(S)) = Cardinality(S)
           /\ Scan!ToSet(Scan!SetToSeq(S)) = S
           /\ \A m, n \in DOMAIN Scan!SetToSeq(S) : Scan!SetToSeq(S)[m] = Scan!SetToSeq(S)[n] => m = n
<1> DEFINE N == Cardinality(S)
           g == Scan!SetToSeq(S)
<1>1. N \in Nat /\ ExistsBijection(1 .. N, S)
  BY FS_CardinalityType
<1>2. Scan!Cardinality(S) = N
  BY DEF Scan!Cardinality, Cardinality
<1>3. \E f \in [1 .. N -> S] : Scan!IsInjective(f)
  BY <1>1 DEF ExistsBijection, Bijection, Injection, Scan!IsInjective, IsInjective
<1>4. g = CHOOSE f \in [1 .. N -> S] : Scan!IsInjective(f)
  BY <1>2 DEF Scan!SetToSeq
<1>5. g \in [1 .. N -> S] /\ Scan!IsInjective(g)
  BY <1>3, <1>4
<1> HIDE DEF g
<1>6. g \in Injection(1 .. N, S)
  BY <1>5 DEF Injection, Scan!IsInjective, IsInjective
<1>7. Cardinality(1 .. N) = N
  BY <1>1, FS_Interval
<1>8. g \in Surjection(1 .. N, S)
  BY <1>6, <1>7, FS_Injection
<1>9. Scan!ToSet(g) = S
  BY <1>5, <1>8 DEF Surjection, Scan!ToSet
<1> HIDE DEF N
<1>10. g \in Seq(S) /\ Len(g) = N
  BY <1>1, <1>5
<1>11. \A m, n \in DOMAIN g : g[m] = g[n] => m = n
  BY <1>5 DEF Scan!IsInjective
<1>. QED
  BY <1>9, <1>10, <1>11 DEF g, N

-----------------------------------------------------------------------------
(* The scanners asked for.                                                 *)

\* A request names each scanner once.
DistinctScanners == \A m, n \in DOMAIN Scanners : Scanners[m] = Scanners[n] => m = n

PerTarget == Len(Scanners)
AgentList == Scan!Selected(Scan!AgentKinds)

LEMMA ScanAssumed ==
    /\ Scanners \in Seq(STRING) /\ TargetIds \in Seq(Targets) /\ TargetIds # <<>>
    /\ HostOf \in [Targets -> Hosts] /\ NoTarget \notin Targets
    /\ DOMAIN Scanners = 1 .. PerTarget /\ PerTarget \in Nat
    /\ \A S : Scan!Cardinality(S) = Cardinality(S)
<1>1. Scanners \in Seq(STRING) /\ TargetIds \in Seq(Targets) /\ TargetIds # <<>>
  BY ScansAssumption DEF ScansAssumption, Scan!ScanAssumption
<1>2. HostOf \in [Targets -> Hosts] /\ NoTarget \notin Targets
  BY ScansAssumption DEF ScansAssumption, Scan!ScanAssumption
<1>3. \A S : Scan!Cardinality(S) = Cardinality(S)
  BY DEF Scan!Cardinality, Cardinality
<1>. QED
  BY <1>1, <1>2, <1>3 DEF PerTarget

\* The places of these kinds among the scanners.
PlacesOf(kinds) == {n \in DOMAIN Scanners : Scanners[n] \in kinds}

LEMMA SelectedOnes ==
    ASSUME NEW kinds
    PROVE  /\ IsFiniteSet(PlacesOf(kinds)) /\ Cardinality(PlacesOf(kinds)) \in Nat
           /\ Scan!Selected(kinds) \in Seq(kinds \cap Scan!ToSet(Scanners))
           /\ Len(Scan!Selected(kinds)) = Cardinality(PlacesOf(kinds))
           /\ Scan!ToSet(Scan!Selected(kinds)) = kinds \cap Scan!ToSet(Scanners)
           /\ DistinctScanners =>
                 \A m, n \in DOMAIN Scan!Selected(kinds) : Scan!Selected(kinds)[m] = Scan!Selected(kinds)[n] => m = n
<1> DEFINE P == PlacesOf(kinds)
           N == Cardinality(P)
           s == Scan!Selected(kinds)
<1>1. P \in SUBSET (DOMAIN Scanners)
  BY DEF PlacesOf
<1>2. s = Keep(Scanners, P)
  <2>1. Scan!Keep(Scanners, P) = Keep(Scanners, P)
    BY DEF Scan!Keep, Keep, Scan!Cardinality, Cardinality
  <2>. QED
    BY <2>1 DEF Scan!Selected, PlacesOf
<1>3. /\ IsFiniteSet(P) /\ N \in Nat
      /\ Keep(Scanners, P) \in Seq(STRING) /\ Len(Keep(Scanners, P)) = N
      /\ \E g \in Bijection(1 .. N, P) : \A n \in 1 .. N : Keep(Scanners, P)[n] = Scanners[g[n]]
  BY <1>1, ScanAssumed, Kept
<1> HIDE DEF s, P, N
<1>4. s \in Seq(STRING) /\ Len(s) = N /\ DOMAIN s = 1 .. N
  BY <1>2, <1>3
<1>5. PICK g \in Bijection(1 .. N, P) : \A n \in 1 .. N : s[n] = Scanners[g[n]]
  BY <1>2, <1>3
<1>6. /\ \A n \in 1 .. N : g[n] \in P /\ s[n] \in kinds \cap Scan!ToSet(Scanners)
      /\ \A m, n \in 1 .. N : g[m] = g[n] => m = n
      /\ \A i \in P : \E n \in 1 .. N : g[n] = i
  BY <1>5 DEF Bijection, Injection, Surjection, IsInjective, P, PlacesOf, Scan!ToSet
<1>7. s \in Seq(kinds \cap Scan!ToSet(Scanners))
  BY <1>3, <1>4, <1>6
<1>8. Scan!ToSet(s) = kinds \cap Scan!ToSet(Scanners)
  <2>1. Scan!ToSet(s) \subseteq kinds \cap Scan!ToSet(Scanners)
    BY <1>4, <1>6 DEF Scan!ToSet
  <2>2. ASSUME NEW k \in kinds \cap Scan!ToSet(Scanners) PROVE k \in Scan!ToSet(s)
    <3>1. PICK i \in P : Scanners[i] = k
      BY DEF Scan!ToSet, P, PlacesOf
    <3>2. PICK n \in 1 .. N : g[n] = i
      BY <1>6
    <3>. QED
      BY <1>4, <1>5, <3>1, <3>2 DEF Scan!ToSet
  <2>. QED
    BY <2>1, <2>2
<1>9. DistinctScanners => \A m, n \in DOMAIN s : s[m] = s[n] => m = n
  <2> SUFFICES ASSUME DistinctScanners, NEW m \in DOMAIN s, NEW n \in DOMAIN s, s[m] = s[n] PROVE m = n
    OBVIOUS
  <2>1. g[m] \in DOMAIN Scanners /\ g[n] \in DOMAIN Scanners /\ Scanners[g[m]] = Scanners[g[n]]
    BY <1>1, <1>4, <1>5, <1>6
  <2>. QED
    BY <1>4, <1>6, <2>1 DEF DistinctScanners
<1>. QED
  BY <1>3, <1>4, <1>7, <1>8, <1>9 DEF s, P, N

\* As many kinds as places of them, if none is named twice; never more.
LEMMA KindsAndPlaces ==
    ASSUME NEW kinds \in SUBSET Scan!ToSet(Scanners)
    PROVE  /\ IsFiniteSet(kinds) /\ Cardinality(kinds) \in Nat
           /\ Cardinality(kinds) <= Cardinality(PlacesOf(kinds))
           /\ DistinctScanners => Cardinality(kinds) = Cardinality(PlacesOf(kinds))
<1> DEFINE f == [n \in PlacesOf(kinds) |-> Scanners[n]]
<1>1. IsFiniteSet(PlacesOf(kinds))
  BY SelectedOnes
<1>2. f \in Surjection(PlacesOf(kinds), kinds)
  <2>1. f \in [PlacesOf(kinds) -> kinds]
    BY DEF PlacesOf
  <2>2. \A k \in kinds : \E n \in PlacesOf(kinds) : f[n] = k
    BY DEF PlacesOf, Scan!ToSet
  <2>. QED
    BY <2>1, <2>2 DEF Surjection
<1>3. DistinctScanners => f \in Injection(PlacesOf(kinds), kinds)
  BY <1>2 DEF Surjection, Injection, IsInjective, DistinctScanners, PlacesOf
<1>4. IsFiniteSet(kinds) /\ Cardinality(kinds) <= Cardinality(PlacesOf(kinds))
  BY <1>1, <1>2, FS_Surjection
<1>5. DistinctScanners => Cardinality(kinds) = Cardinality(PlacesOf(kinds))
  BY <1>1, <1>2, <1>3, FS_Surjection
<1>. QED
  BY <1>4, <1>5, FS_CardinalityType

\* The network scanner's row and those of the agent are the rows of a target.
LEMMA RowsOfATarget ==
    /\ Len(AgentList) \in Nat
    /\ Scan!Network \notin Scan!ToSet(Scanners) => Len(AgentList) = PerTarget
    /\ Scan!Network \in Scan!ToSet(Scanners) =>
          /\ 1 + Len(AgentList) <= PerTarget
          /\ DistinctScanners => 1 + Len(AgentList) = PerTarget
<1> DEFINE A == PlacesOf(Scan!AgentKinds)
           B == PlacesOf({Scan!Network})
<1>1. /\ IsFiniteSet(A) /\ IsFiniteSet(B) /\ Cardinality(A) \in Nat /\ Cardinality(B) \in Nat
      /\ Len(AgentList) = Cardinality(A)
  BY SelectedOnes DEF AgentList
<1>2. A \cup B = 1 .. PerTarget /\ A \cap B = {}
  BY ScanAssumed DEF PlacesOf, Scan!AgentKinds, Scan!ToSet
<1>3. Cardinality(A \cup B) = Cardinality(A) + Cardinality(B) - Cardinality({})
  <2> HIDE DEF A, B
  <2>1. Cardinality(A \cup B) = Cardinality(A) + Cardinality(B) - Cardinality(A \cap B)
    BY <1>1, FS_Union
  <2>. QED
    BY <1>2, <2>1, Zenon
<1>4. Cardinality({}) = 0 /\ Cardinality(1 .. PerTarget) = PerTarget
  BY ScanAssumed, FS_EmptySet, FS_Interval
<1>5. PerTarget = Len(AgentList) + Cardinality(B)
  <2>1. Cardinality(A \cup B) = PerTarget
    BY <1>2, <1>4, Zenon
  <2> HIDE DEF A, B
  <2>. QED
    BY <1>1, <1>3, <1>4, <2>1
<1>6. CASE Scan!Network \notin Scan!ToSet(Scanners)
  <2>1. B = {}
    BY <1>6 DEF PlacesOf, Scan!ToSet
  <2>2. Cardinality(B) = 0
    BY <1>4, <2>1, Zenon
  <2> HIDE DEF A, B
  <2>. QED
    BY <1>1, <1>5, <1>6, <2>2
<1>7. CASE Scan!Network \in Scan!ToSet(Scanners)
  <2>1. Cardinality({Scan!Network}) = 1
    BY FS_Singleton
  <2>2. {Scan!Network} \in SUBSET Scan!ToSet(Scanners)
    BY <1>7
  <2>3. 1 <= Cardinality(B) /\ (DistinctScanners => Cardinality(B) = 1)
    BY <1>1, <2>1, <2>2, KindsAndPlaces
  <2>. QED
    BY <1>1, <1>5, <1>7, <2>3, ScanAssumed
<1>. QED
  BY <1>6, <1>7

\* The skipped and the supported scanners are those of the agent.
LEMMA SkippedAndSupported ==
    ASSUME NEW asked, asked \in Seq(Scan!AgentKinds), NEW able,
           asked = Scan!Selected(Scan!AgentKinds \cap able) \/ asked = <<>>,
           NEW rows, rows = Scan!SetToSeq(Scan!AgentKinds \ Scan!ToSet(asked))
    PROVE  /\ rows \in Seq(Scan!AgentKinds) /\ Scan!ToSet(rows) = Scan!AgentKinds \ Scan!ToSet(asked)
           /\ \A m, n \in DOMAIN rows : rows[m] = rows[n] => m = n
           /\ Len(rows) \in Nat /\ Len(asked) \in Nat
           /\ Len(rows) + Len(asked) <= Len(AgentList)
           /\ DistinctScanners =>
                 /\ Len(rows) + Len(asked) = Len(AgentList)
                 /\ \A m, n \in DOMAIN asked : asked[m] = asked[n] => m = n
<1> DEFINE all == Scan!AgentKinds
           K == Scan!ToSet(asked)
           A == PlacesOf(K)
           B == PlacesOf(all \ K)
<1>1. all \subseteq Scan!ToSet(Scanners) /\ K \subseteq all
  BY DEF Scan!AgentKinds, Scan!ToSet
<1>2. /\ IsFiniteSet(all \ K) /\ Cardinality(all \ K) \in Nat
      /\ Cardinality(all \ K) <= Cardinality(B)
      /\ DistinctScanners => Cardinality(all \ K) = Cardinality(B)
  BY <1>1, KindsAndPlaces
<1>3. /\ rows \in Seq(all \ K) /\ Len(rows) = Cardinality(all \ K) /\ Scan!ToSet(rows) = all \ K
      /\ \A m, n \in DOMAIN rows : rows[m] = rows[n] => m = n
  BY <1>2, SequenceOfEach
<1>4. /\ IsFiniteSet(A) /\ IsFiniteSet(B) /\ Cardinality(A) \in Nat /\ Cardinality(B) \in Nat
      /\ Len(AgentList) = Cardinality(PlacesOf(all))
  BY SelectedOnes DEF AgentList
<1>5. Cardinality(PlacesOf(all)) = Cardinality(A) + Cardinality(B)
  <2>1. A \cup B = PlacesOf(all) /\ A \cap B = {}
    BY <1>1 DEF PlacesOf
  <2>2. Cardinality(A \cup B) = Cardinality(A) + Cardinality(B) - Cardinality({})
    BY <1>4, <2>1, FS_Union
  <2>3. Cardinality(PlacesOf(all)) = Cardinality(A) + Cardinality(B) - Cardinality({})
    BY <2>1, <2>2, Zenon
  <2>4. Cardinality({}) = 0
    BY FS_EmptySet
  <2> HIDE DEF A, B, all
  <2>. QED
    BY <1>4, <2>3, <2>4
<1>6. Len(asked) = Cardinality(A) /\ (DistinctScanners => \A m, n \in DOMAIN asked : asked[m] = asked[n] => m = n)
  <2>1. CASE asked = <<>>
    <3>1. A = {}
      BY <2>1 DEF PlacesOf, Scan!ToSet
    <3>. QED
      BY <2>1, <3>1, FS_EmptySet
  <2>2. CASE asked = Scan!Selected(all \cap able)
    <3>1. K = (all \cap able) \cap Scan!ToSet(Scanners)
      BY <2>2, SelectedOnes
    <3>2. A = PlacesOf(all \cap able)
      BY <3>1 DEF PlacesOf, Scan!ToSet
    <3>. QED
      BY <2>2, <3>2, SelectedOnes
  <2>. QED
    BY <2>1, <2>2
<1>7. rows \in Seq(all)
  BY <1>3
<1> HIDE DEF A, B, K, all
<1>8. Len(rows) + Len(asked) <= Len(AgentList) /\ Len(rows) \in Nat /\ Len(asked) \in Nat
  BY <1>2, <1>3, <1>4, <1>5, <1>6
<1>9. DistinctScanners => Len(rows) + Len(asked) = Len(AgentList)
  BY <1>2, <1>3, <1>4, <1>5, <1>6
<1>. QED
  BY <1>3, <1>6, <1>7, <1>8, <1>9 DEF K, all

-----------------------------------------------------------------------------
(* What is written and what is still to be written.                        *)

Counting == Looping \cup {"start"}
Stored   == Storing \cup {"persist"}

\* How many rows of this target follow the rows that wait, and of which scanners.
OwedAfter(then, asked) ==
    IF then = "agents" THEN Len(AgentList) ELSE IF then = "call" THEN Len(asked) ELSE 0
UnloggedAfter(then, asked) ==
    IF then = "agents" THEN Scan!AgentKinds ELSE IF then = "call" THEN Scan!ToSet(asked) ELSE {}

\* The scanners of these rows.
Waiting(rows) == {rows[n].scanner : n \in DOMAIN rows}

\* How many rows of this target are to be written, and of which scanners.
Owed ==
    IF run.pc \in {"start", "network"} THEN PerTarget
    ELSE IF run.pc = "agents" THEN Len(AgentList)
    ELSE IF run.pc = "call" THEN Len(run.asked)
    ELSE IF run.pc \in {"log", "progress"} THEN Len(run.todo) + OwedAfter(run.then, run.asked)
    ELSE 0
Unlogged ==
    IF run.pc \in {"start", "network"} THEN Scan!ToSet(Scanners)
    ELSE IF run.pc = "agents" THEN Scan!AgentKinds
    ELSE IF run.pc = "call" THEN Scan!ToSet(run.asked)
    ELSE IF run.pc = "log" THEN Waiting(run.todo) \cup UnloggedAfter(run.then, run.asked)
    ELSE IF run.pc = "progress" THEN Waiting(Tail(run.todo)) \cup UnloggedAfter(run.then, run.asked)
    ELSE {}

\* The rows of a scanner on a target, and the requests of a target before this one.
RowsOf(t, k) == {n \in DOMAIN logs : logs[n].target = t /\ logs[n].scanner = k}
Before(t)    == {n \in DOMAIN TargetIds : n < run.i /\ TargetIds[n] = t}
Beyond(t, k) == IF run.pc \in Counting /\ t = Scan!Here /\ k \notin Unlogged THEN 1 ELSE 0

ListTyped ==
    /\ logs \in Seq(Scan!LogRow) /\ progress \in Nat
    /\ run.asked \in Seq(Scan!AgentKinds) /\ run.todo \in Seq(Scan!LogRow)
    /\ run.pc \in {"log", "progress"} =>
          /\ run.todo # <<>> /\ run.then \in {"agents", "call", "next"}
          /\ \A n \in DOMAIN run.todo : run.todo[n].target = Scan!Here

\* The bar never runs past its end, whatever the request names twice.
BarInv ==
    /\ run.pc \in Counting => progress + Owed <= run.i * PerTarget
    /\ progress <= Scan!Total

\* No scanner waits twice.
Once ==
    /\ \A m, n \in DOMAIN run.asked : run.asked[m] = run.asked[n] => m = n
    /\ run.pc \in {"log", "progress"} =>
          /\ \A m, n \in DOMAIN run.todo : run.todo[m].scanner = run.todo[n].scanner => m = n
          /\ Waiting(run.todo) \cap UnloggedAfter(run.then, run.asked) = {}

\* Between a row and its progress the bar lags by one.
BarExact ==
    /\ run.pc \in Counting => progress + Owed = run.i * PerTarget
    /\ run.pc \in Stored => progress = Scan!Total /\ run.i = Len(TargetIds) + 1
    /\ run.pc \in Counting \cup Stored =>
          Len(logs) = IF run.pc = "progress" THEN progress + 1 ELSE progress
RowsExact ==
    run.pc \in Counting \cup Stored =>
        \A t \in Targets, k \in Scan!ToSet(Scanners) :
            target[t] => Cardinality(RowsOf(t, k)) = Cardinality(Before(t)) + Beyond(t, k)

CountInv ==
    /\ ListTyped /\ BarInv
    /\ DistinctScanners => Once /\ (job # "GONE" => BarExact /\ RowsExact)

LEMMA CountInit == ASSUME Scan!Init PROVE CountInv
<1>1. /\ run.pc = "start" /\ run.then = "start" /\ run.i = 1 /\ run.asked = <<>> /\ run.todo = <<>>
      /\ progress = 0 /\ logs = <<>>
  BY DEF Scan!Init
<1>2. PerTarget \in Nat /\ Len(TargetIds) \in Nat \ {0}
  BY ScanAssumed
<1>3. Scan!Total = Len(TargetIds) * PerTarget /\ Scan!Total \in Nat
  BY <1>2 DEF Scan!Total, PerTarget
<1>4. ListTyped
  BY <1>1 DEF ListTyped
<1>5. BarInv
  BY <1>1, <1>2, <1>3 DEF BarInv, Owed
<1>6. Once
  BY <1>1 DEF Once
<1>7. BarExact
  BY <1>1, <1>2 DEF BarExact, Owed, Stored, Storing
<1>8. RowsExact
  <2>1. \A t, k : RowsOf(t, k) = {}
    BY <1>1 DEF RowsOf
  <2>2. \A t : Before(t) = {}
    BY <1>1 DEF Before
  <2>3. \A t : \A k \in Scan!ToSet(Scanners) : Beyond(t, k) = 0
    BY <1>1 DEF Beyond, Unlogged
  <2>4. \A t, k : Cardinality(RowsOf(t, k)) = 0 /\ Cardinality(Before(t)) = 0
    BY <2>1, <2>2, FS_EmptySet, Zenon
  <2>5. \A t : \A k \in Scan!ToSet(Scanners) : Cardinality(RowsOf(t, k)) = Cardinality(Before(t)) + Beyond(t, k)
    BY <2>3, <2>4
  <2>. QED
    BY <2>5 DEF RowsExact
<1>. QED
  BY <1>4, <1>5, <1>6, <1>7, <1>8 DEF CountInv

\* The worker goes on to what it owes the same rows.
LEMMA CountGoesOn ==
    ASSUME CountInv, UNCHANGED <<logs, progress, target>>, job' # "GONE" => job # "GONE",
           run.pc \in Counting, run.pc # "progress", run'.pc \in Counting, run'.pc # "progress",
           run'.i = run.i, ListTyped', Owed' <= Owed, Owed \in Nat, Owed' \in Nat, run.i \in Nat,
           DistinctScanners => Once' /\ Owed' = Owed /\ Unlogged' = Unlogged
    PROVE  CountInv'
<1>1. Scan!Here' = Scan!Here
  BY DEF Scan!Here
<1>2. BarInv'
  <2>1. run.i * PerTarget \in Nat /\ progress \in Nat
    BY ScanAssumed DEF CountInv, ListTyped
  <2>2. progress' + Owed' <= run'.i * PerTarget
    BY <2>1 DEF CountInv, BarInv
  <2>. QED
    BY <2>2 DEF CountInv, BarInv, Scan!Total
<1>3. ASSUME DistinctScanners, job' # "GONE" PROVE BarExact' /\ RowsExact'
  <2>1. BarExact /\ RowsExact /\ Owed' = Owed /\ Unlogged' = Unlogged
    BY <1>3 DEF CountInv
  <2>2. run'.pc \notin Stored
    BY DEF Counting, Looping, Stored, Storing
  <2>3. BarExact'
    BY <2>1, <2>2 DEF BarExact
  <2>4. \A t, k : RowsOf(t, k)' = RowsOf(t, k) /\ Before(t)' = Before(t) /\ Beyond(t, k)' = Beyond(t, k)
    BY <1>1, <2>1 DEF RowsOf, Before, Beyond
  <2>5. RowsExact'
    BY <2>1, <2>4 DEF RowsExact
  <2>. QED
    BY <2>3, <2>5
<1>. QED
  BY <1>2, <1>3 DEF CountInv

\* The worker stops: nothing is owed any more.
LEMMA CountStops ==
    ASSUME CountInv, UNCHANGED <<logs, progress>>, run'.pc \in {"raised", "killed"},
           run'.asked = run.asked, run'.todo = run.todo
    PROVE  CountInv'
<1>1. run'.pc \notin Counting \cup Stored /\ run'.pc \notin {"log", "progress"}
  BY DEF Counting, Looping, Stored, Storing
<1>2. ListTyped' /\ BarInv'
  BY <1>1 DEF CountInv, ListTyped, BarInv, Scan!Total
<1>3. DistinctScanners => Once'
  BY <1>1 DEF CountInv, Once
<1>. QED
  BY <1>1, <1>2, <1>3 DEF CountInv, BarExact, RowsExact

LEMMA CountRaises ==
    ASSUME ScanInv, CountInv, Scan!Raise, UNCHANGED <<logs, progress>>
    PROVE  CountInv'
<1>1. run'.pc = "raised" /\ run'.asked = run.asked /\ run'.todo = run.todo
  BY DEF Scan!Raise, ScanInv, WorkerTyped
<1>. QED
  BY <1>1, CountStops

\* The rows the worker makes are rows of this target, one of each scanner.
LEMMA RowsMade ==
    ASSUME ScanInv, run.pc \in Looping, NEW kinds \in Seq(Scan!ToSet(Scanners)),
           NEW status \in {"SUCCESS", "ERROR", "SKIPPED"}
    PROVE  /\ Scan!Rows(kinds, status) \in Seq(Scan!LogRow) /\ Len(Scan!Rows(kinds, status)) = Len(kinds)
           /\ DOMAIN Scan!Rows(kinds, status) = DOMAIN kinds
           /\ \A n \in DOMAIN kinds :
                 Scan!Rows(kinds, status)[n].target = Scan!Here /\ Scan!Rows(kinds, status)[n].scanner = kinds[n]
           /\ Waiting(Scan!Rows(kinds, status)) = Scan!ToSet(kinds)
<1> DEFINE rows == Scan!Rows(kinds, status)
<1>1. Scan!Here \in Targets
  BY HereIsAsked
<1>2. DOMAIN kinds = 1 .. Len(kinds) /\ Len(kinds) \in Nat /\ \A n \in DOMAIN kinds : kinds[n] \in Scan!ToSet(Scanners)
  OBVIOUS
<1>3. /\ DOMAIN rows = DOMAIN kinds
      /\ \A n \in DOMAIN kinds : rows[n] = [target |-> Scan!Here, scanner |-> kinds[n], status |-> status]
  BY DEF Scan!Rows
<1>4. rows \in [1 .. Len(kinds) -> Scan!LogRow]
  BY <1>1, <1>2 DEF Scan!Rows, Scan!LogRow
<1> HIDE DEF rows
<1>5. rows \in Seq(Scan!LogRow) /\ Len(rows) = Len(kinds)
  BY <1>2, <1>4
<1>6. Waiting(rows) = Scan!ToSet(kinds)
  BY <1>3 DEF Waiting, Scan!ToSet
<1>. QED
  BY <1>3, <1>5, <1>6 DEF rows

\* Rows to write first, then what the worker goes on to: together what it owed.
LEMMA CountLogs ==
    ASSUME ScanInv, CountInv, run.pc \in {"network", "agents", "call"}, NEW kinds \in Seq(Scan!ToSet(Scanners)),
           NEW status \in {"SUCCESS", "ERROR", "SKIPPED"}, NEW to \in {"agents", "call", "next"}, NEW added,
           NEW asked \in Seq(Scan!AgentKinds), Scan!LogThen(Scan!Rows(kinds, status), to, added, asked),
           UNCHANGED <<job, logs, progress, target>>,
           Len(kinds) + OwedAfter(to, asked) <= Owed, Owed \in Nat,
           DistinctScanners =>
              /\ Len(kinds) + OwedAfter(to, asked) = Owed
              /\ Scan!ToSet(kinds) \cup UnloggedAfter(to, asked) = Unlogged
              /\ Scan!ToSet(kinds) \cap UnloggedAfter(to, asked) = {}
              /\ \A m, n \in DOMAIN kinds : kinds[m] = kinds[n] => m = n
              /\ \A m, n \in DOMAIN asked : asked[m] = asked[n] => m = n
    PROVE  CountInv'
<1> DEFINE rows == Scan!Rows(kinds, status)
<1>1. run.pc \in Looping /\ run.pc \in Counting /\ run.pc # "progress"
  BY DEF Looping, Counting
<1>2. /\ rows \in Seq(Scan!LogRow) /\ Len(rows) = Len(kinds) /\ DOMAIN rows = DOMAIN kinds
      /\ \A n \in DOMAIN kinds : rows[n].target = Scan!Here /\ rows[n].scanner = kinds[n]
      /\ Waiting(rows) = Scan!ToSet(kinds)
  BY <1>1, RowsMade
<1>3. /\ run'.pc = (IF rows = <<>> THEN to ELSE "log") /\ run'.todo = rows /\ run'.then = to
      /\ run'.asked = asked /\ run'.i = run.i
  BY DEF Scan!LogThen, ScanInv, WorkerTyped
<1> HIDE DEF rows
<1>4. Len(rows) \in Nat /\ (rows = <<>> => Len(rows) = 0 /\ Waiting(rows) = {})
  BY <1>2 DEF Waiting
<1>5. OwedAfter(to, asked) \in Nat
  BY RowsOfATarget DEF OwedAfter
<1>6. Owed' = Len(rows) + OwedAfter(to, asked)
  <2>1. CASE rows = <<>>
    BY <1>3, <1>4, <1>5, <2>1 DEF Owed, OwedAfter, AgentList, Scan!Selected, Scan!AgentKinds, PerTarget
  <2>2. CASE rows # <<>>
    BY <1>3, <1>4, <1>5, <2>2 DEF Owed, OwedAfter, AgentList, Scan!Selected, Scan!AgentKinds, PerTarget
  <2>. QED
    BY <2>1, <2>2
<1>7. Unlogged' = Waiting(rows) \cup UnloggedAfter(to, asked)
  <2>1. CASE rows = <<>>
    BY <1>3, <1>4, <2>1 DEF Unlogged, UnloggedAfter, Scan!AgentKinds
  <2>2. CASE rows # <<>>
    BY <1>3, <1>4, <2>2 DEF Unlogged, UnloggedAfter, Waiting, Scan!AgentKinds
  <2>. QED
    BY <2>1, <2>2
<1>8. ListTyped'
  BY <1>2, <1>3 DEF CountInv, ListTyped, Scan!Here, Scan!LogRow, Scan!AgentKinds
<1>9. DistinctScanners => Once'
  BY <1>2, <1>3 DEF Once, Waiting, UnloggedAfter, Scan!AgentKinds
<1>10. run'.pc \in Counting /\ run'.pc # "progress"
  BY <1>3 DEF Counting, Looping
<1>11. run.i \in Nat
  BY DEF ScanInv, WorkerTyped
<1>12. Owed' <= Owed /\ Owed' \in Nat
  BY <1>2, <1>4, <1>5, <1>6
<1>13. DistinctScanners => Once' /\ Owed' = Owed /\ Unlogged' = Unlogged
  BY <1>2, <1>6, <1>7, <1>9
<1>. QED
  BY <1>1, <1>3, <1>8, <1>10, <1>11, <1>12, <1>13, CountGoesOn

-----------------------------------------------------------------------------
(* Every action of the worker.                                             *)

\* Where it goes without writing, what it holds stays.
LEMMA CountGoing ==
    ASSUME ScanInv, NEW to, Scan!Goto(to)
    PROVE  /\ run'.pc = to /\ run'.then = run.then /\ run'.i = run.i
           /\ run'.asked = run.asked /\ run'.todo = run.todo
BY DEF Scan!Goto, ScanInv, WorkerTyped

LEMMA CountReadTargets == ASSUME ScanInv, CountInv, Scan!ReadTargets PROVE CountInv'
<1>1. run.pc = "start" /\ UNCHANGED <<logs, progress, target>>
  BY DEF Scan!ReadTargets, Scan!World
<1>2. CASE Scan!Raise
  BY <1>1, <1>2, CountRaises
<1>3. CASE Scan!Goto("network") /\ UNCHANGED job
  <2>1. /\ run'.pc = "network" /\ run'.then = run.then /\ run'.i = run.i
        /\ run'.asked = run.asked /\ run'.todo = run.todo
    BY <1>3, CountGoing
  <2>2. run.pc \in Counting /\ run'.pc \in Counting /\ run.i \in Nat
    BY <1>1, <2>1 DEF Counting, Looping, ScanInv, WorkerTyped
  <2>3. ListTyped'
    BY <1>1, <2>1 DEF CountInv, ListTyped, Scan!LogRow, Scan!AgentKinds
  <2>4. Owed = PerTarget /\ Owed' = PerTarget /\ PerTarget \in Nat /\ Unlogged' = Unlogged
    BY <1>1, <2>1, ScanAssumed DEF Owed, Unlogged, PerTarget
  <2>5. DistinctScanners => Once'
    BY <2>1 DEF CountInv, Once
  <2>. QED
    BY <1>1, <1>3, <2>1, <2>2, <2>3, <2>4, <2>5, CountGoesOn
<1>. QED
  BY <1>2, <1>3 DEF Scan!ReadTargets

LEMMA CountNetwork == ASSUME ScanInv, CountInv, Scan!NetworkScan \/ Scan!NetworkError PROVE CountInv'
<1>1. /\ run.pc = "network" /\ UNCHANGED <<job, logs, progress, target>>
  BY DEF Scan!NetworkScan, Scan!NetworkError, Scan!World
<1>2. Owed = PerTarget /\ Owed \in Nat /\ Unlogged = Scan!ToSet(Scanners) /\ Len(AgentList) \in Nat
  BY <1>1, ScanAssumed, RowsOfATarget DEF Owed, Unlogged
<1>3. CASE Scan!Network \in Scan!ToSet(Scanners)
  <2> DEFINE kinds == <<Scan!Network>>
  <2>0. PICK status \in {"SUCCESS", "ERROR"} : \E added : Scan!LogThen(Scan!Rows(kinds, status), "agents", added, <<>>)
    BY <1>3 DEF Scan!NetworkScan, Scan!NetworkError
  <2>1. PICK added : Scan!LogThen(Scan!Rows(kinds, status), "agents", added, <<>>)
    BY <2>0
  <2>2. /\ kinds \in Seq(Scan!ToSet(Scanners)) /\ <<>> \in Seq(Scan!AgentKinds) /\ Len(kinds) = 1
        /\ DOMAIN kinds = 1 .. 1 /\ Scan!ToSet(kinds) = {Scan!Network}
    BY <1>3 DEF Scan!ToSet
  <2>3. OwedAfter("agents", <<>>) = Len(AgentList) /\ UnloggedAfter("agents", <<>>) = Scan!AgentKinds
    BY DEF OwedAfter, UnloggedAfter
  <2> HIDE DEF kinds
  <2>4. Len(kinds) + OwedAfter("agents", <<>>) <= Owed
    BY <1>2, <1>3, <2>2, <2>3, RowsOfATarget
  <2>5. DistinctScanners => Len(kinds) + OwedAfter("agents", <<>>) = Owed
    BY <1>2, <1>3, <2>2, <2>3, RowsOfATarget
  <2>6. /\ Scan!ToSet(kinds) \cup UnloggedAfter("agents", <<>>) = Unlogged
        /\ Scan!ToSet(kinds) \cap UnloggedAfter("agents", <<>>) = {}
    BY <1>2, <1>3, <2>2, <2>3 DEF Scan!AgentKinds
  <2>7. /\ \A m, n \in DOMAIN kinds : kinds[m] = kinds[n] => m = n
        /\ \A m, n \in DOMAIN <<>> : <<>>[m] = <<>>[n] => m = n
    BY <2>2
  <2>. QED
    BY <1>1, <1>2, <2>1, <2>2, <2>4, <2>5, <2>6, <2>7, CountLogs
<1>4. CASE Scan!Network \notin Scan!ToSet(Scanners)
  <2>1. /\ run'.pc = "agents" /\ run'.then = run.then /\ run'.i = run.i
        /\ run'.asked = run.asked /\ run'.todo = run.todo
    BY <1>4, CountGoing DEF Scan!NetworkScan, Scan!NetworkError
  <2>2. run.pc \in Counting /\ run'.pc \in Counting /\ run.i \in Nat
    BY <1>1, <2>1 DEF Counting, Looping, ScanInv, WorkerTyped
  <2>3. ListTyped'
    BY <1>1, <2>1 DEF CountInv, ListTyped, Scan!LogRow, Scan!AgentKinds
  <2>4. Owed' = Len(AgentList) /\ Owed' = Owed
    BY <1>2, <1>4, <2>1, RowsOfATarget DEF Owed, AgentList, Scan!Selected, Scan!AgentKinds
  <2>5. Unlogged' = Unlogged
    BY <1>2, <1>4, <2>1 DEF Unlogged, Scan!AgentKinds
  <2>6. DistinctScanners => Once'
    BY <2>1 DEF CountInv, Once
  <2>7. Owed' <= Owed /\ Owed' \in Nat
    BY <1>2, <2>4
  <2>. QED
    BY <1>1, <1>2, <2>1, <2>2, <2>3, <2>4, <2>5, <2>6, <2>7, CountGoesOn
<1>. QED
  BY <1>3, <1>4

LEMMA CountAgents == ASSUME ScanInv, CountInv, Scan!ChooseAgentScanners PROVE CountInv'
<1> DEFINE asked == Scan!Answering
           kinds == Scan!SetToSeq(Scan!AgentKinds \ Scan!ToSet(asked))
           to    == IF asked = <<>> THEN "next" ELSE "call"
<1>1. /\ run.pc = "agents" /\ UNCHANGED <<job, logs, progress, target>>
      /\ Scan!LogThen(Scan!Rows(kinds, "SKIPPED"), to, <<>>, asked)
  BY DEF Scan!ChooseAgentScanners, Scan!World
<1>2. Owed = Len(AgentList) /\ Owed \in Nat /\ Unlogged = Scan!AgentKinds
  BY <1>1, RowsOfATarget DEF Owed, Unlogged
<1>3. PICK able : asked = Scan!Selected(Scan!AgentKinds \cap able) \/ asked = <<>>
  BY DEF Scan!Answering
<1> HIDE DEF asked
<1>4. asked \in Seq(Scan!AgentKinds)
  <2>1. Scan!Selected(Scan!AgentKinds \cap able) \in Seq((Scan!AgentKinds \cap able) \cap Scan!ToSet(Scanners))
    BY SelectedOnes
  <2>2. Scan!Selected(Scan!AgentKinds \cap able) \in Seq(Scan!AgentKinds)
    BY <2>1
  <2>3. <<>> \in Seq(Scan!AgentKinds)
    OBVIOUS
  <2>. QED
    BY <1>3, <2>2, <2>3, Zenon
<1>5. /\ kinds \in Seq(Scan!AgentKinds) /\ Scan!ToSet(kinds) = Scan!AgentKinds \ Scan!ToSet(asked)
      /\ \A m, n \in DOMAIN kinds : kinds[m] = kinds[n] => m = n
      /\ Len(kinds) \in Nat /\ Len(asked) \in Nat
      /\ Len(kinds) + Len(asked) <= Len(AgentList)
      /\ DistinctScanners =>
            /\ Len(kinds) + Len(asked) = Len(AgentList)
            /\ \A m, n \in DOMAIN asked : asked[m] = asked[n] => m = n
  BY <1>3, <1>4, SkippedAndSupported
<1> HIDE DEF kinds
<1>6. kinds \in Seq(Scan!ToSet(Scanners))
  BY <1>5 DEF Scan!AgentKinds
<1>7. OwedAfter(to, asked) = Len(asked) /\ UnloggedAfter(to, asked) = Scan!ToSet(asked)
  <2>1. asked = <<>> => Len(asked) = 0 /\ Scan!ToSet(asked) = {}
    BY DEF Scan!ToSet
  <2>. QED
    BY <2>1 DEF OwedAfter, UnloggedAfter
<1>8. to \in {"agents", "call", "next"}
  OBVIOUS
<1> HIDE DEF to
<1>9. Len(kinds) + OwedAfter(to, asked) <= Owed
  BY <1>2, <1>5, <1>7
<1>10. Scan!ToSet(asked) \subseteq Scan!AgentKinds
  BY <1>4 DEF Scan!ToSet
<1>11. /\ Scan!ToSet(kinds) \cup UnloggedAfter(to, asked) = Unlogged
       /\ Scan!ToSet(kinds) \cap UnloggedAfter(to, asked) = {}
  BY <1>2, <1>5, <1>7, <1>10
<1>12. DistinctScanners =>
          /\ Len(kinds) + OwedAfter(to, asked) = Owed
          /\ \A m, n \in DOMAIN asked : asked[m] = asked[n] => m = n
  BY <1>2, <1>5, <1>7
<1>. QED
  BY <1>1, <1>2, <1>4, <1>5, <1>6, <1>8, <1>9, <1>11, <1>12, CountLogs

LEMMA CountCall == ASSUME ScanInv, CountInv, Scan!CallAgent PROVE CountInv'
<1>1. run.pc = "call" /\ UNCHANGED <<logs, progress, target>>
  BY DEF Scan!CallAgent, Scan!World
<1>2. CASE Scan!Raise
  BY <1>1, <1>2, CountRaises
<1>3. ASSUME NEW status \in {"SUCCESS", "ERROR"}, NEW added, UNCHANGED job,
             Scan!LogThen(Scan!Rows(run.asked, status), "next", added, <<>>)
      PROVE  CountInv'
  <2>1. run.asked \in Seq(Scan!AgentKinds) /\ <<>> \in Seq(Scan!AgentKinds)
    BY DEF CountInv, ListTyped
  <2>2. run.asked \in Seq(Scan!ToSet(Scanners)) /\ Len(run.asked) \in Nat
    BY <2>1 DEF Scan!AgentKinds
  <2>3. Owed = Len(run.asked) /\ Unlogged = Scan!ToSet(run.asked)
    BY <1>1 DEF Owed, Unlogged
  <2>4. OwedAfter("next", <<>>) = 0 /\ UnloggedAfter("next", <<>>) = {}
    BY DEF OwedAfter, UnloggedAfter
  <2>5. /\ DistinctScanners => \A m, n \in DOMAIN run.asked : run.asked[m] = run.asked[n] => m = n
        /\ \A m, n \in DOMAIN <<>> : <<>>[m] = <<>>[n] => m = n
    BY DEF CountInv, Once
  <2>6. /\ Scan!ToSet(run.asked) \cup UnloggedAfter("next", <<>>) = Unlogged
        /\ Scan!ToSet(run.asked) \cap UnloggedAfter("next", <<>>) = {}
        /\ Len(run.asked) + OwedAfter("next", <<>>) = Owed
        /\ Len(run.asked) + OwedAfter("next", <<>>) <= Owed /\ Owed \in Nat
    BY <2>2, <2>3, <2>4
  <2>. QED
    BY <1>1, <1>3, <2>1, <2>2, <2>5, <2>6, CountLogs
<1>. QED
  BY <1>2, <1>3 DEF Scan!CallAgent

LEMMA FiniteRows ==
    ASSUME CountInv, NEW t, NEW k
    PROVE  IsFiniteSet(RowsOf(t, k)) /\ Cardinality(RowsOf(t, k)) \in Nat
<1>1. logs \in Seq(Scan!LogRow)
  BY DEF CountInv, ListTyped
<1>2. RowsOf(t, k) \subseteq 1 .. Len(logs) /\ Len(logs) \in Nat
  BY <1>1 DEF RowsOf
<1>3. IsFiniteSet(1 .. Len(logs))
  BY <1>2, FS_Interval
<1>. QED
  BY <1>2, <1>3, FS_Subset, FS_CardinalityType

LEMMA FiniteBefore ==
    ASSUME NEW t PROVE IsFiniteSet(Before(t)) /\ Cardinality(Before(t)) \in Nat
<1>1. Before(t) \subseteq 1 .. Len(TargetIds) /\ Len(TargetIds) \in Nat
  BY ScanAssumed DEF Before
<1>2. IsFiniteSet(1 .. Len(TargetIds))
  BY <1>1, FS_Interval
<1>. QED
  BY <1>1, <1>2, FS_Subset, FS_CardinalityType

\* One more row of this target, of a scanner that had none yet.
LEMMA CountWriteLog == ASSUME ScanInv, CountInv, Scan!WriteLog PROVE CountInv'
<1>1. run.pc = "log" /\ UNCHANGED <<progress, target>>
  BY DEF Scan!WriteLog, Scan!World
<1>2. CASE Scan!Raise /\ UNCHANGED logs
  BY <1>1, <1>2, CountRaises
<1>3. CASE ~ (Scan!Raise /\ UNCHANGED logs)
  <2> DEFINE row == Head(run.todo)
  <2>1. /\ logs' = Append(logs, row) /\ job' = job /\ Scan!Goto("progress")
    BY <1>3 DEF Scan!WriteLog
  <2>2. /\ run'.pc = "progress" /\ run'.then = run.then /\ run'.i = run.i
        /\ run'.asked = run.asked /\ run'.todo = run.todo
    BY <2>1, CountGoing
  <2>3. /\ run.todo \in Seq(Scan!LogRow) /\ run.todo # <<>> /\ logs \in Seq(Scan!LogRow)
        /\ \A n \in DOMAIN run.todo : run.todo[n].target = Scan!Here
    BY <1>1 DEF CountInv, ListTyped
  <2>4. /\ row \in Scan!LogRow /\ row = run.todo[1] /\ 1 \in DOMAIN run.todo /\ row.target = Scan!Here
    BY <2>3
  <2>5. /\ DOMAIN Tail(run.todo) = 1 .. Len(run.todo) - 1 /\ DOMAIN run.todo = 1 .. Len(run.todo) /\ Len(run.todo) \in Nat
        /\ \A n \in DOMAIN Tail(run.todo) : Tail(run.todo)[n] = run.todo[n + 1]
    BY <2>3
  <2> HIDE DEF row
  <2>6. /\ logs' \in Seq(Scan!LogRow) /\ DOMAIN logs' = 1 .. Len(logs) + 1 /\ DOMAIN logs = 1 .. Len(logs)
        /\ Len(logs') = Len(logs) + 1 /\ Len(logs) \in Nat /\ logs'[Len(logs) + 1] = row
        /\ \A n \in DOMAIN logs : logs'[n] = logs[n]
    BY <2>1, <2>3, <2>4
  <2>7. Scan!Here' = Scan!Here
    BY <2>2 DEF Scan!Here
  <2>8. ListTyped'
    BY <1>1, <2>2, <2>6, <2>7 DEF CountInv, ListTyped, Scan!LogRow, Scan!AgentKinds
  <2>9. Owed' = Owed
    BY <1>1, <2>2 DEF Owed, OwedAfter, AgentList, Scan!Selected, Scan!AgentKinds
  <2>10. BarInv'
    BY <1>1, <2>2, <2>9 DEF CountInv, BarInv, Counting, Looping, Scan!Total
  <2>11. DistinctScanners => Once'
    BY <1>1, <2>2 DEF CountInv, Once, Waiting, UnloggedAfter, Scan!AgentKinds
  <2>12. ASSUME DistinctScanners, job # "GONE" PROVE BarExact' /\ RowsExact'
    <3>1. BarExact /\ RowsExact /\ Once
      BY <2>12 DEF CountInv
    <3>2. BarExact'
      BY <1>1, <2>2, <2>6, <2>9, <3>1 DEF BarExact, Counting, Stored, Looping, Storing
    <3>3. Waiting(run.todo) = {row.scanner} \cup Waiting(Tail(run.todo)) /\ row.scanner \notin Waiting(Tail(run.todo))
      <4>1. \A m, n \in DOMAIN run.todo : run.todo[m].scanner = run.todo[n].scanner => m = n
        BY <1>1, <3>1 DEF Once
      <4>2. \A n \in DOMAIN Tail(run.todo) : n + 1 \in DOMAIN run.todo /\ n + 1 # 1
        BY <2>5
      <4>3. \A n \in DOMAIN run.todo : n # 1 => n - 1 \in DOMAIN Tail(run.todo) /\ Tail(run.todo)[n - 1] = run.todo[n]
        BY <2>5
      <4>4. Waiting(Tail(run.todo)) \subseteq Waiting(run.todo) /\ row.scanner \notin Waiting(Tail(run.todo))
        <5>1. \A n \in DOMAIN Tail(run.todo) : Tail(run.todo)[n].scanner \in Waiting(run.todo)
          BY <2>5, <4>2 DEF Waiting
        <5>2. \A n \in DOMAIN Tail(run.todo) : Tail(run.todo)[n].scanner # row.scanner
          BY <2>4, <2>5, <4>1, <4>2
        <5>. QED
          BY <5>1, <5>2 DEF Waiting
      <4>5. Waiting(run.todo) \subseteq {row.scanner} \cup Waiting(Tail(run.todo))
        BY <2>4, <4>3 DEF Waiting
      <4>6. row.scanner \in Waiting(run.todo)
        BY <2>4 DEF Waiting
      <4>. QED
        BY <4>4, <4>5, <4>6
    <3>4. row.scanner \in Unlogged /\ Unlogged' = Unlogged \ {row.scanner}
      <4> DEFINE after == UnloggedAfter(run.then, run.asked)
      <4>1. Unlogged = Waiting(run.todo) \cup after
        BY <1>1 DEF Unlogged
      <4>2. Unlogged' = Waiting(Tail(run.todo)) \cup after
        BY <2>2 DEF Unlogged, UnloggedAfter, Waiting, Scan!AgentKinds
      <4>3. Waiting(run.todo) \cap after = {}
        BY <1>1, <3>1 DEF Once
      <4> HIDE DEF after
      <4>. QED
        BY <3>3, <4>1, <4>2, <4>3
    <3>5. run.pc \in Counting /\ run'.pc \in Counting
      BY <1>1, <2>2 DEF Counting, Looping
    <3>6. \A t : Before(t)' = Before(t)
      BY <2>2 DEF Before
    <3>7. ASSUME NEW t \in Targets, NEW k \in Scan!ToSet(Scanners), target[t]
          PROVE  Cardinality(RowsOf(t, k)') = Cardinality(Before(t)) + Beyond(t, k)'
      <4>1. Cardinality(RowsOf(t, k)) = Cardinality(Before(t)) + Beyond(t, k)
        BY <3>1, <3>5, <3>7 DEF RowsExact
      <4>2. /\ IsFiniteSet(RowsOf(t, k)) /\ Cardinality(RowsOf(t, k)) \in Nat /\ Cardinality(Before(t)) \in Nat
        BY FiniteRows, FiniteBefore
      <4>3. CASE t = Scan!Here /\ k = row.scanner
        <5>1. RowsOf(t, k)' = RowsOf(t, k) \cup {Len(logs) + 1} /\ Len(logs) + 1 \notin RowsOf(t, k)
          BY <2>4, <2>6, <4>3 DEF RowsOf
        <5>2. Cardinality(RowsOf(t, k)') = Cardinality(RowsOf(t, k)) + 1
          BY <4>2, <5>1, FS_AddElement
        <5>3. Beyond(t, k) = 0 /\ Beyond(t, k)' = 1
          BY <2>7, <3>4, <3>5, <4>3 DEF Beyond
        <5>. QED
          BY <4>1, <4>2, <5>2, <5>3
      <4>4. CASE ~ (t = Scan!Here /\ k = row.scanner)
        <5>1. RowsOf(t, k)' = RowsOf(t, k)
          BY <2>4, <2>6, <4>4 DEF RowsOf
        <5>2. Beyond(t, k)' = Beyond(t, k)
          BY <2>7, <3>4, <3>5, <4>4 DEF Beyond
        <5>. QED
          BY <4>1, <5>1, <5>2
      <4>. QED
        BY <4>3, <4>4
    <3>8. RowsExact'
      BY <1>1, <3>6, <3>7 DEF RowsExact
    <3>. QED
      BY <3>2, <3>8
  <2>. QED
    BY <2>1, <2>8, <2>10, <2>11, <2>12 DEF CountInv
<1>. QED
  BY <1>2, <1>3

\* The row logged last is off the list, the bar has caught up with it.
LEMMA CountProgress == ASSUME ScanInv, CountInv, Scan!Progress PROVE CountInv'
<1>1. /\ run.pc = "progress" /\ UNCHANGED <<job, logs, target>>
      /\ progress' = (IF job = "GONE" THEN progress ELSE progress + 1)
      /\ run'.todo = Tail(run.todo) /\ run'.pc = (IF Len(run.todo) = 1 THEN run.then ELSE "log")
      /\ run'.then = run.then /\ run'.i = run.i /\ run'.asked = run.asked
  BY DEF Scan!Progress, Scan!World, ScanInv, WorkerTyped
<1>2. /\ run.todo \in Seq(Scan!LogRow) /\ run.todo # <<>> /\ run.then \in {"agents", "call", "next"}
      /\ \A n \in DOMAIN run.todo : run.todo[n].target = Scan!Here
      /\ run.asked \in Seq(Scan!AgentKinds) /\ progress \in Nat /\ run.i \in Nat
  BY <1>1 DEF CountInv, ListTyped, ScanInv, WorkerTyped
<1>3. /\ Tail(run.todo) \in Seq(Scan!LogRow) /\ Len(Tail(run.todo)) = Len(run.todo) - 1 /\ Len(run.todo) \in Nat \ {0}
      /\ Len(run.todo) # 1 => Tail(run.todo) # <<>>
      /\ Len(run.todo) = 1 => Tail(run.todo) = <<>>
      /\ DOMAIN run.todo = 1 .. Len(run.todo) /\ DOMAIN Tail(run.todo) = 1 .. Len(run.todo) - 1
      /\ \A n \in DOMAIN Tail(run.todo) : n + 1 \in DOMAIN run.todo /\ Tail(run.todo)[n] = run.todo[n + 1]
  <2> DEFINE todo == run.todo
  <2>1. todo \in Seq(Scan!LogRow) /\ todo # <<>>
    BY <1>2
  <2> HIDE DEF todo
  <2>2. Tail(todo) \in Seq(Scan!LogRow) /\ Len(Tail(todo)) = Len(todo) - 1 /\ Len(todo) \in Nat \ {0}
    BY <2>1
  <2>3. DOMAIN todo = 1 .. Len(todo) /\ DOMAIN Tail(todo) = 1 .. Len(todo) - 1
    BY <2>1, <2>2
  <2>4. \A n \in DOMAIN Tail(todo) : n + 1 \in DOMAIN todo /\ Tail(todo)[n] = todo[n + 1]
    BY <2>1
  <2>5. (Len(todo) # 1 => Tail(todo) # <<>>) /\ (Len(todo) = 1 => Tail(todo) = <<>>)
    <3>1. \A s \in Seq(Scan!LogRow) : s = <<>> <=> Len(s) = 0
      OBVIOUS
    <3>2. Tail(todo) = <<>> <=> Len(Tail(todo)) = 0
      BY <2>2, <3>1
    <3> DEFINE n == Len(todo)
               m == Len(Tail(todo))
    <3>3. n \in Nat \ {0} /\ m = n - 1 /\ (Tail(todo) = <<>> <=> m = 0)
      BY <2>2, <3>2
    <3> HIDE DEF n, m
    <3>4. Tail(todo) = <<>> <=> n = 1
      BY <3>3
    <3>. QED
      BY <3>4 DEF n
  <2>. QED
    BY <2>2, <2>3, <2>4, <2>5 DEF todo
<1>4. Scan!Here' = Scan!Here /\ run'.pc \in {"log", "agents", "call", "next"} /\ (run'.pc = "log" <=> Len(run.todo) # 1)
  BY <1>1, <1>2 DEF Scan!Here
<1>5. run.pc \in Counting /\ run'.pc \in Counting /\ run'.pc # "progress" /\ run'.pc \notin Stored
  BY <1>1, <1>4 DEF Counting, Looping, Stored, Storing
<1>6. ListTyped'
  <2>1. \A n \in DOMAIN Tail(run.todo) : Tail(run.todo)[n].target = Scan!Here
    BY <1>2, <1>3
  <2>2. progress' \in Nat
    BY <1>1, <1>2
  <2>. QED
    BY <1>1, <1>2, <1>3, <1>4, <1>5, <2>1, <2>2 DEF CountInv, ListTyped, Scan!LogRow, Scan!AgentKinds
<1>7. OwedAfter(run.then, run.asked) \in Nat
  BY <1>2, RowsOfATarget DEF OwedAfter
<1>8. Owed' = Owed - 1 /\ Owed \in Nat /\ Owed' \in Nat
  <2>1. Owed = Len(run.todo) + OwedAfter(run.then, run.asked)
    BY <1>1 DEF Owed
  <2>2. CASE Len(run.todo) = 1
    <3>1. Owed' = OwedAfter(run.then, run.asked)
      BY <1>1, <1>2, <2>2 DEF Owed, OwedAfter, AgentList, Scan!Selected, Scan!AgentKinds
    <3>. QED
      BY <1>7, <2>1, <2>2, <3>1
  <2>3. CASE Len(run.todo) # 1
    <3>1. Owed' = Len(Tail(run.todo)) + OwedAfter(run.then, run.asked)
      BY <1>1, <2>3 DEF Owed, OwedAfter, AgentList, Scan!Selected, Scan!AgentKinds
    <3>. QED
      BY <1>3, <1>7, <2>1, <2>3, <3>1
  <2>. QED
    BY <2>2, <2>3
<1>9. Unlogged' = Unlogged
  <2>1. Unlogged = Waiting(Tail(run.todo)) \cup UnloggedAfter(run.then, run.asked)
    BY <1>1 DEF Unlogged
  <2>2. CASE Len(run.todo) = 1
    <3>1. Unlogged' = UnloggedAfter(run.then, run.asked)
      BY <1>1, <1>2, <2>2 DEF Unlogged, UnloggedAfter, Scan!AgentKinds
    <3>2. Waiting(Tail(run.todo)) = {}
      BY <1>3, <2>2 DEF Waiting
    <3>. QED
      BY <2>1, <3>1, <3>2
  <2>3. CASE Len(run.todo) # 1
    BY <1>1, <2>1, <2>3 DEF Unlogged, UnloggedAfter, Waiting, Scan!AgentKinds
  <2>. QED
    BY <2>2, <2>3
<1>10. BarInv'
  <2> DEFINE bound == run.i * PerTarget
  <2>1. bound \in Nat /\ progress + Owed <= bound
    BY <1>2, <1>5, ScanAssumed DEF CountInv, BarInv
  <2>2. bound <= Scan!Total /\ Scan!Total \in Nat
    <3>1. run.i \in 1 .. Len(TargetIds) /\ Len(TargetIds) \in Nat
      BY <1>1, ScanAssumed DEF ScanInv, WorkerTyped, Looping
    <3>2. \A a, b, c \in Nat : a <= b => a * c <= b * c /\ b * c \in Nat
      OBVIOUS
    <3>. QED
      BY <3>1, <3>2, ScanAssumed DEF Scan!Total, PerTarget
  <2> HIDE DEF bound
  <2>3. progress' + Owed' <= bound
    BY <1>1, <1>2, <1>8, <2>1
  <2>4. progress' <= Scan!Total
    <3>1. progress' \in Nat
      BY <1>1, <1>2
    <3>2. \A a, b, c, d \in Nat : a + b <= c /\ c <= d => a <= d
      OBVIOUS
    <3>. QED
      BY <1>8, <2>1, <2>2, <2>3, <3>1, <3>2
  <2>. QED
    BY <1>1, <2>3, <2>4 DEF BarInv, bound, Scan!Total, PerTarget
<1>11. DistinctScanners => Once'
  <2> SUFFICES ASSUME DistinctScanners PROVE Once'
    OBVIOUS
  <2>1. /\ \A m, n \in DOMAIN run.todo : run.todo[m].scanner = run.todo[n].scanner => m = n
        /\ Waiting(run.todo) \cap UnloggedAfter(run.then, run.asked) = {}
        /\ \A m, n \in DOMAIN run.asked : run.asked[m] = run.asked[n] => m = n
    BY <1>1 DEF CountInv, Once
  <2>2. \A m, n \in DOMAIN Tail(run.todo) : Tail(run.todo)[m].scanner = Tail(run.todo)[n].scanner => m = n
    BY <1>3, <2>1
  <2>3. Waiting(Tail(run.todo)) \subseteq Waiting(run.todo)
    BY <1>3 DEF Waiting
  <2>4. Waiting(Tail(run.todo)) \cap UnloggedAfter(run.then, run.asked) = {}
    BY <2>1, <2>3
  <2>5. Waiting(run.todo)' = Waiting(Tail(run.todo)) /\ UnloggedAfter(run.then, run.asked)' = UnloggedAfter(run.then, run.asked)
    BY <1>1 DEF Waiting, UnloggedAfter, Scan!AgentKinds
  <2>6. \A m, n \in DOMAIN run'.todo : run'.todo[m].scanner = run'.todo[n].scanner => m = n
    BY <1>1, <2>2
  <2>. QED
    BY <1>1, <2>1, <2>4, <2>5, <2>6 DEF Once
<1>12. ASSUME DistinctScanners, job # "GONE" PROVE BarExact' /\ RowsExact'
  <2>1. BarExact /\ RowsExact
    BY <1>12 DEF CountInv
  <2>2. progress' = progress + 1
    BY <1>1, <1>12
  <2>3. /\ progress + Owed = run.i * PerTarget /\ Len(logs) = progress + 1
    BY <1>1, <1>5, <2>1 DEF BarExact
  <2>4. progress' + Owed' = run.i * PerTarget
    BY <1>2, <1>8, <2>2, <2>3
  <2>5. BarExact'
    BY <1>1, <1>5, <2>2, <2>3, <2>4 DEF BarExact, PerTarget
  <2>6. \A t, k : RowsOf(t, k)' = RowsOf(t, k) /\ Before(t)' = Before(t) /\ Beyond(t, k)' = Beyond(t, k)
    BY <1>1, <1>4, <1>5, <1>9 DEF RowsOf, Before, Beyond
  <2>7. RowsExact'
    BY <1>1, <1>5, <2>1, <2>6 DEF RowsExact
  <2>. QED
    BY <2>5, <2>7
<1>. QED
  BY <1>1, <1>6, <1>10, <1>11, <1>12 DEF CountInv

\* Nothing is owed: on to the next target, or to the end.
LEMMA CountNextTarget == ASSUME ScanInv, CountInv, Scan!NextTarget PROVE CountInv'
<1>1. /\ run.pc = "next" /\ UNCHANGED <<job, logs, progress, target>>
      /\ run'.pc = (IF run.i < Len(TargetIds) THEN "network" ELSE "persist")
      /\ run'.i = run.i + 1 /\ run'.then = run.then /\ run'.asked = run.asked /\ run'.todo = run.todo
  BY DEF Scan!NextTarget, Scan!World, ScanInv, WorkerTyped
<1>2. run.i \in 1 .. Len(TargetIds) /\ Len(TargetIds) \in Nat /\ PerTarget \in Nat /\ progress \in Nat
  BY <1>1, ScanAssumed DEF ScanInv, WorkerTyped, Looping, CountInv, ListTyped
<1>3. Owed = 0 /\ Unlogged = {} /\ run.pc \in Counting
  BY <1>1 DEF Owed, Unlogged, Counting, Looping
<1>4. run.i * PerTarget \in Nat /\ (run.i + 1) * PerTarget = run.i * PerTarget + PerTarget
  BY <1>2
<1>5. progress + 0 <= run.i * PerTarget
  BY <1>3 DEF CountInv, BarInv
<1>6. run'.pc \in {"network", "persist"} /\ run'.pc \notin {"log", "progress"}
  BY <1>1
<1>7. Owed' = (IF run'.pc = "network" THEN PerTarget ELSE 0)
  BY <1>6 DEF Owed, PerTarget
<1>8. ListTyped'
  BY <1>1, <1>6 DEF CountInv, ListTyped, Scan!LogRow, Scan!AgentKinds
<1>9. BarInv'
  <2>1. run'.pc \in Counting => run'.pc = "network"
    BY <1>6 DEF Counting, Looping
  <2>2. progress + PerTarget <= (run.i + 1) * PerTarget
    BY <1>2, <1>4, <1>5
  <2>3. progress' + Owed' <= run'.i * PerTarget \/ run'.pc \notin Counting
    BY <1>1, <1>7, <2>1, <2>2
  <2>. QED
    BY <1>1, <2>3 DEF CountInv, BarInv, Scan!Total, PerTarget
<1>10. DistinctScanners => Once'
  BY <1>1, <1>6 DEF CountInv, Once
<1>11. ASSUME DistinctScanners, job # "GONE" PROVE BarExact' /\ RowsExact'
  <2>1. BarExact /\ RowsExact
    BY <1>11 DEF CountInv
  <2>2. progress = run.i * PerTarget /\ Len(logs) = progress
    BY <1>1, <1>2, <1>3, <2>1 DEF BarExact
  <2>3. BarExact'
    <3>1. CASE run'.pc = "network"
      <4>1. progress + PerTarget = (run.i + 1) * PerTarget
        BY <1>2, <1>4, <2>2
      <4>2. progress' + Owed' = run'.i * PerTarget
        BY <1>1, <1>7, <3>1, <4>1
      <4>. QED
        BY <1>1, <2>2, <3>1, <4>2 DEF BarExact, Stored, Storing, PerTarget
    <3>2. CASE run'.pc = "persist"
      <4>1. run.i = Len(TargetIds)
        BY <1>1, <1>2, <3>2
      <4>2. progress = Scan!Total
        BY <2>2, <4>1 DEF Scan!Total, PerTarget
      <4>. QED
        BY <1>1, <2>2, <3>2, <4>1, <4>2 DEF BarExact, Counting, Looping, Scan!Total
    <3>. QED
      BY <1>6, <3>1, <3>2
  <2>4. ASSUME NEW t \in Targets, NEW k \in Scan!ToSet(Scanners), target[t]
        PROVE  Cardinality(RowsOf(t, k)') = Cardinality(Before(t)') + Beyond(t, k)'
    <3>1. Cardinality(RowsOf(t, k)) = Cardinality(Before(t)) + (IF t = Scan!Here THEN 1 ELSE 0)
      BY <1>3, <2>1, <2>4 DEF RowsExact, Beyond
    <3>2. RowsOf(t, k)' = RowsOf(t, k)
      BY <1>1 DEF RowsOf
    <3>3. Beyond(t, k)' = 0
      <4>1. run'.pc \notin Counting \/ Unlogged' = Scan!ToSet(Scanners)
        BY <1>6 DEF Counting, Looping, Unlogged
      <4>. QED
        BY <4>1 DEF Beyond
    <3>4. IsFiniteSet(Before(t)) /\ Cardinality(Before(t)) \in Nat
      BY FiniteBefore
    <3>5. Cardinality(Before(t)') = Cardinality(Before(t)) + (IF t = Scan!Here THEN 1 ELSE 0)
      <4>1. DOMAIN TargetIds = 1 .. Len(TargetIds)
        BY ScanAssumed
      <4>2. CASE t = Scan!Here
        <5>1. Before(t)' = Before(t) \cup {run.i} /\ run.i \notin Before(t)
          BY <1>1, <1>2, <4>1, <4>2 DEF Before, Scan!Here
        <5>. QED
          BY <3>4, <4>2, <5>1, FS_AddElement
      <4>3. CASE t # Scan!Here
        <5>1. Before(t)' = Before(t)
          BY <1>1, <1>2, <4>1, <4>3 DEF Before, Scan!Here
        <5>. QED
          BY <3>4, <4>3, <5>1
      <4>. QED
        BY <4>2, <4>3
    <3>. QED
      BY <3>1, <3>2, <3>3, <3>4, <3>5
  <2>5. RowsExact'
    BY <1>1, <2>4 DEF RowsExact
  <2>. QED
    BY <2>3, <2>5
<1>. QED
  BY <1>1, <1>8, <1>9, <1>10, <1>11 DEF CountInv

\* Once all is written nothing more is, and the bar is full or is filled.
LEMMA CountStays ==
    ASSUME ScanInv, CountInv, UNCHANGED <<logs, target>>, progress' \in {progress, Scan!Total},
           job' # "GONE" => job # "GONE", run.pc \in Stored, run'.pc \in Stored,
           run'.i = run.i, run'.asked = run.asked, run'.todo = run.todo
    PROVE  CountInv'
<1>1. /\ run'.pc \notin {"log", "progress"} /\ run'.pc \notin Counting
      /\ run.pc \notin {"log", "progress"} /\ run.pc \notin Counting
  BY DEF Stored, Storing, Counting, Looping
<1>2. Scan!Total \in Nat
  BY ScanAssumed DEF Scan!Total, PerTarget
<1>3. ListTyped'
  BY <1>1, <1>2 DEF CountInv, ListTyped, Scan!LogRow, Scan!AgentKinds
<1>4. BarInv'
  BY <1>1, <1>2 DEF CountInv, BarInv, Scan!Total
<1>5. DistinctScanners => Once'
  BY <1>1 DEF CountInv, Once
<1>6. ASSUME DistinctScanners, job' # "GONE" PROVE BarExact' /\ RowsExact'
  <2>1. BarExact /\ RowsExact
    BY <1>6 DEF CountInv
  <2>2. BarExact'
    BY <1>1, <2>1 DEF BarExact, Scan!Total
  <2>3. \A t, k : RowsOf(t, k)' = RowsOf(t, k) /\ Before(t)' = Before(t) /\ Beyond(t, k)' = Beyond(t, k)
    BY <1>1 DEF RowsOf, Before, Beyond
  <2>. QED
    BY <2>1, <2>2, <2>3 DEF RowsExact
<1>. QED
  BY <1>3, <1>4, <1>5, <1>6 DEF CountInv

LEMMA CountStores ==
    ASSUME ScanInv, CountInv, Scan!PersistSnapshot \/ Scan!PersistAsset \/ Scan!Score \/ Scan!Close
    PROVE  CountInv'
<1>1. run.pc \in Stored /\ UNCHANGED <<logs, target>> /\ progress' \in {progress, Scan!Total}
  BY DEF Scan!PersistSnapshot, Scan!PersistAsset, Scan!Score, Scan!Close, Scan!World, Stored, Storing
<1>2. CASE Scan!Raise /\ UNCHANGED progress
  BY <1>1, <1>2, CountRaises
<1>3. ASSUME NEW to \in {"assets", "score", "close", "done"}, Scan!Goto(to), job' # "GONE" => job # "GONE"
      PROVE  CountInv'
  <2>1. run'.pc = to /\ run'.i = run.i /\ run'.asked = run.asked /\ run'.todo = run.todo
    BY <1>3, CountGoing
  <2>. QED
    BY <1>1, <1>3, <2>1, CountStays DEF Stored, Storing
<1>4. CASE Scan!PersistSnapshot
  BY <1>2, <1>3, <1>4 DEF Scan!PersistSnapshot
<1>5. CASE Scan!PersistAsset
  <2>1. CASE Scan!Goto("score") /\ UNCHANGED job
    BY <1>3, <2>1
  <2>2. ASSUME NEW n, run' = [run EXCEPT !.at = n], UNCHANGED job PROVE CountInv'
    <3>1. run'.pc = run.pc /\ run'.i = run.i /\ run'.asked = run.asked /\ run'.todo = run.todo
      BY <2>2 DEF ScanInv, WorkerTyped
    <3>. QED
      BY <1>1, <2>2, <3>1, CountStays
  <2>. QED
    BY <1>2, <1>5, <2>1, <2>2 DEF Scan!PersistAsset
<1>6. CASE Scan!Score
  <2>1. CASE UNCHANGED <<job, run>>
    BY <1>1, <2>1, CountStays
  <2>. QED
    BY <1>2, <1>3, <1>6, <2>1 DEF Scan!Score
<1>7. CASE Scan!Close
  BY <1>2, <1>3, <1>7 DEF Scan!Close
<1>. QED
  BY <1>4, <1>5, <1>6, <1>7

-----------------------------------------------------------------------------
(* Everybody else.                                                         *)

LEMMA CountRests ==
    ASSUME CountInv, UNCHANGED <<run, logs, progress, target>>, job' # "GONE" => job # "GONE" PROVE CountInv'
<1>1. Owed' = Owed /\ Unlogged' = Unlogged /\ Scan!Here' = Scan!Here
  BY DEF Owed, OwedAfter, Unlogged, UnloggedAfter, Waiting, Scan!Here, AgentList, Scan!Selected, Scan!AgentKinds, PerTarget
<1>2. ListTyped' /\ BarInv' /\ (DistinctScanners => Once')
  BY <1>1 DEF CountInv, ListTyped, BarInv, Once, Waiting, UnloggedAfter, Scan!Here, Scan!LogRow, Scan!AgentKinds, Scan!Total, PerTarget
<1>3. ASSUME DistinctScanners, job' # "GONE" PROVE BarExact' /\ RowsExact'
  <2>1. BarExact /\ RowsExact
    BY <1>3 DEF CountInv
  <2>2. \A t, k : RowsOf(t, k)' = RowsOf(t, k) /\ Before(t)' = Before(t) /\ Beyond(t, k)' = Beyond(t, k)
    BY <1>1 DEF RowsOf, Before, Beyond
  <2>. QED
    BY <1>1, <2>1, <2>2 DEF BarExact, RowsExact, Scan!Total, PerTarget
<1>. QED
  BY <1>2, <1>3 DEF CountInv

\* A target that goes takes its name from its rows; nobody counts them any more.
LEMMA CountDelete ==
    ASSUME ScanInv, CountInv, NEW gone \in SUBSET Targets, Scan!DeleteTargets(gone) PROVE CountInv'
<1>1. /\ UNCHANGED <<job, progress, run>>
      /\ target' = [t \in Targets |-> target[t] /\ t \notin gone]
      /\ logs' = [i \in DOMAIN logs |-> [logs[i] EXCEPT !.target = IF logs[i].target \in gone THEN NoTarget ELSE logs[i].target]]
  BY DEF Scan!DeleteTargets
<1>2. logs \in Seq(Scan!LogRow) /\ DOMAIN logs = 1 .. Len(logs) /\ Len(logs) \in Nat
  BY DEF CountInv, ListTyped
<1>3. \A i \in DOMAIN logs :
         /\ logs[i] \in Scan!LogRow /\ logs'[i] \in Scan!LogRow
         /\ logs'[i].scanner = logs[i].scanner
         /\ logs'[i].target = (IF logs[i].target \in gone THEN NoTarget ELSE logs[i].target)
  <2>1. \A r \in Scan!LogRow, t \in Targets \cup {NoTarget} :
           LET s == [r EXCEPT !.target = t] IN s \in Scan!LogRow /\ s.scanner = r.scanner /\ s.target = t
    BY DEF Scan!LogRow
  <2>2. \A r \in Scan!LogRow : r.target \in Targets \cup {NoTarget}
    BY DEF Scan!LogRow
  <2>3. \A i \in DOMAIN logs : logs[i] \in Scan!LogRow
    BY <1>2
  <2> TAKE i \in DOMAIN logs
  <2> DEFINE t == IF logs[i].target \in gone THEN NoTarget ELSE logs[i].target
  <2>4. logs[i] \in Scan!LogRow /\ t \in Targets \cup {NoTarget}
    BY <2>2, <2>3
  <2>5. logs'[i] = [logs[i] EXCEPT !.target = t]
    BY <1>1
  <2> HIDE DEF t
  <2>6. logs'[i] \in Scan!LogRow /\ logs'[i].scanner = logs[i].scanner /\ logs'[i].target = t
    BY <2>1, <2>4, <2>5
  <2>. QED
    BY <2>4, <2>6 DEF t
<1>4. DOMAIN logs' = DOMAIN logs /\ logs' \in [1 .. Len(logs) -> Scan!LogRow]
  BY <1>1, <1>2, <1>3
<1>5. logs' \in Seq(Scan!LogRow) /\ Len(logs') = Len(logs)
  BY <1>2, <1>4
<1>6. Owed' = Owed /\ Unlogged' = Unlogged /\ Scan!Here' = Scan!Here
  BY <1>1 DEF Owed, OwedAfter, Unlogged, UnloggedAfter, Waiting, Scan!Here, AgentList, Scan!Selected, Scan!AgentKinds, PerTarget
<1>7. ListTyped' /\ BarInv' /\ (DistinctScanners => Once')
  BY <1>1, <1>5, <1>6 DEF CountInv, ListTyped, BarInv, Once, Waiting, UnloggedAfter, Scan!Here, Scan!LogRow, Scan!AgentKinds, Scan!Total, PerTarget
<1>8. ASSUME DistinctScanners, job' # "GONE" PROVE BarExact' /\ RowsExact'
  <2>1. BarExact /\ RowsExact
    BY <1>1, <1>8 DEF CountInv
  <2>2. BarExact'
    BY <1>1, <1>5, <1>6, <2>1 DEF BarExact, Scan!Total, PerTarget
  <2>3. ASSUME NEW t \in Targets, target'[t], NEW k PROVE target[t] /\ RowsOf(t, k)' = RowsOf(t, k)
    <3>1. target[t] /\ t \notin gone /\ t # NoTarget
      BY <1>1, <2>3, ScanAssumed
    <3>2. \A i \in DOMAIN logs : logs'[i].target = t <=> logs[i].target = t
      BY <1>3, <3>1
    <3>. QED
      BY <1>3, <1>4, <3>1, <3>2 DEF RowsOf
  <2>4. \A t, k : Before(t)' = Before(t) /\ Beyond(t, k)' = Beyond(t, k)
    BY <1>1, <1>6 DEF Before, Beyond
  <2>5. RowsExact'
    BY <1>1, <2>1, <2>3, <2>4 DEF RowsExact
  <2>. QED
    BY <2>2, <2>5
<1>. QED
  BY <1>7, <1>8 DEF CountInv

LEMMA CountOthers == ASSUME ScanInv, CountInv, Scan!Others \/ Scan!Kill PROVE CountInv'
<1>1. ASSUME NEW S \in SUBSET Targets, Scan!DeleteTargets(S) PROVE CountInv'
  BY <1>1, CountDelete
<1>2. ASSUME NEW h, NEW wired, NEW can, Scan!RegisterAgent(h, wired, can) PROVE CountInv'
  BY <1>2, CountRests DEF Scan!RegisterAgent, Scan!Idle
<1>3. ASSUME NEW h, NEW heard, Scan!Heartbeat(h, heard) PROVE CountInv'
  BY <1>3, CountRests DEF Scan!Heartbeat, Scan!Idle
<1>4. ASSUME NEW h, Scan!DeactivateAgent(h) PROVE CountInv'
  BY <1>4, CountRests DEF Scan!DeactivateAgent, Scan!Idle
<1>5. CASE Scan!CancelJob
  BY <1>5, CountRests DEF Scan!CancelJob
<1>6. CASE Scan!ListForReset
  BY <1>6, CountRests DEF Scan!ListForReset, Scan!Idle
<1>7. CASE Scan!DeleteListed
  <2>1. job' = "GONE" /\ logs' = <<>> /\ UNCHANGED <<target, progress, run>>
    BY <1>7 DEF Scan!DeleteListed
  <2>2. <<>> \in Seq(Scan!LogRow)
    OBVIOUS
  <2>3. Owed' = Owed
    BY <2>1 DEF Owed, OwedAfter, AgentList, Scan!Selected, Scan!AgentKinds, PerTarget
  <2>4. ListTyped' /\ BarInv' /\ (DistinctScanners => Once')
    BY <2>1, <2>2, <2>3 DEF CountInv, ListTyped, BarInv, Once, Waiting, UnloggedAfter, Scan!Here, Scan!LogRow, Scan!AgentKinds, Scan!Total, PerTarget
  <2>. QED
    BY <2>1, <2>4 DEF CountInv
<1>8. CASE Scan!Kill
  <2>1. Scan!Goto("killed") /\ UNCHANGED <<logs, progress>>
    BY <1>8 DEF Scan!Kill
  <2>2. run'.pc = "killed" /\ run'.asked = run.asked /\ run'.todo = run.todo
    BY <2>1, CountGoing
  <2>. QED
    BY <2>1, <2>2, CountStops
<1>. QED
  BY <1>1, <1>2, <1>3, <1>4, <1>5, <1>6, <1>7, <1>8 DEF Scan!Others

LEMMA CountNext == ASSUME ScanInv, CountInv, [Scan!Next]_scanVars PROVE CountInv'
<1>1. CASE Scan!Work
  BY <1>1, CountReadTargets, CountNetwork, CountAgents, CountCall, CountWriteLog, CountProgress, CountNextTarget,
     CountStores DEF Scan!Work
<1>2. CASE Scan!Others \/ Scan!Kill
  BY <1>2, CountOthers
<1>3. CASE UNCHANGED scanVars
  BY <1>3, CountRests DEF scanVars
<1>. QED
  BY <1>1, <1>2, <1>3 DEF Scan!Next

-----------------------------------------------------------------------------
(* At the end.                                                             *)

\* One row of each scanner for each time its target was named.
LEMMA AllAccounted ==
    ASSUME DistinctScanners, CountInv PROVE Scan!EveryScannerAccounted
<1> SUFFICES ASSUME run.pc \in Stored, job # "GONE"
             PROVE  /\ progress = Scan!Total /\ Len(logs) = Scan!Total
                    /\ \A t \in Targets, k \in Scan!ToSet(Scanners) : target[t] =>
                          Scan!Times([target |-> t, scanner |-> k],
                                     [i \in DOMAIN logs |-> [target |-> logs[i].target, scanner |-> logs[i].scanner]])
                             = Scan!Times(t, TargetIds) * Scan!Times(k, Scanners)
  BY DEF Scan!EveryScannerAccounted, Stored, Storing
<1>1. BarExact /\ RowsExact /\ run.pc # "progress" /\ run.pc \notin Counting
  BY DEF CountInv, Stored, Storing, Counting, Looping
<1>2. progress = Scan!Total /\ run.i = Len(TargetIds) + 1 /\ Len(logs) = Scan!Total
  BY <1>1 DEF BarExact
<1>3. ASSUME NEW t \in Targets, NEW k \in Scan!ToSet(Scanners), target[t]
      PROVE  Scan!Times([target |-> t, scanner |-> k],
                        [i \in DOMAIN logs |-> [target |-> logs[i].target, scanner |-> logs[i].scanner]])
                = Scan!Times(t, TargetIds) * Scan!Times(k, Scanners)
  <2> DEFINE pairs == [i \in DOMAIN logs |-> [target |-> logs[i].target, scanner |-> logs[i].scanner]]
             pair  == [target |-> t, scanner |-> k]
  <2>1. Cardinality(RowsOf(t, k)) = Cardinality(Before(t))
    <3>1. Beyond(t, k) = 0 /\ Cardinality(Before(t)) \in Nat
      BY <1>1, FiniteBefore DEF Beyond
    <3>2. Cardinality(RowsOf(t, k)) = Cardinality(Before(t)) + Beyond(t, k)
      BY <1>1, <1>3 DEF RowsExact
    <3>. QED
      BY <3>1, <3>2
  <2>2. {i \in DOMAIN pairs : pairs[i] = pair} = RowsOf(t, k)
    BY DEF RowsOf
  <2>3. Scan!Times(pair, pairs) = Cardinality(RowsOf(t, k))
    BY <2>2, ScanAssumed, Zenon DEF Scan!Times
  <2>4. Before(t) = {i \in DOMAIN TargetIds : TargetIds[i] = t}
    <3>1. \A i \in DOMAIN TargetIds : i < run.i
      BY <1>2, ScanAssumed
    <3>. QED
      BY <3>1 DEF Before
  <2>5. Scan!Times(t, TargetIds) = Cardinality(Before(t))
    BY <2>4, ScanAssumed, Zenon DEF Scan!Times
  <2>6. Scan!Times(k, Scanners) = 1
    <3>1. PICK n \in DOMAIN Scanners : Scanners[n] = k
      BY DEF Scan!ToSet
    <3>2. {i \in DOMAIN Scanners : Scanners[i] = k} = {n}
      BY <3>1 DEF DistinctScanners
    <3>. QED
      BY <3>2, ScanAssumed, FS_Singleton, Zenon DEF Scan!Times
  <2>7. Cardinality(Before(t)) \in Nat
    BY FiniteBefore
  <2> HIDE DEF pairs, pair
  <2>8. Scan!Times(pair, pairs) = Scan!Times(t, TargetIds) * Scan!Times(k, Scanners)
    BY <2>1, <2>3, <2>5, <2>6, <2>7
  <2>. QED
    BY <2>8 DEF pairs, pair
<1>. QED
  BY <1>2, <1>3

CountKnown == part = "scan" => ScanInv /\ CountInv

LEMMA CountInvariant == Spec => []CountKnown
<1>1. Init => CountKnown
  BY FirstPart, ScanInit, CountInit DEF CountKnown
<1>2. CountKnown /\ [Next]_vars => CountKnown'
  BY OnePart, ScanNext, CountNext DEF CountKnown
<1>. QED
  BY <1>1, <1>2, PTL DEF Spec

\* If the request names each scanner once: when the scanning is over every
\* scanner asked for on every target has exactly one log row and the progress
\* bar is full, through each exit of _run_agent_scanners and whatever agents,
\* targets and requests do meanwhile (jobs/scan_worker.py).
THEOREM ScannersAlwaysAccounted == ASSUME DistinctScanners PROVE Spec => []EveryScannerAccounted
<1>1. CountKnown => EveryScannerAccounted
  BY AllAccounted DEF CountKnown, EveryScannerAccounted
<1>. QED
  BY <1>1, CountInvariant, PTL

-----------------------------------------------------------------------------
(* Discovery probes.                                                       *)

\* What DiscoveryProbeProofs proves, of the two instances of Scans.
PP == INSTANCE DiscoveryProbeProofs WITH
    Hosts <- ProbeHosts, Ports <- ProbePorts, Services <- ProbeServices, MaxTroubles <- ProbeTroubles
PS == INSTANCE DiscoveryProbeProofs WITH
    Hosts <- SweepHosts, Ports <- SweepPorts, Services <- SweepServices, MaxTroubles <- SweepTroubles,
    HostLimit <- 1, Samples <- 0

\* The probes of PP are those of Probe.
LEMMA SameProbe ==
    /\ PP!ProbeAssumption
    /\ PP!Init <=> Probe!Init
    /\ PP!Next <=> Probe!Next
    /\ PP!TypeOK <=> Probe!TypeOK
    /\ PP!ServiceRecognised <=> Probe!ServiceRecognised
    /\ PP!OpenIsFound <=> Probe!OpenIsFound
    /\ PP!ReportShowsSurvivors <=> Probe!ReportShowsSurvivors
<1>1. \A s : PP!ToSet(s) = Probe!ToSet(s)
  BY DEF PP!ToSet, Probe!ToSet
<1>2. PP!Candidates = Probe!Candidates
  BY <1>1 DEF PP!Candidates, Probe!Candidates
<1>3. PP!UDP = Probe!UDP /\ PP!TLSPorts = Probe!TLSPorts /\ PP!HTTPPorts = Probe!HTTPPorts
  BY DEF PP!UDP, Probe!UDP, PP!TLSPorts, Probe!TLSPorts, PP!HTTPPorts, Probe!HTTPPorts
<1>4. PP!Scope = Probe!Scope
  BY <1>2, <1>3 DEF PP!Scope, Probe!Scope
<1>5. \A q : PP!Hint(q) = Probe!Hint(q)
  BY <1>3 DEF PP!Hint, Probe!Hint
<1>6. \A p, q : PP!HintOf(p, q) = Probe!HintOf(p, q)
  BY <1>5 DEF PP!HintOf, Probe!HintOf
<1>7. \A p, k, q : PP!Recognises(p, k, q) = Probe!Recognises(p, k, q)
  <2>1. \A k : PP!TcpAnswer(k) = Probe!TcpAnswer(k) /\ PP!SshBanner(k) = Probe!SshBanner(k)
    BY DEF PP!TcpAnswer, Probe!TcpAnswer, PP!SshBanner, Probe!SshBanner
  <2>2. \A k : PP!ImapBanner(k) = Probe!ImapBanner(k) /\ PP!Pop3Banner(k) = Probe!Pop3Banner(k)
    BY DEF PP!ImapBanner, Probe!ImapBanner, PP!Pop3Banner, Probe!Pop3Banner
  <2>3. \A k : PP!IkeAnswer(k) = Probe!IkeAnswer(k) /\ PP!SmtpAnswer(k) = Probe!SmtpAnswer(k)
    BY DEF PP!IkeAnswer, Probe!IkeAnswer, PP!SmtpAnswer, Probe!SmtpAnswer
  <2>4. \A k : PP!PostgresAnswer(k) = Probe!PostgresAnswer(k)
    BY DEF PP!PostgresAnswer, Probe!PostgresAnswer
  <2>5. \A p : PP!TlsName(p) = Probe!TlsName(p)
    BY DEF PP!TlsName, Probe!TlsName
  <2>. QED
    BY <1>5, <2>1, <2>2, <2>3, <2>4, <2>5 DEF PP!Recognises, Probe!Recognises
<1>8. PP!Registry = Probe!Registry
  BY <1>3 DEF PP!Registry, Probe!Registry
<1>9. PP!ProbeAssumption
  <2>1. Probe!ProbeAssumption
    BY ScansAssumption DEF ScansAssumption
  <2>3. PP!Kinds = Probe!Kinds /\ PP!LastPort = Probe!LastPort
    BY DEF PP!Kinds, Probe!Kinds, PP!LastPort, Probe!LastPort
  <2>4. PP!Metrics = Probe!Metrics
    BY DEF PP!Metrics, Probe!Metrics
  <2>5. PP!Hints = Probe!Hints
    BY DEF PP!Hints, Probe!Hints
  <2>6. PP!Endpoint = Probe!Endpoint
    BY <2>4, <2>5 DEF PP!Endpoint, Probe!Endpoint, PP!Protocols, Probe!Protocols
  <2>. QED
    BY <1>1, <2>1, <2>3, <2>4, <2>6 DEF PP!ProbeAssumption, Probe!ProbeAssumption
<1>10. PP!Init <=> Probe!Init
  <2>1. \A s, S : PP!Keep(s, S) = Probe!Keep(s, S)
    BY Zenon DEF PP!Keep, Probe!Keep, PP!Cardinality, Probe!Cardinality
  <2>2. \A p : PP!Transport(p) = Probe!Transport(p)
    BY <1>3 DEF PP!Transport, Probe!Transport
  <2>3. \A p : PP!ProbesFor(p) = Probe!ProbesFor(p)
    BY <1>8, <2>1, <2>2 DEF PP!ProbesFor, Probe!ProbesFor
  <2>. QED
    BY <1>2, <1>4, <2>3 DEF PP!Init, Probe!Init
<1>11. PP!Next <=> Probe!Next
  <2>1. \A c : PP!Probe(c) = Probe!Probe(c) /\ PP!Taken(c) = Probe!Taken(c)
    BY DEF PP!Probe, Probe!Probe, PP!Taken, Probe!Taken
  <2>2. \A c : PP!Sampling(c) <=> Probe!Sampling(c)
    BY <2>1 DEF PP!Sampling, Probe!Sampling
  <2>3. \A c : PP!Lost(c) <=> Probe!Lost(c)
    BY Zenon DEF PP!Lost, Probe!Lost, PP!Candidates, Probe!Candidates, PP!ToSet, Probe!ToSet,
       PP!Cardinality, Probe!Cardinality
  <2>4. \A c, m : PP!Found(c, m) <=> Probe!Found(c, m)
    BY <1>6, <1>7, <2>1 DEF PP!Found, Probe!Found
  <2>5. \A c : PP!NextProbe(c) <=> Probe!NextProbe(c)
    BY DEF PP!NextProbe, Probe!NextProbe
  <2>6. \A c, l : PP!Fails(c, l) <=> Probe!Fails(c, l)
    BY DEF PP!Fails, Probe!Fails
  <2>7. \A c : PP!StartThread(c) <=> Probe!StartThread(c)
    BY DEF PP!StartThread, Probe!StartThread
  <2>8. \A c : PP!RunProbe(c) <=> Probe!RunProbe(c)
    BY <1>7, <2>1, <2>2, <2>3, <2>4, <2>5 DEF PP!RunProbe, Probe!RunProbe
  <2>9. \A c : PP!Sample(c) <=> Probe!Sample(c)
    BY <1>3, <2>1, <2>2, <2>3, <2>6 DEF PP!Sample, Probe!Sample
  <2>10. \A c : PP!MeasureHttp(c) <=> Probe!MeasureHttp(c)
    BY <2>3, <2>6 DEF PP!MeasureHttp, Probe!MeasureHttp
  <2>11. \A c : PP!EndSamples(c) <=> Probe!EndSamples(c)
    BY <2>1, <2>2, <2>4, <2>5 DEF PP!EndSamples, Probe!EndSamples
  <2>12. (PP!Answer <=> Probe!Answer) /\ (PP!GiveUp <=> Probe!GiveUp)
    BY <1>2, <1>4 DEF PP!Answer, Probe!Answer, PP!GiveUp, Probe!GiveUp
  <2>. QED
    BY <1>4, <2>7, <2>8, <2>9, <2>10, <2>11, <2>12 DEF PP!Next, Probe!Next
<1>12. PP!TypeOK <=> Probe!TypeOK
  BY Zenon DEF PP!TypeOK, Probe!TypeOK, PP!Candidates, Probe!Candidates, PP!ToSet, Probe!ToSet,
     PP!Metrics, Probe!Metrics, PP!Hints, Probe!Hints, PP!Protocols, Probe!Protocols, PP!Endpoint,
     Probe!Endpoint
<1>13. PP!ServiceRecognised <=> Probe!ServiceRecognised
  BY <1>1, <1>2, <1>7, <1>8 DEF PP!ServiceRecognised, Probe!ServiceRecognised, PP!FoundSet,
     Probe!FoundSet
<1>14. PP!OpenIsFound <=> Probe!OpenIsFound
  BY Zenon DEF PP!OpenIsFound, Probe!OpenIsFound, PP!FoundSet, Probe!FoundSet, PP!Candidates,
     Probe!Candidates, PP!Scope, Probe!Scope, PP!ToSet, Probe!ToSet, PP!UDP, Probe!UDP, PP!Transport,
     Probe!Transport, PP!Open, Probe!Open, PP!Steady, Probe!Steady
<1>15. PP!ReportShowsSurvivors <=> Probe!ReportShowsSurvivors
  BY Zenon DEF PP!ReportShowsSurvivors, Probe!ReportShowsSurvivors, PP!Report, Probe!Report,
     PP!Reported, Probe!Reported, PP!Candidates, Probe!Candidates, PP!ToSet, Probe!ToSet,
     PP!Cardinality, Probe!Cardinality
<1>. QED
  BY <1>9, <1>10, <1>11, <1>12, <1>13, <1>14, <1>15

\* The probes of PS are those of Sweep.
LEMMA SameSweep ==
    /\ PS!ProbeAssumption
    /\ PS!Init <=> Sweep!Init
    /\ PS!Next <=> Sweep!Next
    /\ PS!TypeOK <=> Sweep!TypeOK
    /\ PS!OpenIsFound <=> Sweep!OpenIsFound
    /\ PS!ExecutorsAgree <=> Sweep!ExecutorsAgree
<1>1. \A s : PS!ToSet(s) = Sweep!ToSet(s)
  BY DEF PS!ToSet, Sweep!ToSet
<1>2. PS!Candidates = Sweep!Candidates
  BY <1>1 DEF PS!Candidates, Sweep!Candidates
<1>3. PS!UDP = Sweep!UDP /\ PS!TLSPorts = Sweep!TLSPorts /\ PS!HTTPPorts = Sweep!HTTPPorts
  BY DEF PS!UDP, Sweep!UDP, PS!TLSPorts, Sweep!TLSPorts, PS!HTTPPorts, Sweep!HTTPPorts
<1>4. PS!Scope = Sweep!Scope
  BY <1>2, <1>3 DEF PS!Scope, Sweep!Scope
<1>5. \A q : PS!Hint(q) = Sweep!Hint(q)
  BY <1>3 DEF PS!Hint, Sweep!Hint
<1>6. \A p, q : PS!HintOf(p, q) = Sweep!HintOf(p, q)
  BY <1>5, Zenon DEF PS!HintOf, Sweep!HintOf
<1>7. \A p, k, q : PS!Recognises(p, k, q) = Sweep!Recognises(p, k, q)
  <2>1. \A k : PS!TcpAnswer(k) = Sweep!TcpAnswer(k) /\ PS!SshBanner(k) = Sweep!SshBanner(k)
    BY DEF PS!TcpAnswer, Sweep!TcpAnswer, PS!SshBanner, Sweep!SshBanner
  <2>2. \A k : PS!ImapBanner(k) = Sweep!ImapBanner(k) /\ PS!Pop3Banner(k) = Sweep!Pop3Banner(k)
    BY DEF PS!ImapBanner, Sweep!ImapBanner, PS!Pop3Banner, Sweep!Pop3Banner
  <2>3. \A k : PS!IkeAnswer(k) = Sweep!IkeAnswer(k) /\ PS!SmtpAnswer(k) = Sweep!SmtpAnswer(k)
    BY DEF PS!IkeAnswer, Sweep!IkeAnswer, PS!SmtpAnswer, Sweep!SmtpAnswer
  <2>4. \A k : PS!PostgresAnswer(k) = Sweep!PostgresAnswer(k)
    BY DEF PS!PostgresAnswer, Sweep!PostgresAnswer
  <2>5. \A p : PS!TlsName(p) = Sweep!TlsName(p)
    BY DEF PS!TlsName, Sweep!TlsName
  <2>. QED
    BY <1>5, <2>1, <2>2, <2>3, <2>4, <2>5, Zenon DEF PS!Recognises, Sweep!Recognises
<1>8. PS!Registry = Sweep!Registry
  BY <1>3 DEF PS!Registry, Sweep!Registry
<1>9. PS!ProbeAssumption
  <2>1. Sweep!ProbeAssumption
    BY ScansAssumption DEF ScansAssumption
  <2>3. PS!Kinds = Sweep!Kinds /\ PS!LastPort = Sweep!LastPort
    BY DEF PS!Kinds, Sweep!Kinds, PS!LastPort, Sweep!LastPort
  <2>4. PS!Metrics = Sweep!Metrics
    BY DEF PS!Metrics, Sweep!Metrics
  <2>5. PS!Hints = Sweep!Hints
    BY DEF PS!Hints, Sweep!Hints
  <2>6. PS!Endpoint = Sweep!Endpoint
    BY <2>4, <2>5 DEF PS!Endpoint, Sweep!Endpoint, PS!Protocols, Sweep!Protocols
  <2>. QED
    BY <1>1, <2>1, <2>3, <2>4, <2>6 DEF PS!ProbeAssumption, Sweep!ProbeAssumption
<1>10. PS!Init <=> Sweep!Init
  <2>1. \A s, S : PS!Keep(s, S) = Sweep!Keep(s, S)
    BY Zenon DEF PS!Keep, Sweep!Keep, PS!Cardinality, Sweep!Cardinality
  <2>2. \A p : PS!Transport(p) = Sweep!Transport(p)
    BY <1>3 DEF PS!Transport, Sweep!Transport
  <2>3. \A p : PS!ProbesFor(p) = Sweep!ProbesFor(p)
    BY <1>8, <2>1, <2>2 DEF PS!ProbesFor, Sweep!ProbesFor
  <2>. QED
    BY <1>2, <1>4, <2>3 DEF PS!Init, Sweep!Init
<1>11. PS!Next <=> Sweep!Next
  <2>1. \A c : PS!Probe(c) = Sweep!Probe(c) /\ PS!Taken(c) = Sweep!Taken(c)
    BY DEF PS!Probe, Sweep!Probe, PS!Taken, Sweep!Taken
  <2>2. \A c : PS!Sampling(c) <=> Sweep!Sampling(c)
    BY <2>1 DEF PS!Sampling, Sweep!Sampling
  <2>3. \A c : PS!Lost(c) <=> Sweep!Lost(c)
    BY Zenon DEF PS!Lost, Sweep!Lost, PS!Candidates, Sweep!Candidates, PS!ToSet, Sweep!ToSet,
       PS!Cardinality, Sweep!Cardinality
  <2>4. \A c, m : PS!Found(c, m) <=> Sweep!Found(c, m)
    BY <1>6, <1>7, <2>1 DEF PS!Found, Sweep!Found
  <2>5. \A c : PS!NextProbe(c) <=> Sweep!NextProbe(c)
    BY DEF PS!NextProbe, Sweep!NextProbe
  <2>6. \A c, l : PS!Fails(c, l) <=> Sweep!Fails(c, l)
    BY DEF PS!Fails, Sweep!Fails
  <2>7. \A c : PS!StartThread(c) <=> Sweep!StartThread(c)
    BY DEF PS!StartThread, Sweep!StartThread
  <2>8. \A c : PS!RunProbe(c) <=> Sweep!RunProbe(c)
    BY <1>7, <2>1, <2>2, <2>3, <2>4, <2>5, Zenon DEF PS!RunProbe, Sweep!RunProbe
  <2>9. \A c : PS!Sample(c) <=> Sweep!Sample(c)
    BY <1>3, <2>1, <2>2, <2>3, <2>6 DEF PS!Sample, Sweep!Sample
  <2>10. \A c : PS!MeasureHttp(c) <=> Sweep!MeasureHttp(c)
    BY <2>3, <2>6 DEF PS!MeasureHttp, Sweep!MeasureHttp
  <2>11. \A c : PS!EndSamples(c) <=> Sweep!EndSamples(c)
    BY <2>1, <2>2, <2>4, <2>5 DEF PS!EndSamples, Sweep!EndSamples
  <2>12. (PS!Answer <=> Sweep!Answer) /\ (PS!GiveUp <=> Sweep!GiveUp)
    BY <1>2, <1>4 DEF PS!Answer, Sweep!Answer, PS!GiveUp, Sweep!GiveUp
  <2>. QED
    BY <1>4, <2>7, <2>8, <2>9, <2>10, <2>11, <2>12 DEF PS!Next, Sweep!Next
<1>12. PS!TypeOK <=> Sweep!TypeOK
  BY Zenon DEF PS!TypeOK, Sweep!TypeOK, PS!Candidates, Sweep!Candidates, PS!ToSet, Sweep!ToSet,
     PS!Metrics, Sweep!Metrics, PS!Hints, Sweep!Hints, PS!Protocols, Sweep!Protocols, PS!Endpoint,
     Sweep!Endpoint
<1>13. PS!OpenIsFound <=> Sweep!OpenIsFound
  BY Zenon DEF PS!OpenIsFound, Sweep!OpenIsFound, PS!FoundSet, Sweep!FoundSet, PS!Candidates,
     Sweep!Candidates, PS!Scope, Sweep!Scope, PS!ToSet, Sweep!ToSet, PS!UDP, Sweep!UDP, PS!Transport,
     Sweep!Transport, PS!Open, Sweep!Open, PS!Steady, Sweep!Steady
<1>14. PS!ExecutorsAgree <=> Sweep!ExecutorsAgree
  BY <1>2, <1>5 DEF PS!ExecutorsAgree, Sweep!ExecutorsAgree, PS!FoundSet, Sweep!FoundSet
<1>. QED
  BY <1>9, <1>10, <1>11, <1>12, <1>13, <1>14

ProbesKnown == (part = "probe" => PP!ProbeInv) /\ (part = "ports" => PS!ProbeInv)

LEMMA ProbesInvariant == Spec => []ProbesKnown
<1>1. Init => ProbesKnown
  <2>1. Init => (part = "probe" => Probe!Init) /\ (part = "ports" => Sweep!Init)
    BY DEF Init
  <2>. QED
    BY <2>1, SameProbe, SameSweep, PP!ProbeInit, PS!ProbeInit DEF ProbesKnown
<1>2. ProbesKnown /\ [Next]_vars => ProbesKnown'
  <2> SUFFICES ASSUME ProbesKnown, [Next]_vars PROVE ProbesKnown'
    OBVIOUS
  <2>1. /\ part' = part
        /\ part = "probe" => [Probe!Next]_probeVars
        /\ part = "ports" => [Sweep!Next]_probeVars
    BY DEF Next, vars
  <2>2. part = "probe" => [PP!Next]_(PP!vars)
    BY <2>1, SameProbe DEF PP!vars, probeVars
  <2>3. part = "ports" => [PS!Next]_(PS!vars)
    BY <2>1, SameSweep DEF PS!vars, probeVars
  <2>4. part = "probe" => PP!ProbeInv'
    BY <2>2, SameProbe, PP!ProbeNext DEF ProbesKnown
  <2>5. part = "ports" => PS!ProbeInv'
    BY <2>3, SameSweep, PS!ProbeNext DEF ProbesKnown
  <2>. QED
    BY <2>1, <2>4, <2>5 DEF ProbesKnown
<1>. QED
  BY <1>1, <1>2, PTL DEF Spec

\* Whatever hosts, ports and services a discovery meets and wherever the
\* network loses connections: what answers is an endpoint and what is closed is
\* not, a service on a port of its own keeps its name unless each sample of its
\* probe, or its only connection, is lost, agent and worker give it one hint,
\* and no endpoint of the availability report failed all its samples
\* (testbed/agent/discovery, discoveries/services.py).
THEOREM ServicesAreRecognised == Spec => []ServiceRecognised
<1>1. ASSUME part = "probe", ProbesKnown
      PROVE  Probe!ServiceRecognised /\ Probe!OpenIsFound /\ Probe!ReportShowsSurvivors
  BY <1>1, SameProbe, PP!OwnServices, PP!OpenPorts, PP!Survivors DEF ProbesKnown
<1>2. ASSUME part = "ports", ProbesKnown PROVE Sweep!OpenIsFound /\ Sweep!ExecutorsAgree
  BY <1>2, SameSweep, PS!OpenPorts, PS!HintsAgree DEF ProbesKnown
<1>3. ProbesKnown => ServiceRecognised
  BY <1>1, <1>2 DEF ServiceRecognised
<1>. QED
  BY <1>3, ProbesInvariant, PTL

-----------------------------------------------------------------------------
(* Performance runs that are left to the worker.                           *)

\* What PerformanceRunProofs proves, of the runs of Scans.
MP == INSTANCE PerformanceRunProofs WITH
    Runs <- RunIds, AutoStart <- RunIds, Posters <- {}, Patchers <- {}, run <- runs, worker <- runner

\* The runs of MP are those of Scans.
LEMMA SameMeasure ==
    /\ MP!RunAssumption /\ MP!LeftAlone
    /\ MP!Init <=> Measure!Init
    /\ MP!Next <=> Measure!Next
    /\ MP!CompletedIsWhole <=> Measure!CompletedIsWhole
<1>1. MP!RunAssumption
  BY ScansAssumption DEF ScansAssumption, MP!RunAssumption, Measure!RunAssumption, MP!Assets, Measure!Assets,
       MP!RunRow, Measure!RunRow, MP!Statuses, Measure!Statuses, MP!Final, Measure!Final
<1>2. MP!LeftAlone
  BY DEF MP!LeftAlone
<1>3. MP!Init <=> Measure!Init
  BY DEF MP!Init, Measure!Init, MP!Resting, Measure!Resting, MP!Waiting, Measure!Waiting, MP!Clients, Measure!Clients
<1>4. MP!Next <=> Measure!Next
  BY ZenonT(60) DEF MP!Assets, MP!Final, MP!Statuses, MP!RunRow, MP!Row, MP!Resting, MP!Waiting, MP!Clients, MP!Updated,
       MP!SaveRun, MP!Ran, MP!Started, MP!SaveStarted, MP!Counted, MP!SaveSummary, MP!BaselineFor,
       MP!ReadSnapshot, MP!Create, MP!Link, MP!Enqueue, MP!Claim, MP!ReadRun, MP!MarkRunning,
       MP!Measure, MP!Count, MP!Summarise, MP!MarkCompleted, MP!Complete, MP!Fail, MP!Begin,
       MP!ReadPatch, MP!SavePatch, MP!ReadPost, MP!Upsert, MP!StartPosted, MP!CountPosted,
       MP!SummarisePosted, MP!Work, MP!Next, Measure!Assets, Measure!Final, Measure!Statuses,
       Measure!RunRow, Measure!Row, Measure!Resting, Measure!Waiting, Measure!Clients,
       Measure!Updated, Measure!SaveRun, Measure!Ran, Measure!Started, Measure!SaveStarted,
       Measure!Counted, Measure!SaveSummary, Measure!BaselineFor, Measure!ReadSnapshot,
       Measure!Create, Measure!Link, Measure!Enqueue, Measure!Claim, Measure!ReadRun,
       Measure!MarkRunning, Measure!Measure, Measure!Count, Measure!Summarise,
       Measure!MarkCompleted, Measure!Complete, Measure!Fail, Measure!Begin, Measure!ReadPatch,
       Measure!SavePatch, Measure!ReadPost, Measure!Upsert, Measure!StartPosted,
       Measure!CountPosted, Measure!SummarisePosted, Measure!Work, Measure!Next
<1>5. MP!CompletedIsWhole <=> Measure!CompletedIsWhole
  BY DEF MP!CompletedIsWhole, Measure!CompletedIsWhole, MP!Assets, Measure!Assets
<1>. QED
  BY <1>1, <1>2, <1>3, <1>4, <1>5

\* A run has a result for all that its worker passed and counts them.
MeasureInv == MP!RunInv /\ MP!WholeInv

LEMMA MeasureInit == ASSUME Measure!Init PROVE MeasureInv
BY SameMeasure, MP!RunsInit, MP!WholeInit DEF MeasureInv

LEMMA MeasureNext == ASSUME MeasureInv, [Measure!Next]_measureVars PROVE MeasureInv'
<1>1. [MP!Next]_(MP!vars)
  BY SameMeasure DEF MP!vars, measureVars
<1>. QED
  BY <1>1, SameMeasure, MP!RunsNext, MP!WholeNext DEF MeasureInv

LEMMA MeasuredWhole == ASSUME MeasureInv PROVE Measure!CompletedIsWhole
BY SameMeasure, MP!WholeRuns DEF MeasureInv

ScansKnown == (part = "scan" => ScanInv) /\ (part = "measure" => MeasureInv)

LEMMA ScansInvariant == Spec => []ScansKnown
<1>1. Init => ScansKnown
  BY FirstPart, ScanInit, MeasureInit DEF ScansKnown
<1>2. ScansKnown /\ [Next]_vars => ScansKnown'
  BY OnePart, ScanNext, MeasureNext DEF ScansKnown
<1>. QED
  BY <1>1, <1>2, PTL DEF Spec

\* Whatever targets, agents and requests do meanwhile, and for any scanners and
\* findings, a COMPLETED scan shows everything that was found, once, with every
\* scanner that saw it, and a score for each asset (jobs/scan_worker.py
\* _dedupe_candidates, _persist_snapshot); a COMPLETED performance run left to
\* the worker has and counts a result for every measurable asset
\* (performance/runner.py).
THEOREM CompletedIsAlwaysWhole == Spec => []CompletedIsWhole
<1>1. ScansKnown => CompletedIsWhole
  BY ScannedWhole, MeasuredWhole DEF ScansKnown, CompletedIsWhole
<1>. QED
  BY <1>1, ScansInvariant, PTL

\* A scan fails only because a row it needs was taken away, the agent it calls
\* was deactivated, or two different things it found claim one bom_ref
\* (jobs/scan_worker.py _run_scan).
THEOREM FailuresHaveReasons == Spec => FailureHasReason
<1>1. ScansKnown /\ [Next]_vars => [part = "scan" => Scan!FailureStep]_vars
  BY OnePart, ScanNext DEF ScansKnown, Reason, Scan!FailureStep
<1>. QED
  BY <1>1, ScansInvariant, PTL DEF Spec, FailureHasReason
=============================================================================
