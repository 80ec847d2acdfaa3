---------------------- MODULE DiscoveryEndpointsProofs ----------------------
(***************************************************************************)
(* Endpoints, targets and follow-up scans, for any number of addresses,    *)
(* workers and requests: the worker that removes duplicates keeps the      *)
(* oldest row, and where no reset takes a promotion back, every row with a *)
(* target is promoted and every address found has a row, so that the       *)
(* follow-up scan covers what its run found.  ServicesProofs carries both  *)
(* over to the behaviours of Services.                                     *)
(***************************************************************************)
EXTENDS DiscoveryEndpoints, SequenceTheorems, WellFoundedInduction, TLAPS

-----------------------------------------------------------------------------
(* The inductive invariant.                                                *)

Job == [status : Statuses, followUp : SUBSET Nat]

WorkerState == [pc : {"idle", "probe", "find", "store", "dedupe", "target", "link"},
                run : Nat, found : SUBSET Addresses, todo : SUBSET Addresses,
                addr : Addresses \cup {None}, row : Nat, seen : Endpoint \cup {None}, target : Nat]

PromoteState == [pc : {"idle", "read", "next", "save"}, cache : Seq(Endpoint \cup {Gone}),
                 todo : SUBSET Nat, row : Nat, target : Nat]

EndpointTypes ==
    /\ discovery \in Statuses
    /\ runs \in Seq(Job)
    /\ rows \in Seq(Endpoint \cup {Gone})
    /\ targets \in Seq(Addresses \cup {Gone})
    /\ worker \in [Workers -> WorkerState]
    /\ client \in PromoteState
    /\ budget \in [requests : 0 .. MaxRequests, kills : 0 .. MaxKills]

\* What points at a table points at one of its rows.
References ==
    /\ \A r \in DOMAIN runs : runs[r].followUp \subseteq DOMAIN targets
    /\ \A i \in Linked : rows[i].target \in DOMAIN targets /\ targets[rows[i].target] # Gone
    /\ client.todo \subseteq DOMAIN rows
    /\ client.pc = "save" => client.row \in DOMAIN rows /\ client.target \in DOMAIN targets

Oldest(a, i) == i \in Rows(a) /\ \A j \in Rows(a) : i <= j

\* What a worker is at.  The row it found, until it has removed the others, is
\* the oldest of its address; from there on the address has a row.
Progressing(k) ==
    /\ k.todo \subseteq k.found
    /\ k.run \in 0 .. Len(runs) /\ (k.pc # "idle" => k.run # 0)
    /\ k.row \in 0 .. Len(rows) /\ k.target \in 0 .. Len(targets)
    /\ k.pc \in {"store", "dedupe", "target", "link"} => k.addr \in Addresses
    /\ k.pc = "store" /\ k.row # 0 => k.seen \in Endpoint /\ Oldest(k.addr, k.row)
    /\ k.pc = "dedupe" => Oldest(k.addr, k.row)
    /\ k.pc \in {"dedupe", "target", "link"} => k.row # 0 /\ k.seen \in Endpoint /\ Rows(k.addr) # {}
    /\ k.pc = "link" => k.target # 0

EndpointsInv == EndpointTypes /\ References /\ \A w \in Workers : Progressing(worker[w])

-----------------------------------------------------------------------------
(* Rows and the oldest of them.                                            *)

\* A set of row numbers has a least one.
LEMMA LeastRow ==
    ASSUME NEW S \in SUBSET Nat, S # {}
    PROVE  Min(S) \in S /\ \A j \in S : Min(S) <= j
<1> DEFINE less == {p \in Nat \X Nat : p[1] < p[2]}
<1>1. IsWellFoundedOn(less, Nat)
  BY NatLessThanWellFounded DEF OpToRel
<1>2. PICK i \in S : \A j \in S : <<j, i>> \notin less
  BY <1>1, WFMin, Zenon
<1>3. ASSUME NEW j \in S PROVE i <= j
  <2>1. i \in Nat /\ j \in Nat /\ <<j, i>> \notin less
    BY <1>2
  <2>. QED
    BY <2>1
<1>. QED
  BY <1>3, Zenon DEF Min

\* What a step keeps of the rows: an address with a row has one, and the oldest
\* row of an address is its oldest.
KeepsOldest ==
    \A a \in Addresses : /\ Rows(a) # {} => Rows(a)' # {}
                         /\ \A i \in Nat : Oldest(a, i) => Oldest(a, i)'

LEMMA RowsStay == ASSUME UNCHANGED rows PROVE KeepsOldest
BY DEF KeepsOldest, Oldest, Rows

\* Rows of the same addresses, gone or not.
SameAddresses ==
    /\ DOMAIN rows' = DOMAIN rows
    /\ \A i \in DOMAIN rows : /\ rows'[i] = Gone <=> rows[i] = Gone
                              /\ rows[i] # Gone => rows'[i].addr = rows[i].addr

LEMMA SameAddressesKeep == ASSUME SameAddresses PROVE \A a : Rows(a)' = Rows(a)
BY DEF SameAddresses, Rows

LEMMA SameRowsKeep == ASSUME \A a \in Addresses : Rows(a)' = Rows(a) PROVE KeepsOldest
BY DEF KeepsOldest, Oldest

\* A new row is not the oldest of an address that has one.
LEMMA AppendKeeps ==
    ASSUME EndpointTypes, NEW x \in Endpoint \cup {Gone}, rows' = Append(rows, x)
    PROVE  KeepsOldest
<1>1. /\ Len(rows) \in Nat /\ DOMAIN rows = 1 .. Len(rows) /\ DOMAIN rows' = 1 .. Len(rows) + 1
      /\ \A i \in DOMAIN rows : rows'[i] = rows[i]
  BY DEF EndpointTypes
<1>2. ASSUME NEW a \in Addresses PROVE Rows(a) \subseteq Rows(a)' /\ Rows(a)' \subseteq Rows(a) \cup {Len(rows) + 1}
  BY <1>1 DEF Rows
<1>3. \A a \in Addresses : Rows(a) \subseteq 1 .. Len(rows)
  BY <1>1 DEF Rows
<1>. QED
  BY <1>1, <1>2, <1>3 DEF KeepsOldest, Oldest

\* The duplicates of a row go, the oldest row of each address stays.
LEMMA DedupeKeeps ==
    ASSUME EndpointTypes, NEW b \in Addresses, NEW i \in Nat, Oldest(b, i),
           rows' = [j \in DOMAIN rows |-> IF j \in Rows(b) \ {i} THEN Gone ELSE rows[j]]
    PROVE  KeepsOldest
<1>1. ASSUME NEW a \in Addresses, NEW j \in Rows(a), Oldest(a, j) PROVE j \in Rows(a)'
  <2>1. j \notin Rows(b) \ {i}
    BY <1>1 DEF Oldest, Rows, EndpointTypes
  <2>. QED
    BY <2>1 DEF Rows
<1>2. \A a \in Addresses : Rows(a)' \subseteq Rows(a)
  BY DEF Rows
<1>3. ASSUME NEW a \in Addresses, Rows(a) # {} PROVE \E j \in Rows(a) : Oldest(a, j)
  <2>1. Rows(a) \in SUBSET Nat
    BY DEF Rows, EndpointTypes
  <2>. QED
    BY <1>3, <2>1, LeastRow DEF Oldest
<1>. QED
  BY <1>1, <1>2, <1>3 DEF KeepsOldest, Oldest

\* A worker that the step does not move goes on from where it was.
LEMMA OthersProgress ==
    ASSUME EndpointTypes, EndpointTypes', KeepsOldest, NEW k \in WorkerState, Progressing(k),
           Len(rows) <= Len(rows'), Len(targets) <= Len(targets'), Len(runs) <= Len(runs')
    PROVE  Progressing(k)'
<1>1. /\ Len(rows) \in Nat /\ Len(rows') \in Nat /\ Len(targets) \in Nat /\ Len(targets') \in Nat
      /\ Len(runs) \in Nat /\ Len(runs') \in Nat
  BY DEF EndpointTypes
<1>2. /\ k.row \in 0 .. Len(rows') /\ k.target \in 0 .. Len(targets') /\ k.run \in 0 .. Len(runs')
  BY <1>1 DEF Progressing
<1>3. k.addr \in Addresses =>
          (Rows(k.addr) # {} => Rows(k.addr)' # {}) /\ (Oldest(k.addr, k.row) => Oldest(k.addr, k.row)')
  BY DEF KeepsOldest, WorkerState
<1>. QED
  BY <1>2, <1>3 DEF Progressing

\* Workers that the step leaves alone.
LEMMA OthersStay ==
    ASSUME EndpointsInv, EndpointTypes', KeepsOldest,
           Len(rows) <= Len(rows'), Len(targets) <= Len(targets'), Len(runs) <= Len(runs'),
           NEW v \in Workers, worker'[v] = worker[v]
    PROVE  Progressing(worker[v])'
<1>1. worker[v] \in WorkerState /\ Progressing(worker[v])
  BY DEF EndpointsInv, EndpointTypes
<1>. QED
  BY <1>1, OthersProgress DEF EndpointsInv

LEMMA OneMoves ==
    ASSUME EndpointsInv, EndpointTypes', References', KeepsOldest,
           Len(rows) <= Len(rows'), Len(targets) <= Len(targets'), Len(runs) <= Len(runs'),
           NEW w \in Workers, \A v \in Workers \ {w} : worker'[v] = worker[v], Progressing(worker[w])'
    PROVE  EndpointsInv'
BY OthersStay DEF EndpointsInv

LEMMA NoneMoves ==
    ASSUME EndpointsInv, EndpointTypes', References', KeepsOldest,
           Len(rows) <= Len(rows'), Len(targets) <= Len(targets'), Len(runs) <= Len(runs'),
           worker' = worker
    PROVE  EndpointsInv'
BY OthersStay DEF EndpointsInv

-----------------------------------------------------------------------------
(* The steps.                                                              *)

LEMMA EndpointsInit == EndpointsAssumption /\ Init => EndpointsInv
<1> SUFFICES ASSUME EndpointsAssumption, Init PROVE EndpointsInv
  OBVIOUS
<1>1. EndpointTypes
  <2>1. Idle \in WorkerState /\ NoRequest \in PromoteState
    BY DEF Idle, NoRequest, WorkerState, PromoteState
  <2>2. runs \in Seq(Job) /\ rows \in Seq(Endpoint \cup {Gone}) /\ targets \in Seq(Addresses \cup {Gone})
    BY DEF Init, Job, Statuses
  <2>. QED
    BY <2>1, <2>2 DEF Init, EndpointTypes, Statuses, EndpointsAssumption
<1>2. References
  BY DEF Init, References, Linked, NoRequest
<1>3. Progressing(Idle)
  BY DEF Init, Idle, Progressing
<1>. QED
  BY <1>1, <1>2, <1>3 DEF EndpointsInv, Init

\* The status of a job, and its follow-up, change.
LEMMA JobChange ==
    ASSUME EndpointTypes, NEW r \in DOMAIN runs, NEW j \in Job, runs' = [runs EXCEPT ![r] = j]
    PROVE  /\ runs' \in Seq(Job) /\ Len(runs') = Len(runs) /\ DOMAIN runs' = DOMAIN runs
           /\ \A q \in DOMAIN runs : runs'[q] = IF q = r THEN j ELSE runs[q]
<1>1. runs \in Seq(Job) /\ r \in 1 .. Len(runs)
  BY DEF EndpointTypes
<1>. QED
  BY <1>1, ExceptSeq

\* Only the status.
LEMMA StatusChange ==
    ASSUME EndpointTypes, NEW r \in DOMAIN runs, NEW s \in Statuses,
           runs' = [runs EXCEPT ![r].status = s]
    PROVE  /\ runs' \in Seq(Job) /\ Len(runs') = Len(runs) /\ DOMAIN runs' = DOMAIN runs
           /\ \A q \in DOMAIN runs : /\ runs'[q].followUp = runs[q].followUp
                                     /\ q # r => runs'[q] = runs[q]
           /\ runs'[r].status = s
<1> DEFINE j == [runs[r] EXCEPT !.status = s]
<1>0. runs[r] \in Job
  BY DEF EndpointTypes
<1>1. runs[r] \in Job /\ j \in Job /\ j.followUp = runs[r].followUp /\ j.status = s
  BY <1>0 DEF Job
<1>2. runs' = [runs EXCEPT ![r] = j]
  OBVIOUS
<1> HIDE DEF j
<1>. QED
  BY <1>1, <1>2, JobChange

\* Steps that leave the tables and what the client does.
LEMMA JobStep ==
    ASSUME EndpointsInv, UNCHANGED <<rows, targets, client, budget>>,
           discovery' \in Statuses, runs' \in Seq(Job), Len(runs) <= Len(runs'),
           \A r \in DOMAIN runs' : runs'[r].followUp \subseteq DOMAIN targets,
           NEW w \in Workers, NEW k \in WorkerState, worker' = [worker EXCEPT ![w] = k],
           Progressing(worker[w])'
    PROVE  EndpointsInv'
<1>1. EndpointTypes'
  BY DEF EndpointsInv, EndpointTypes
<1>2. References'
  BY DEF EndpointsInv, References, Linked
<1>3. KeepsOldest
  BY DEF KeepsOldest, Rows, Oldest
<1>4. Len(rows) \in Nat /\ Len(targets) \in Nat
  BY DEF EndpointsInv, EndpointTypes
<1>. QED
  BY <1>1, <1>2, <1>3, <1>4, OneMoves DEF EndpointsInv, EndpointTypes

LEMMA ClaimStep == ASSUME EndpointsInv, NEW w \in Workers, Claim(w) PROVE EndpointsInv'
<1>1. PICK r \in DOMAIN runs : /\ runs' = [runs EXCEPT ![r].status = "RUNNING"]
                               /\ worker' = [worker EXCEPT ![w] = [Idle EXCEPT !.pc = "probe", !.run = r]]
  BY DEF Claim
<1>2. /\ UNCHANGED <<rows, targets, client, budget>> /\ discovery' = "RUNNING"
      /\ worker \in [Workers -> WorkerState]
  BY DEF Claim, Tables, EndpointsInv, EndpointTypes
<1>6. r \in Nat /\ runs[r] \in Job
  BY DEF EndpointsInv, EndpointTypes
<1> DEFINE k == [Idle EXCEPT !.pc = "probe", !.run = r]
<1>3. /\ k \in WorkerState /\ worker'[w] = k
      /\ k.pc = "probe" /\ k.run = r /\ k.todo = k.found /\ k.row = 0 /\ k.target = 0
  BY <1>1, <1>2, <1>6 DEF Idle, WorkerState
<1> HIDE DEF k
<1>4. /\ runs' \in Seq(Job) /\ Len(runs') = Len(runs) /\ r \in 1 .. Len(runs)
      /\ \A q \in DOMAIN runs' : runs'[q].followUp \subseteq DOMAIN targets
  <2>1. EndpointTypes /\ References /\ "RUNNING" \in Statuses
    BY DEF EndpointsInv, Statuses
  <2>2. r \in 1 .. Len(runs)
    BY <2>1 DEF EndpointTypes
  <2>. QED
    BY <1>1, <2>1, <2>2, StatusChange DEF References
<1>7. Len(rows) \in Nat /\ Len(targets) \in Nat /\ Len(runs) \in Nat
  BY DEF EndpointsInv, EndpointTypes
<1>5. Progressing(worker[w])'
  BY <1>2, <1>3, <1>4, <1>7 DEF Progressing
<1>8. worker' = [worker EXCEPT ![w] = k] /\ discovery' \in Statuses /\ Len(runs) <= Len(runs')
  BY <1>1, <1>2, <1>4, <1>7 DEF k, Statuses
<1>. QED
  BY <1>2, <1>3, <1>4, <1>5, <1>8, JobStep

LEMMA IdleProgresses == ASSUME EndpointTypes PROVE Idle \in WorkerState /\ Progressing(Idle)
BY DEF Idle, WorkerState, Progressing, EndpointTypes

LEMMA FailStep ==
    ASSUME EndpointsInv, NEW w \in Workers, worker[w].pc # "idle", FailTask(w),
           UNCHANGED <<rows, targets, client, budget>>
    PROVE  EndpointsInv'
<1> DEFINE r == worker[w].run
<1>1. r \in DOMAIN runs /\ EndpointTypes /\ References /\ "FAILED" \in Statuses
  BY DEF EndpointsInv, EndpointTypes, Progressing, Statuses
<1>2. /\ runs' \in Seq(Job) /\ Len(runs') = Len(runs)
      /\ \A q \in DOMAIN runs' : runs'[q].followUp \subseteq DOMAIN targets
  BY <1>1, StatusChange DEF FailTask, References
<1>5. Len(rows) \in Nat /\ Len(targets) \in Nat /\ Len(runs) \in Nat
  BY <1>1 DEF EndpointTypes
<1>3. /\ worker' = [worker EXCEPT ![w] = Idle] /\ discovery' \in Statuses
      /\ worker'[w] = Idle /\ Idle \in WorkerState
  BY IdleProgresses DEF FailTask, EndpointsInv, EndpointTypes, Statuses
<1>4. Progressing(worker[w])'
  BY <1>2, <1>3, <1>5 DEF Progressing, Idle
<1>6. Len(runs) <= Len(runs')
  BY <1>2, <1>5
<1>. QED
  BY <1>2, <1>3, <1>4, <1>6, JobStep

\* The state of worker w, whatever it is about to do.
LEMMA WorkerNow ==
    ASSUME EndpointsInv, NEW w \in Workers
    PROVE  /\ worker[w] \in WorkerState /\ Progressing(worker[w])
           /\ Len(rows) \in Nat /\ Len(targets) \in Nat /\ Len(runs) \in Nat
           /\ EndpointTypes /\ References
           /\ \A k : worker' = [worker EXCEPT ![w] = k] => worker'[w] = k
BY DEF EndpointsInv, EndpointTypes

LEMMA ProbeStep == ASSUME EndpointsInv, NEW w \in Workers, Probe(w) PROVE EndpointsInv'
<1>1. CASE FailTask(w)
  BY <1>1, FailStep DEF Probe, Tables
<1>2. ASSUME NEW F \in SUBSET Addresses, UNCHANGED Jobs,
             worker' = [worker EXCEPT ![w].pc = "find", ![w].found = F, ![w].todo = F]
      PROVE  EndpointsInv'
  <2> DEFINE k == [worker[w] EXCEPT !.pc = "find", !.found = F, !.todo = F]
  <2>1. worker' = [worker EXCEPT ![w] = k]
    BY <1>2
  <2>2. /\ k \in WorkerState /\ k.pc = "find" /\ k.run = worker[w].run /\ k.todo = k.found
        /\ k.row = worker[w].row /\ k.target = worker[w].target
    BY WorkerNow DEF WorkerState
  <2> HIDE DEF k
  <2>3. worker[w].run # 0 /\ UNCHANGED <<discovery, runs, rows, targets, client, budget>>
    BY <1>2, WorkerNow DEF Probe, Progressing, Jobs, Tables
  <2>4. Progressing(worker[w])'
    BY <2>1, <2>2, <2>3, WorkerNow DEF Progressing
  <2>5. /\ discovery' \in Statuses /\ runs' \in Seq(Job) /\ Len(runs) <= Len(runs')
        /\ \A r \in DOMAIN runs' : runs'[r].followUp \subseteq DOMAIN targets
    BY <2>3, WorkerNow DEF EndpointTypes, References
  <2>. QED
    BY <2>1, <2>2, <2>3, <2>4, <2>5, JobStep
<1>. QED
  BY <1>1, <1>2 DEF Probe

\* A worker moves, and nothing else does.
LEMMA ReadStep ==
    ASSUME EndpointsInv, UNCHANGED <<Tables, Jobs, client, budget>>,
           NEW w \in Workers, NEW k \in WorkerState, worker' = [worker EXCEPT ![w] = k], Progressing(k)
    PROVE  EndpointsInv'
<1>1. Progressing(worker[w])'
  BY WorkerNow DEF Progressing, Tables, Jobs, Oldest, Rows
<1>2. UNCHANGED <<discovery, runs, rows, targets, client, budget>>
  BY DEF Tables, Jobs
<1>3. /\ discovery' \in Statuses /\ runs' \in Seq(Job) /\ Len(runs) <= Len(runs')
      /\ \A r \in DOMAIN runs' : runs'[r].followUp \subseteq DOMAIN targets
  BY <1>2, WorkerNow DEF EndpointTypes, References
<1>. QED
  BY <1>1, <1>2, <1>3, JobStep

LEMMA FindStep == ASSUME EndpointsInv, NEW w \in Workers, Find(w) PROVE EndpointsInv'
<1> DEFINE i(a) == IF Rows(a) = {} THEN 0 ELSE Min(Rows(a))
           q(a) == IF i(a) = 0 THEN None ELSE rows[i(a)]
           k(a) == [worker[w] EXCEPT !.pc = "store", !.addr = a, !.row = i(a), !.seen = q(a)]
<1>1. PICK a \in worker[w].todo : worker' = [worker EXCEPT ![w] = k(a)]
  BY DEF Find
<1>2. a \in Addresses
  BY WorkerNow DEF WorkerState
<1>3. /\ Rows(a) \in SUBSET Nat
      /\ Rows(a) # {} => Oldest(a, i(a)) /\ i(a) # 0 /\ i(a) \in DOMAIN rows /\ rows[i(a)] \in Endpoint
  <2>1. Rows(a) \subseteq 1 .. Len(rows) /\ Len(rows) \in Nat /\ rows \in Seq(Endpoint \cup {Gone})
    BY WorkerNow DEF Rows, EndpointTypes
  <2>2. Rows(a) # {} => Oldest(a, i(a))
    BY <2>1, LeastRow DEF Oldest
  <2>3. \A j \in Rows(a) : j # 0 /\ j \in DOMAIN rows /\ rows[j] \in Endpoint
    BY <2>1 DEF Rows
  <2>. QED
    BY <2>1, <2>2, <2>3 DEF Oldest
<1>4. i(a) \in 0 .. Len(rows) /\ (i(a) # 0 => Oldest(a, i(a)) /\ rows[i(a)] \in Endpoint)
  BY <1>3, WorkerNow DEF Rows, EndpointTypes
<1> HIDE DEF i
<1>7. q(a) \in Endpoint \cup {None} /\ i(a) \in Nat /\ (i(a) # 0 => q(a) \in Endpoint)
  BY <1>4
<1> HIDE DEF q
<1>5. /\ k(a) \in WorkerState /\ k(a).pc = "store" /\ k(a).addr = a /\ k(a).row = i(a)
      /\ k(a).seen = q(a)
      /\ k(a).run = worker[w].run /\ k(a).found = worker[w].found /\ k(a).todo = worker[w].todo
      /\ k(a).target = worker[w].target
  BY <1>2, <1>7, WorkerNow DEF WorkerState
<1> HIDE DEF k
<1>6. Progressing(k(a))
  BY <1>2, <1>4, <1>5, <1>7, WorkerNow DEF Progressing, Find
<1>. QED
  BY <1>1, <1>5, <1>6, ReadStep DEF Find

LEMMA StoreStep == ASSUME EndpointsAssumption, EndpointsInv, NEW w \in Workers, Store(w) PROVE EndpointsInv' /\ KeepsOldest
<1>1. /\ worker[w].pc = "store" /\ worker[w].addr \in Addresses
      /\ UNCHANGED <<targets, discovery, runs, client, budget>>
      /\ DOMAIN rows = 1 .. Len(rows)
  BY WorkerNow DEF Store, Progressing, Jobs, EndpointTypes
<1>2. CASE worker[w].row = 0
  <2> DEFINE fresh == [addr |-> worker[w].addr, target |-> 0, promoted |-> FALSE]
             k == [worker[w] EXCEPT !.pc = "target", !.row = Len(rows) + 1, !.seen = fresh]
  <2>1. worker' = [worker EXCEPT ![w] = k] /\ rows' = Append(rows, fresh)
    BY <1>2 DEF Store
  <2>0. fresh \in Endpoint
    BY <1>1 DEF Endpoint
  <2>2. fresh \in Endpoint /\ fresh # Gone /\ fresh.addr = worker[w].addr /\ fresh.target = 0
    BY <2>0 DEF EndpointsAssumption
  <2> HIDE DEF fresh
  <2>3. /\ rows' \in Seq(Endpoint \cup {Gone}) /\ Len(rows') = Len(rows) + 1
        /\ DOMAIN rows' = 1 .. Len(rows) + 1
        /\ \A i \in DOMAIN rows : rows'[i] = rows[i]
        /\ rows'[Len(rows) + 1] = fresh
    BY <2>1, <2>2, WorkerNow DEF EndpointTypes
  <2>4. KeepsOldest
    BY <2>1, <2>2, AppendKeeps, WorkerNow
  <2>5. /\ k \in WorkerState /\ k.pc = "target" /\ k.addr = worker[w].addr /\ k.row = Len(rows) + 1
        /\ k.seen = fresh /\ k.run = worker[w].run /\ k.found = worker[w].found
        /\ k.todo = worker[w].todo /\ k.target = worker[w].target
    <3>1. Len(rows) + 1 \in Nat
      BY WorkerNow
    <3>. QED
      BY <2>2, <3>1, WorkerNow DEF WorkerState
  <2> HIDE DEF k
  <2>6. PICK b \in Addresses : b = worker[w].addr
    BY <1>1
  <2>10. worker'[w] = k
    BY <2>1, WorkerNow
  <2>11. Len(rows) + 1 \in Rows(b)'
    BY <2>2, <2>3, <2>6, WorkerNow DEF Rows
  <2>7. Progressing(worker[w])'
    BY <1>1, <2>2, <2>3, <2>5, <2>6, <2>10, <2>11, WorkerNow DEF Progressing
  <2>8. EndpointTypes'
    BY <1>1, <2>1, <2>3, <2>5, WorkerNow DEF EndpointTypes
  <2>9. References'
    <3>1. \A i \in Linked' : i \in Linked /\ rows'[i].target = rows[i].target
      BY <1>1, <2>2, <2>3, WorkerNow DEF Linked
    <3>. QED
      BY <1>1, <2>3, <3>1, WorkerNow DEF References
  <2>. QED
    BY <1>1, <2>1, <2>3, <2>4, <2>7, <2>8, <2>9, WorkerNow, OneMoves
<1>3. CASE worker[w].row # 0
  <2> DEFINE k == [worker[w] EXCEPT !.pc = "dedupe"]
  <2>1. worker' = [worker EXCEPT ![w] = k] /\ UNCHANGED <<Tables, Jobs, client, budget>>
    BY <1>1, <1>3 DEF Store, Tables, Jobs
  <2>2. /\ k \in WorkerState /\ k.pc = "dedupe" /\ k.addr = worker[w].addr /\ k.row = worker[w].row
        /\ k.seen = worker[w].seen /\ k.run = worker[w].run /\ k.found = worker[w].found
        /\ k.todo = worker[w].todo /\ k.target = worker[w].target
    BY WorkerNow DEF WorkerState
  <2> HIDE DEF k
  <2>3. Progressing(k)
    BY <1>1, <1>3, <2>2, WorkerNow DEF Progressing, Oldest
  <2>. QED
    BY <2>1, <2>2, <2>3, ReadStep, RowsStay DEF Tables
<1>. QED
  BY <1>2, <1>3

LEMMA RowsChange ==
    ASSUME EndpointTypes, rows' \in [DOMAIN rows -> Endpoint \cup {Gone}]
    PROVE  /\ rows' \in Seq(Endpoint \cup {Gone}) /\ Len(rows') = Len(rows) /\ DOMAIN rows' = DOMAIN rows
BY DEF EndpointTypes

LEMMA DedupeStep == ASSUME EndpointsInv, NEW w \in Workers, Dedupe(w) PROVE EndpointsInv' /\ KeepsOldest
<1> DEFINE k == [worker[w] EXCEPT !.pc = "target"]
<1>0. PICK b \in Addresses : b = worker[w].addr
  BY WorkerNow DEF Dedupe, Progressing
<1>1. /\ worker[w].pc = "dedupe"
      /\ UNCHANGED <<targets, discovery, runs, client, budget>>
      /\ worker' = [worker EXCEPT ![w] = k]
      /\ rows' = [i \in DOMAIN rows |-> IF i \in Rows(b) \ {worker[w].row} THEN Gone ELSE rows[i]]
  BY <1>0 DEF Dedupe, Jobs
<1>2. /\ k \in WorkerState /\ k.pc = "target" /\ k.addr = worker[w].addr /\ k.row = worker[w].row
      /\ k.seen = worker[w].seen /\ k.run = worker[w].run /\ k.found = worker[w].found
      /\ k.todo = worker[w].todo /\ k.target = worker[w].target
  BY WorkerNow DEF WorkerState
<1> HIDE DEF k
<1>3. Oldest(b, worker[w].row) /\ worker[w].row \in Nat
  BY <1>0, <1>1, WorkerNow DEF Progressing
<1>4. KeepsOldest
  BY <1>1, <1>3, DedupeKeeps, WorkerNow
<1>5. \A i \in DOMAIN rows : rows'[i] \in {rows[i], Gone}
  BY <1>1
<1>6. /\ rows' \in Seq(Endpoint \cup {Gone}) /\ Len(rows') = Len(rows) /\ DOMAIN rows' = DOMAIN rows
  <2>1. \A i \in DOMAIN rows : rows[i] \in Endpoint \cup {Gone}
    BY WorkerNow DEF EndpointTypes
  <2>2. rows' \in [DOMAIN rows -> Endpoint \cup {Gone}]
    BY <1>1, <2>1
  <2>. QED
    BY <2>2, WorkerNow, RowsChange
<1>11. worker'[w] = k
  BY <1>1, WorkerNow
<1>7. Rows(b)' # {}
  BY <1>1, <1>3, <1>4 DEF KeepsOldest, Oldest
<1>8. Progressing(worker[w])'
  BY <1>0, <1>1, <1>2, <1>6, <1>7, <1>11, WorkerNow DEF Progressing
<1>9. EndpointTypes'
  BY <1>1, <1>2, <1>6, WorkerNow DEF EndpointTypes
<1>10. References'
  <2>1. \A i \in Linked' : i \in Linked /\ rows'[i].target = rows[i].target
    BY <1>5, <1>6 DEF Linked
  <2>. QED
    BY <1>1, <1>6, <2>1, WorkerNow DEF References
<1>. QED
  BY <1>1, <1>4, <1>6, <1>8, <1>9, <1>10, WorkerNow, OneMoves

\* get_or_create keeps the targets there are.
LEMMA GotOrCreated ==
    ASSUME EndpointTypes, NEW a \in Addresses, NEW t \in 1 .. Len(targets) + 1, GetOrCreate(a, t)
    PROVE  /\ targets' \in Seq(Addresses \cup {Gone}) /\ Len(targets) <= Len(targets')
           /\ t \in DOMAIN targets' /\ t # 0 /\ t \in 0 .. Len(targets')
           /\ \A u \in DOMAIN targets : u \in DOMAIN targets' /\ targets'[u] = targets[u]
<1>1. targets \in Seq(Addresses \cup {Gone}) /\ DOMAIN targets = 1 .. Len(targets) /\ Len(targets) \in Nat
  BY DEF EndpointTypes
<1>2. CASE TargetsAt(a) = {}
  BY <1>1, <1>2 DEF GetOrCreate
<1>3. CASE TargetsAt(a) # {}
  BY <1>1, <1>3 DEF GetOrCreate, TargetsAt
<1>. QED
  BY <1>2, <1>3

\* References to targets outlive a new target.
LEMMA NewTarget ==
    ASSUME EndpointTypes, References, UNCHANGED <<runs, rows>>,
           \A u \in DOMAIN targets : u \in DOMAIN targets' /\ targets'[u] = targets[u],
           client'.todo \subseteq DOMAIN rows,
           client'.pc = "save" => client'.row \in DOMAIN rows /\ client'.target \in DOMAIN targets'
    PROVE  References'
BY DEF References, Linked

LEMMA GetTargetStep == ASSUME EndpointsInv, NEW w \in Workers, GetTarget(w) PROVE EndpointsInv'
<1>1. PICK t \in 1 .. Len(targets) + 1 :
         /\ GetOrCreate(worker[w].addr, t)
         /\ worker' = [worker EXCEPT ![w].pc = "link", ![w].target = t]
  BY DEF GetTarget
<1> DEFINE k == [worker[w] EXCEPT !.pc = "link", !.target = t]
<1>2. /\ worker[w].pc = "target" /\ worker[w].addr \in Addresses
      /\ worker' = [worker EXCEPT ![w] = k] /\ UNCHANGED <<rows, discovery, runs, client, budget>>
  BY <1>1, WorkerNow DEF GetTarget, Progressing, Jobs
<1>3. /\ k \in WorkerState /\ k.pc = "link" /\ k.addr = worker[w].addr /\ k.row = worker[w].row
      /\ k.seen = worker[w].seen /\ k.run = worker[w].run /\ k.found = worker[w].found
      /\ k.todo = worker[w].todo /\ k.target = t
  <2>1. t \in Nat
    BY WorkerNow
  <2>. QED
    BY <2>1, WorkerNow DEF WorkerState
<1> HIDE DEF k
<1>4. /\ targets' \in Seq(Addresses \cup {Gone}) /\ Len(targets) <= Len(targets')
      /\ t # 0 /\ t \in 0 .. Len(targets')
      /\ \A u \in DOMAIN targets : u \in DOMAIN targets' /\ targets'[u] = targets[u]
  BY <1>1, <1>2, WorkerNow, GotOrCreated
<1>5. worker'[w] = k
  BY <1>2, WorkerNow
<1>6. Progressing(worker[w])'
  BY <1>2, <1>3, <1>4, <1>5, WorkerNow DEF Progressing, Rows
<1>7. EndpointTypes'
  BY <1>2, <1>3, <1>4, WorkerNow DEF EndpointTypes
<1>8. References'
  BY <1>2, <1>4, WorkerNow, NewTarget DEF References
<1>9. KeepsOldest
  BY <1>2 DEF KeepsOldest, Rows, Oldest
<1>. QED
  BY <1>2, <1>4, <1>6, <1>7, <1>8, <1>9, WorkerNow, OneMoves

\* A row gets another target or promotion, and its address stays.
LEMMA RowChange ==
    ASSUME EndpointsAssumption, EndpointTypes, NEW i \in DOMAIN rows, rows[i] # Gone,
           NEW x \in Endpoint, x.addr = rows[i].addr, rows' = [rows EXCEPT ![i] = x]
    PROVE  /\ rows' \in Seq(Endpoint \cup {Gone}) /\ Len(rows') = Len(rows) /\ DOMAIN rows' = DOMAIN rows
           /\ \A j \in DOMAIN rows : rows'[j] = IF j = i THEN x ELSE rows[j]
           /\ SameAddresses /\ KeepsOldest
<1>1. rows \in Seq(Endpoint \cup {Gone}) /\ i \in 1 .. Len(rows)
  BY DEF EndpointTypes
<1>2. /\ rows' \in Seq(Endpoint \cup {Gone}) /\ Len(rows') = Len(rows)
      /\ \A j \in 1 .. Len(rows) : rows'[j] = IF j = i THEN x ELSE rows[j]
  BY <1>1, ExceptSeq
<1>3. DOMAIN rows' = DOMAIN rows /\ DOMAIN rows = 1 .. Len(rows)
  BY <1>1, <1>2
<1>4. x # Gone
  BY DEF EndpointsAssumption
<1>5. SameAddresses
  BY <1>2, <1>3, <1>4 DEF SameAddresses
<1>. QED
  BY <1>2, <1>3, <1>5, SameAddressesKeep, SameRowsKeep

\* The row that Link saves.
LinkedRow(w) ==
    LET k == worker[w]
    IN  [rows[k.row] EXCEPT !.target   = IF k.seen.target # k.target THEN k.target ELSE @,
                            !.promoted = @ \/ ~ k.seen.promoted]

LEMMA LinkIs ==
    ASSUME EndpointsInv, NEW w \in Workers, Link(w)
    PROVE  LET k == worker[w]
               relink == k.seen.target # k.target
               done == [Idle EXCEPT !.pc = "find", !.run = k.run, !.found = k.found,
                                    !.todo = k.todo \ {k.addr}]
           IN  \/ /\ UNCHANGED <<Tables, Jobs, client, budget>>
                  /\ ~ relink /\ k.seen.promoted
                  /\ worker' = [worker EXCEPT ![w] = done]
               \/ /\ UNCHANGED <<targets, Jobs, client, budget>>
                  /\ rows[k.row] # Gone /\ (relink => targets[k.target] # Gone)
                  /\ rows' = [rows EXCEPT ![k.row] = LinkedRow(w)]
                  /\ worker' = [worker EXCEPT ![w] = done]
               \/ FailTask(w) /\ UNCHANGED <<Tables, client, budget>>
<1>1. worker[w].seen.promoted \in BOOLEAN
  BY WorkerNow DEF Link, Progressing, Endpoint
<1> DEFINE k == worker[w]
           relink == k.seen.target # k.target
           fits   == rows[k.row] # Gone /\ (relink => targets[k.target] # Gone)
           save   == relink \/ ~ k.seen.promoted
<1>2. CASE ~ save
  BY <1>1, <1>2 DEF Link, Tables
<1>3. CASE save /\ fits
  BY <1>3 DEF Link, Tables, LinkedRow
<1>4. CASE save /\ ~ fits
  BY <1>4 DEF Link, Tables
<1>. QED
  BY <1>2, <1>3, <1>4

LEMMA LinkStep ==
    ASSUME EndpointsAssumption, EndpointsInv, NEW w \in Workers, Link(w) PROVE EndpointsInv' /\ KeepsOldest
<1> DEFINE done == [Idle EXCEPT !.pc = "find", !.run = worker[w].run, !.found = worker[w].found,
                                !.todo = worker[w].todo \ {worker[w].addr}]
           i == worker[w].row
<1>1. /\ worker[w].pc = "link" /\ i \in DOMAIN rows /\ worker[w].target \in DOMAIN targets
      /\ worker[w].target # 0 /\ worker[w].seen \in Endpoint
  BY WorkerNow DEF Link, Progressing, EndpointTypes
<1>2. /\ done \in WorkerState /\ done.pc = "find" /\ done.run = worker[w].run
      /\ done.found = worker[w].found /\ done.todo \subseteq done.found
      /\ done.row = 0 /\ done.target = 0
  BY WorkerNow DEF Idle, WorkerState, Progressing
<1> HIDE DEF done
<1>3. Progressing(done)
  BY <1>1, <1>2, WorkerNow DEF Progressing
<1>4. CASE UNCHANGED <<Tables, Jobs, client, budget>> /\ worker' = [worker EXCEPT ![w] = done]
  BY <1>2, <1>3, <1>4, ReadStep, RowsStay DEF Tables
<1>5. CASE FailTask(w) /\ UNCHANGED <<Tables, client, budget>>
  BY <1>1, <1>5, FailStep, RowsStay DEF Tables
<1>6. CASE /\ UNCHANGED <<targets, Jobs, client, budget>>
           /\ rows[i] # Gone /\ (worker[w].seen.target # worker[w].target => targets[worker[w].target] # Gone)
           /\ rows' = [rows EXCEPT ![i] = LinkedRow(w)]
           /\ worker' = [worker EXCEPT ![w] = done]
  <2>1. rows[i] \in Endpoint
    BY <1>1, <1>6, WorkerNow DEF EndpointTypes
  <2>2. /\ LinkedRow(w) \in Endpoint /\ LinkedRow(w).addr = rows[i].addr
        /\ LinkedRow(w).target \in {rows[i].target, worker[w].target}
        /\ LinkedRow(w).target = rows[i].target \/ worker[w].seen.target # worker[w].target
    BY <1>1, <2>1, WorkerNow DEF LinkedRow, Endpoint, WorkerState
  <2> DEFINE x == LinkedRow(w)
  <2> HIDE DEF x
  <2>3. /\ rows' \in Seq(Endpoint \cup {Gone}) /\ Len(rows') = Len(rows) /\ DOMAIN rows' = DOMAIN rows
        /\ \A j \in DOMAIN rows : rows'[j] = IF j = i THEN x ELSE rows[j]
        /\ SameAddresses /\ KeepsOldest
    BY <1>1, <1>6, <2>2, WorkerNow, RowChange DEF x
  <2>4. EndpointTypes'
    BY <1>2, <1>6, <2>3, WorkerNow DEF EndpointTypes, Jobs
  <2>5. References'
    <3>1. ASSUME NEW j \in Linked' PROVE rows'[j].target \in DOMAIN targets /\ targets[rows'[j].target] # Gone
      <4>1. CASE j = i /\ rows'[j].target = worker[w].target /\ worker[w].seen.target # worker[w].target
        BY <1>1, <1>6, <4>1
      <4>2. CASE j \in Linked /\ rows'[j].target = rows[j].target
        BY <4>2, WorkerNow DEF References
      <4>. QED
        BY <1>6, <2>2, <2>3, <4>1, <4>2 DEF Linked, x
    <3>. QED
      BY <1>6, <2>3, <3>1, WorkerNow DEF References, Jobs
  <2>7. worker'[w] = done
    BY <1>6, WorkerNow
  <2>6. Progressing(worker[w])'
    BY <1>1, <1>2, <1>6, <2>3, <2>7, WorkerNow DEF Progressing, Jobs
  <2>. QED
    BY <1>6, <2>3, <2>4, <2>5, <2>6, WorkerNow, OneMoves DEF Jobs
<1>. QED
  BY <1>4, <1>5, <1>6, LinkIs DEF done

LEMMA CompleteStep == ASSUME EndpointsInv, NEW w \in Workers, Complete(w) PROVE EndpointsInv'
<1> DEFINE r == worker[w].run
<1>1. /\ worker' = [worker EXCEPT ![w] = Idle] /\ UNCHANGED <<rows, targets, client, budget>>
      /\ r \in DOMAIN runs
  BY WorkerNow DEF Complete, Tables, Progressing, EndpointTypes
<1>2. CASE UNCHANGED Jobs
  BY <1>1, <1>2, IdleProgresses, ReadStep, WorkerNow DEF Tables
<1>3. CASE /\ runs' = [runs EXCEPT ![r] = [status |-> "COMPLETED", followUp |-> FollowUp]]
           /\ discovery' = "COMPLETED"
  <2> DEFINE j == [status |-> "COMPLETED", followUp |-> FollowUp]
  <2>1. FollowUp \subseteq DOMAIN targets /\ DOMAIN targets \subseteq Nat
    BY WorkerNow DEF FollowUp, Promoted, References, EndpointTypes
  <2>2. j \in Job /\ j.followUp = FollowUp
    BY <2>1 DEF Job, Statuses
  <2> HIDE DEF j
  <2>3. /\ runs' \in Seq(Job) /\ Len(runs') = Len(runs) /\ DOMAIN runs' = DOMAIN runs
        /\ \A q \in DOMAIN runs : runs'[q] = IF q = r THEN j ELSE runs[q]
    BY <1>1, <1>3, <2>2, JobChange, WorkerNow DEF j
  <2>4. \A q \in DOMAIN runs' : runs'[q].followUp \subseteq DOMAIN targets
    BY <2>1, <2>2, <2>3, WorkerNow DEF References
  <2>5. worker'[w] = Idle /\ Idle \in WorkerState /\ discovery' \in Statuses
    BY <1>1, <1>3, WorkerNow, IdleProgresses DEF Statuses
  <2>6. Progressing(worker[w])'
    BY <1>1, <2>3, <2>5, WorkerNow DEF Progressing, Idle
  <2>7. Len(runs) <= Len(runs')
    BY <2>3, WorkerNow
  <2>. QED
    BY <1>1, <2>3, <2>4, <2>5, <2>6, <2>7, JobStep
<1>. QED
  BY <1>2, <1>3 DEF Complete

LEMMA KillStep == ASSUME EndpointsAssumption, EndpointsInv, NEW w \in Workers, Kill(w) PROVE EndpointsInv'
<1>1. /\ worker' = [worker EXCEPT ![w] = Idle] /\ UNCHANGED <<rows, targets, discovery, runs, client>>
      /\ budget' = [budget EXCEPT !.kills = @ - 1] /\ budget.kills > 0
  BY DEF Kill, Tables, Jobs
<1>2. budget' \in [requests : 0 .. MaxRequests, kills : 0 .. MaxKills]
  <2>1. budget \in [requests : 0 .. MaxRequests, kills : 0 .. MaxKills] /\ MaxKills \in Nat
    BY WorkerNow DEF EndpointTypes, EndpointsAssumption
  <2>. QED
    BY <1>1, <2>1
<1>3. EndpointTypes'
  BY <1>1, <1>2, WorkerNow, IdleProgresses DEF EndpointTypes
<1>4. References'
  BY <1>1, WorkerNow DEF References, Linked
<1>5. KeepsOldest
  BY <1>1 DEF KeepsOldest, Oldest, Rows
<1>6. worker'[w] = Idle
  BY <1>1, WorkerNow
<1>7. Progressing(worker[w])'
  BY <1>1, <1>6, WorkerNow DEF Progressing, Idle
<1>. QED
  BY <1>1, <1>3, <1>4, <1>5, <1>7, WorkerNow, OneMoves

\* What holds of the users' steps as well.
LEMMA TablesNow ==
    ASSUME EndpointsInv
    PROVE  /\ Len(rows) \in Nat /\ Len(targets) \in Nat /\ Len(runs) \in Nat
           /\ EndpointTypes /\ References
           /\ DOMAIN rows = 1 .. Len(rows) /\ DOMAIN targets = 1 .. Len(targets)
BY DEF EndpointsInv, EndpointTypes

LEMMA Spent ==
    ASSUME EndpointsAssumption, EndpointTypes, NEW kind, Request(kind)
    PROVE  budget' \in [requests : 0 .. MaxRequests, kills : 0 .. MaxKills]
BY DEF EndpointTypes, EndpointsAssumption, Request

\* A user's step that touches no row.
LEMMA UserStep ==
    ASSUME EndpointsInv, UNCHANGED <<rows, worker>>, discovery' \in Statuses, runs' \in Seq(Job),
           targets' \in Seq(Addresses \cup {Gone}), client' \in PromoteState,
           budget' \in [requests : 0 .. MaxRequests, kills : 0 .. MaxKills],
           Len(runs) <= Len(runs'), Len(targets) <= Len(targets'), References'
    PROVE  EndpointsInv'
<1>1. EndpointTypes'
  BY TablesNow DEF EndpointTypes
<1>2. KeepsOldest
  BY DEF KeepsOldest, Oldest, Rows
<1>. QED
  BY <1>1, <1>2, TablesNow, NoneMoves

LEMMA CreateStep == ASSUME EndpointsAssumption, EndpointsInv, Create PROVE EndpointsInv'
<1> DEFINE j == [status |-> "PENDING", followUp |-> {}]
<1>1. j \in Job /\ j.followUp = {}
  BY DEF Job, Statuses
<1>2. UNCHANGED <<rows, targets, worker, client>> /\ runs' = Append(runs, j) /\ discovery' = "PENDING"
  BY DEF Create, Tables
<1> HIDE DEF j
<1>3. /\ runs' \in Seq(Job) /\ Len(runs') = Len(runs) + 1 /\ Len(runs) <= Len(runs')
      /\ \A r \in DOMAIN runs' : runs'[r] = j \/ (r \in DOMAIN runs /\ runs'[r] = runs[r])
  BY <1>1, <1>2, TablesNow DEF EndpointTypes
<1>4. References'
  BY <1>1, <1>2, <1>3, TablesNow DEF References, Linked
<1>5. budget' \in [requests : 0 .. MaxRequests, kills : 0 .. MaxKills]
  BY Spent, TablesNow DEF Create
<1>. QED
  BY <1>2, <1>3, <1>4, <1>5, TablesNow, UserStep DEF EndpointTypes, Statuses

LEMMA CancelStep ==
    ASSUME EndpointsAssumption, EndpointsInv, NEW r \in DOMAIN runs, Cancel(r) PROVE EndpointsInv'
<1>1. /\ UNCHANGED <<rows, targets, worker, client>> /\ runs' = [runs EXCEPT ![r].status = "CANCELLED"]
      /\ discovery' \in {discovery, "CANCELLED"}
  BY DEF Cancel, Tables
<1>2. "CANCELLED" \in Statuses
  BY DEF Statuses
<1>3. /\ runs' \in Seq(Job) /\ Len(runs') = Len(runs) /\ DOMAIN runs' = DOMAIN runs
      /\ \A q \in DOMAIN runs : runs'[q].followUp = runs[q].followUp
  <2>1. \A q \in DOMAIN runs : runs'[q].followUp = runs[q].followUp
    BY <1>1, <1>2, TablesNow, StatusChange
  <2>. QED
    BY <1>1, <1>2, <2>1, TablesNow, StatusChange
<1>4. References'
  BY <1>1, <1>3, TablesNow DEF References, Linked
<1>5. budget' \in [requests : 0 .. MaxRequests, kills : 0 .. MaxKills]
  BY Spent, TablesNow DEF Cancel
<1>6. discovery' \in Statuses /\ Len(runs) <= Len(runs')
  BY <1>1, <1>2, <1>3, TablesNow DEF EndpointTypes
<1>. QED
  BY <1>1, <1>3, <1>4, <1>5, <1>6, TablesNow, UserStep DEF EndpointTypes

LEMMA PostStep ==
    ASSUME EndpointsAssumption, EndpointsInv, NEW a \in Addresses, PostTarget(a) PROVE EndpointsInv'
<1>1. UNCHANGED <<rows, discovery, runs, worker, client>> /\ targets' = Append(targets, a)
  BY DEF PostTarget, Jobs
<1>2. /\ targets' \in Seq(Addresses \cup {Gone}) /\ Len(targets) <= Len(targets')
      /\ \A u \in DOMAIN targets : u \in DOMAIN targets' /\ targets'[u] = targets[u]
  BY <1>1, TablesNow DEF EndpointTypes
<1>3. References'
  BY <1>1, <1>2, TablesNow, NewTarget DEF References
<1>4. budget' \in [requests : 0 .. MaxRequests, kills : 0 .. MaxKills]
  BY Spent, TablesNow DEF PostTarget
<1>. QED
  BY <1>1, <1>2, <1>3, <1>4, TablesNow, UserStep DEF EndpointTypes

\* Rows of the same addresses that point at targets that are still there.
LEMMA UnlinkedRows ==
    ASSUME EndpointsInv, UNCHANGED <<runs, worker, client, discovery>>,
           budget' \in [requests : 0 .. MaxRequests, kills : 0 .. MaxKills],
           targets' \in [DOMAIN targets -> Addresses \cup {Gone}],
           rows' \in [DOMAIN rows -> Endpoint \cup {Gone}],
           SameAddresses,
           \A i \in Linked' : i \in Linked /\ rows'[i].target = rows[i].target
                              /\ targets'[rows[i].target] = targets[rows[i].target]
    PROVE  EndpointsInv' /\ KeepsOldest
<1>1. /\ rows' \in Seq(Endpoint \cup {Gone}) /\ Len(rows') = Len(rows) /\ DOMAIN rows' = DOMAIN rows
  BY RowsChange, TablesNow
<1>2. /\ targets' \in Seq(Addresses \cup {Gone}) /\ Len(targets') = Len(targets)
      /\ DOMAIN targets' = DOMAIN targets
  BY TablesNow DEF EndpointTypes
<1>3. EndpointTypes'
  BY <1>1, <1>2, TablesNow DEF EndpointTypes
<1>4. References'
  BY <1>1, <1>2, TablesNow DEF References
<1>. QED
  BY <1>1, <1>2, <1>3, <1>4, TablesNow, NoneMoves, SameAddressesKeep, SameRowsKeep

LEMMA DeleteTargetStep ==
    ASSUME EndpointsAssumption, EndpointsInv, NEW t \in DOMAIN targets, DeleteTarget(t) PROVE EndpointsInv' /\ KeepsOldest
<1>1. /\ UNCHANGED <<discovery, runs, worker, client>> /\ rows' = Unlink({t})
      /\ targets' = [targets EXCEPT ![t] = Gone]
  BY DEF DeleteTarget, Jobs
<1>2. \A i \in DOMAIN rows : rows[i] \in Endpoint \cup {Gone}
  BY TablesNow DEF EndpointTypes
<1>3. ASSUME NEW i \in DOMAIN rows
      PROVE  /\ rows'[i] \in Endpoint \cup {Gone}
             /\ rows'[i] = Gone <=> rows[i] = Gone
             /\ rows[i] # Gone => rows'[i].addr = rows[i].addr
             /\ (i \in Linked /\ rows[i].target = t /\ rows'[i].target = 0)
                \/ (~ (i \in Linked /\ rows[i].target = t) /\ rows'[i] = rows[i])
  <2>1. CASE i \in Linked /\ rows[i].target = t
    <3> DEFINE x == [rows[i] EXCEPT !.target = 0]
    <3>1. rows[i] \in Endpoint /\ rows'[i] = x
      BY <1>1, <1>2, <2>1 DEF Linked, Unlink
    <3>2. x \in Endpoint /\ x.target = 0 /\ x.addr = rows[i].addr
      BY <3>1 DEF Endpoint
    <3> HIDE DEF x
    <3>. QED
      BY <2>1, <3>1, <3>2 DEF EndpointsAssumption
  <2>2. CASE ~ (i \in Linked /\ rows[i].target = t)
    BY <1>1, <1>2, <2>2 DEF Unlink
  <2>. QED
    BY <2>1, <2>2
<1>4. DOMAIN rows' = DOMAIN rows /\ rows' \in [DOMAIN rows -> Endpoint \cup {Gone}]
  BY <1>1, <1>3 DEF Unlink
<1>5. targets' \in [DOMAIN targets -> Addresses \cup {Gone}]
  BY <1>1, TablesNow DEF EndpointTypes
<1>6. SameAddresses
  BY <1>3, <1>4 DEF SameAddresses
<1>7. \A i \in Linked' : i \in Linked /\ rows'[i].target = rows[i].target
                         /\ targets'[rows[i].target] = targets[rows[i].target]
  BY <1>1, <1>3, <1>4, TablesNow DEF Linked, References
<1>8. budget' \in [requests : 0 .. MaxRequests, kills : 0 .. MaxKills]
  BY Spent, TablesNow DEF DeleteTarget
<1>. QED
  BY <1>1, <1>4, <1>5, <1>6, <1>7, <1>8, UnlinkedRows

LEMMA ResetStep == ASSUME EndpointsAssumption, EndpointsInv, ResetTargets PROVE EndpointsInv' /\ KeepsOldest
<1>1. /\ UNCHANGED <<discovery, runs, worker, client>>
      /\ rows' = [i \in DOMAIN rows |-> IF rows[i] = Gone THEN Gone
                    ELSE [rows[i] EXCEPT !.target = 0, !.promoted = FALSE]]
      /\ targets' = [t \in DOMAIN targets |-> Gone]
  BY DEF ResetTargets, Jobs
<1>2. ASSUME NEW i \in DOMAIN rows
      PROVE  /\ rows'[i] \in Endpoint \cup {Gone}
             /\ rows'[i] = Gone <=> rows[i] = Gone
             /\ rows[i] # Gone => rows'[i].addr = rows[i].addr
             /\ rows'[i] = Gone \/ rows'[i].target = 0
  <2>1. CASE rows[i] = Gone
    BY <1>1, <2>1
  <2>2. CASE rows[i] # Gone
    <3> DEFINE x == [rows[i] EXCEPT !.target = 0, !.promoted = FALSE]
    <3>0. rows[i] \in Endpoint
      BY <2>2, TablesNow DEF EndpointTypes
    <3>1. rows[i] \in Endpoint /\ rows'[i] = x
      BY <1>1, <2>2, <3>0
    <3>2. x \in Endpoint /\ x.target = 0 /\ x.addr = rows[i].addr
      BY <3>1 DEF Endpoint
    <3> HIDE DEF x
    <3>. QED
      BY <2>2, <3>1, <3>2 DEF EndpointsAssumption
  <2>. QED
    BY <2>1, <2>2
<1>3. DOMAIN rows' = DOMAIN rows /\ rows' \in [DOMAIN rows -> Endpoint \cup {Gone}]
  BY <1>1, <1>2
<1>4. targets' \in [DOMAIN targets -> Addresses \cup {Gone}]
  BY <1>1
<1>5. SameAddresses
  BY <1>2, <1>3 DEF SameAddresses
<1>6. Linked' = {}
  BY <1>2, <1>3 DEF Linked
<1>7. budget' \in [requests : 0 .. MaxRequests, kills : 0 .. MaxKills]
  BY Spent, TablesNow DEF ResetTargets
<1>. QED
  BY <1>1, <1>3, <1>4, <1>5, <1>6, <1>7, UnlinkedRows

LEMMA PromoteCheckStep == ASSUME EndpointsAssumption, EndpointsInv, PromoteCheck PROVE EndpointsInv'
<1>1. /\ UNCHANGED <<rows, targets, discovery, runs, worker>> /\ client.pc = "idle"
      /\ client' = [client EXCEPT !.pc = "read"]
  BY DEF PromoteCheck, Tables, Jobs
<1>2. client' \in PromoteState /\ client'.pc = "read" /\ client'.todo = client.todo
  BY <1>1, TablesNow DEF EndpointTypes, PromoteState
<1>3. References'
  BY <1>1, <1>2, TablesNow, NewTarget DEF References
<1>4. budget' \in [requests : 0 .. MaxRequests, kills : 0 .. MaxKills]
  BY Spent, TablesNow DEF PromoteCheck
<1>. QED
  BY <1>1, <1>2, <1>3, <1>4, TablesNow, UserStep DEF EndpointTypes

LEMMA PromoteReadStep == ASSUME EndpointsInv, PromoteRead PROVE EndpointsInv'
<1>1. PICK S \in SUBSET {i \in DOMAIN rows : rows[i] # Gone} :
         client' = [client EXCEPT !.pc = "next", !.cache = rows, !.todo = {i \in S : ~ rows[i].promoted}]
  BY DEF PromoteRead
<1>2. UNCHANGED <<rows, targets, discovery, runs, worker, budget>>
  BY DEF PromoteRead, Tables, Jobs
<1> DEFINE T == {i \in S : ~ rows[i].promoted}
<1>3. T \subseteq DOMAIN rows /\ T \subseteq Nat
  BY TablesNow
<1> HIDE DEF T
<1>4. client' \in PromoteState /\ client'.pc = "next" /\ client'.todo = T
  BY <1>1, <1>3, TablesNow DEF EndpointTypes, PromoteState, T
<1>5. References'
  BY <1>2, <1>3, <1>4, TablesNow, NewTarget DEF References
<1>. QED
  BY <1>2, <1>4, <1>5, TablesNow, UserStep DEF EndpointTypes

LEMMA PromoteTargetStep == ASSUME EndpointsInv, PromoteTarget PROVE EndpointsInv'
<1>1. UNCHANGED <<rows, discovery, runs, worker, budget>>
  BY DEF PromoteTarget, Jobs
<1>2. CASE client' = NoRequest /\ UNCHANGED targets
  <2>1. client' \in PromoteState /\ client'.pc = "idle" /\ client'.todo = {}
    BY <1>2 DEF NoRequest, PromoteState
  <2>2. References'
    BY <1>1, <1>2, <2>1, TablesNow, NewTarget DEF References
  <2>. QED
    BY <1>1, <1>2, <2>1, <2>2, TablesNow, UserStep DEF EndpointTypes
<1>3. ASSUME NEW i \in client.todo, NEW a \in Addresses, NEW t \in 1 .. Len(targets) + 1, GetOrCreate(a, t),
             client' = [client EXCEPT !.pc = "save", !.row = i, !.target = t, !.todo = @ \ {i}]
      PROVE  EndpointsInv'
  <2>1. /\ targets' \in Seq(Addresses \cup {Gone}) /\ Len(targets) <= Len(targets')
        /\ t \in DOMAIN targets'
        /\ \A u \in DOMAIN targets : u \in DOMAIN targets' /\ targets'[u] = targets[u]
    BY <1>3, TablesNow, GotOrCreated
  <2>2. client \in PromoteState /\ i \in DOMAIN rows /\ i \in Nat /\ t \in Nat
    BY TablesNow DEF EndpointTypes, References, PromoteState
  <2>3. /\ client' \in PromoteState /\ client'.pc = "save" /\ client'.row = i /\ client'.target = t
        /\ client'.todo \subseteq client.todo
    BY <1>3, <2>2 DEF PromoteState
  <2>4. References'
    BY <1>1, <2>1, <2>2, <2>3, TablesNow, NewTarget DEF References
  <2>. QED
    BY <1>1, <2>1, <2>3, <2>4, TablesNow, UserStep DEF EndpointTypes
<1>. QED
  BY <1>2, <1>3 DEF PromoteTarget

LEMMA PromoteSaveStep == ASSUME EndpointsAssumption, EndpointsInv, PromoteSave PROVE EndpointsInv' /\ KeepsOldest
<1> DEFINE i == client.row
           t == client.target
<1>1. /\ UNCHANGED <<targets, discovery, runs, worker, budget>>
      /\ i \in DOMAIN rows /\ t \in DOMAIN targets
  BY TablesNow DEF PromoteSave, Jobs, References
<1>2. CASE rows' = rows /\ client' = NoRequest
  <2>1. client' \in PromoteState /\ client'.pc = "idle" /\ client'.todo = {}
    BY <1>2 DEF NoRequest, PromoteState
  <2>2. References'
    BY <1>1, <1>2, <2>1, TablesNow, NewTarget DEF References
  <2>. QED
    BY <1>1, <1>2, <2>1, <2>2, TablesNow, UserStep, RowsStay DEF EndpointTypes
<1>3. CASE /\ rows[i] # Gone /\ targets[t] # Gone
           /\ rows' = [rows EXCEPT ![i].target = t, ![i].promoted = TRUE]
           /\ client' = [client EXCEPT !.pc = "next", !.row = 0, !.target = 0]
  <2> DEFINE x == [rows[i] EXCEPT !.target = t, !.promoted = TRUE]
  <2>1. rows[i] \in Endpoint /\ t \in Nat
    BY <1>1, <1>3, TablesNow DEF EndpointTypes
  <2>2. x \in Endpoint /\ x.addr = rows[i].addr /\ x.target = t
    BY <2>1 DEF Endpoint
  <2>3. rows' = [rows EXCEPT ![i] = x]
    BY <1>3
  <2> HIDE DEF x
  <2>4. /\ rows' \in Seq(Endpoint \cup {Gone}) /\ Len(rows') = Len(rows) /\ DOMAIN rows' = DOMAIN rows
        /\ \A j \in DOMAIN rows : rows'[j] = IF j = i THEN x ELSE rows[j]
        /\ KeepsOldest
    BY <1>1, <1>3, <2>2, <2>3, TablesNow, RowChange
  <2>5. client' \in PromoteState /\ client'.pc = "next" /\ client'.todo = client.todo
    BY <1>3, TablesNow DEF EndpointTypes, PromoteState
  <2>6. EndpointTypes'
    BY <1>1, <2>4, <2>5, TablesNow DEF EndpointTypes
  <2>7. References'
    BY <1>1, <1>3, <2>2, <2>4, <2>5, TablesNow DEF References, Linked
  <2>. QED
    BY <1>1, <2>4, <2>6, <2>7, TablesNow, NoneMoves
<1>. QED
  BY <1>2, <1>3 DEF PromoteSave

LEMMA EndpointsNext ==
    ASSUME EndpointsAssumption, EndpointsInv, [Next]_vars PROVE EndpointsInv' /\ KeepsOldest
<1>1. CASE UNCHANGED vars
  BY <1>1, RowsStay DEF vars, EndpointsInv, EndpointTypes, References, Linked, Progressing, Oldest, Rows
<1>2. ASSUME NEW w \in Workers, Claim(w) \/ Probe(w) \/ Find(w) \/ GetTarget(w) \/ Complete(w) \/ Kill(w)
      PROVE  EndpointsInv' /\ KeepsOldest
  <2>1. UNCHANGED rows
    BY <1>2 DEF Claim, Probe, Find, GetTarget, Complete, Kill, Tables
  <2>. QED
    BY <1>2, <2>1, RowsStay, ClaimStep, ProbeStep, FindStep, GetTargetStep, CompleteStep, KillStep
<1>3. ASSUME NEW w \in Workers, Store(w) \/ Dedupe(w) \/ Link(w) PROVE EndpointsInv' /\ KeepsOldest
  BY <1>3, StoreStep, DedupeStep, LinkStep
<1>4. CASE Create \/ PromoteCheck \/ PromoteRead \/ PromoteTarget
  <2>1. UNCHANGED rows
    BY <1>4 DEF Create, PromoteCheck, PromoteRead, PromoteTarget, Tables
  <2>. QED
    BY <1>4, <2>1, RowsStay, CreateStep, PromoteCheckStep, PromoteReadStep, PromoteTargetStep
<1>5. CASE ResetTargets \/ PromoteSave
  BY <1>5, ResetStep, PromoteSaveStep
<1>6. ASSUME NEW r \in DOMAIN runs, Cancel(r) PROVE EndpointsInv' /\ KeepsOldest
  BY <1>6, CancelStep, RowsStay DEF Cancel, Tables
<1>7. ASSUME NEW t \in DOMAIN targets, DeleteTarget(t) PROVE EndpointsInv' /\ KeepsOldest
  BY <1>7, DeleteTargetStep
<1>8. ASSUME NEW a \in Addresses, PostTarget(a) PROVE EndpointsInv' /\ KeepsOldest
  BY <1>8, PostStep, RowsStay DEF PostTarget
<1>. QED
  BY <1>1, <1>2, <1>3, <1>4, <1>5, <1>6, <1>7, <1>8 DEF Next

LEMMA EndpointsTyped == ASSUME EndpointsInv PROVE TypeOK
<1> DEFINE J == [status : Statuses, followUp : SUBSET (DOMAIN targets)]
<1>1. \A r \in DOMAIN runs : runs[r] \in J
  <2>1. ASSUME NEW r \in DOMAIN runs PROVE runs[r] \in Job /\ runs[r].followUp \subseteq DOMAIN targets
    BY TablesNow DEF EndpointTypes, References
  <2>. QED
    BY <2>1 DEF Job
<1> HIDE DEF J
<1>2. runs \in Seq(J)
  BY <1>1, TablesNow DEF EndpointTypes
<1>3. \A w \in Workers : /\ worker[w].pc \in {"idle", "probe", "find", "store", "dedupe", "target", "link"}
                         /\ worker[w].seen \in Endpoint \cup {None}
  BY TablesNow DEF EndpointTypes, WorkerState
<1>4. /\ client.pc \in {"idle", "read", "next", "save"}
      /\ budget.requests \in 0 .. MaxRequests /\ budget.kills \in 0 .. MaxKills
  BY TablesNow DEF EndpointTypes, PromoteState
<1>5. \A i \in DOMAIN rows : rows[i] # Gone /\ rows[i].target # 0 =>
         rows[i].target \in DOMAIN targets /\ targets[rows[i].target] # Gone
  BY TablesNow DEF References, Linked
<1>. QED
  BY <1>2, <1>3, <1>4, <1>5, TablesNow DEF TypeOK, EndpointTypes, EndpointsInv, Progressing, J

-----------------------------------------------------------------------------
(* An address that was found keeps a row.                                  *)

\* Only the removal of duplicates takes rows away, and it keeps the oldest.
LEMMA FoundSteps ==
    ASSUME EndpointsAssumption, EndpointsInv, [Next]_vars PROVE FoundStep
BY EndpointsNext DEF KeepsOldest, FoundStep

-----------------------------------------------------------------------------
(* The follow-up scan covers what its run found.                           *)

\* Where no reset takes a promotion back, every row with a target is promoted
\* and stays so.  A run that a worker has is not claimed again.
Remembers(k) ==
    /\ k.run # 0 => runs[k.run].status # "PENDING"
    /\ k.pc = "idle" => k.run = 0
    /\ \A a \in k.found \ k.todo : Rows(a) # {}
    /\ k.pc \in {"store", "dedupe", "target", "link"} /\ k.row # 0 /\ k.seen.promoted
         => rows[k.row] = Gone \/ rows[k.row].promoted

FollowInv ==
    /\ \A w \in Workers : Remembers(worker[w])
    /\ \A v, w \in Workers : worker[v].run = worker[w].run /\ worker[v].run # 0 => v = w
    /\ \A i \in Linked : rows[i].promoted

LEMMA FollowInit == Init => FollowInv
BY DEF Init, FollowInv, Remembers, Idle, Linked

\* A step keeps the promotion of a row, until the row goes, and every row with a
\* target is promoted after it.
KeepsPromotion ==
    /\ \A i \in DOMAIN rows : rows[i] # Gone /\ rows[i].promoted
                                 => i \in DOMAIN rows' /\ (rows'[i] = Gone \/ rows'[i].promoted)
    /\ \A i \in DOMAIN rows : rows[i] = Gone => i \in DOMAIN rows' /\ rows'[i] = Gone
    /\ \A i \in Linked' : rows'[i].promoted

LEMMA SamePromotion == ASSUME FollowInv, UNCHANGED rows PROVE KeepsPromotion
BY DEF FollowInv, KeepsPromotion, Linked

LEMMA LinkPromotes ==
    ASSUME EndpointsInv, FollowInv, NEW w \in Workers, Link(w) PROVE KeepsPromotion
<1> DEFINE i == worker[w].row
           k == worker[w]
<1>1. /\ k.pc = "link" /\ i \in DOMAIN rows /\ i # 0 /\ k.seen \in Endpoint /\ Remembers(k)
      /\ k.target \in Nat
  BY WorkerNow DEF Link, Progressing, EndpointTypes, FollowInv, WorkerState
<1>2. CASE UNCHANGED rows
  BY <1>2, SamePromotion
<1>3. CASE rows[i] # Gone /\ rows' = [rows EXCEPT ![i] = LinkedRow(w)]
  <2>1. rows[i] \in Endpoint
    BY <1>1, <1>3, WorkerNow DEF EndpointTypes
  <2>2. LinkedRow(w).promoted
    BY <1>1, <1>3, <2>1 DEF LinkedRow, Remembers, Endpoint
  <2>3. DOMAIN rows' = DOMAIN rows /\ \A j \in DOMAIN rows : rows'[j] = IF j = i THEN LinkedRow(w) ELSE rows[j]
    BY <1>1, <1>3
  <2>. QED
    BY <1>3, <2>2, <2>3 DEF FollowInv, KeepsPromotion, Linked
<1>. QED
  BY <1>2, <1>3, LinkIs DEF Tables

LEMMA RowsPromote ==
    ASSUME EndpointsAssumption, EndpointsInv, FollowInv, "reset" \notin Requests, [Next]_vars
    PROVE  KeepsPromotion
<1>1. CASE UNCHANGED rows
  BY <1>1, SamePromotion
<1>2. ASSUME NEW w \in Workers, Store(w) PROVE KeepsPromotion
  <2> DEFINE fresh == [addr |-> worker[w].addr, target |-> 0, promoted |-> FALSE]
  <2>1. CASE rows' = Append(rows, fresh)
    <3>1. fresh.target = 0
      OBVIOUS
    <3> HIDE DEF fresh
    <3>2. /\ DOMAIN rows' = 1 .. Len(rows) + 1 /\ DOMAIN rows = 1 .. Len(rows) /\ Len(rows) \in Nat
          /\ \A i \in DOMAIN rows : rows'[i] = rows[i]
          /\ rows'[Len(rows) + 1] = fresh
      BY <2>1, TablesNow DEF EndpointTypes
    <3>. QED
      BY <3>1, <3>2 DEF FollowInv, KeepsPromotion, Linked
  <2>. QED
    BY <1>1, <1>2, <2>1 DEF Store
<1>3. ASSUME NEW w \in Workers, Dedupe(w) PROVE KeepsPromotion
  BY <1>3 DEF Dedupe, FollowInv, KeepsPromotion, Linked
<1>4. ASSUME NEW w \in Workers, Link(w) PROVE KeepsPromotion
  BY <1>4, LinkPromotes
<1>5. ASSUME NEW t \in DOMAIN targets, DeleteTarget(t) PROVE KeepsPromotion
  <2>1. rows' = Unlink({t}) /\ \A i \in DOMAIN rows : rows[i] \in Endpoint \cup {Gone}
    BY <1>5, TablesNow DEF DeleteTarget, EndpointTypes
  <2>2. ASSUME NEW i \in DOMAIN rows
        PROVE  /\ i \in DOMAIN rows' /\ (rows[i] = Gone => rows'[i] = Gone)
               /\ rows[i] # Gone => rows'[i].promoted = rows[i].promoted /\ rows'[i].target \in {0, rows[i].target}
    <3>1. CASE i \in Linked /\ rows[i].target = t
      <4>1. rows[i] \in Endpoint /\ rows'[i] = [rows[i] EXCEPT !.target = 0] /\ rows[i] # Gone
        BY <2>1, <3>1 DEF Unlink, Linked
      <4>. QED
        BY <2>1, <4>1 DEF Endpoint, Unlink
    <3>2. CASE ~ (i \in Linked /\ rows[i].target = t)
      BY <2>1, <3>2 DEF Unlink
    <3>. QED
      BY <3>1, <3>2
  <2>3. DOMAIN rows' = DOMAIN rows
    BY <2>1 DEF Unlink
  <2>. QED
    BY <2>2, <2>3 DEF FollowInv, KeepsPromotion, Linked
<1>6. ASSUME PromoteSave PROVE KeepsPromotion
  <2> DEFINE i == client.row
             x == [rows[i] EXCEPT !.target = client.target, !.promoted = TRUE]
  <2>1. CASE rows' = [rows EXCEPT ![i] = x] /\ rows[i] # Gone
    <3>1. i \in DOMAIN rows /\ \A j \in DOMAIN rows : rows[j] \in Endpoint \cup {Gone}
      BY <1>6, TablesNow DEF PromoteSave, References, EndpointTypes
    <3>2. x.promoted
      BY <2>1, <3>1 DEF Endpoint
    <3> HIDE DEF x
    <3>3. DOMAIN rows' = DOMAIN rows /\ \A j \in DOMAIN rows : rows'[j] = IF j = i THEN x ELSE rows[j]
      BY <2>1, <3>1
    <3>. QED
      BY <2>1, <3>2, <3>3 DEF FollowInv, KeepsPromotion, Linked
  <2>. QED
    BY <1>1, <1>6, <2>1 DEF PromoteSave
<1>7. ~ ResetTargets
  BY DEF ResetTargets, Request
<1>8. ASSUME NEW w \in Workers, Claim(w) \/ Probe(w) \/ Find(w) \/ GetTarget(w) \/ Complete(w) \/ Kill(w)
      PROVE  UNCHANGED rows
  BY <1>8 DEF Claim, Probe, Find, GetTarget, Complete, Kill, Tables
<1>9. Create \/ PromoteCheck \/ PromoteRead \/ PromoteTarget \/ (\E r \in DOMAIN runs : Cancel(r))
        \/ (\E a \in Addresses : PostTarget(a)) => UNCHANGED rows
  BY DEF Create, PromoteCheck, PromoteRead, PromoteTarget, Cancel, PostTarget, Tables
<1>. QED
  BY <1>1, <1>2, <1>3, <1>4, <1>5, <1>6, <1>7, <1>8, <1>9 DEF Next, vars

-----------------------------------------------------------------------------
(* Who has which run.                                                      *)

\* No run is set back to PENDING.
NoneReopened == \A r \in DOMAIN runs : r \in DOMAIN runs'
                                       /\ (runs[r].status # "PENDING" => runs'[r].status # "PENDING")

LEMMA SomeRunChanges ==
    ASSUME EndpointTypes, NEW r \in DOMAIN runs,
           \/ \E s \in Statuses \ {"PENDING"} : runs' = [runs EXCEPT ![r].status = s]
           \/ \E F : runs' = [runs EXCEPT ![r] = [status |-> "COMPLETED", followUp |-> F]]
    PROVE  NoneReopened /\ \A q \in DOMAIN runs : q # r => runs'[q] = runs[q]
<1>1. CASE \E s \in Statuses \ {"PENDING"} : runs' = [runs EXCEPT ![r].status = s]
  BY <1>1, StatusChange DEF NoneReopened
<1>2. ASSUME NEW F, runs' = [runs EXCEPT ![r] = [status |-> "COMPLETED", followUp |-> F]]
      PROVE  NoneReopened /\ \A q \in DOMAIN runs : q # r => runs'[q] = runs[q]
  BY <1>2 DEF NoneReopened
<1>. QED
  BY <1>1, <1>2

\* A worker fails or completes its own run.
LEMMA FailOwn ==
    ASSUME EndpointsInv, NEW w \in Workers, worker[w].pc # "idle", FailTask(w)
    PROVE  /\ NoneReopened /\ worker'[w] = Idle
           /\ \A q \in DOMAIN runs : q # worker[w].run => runs'[q] = runs[q]
           /\ runs'[worker[w].run].status = "FAILED"
<1>1. worker[w].run \in DOMAIN runs /\ "FAILED" \in Statuses \ {"PENDING"}
  BY WorkerNow DEF Progressing, EndpointTypes, Statuses
<1>2. runs' = [runs EXCEPT ![worker[w].run].status = "FAILED"] /\ worker' = [worker EXCEPT ![w] = Idle]
  BY DEF FailTask
<1>3. NoneReopened /\ \A q \in DOMAIN runs : q # worker[w].run => runs'[q] = runs[q]
  BY <1>1, <1>2, WorkerNow, SomeRunChanges
<1>4. runs'[worker[w].run].status = "FAILED"
  BY <1>1, <1>2, WorkerNow, StatusChange
<1>. QED
  BY <1>2, <1>3, <1>4, WorkerNow

LEMMA ReopensNone == ASSUME EndpointsInv, [Next]_vars PROVE NoneReopened
<1>1. CASE UNCHANGED runs
  BY <1>1 DEF NoneReopened
<1>2. ASSUME NEW w \in Workers, Claim(w) PROVE NoneReopened
  <2>1. PICK r \in DOMAIN runs : runs' = [runs EXCEPT ![r].status = "RUNNING"]
    BY <1>2 DEF Claim
  <2>. QED
    BY <2>1, SomeRunChanges, TablesNow DEF Statuses
<1>3. ASSUME NEW w \in Workers, Probe(w) \/ Link(w) PROVE NoneReopened
  BY <1>1, <1>3, FailOwn DEF Probe, Link, Jobs
<1>4. ASSUME NEW w \in Workers, Complete(w) PROVE NoneReopened
  <2>1. worker[w].run \in DOMAIN runs
    BY <1>4, WorkerNow DEF Complete, Progressing, EndpointTypes
  <2>2. CASE runs' = [runs EXCEPT ![worker[w].run] = [status |-> "COMPLETED", followUp |-> FollowUp]]
    BY <2>1, <2>2, SomeRunChanges, TablesNow
  <2>. QED
    BY <1>1, <1>4, <2>2 DEF Complete, Jobs
<1>5. CASE Create
  BY <1>5, TablesNow DEF Create, NoneReopened, EndpointTypes
<1>6. ASSUME NEW r \in DOMAIN runs, Cancel(r) PROVE NoneReopened
  BY <1>6, SomeRunChanges, TablesNow DEF Cancel, Statuses
<1>7. ASSUME NEW w \in Workers, Find(w) \/ Store(w) \/ Dedupe(w) \/ GetTarget(w) \/ Kill(w)
      PROVE  UNCHANGED runs
  BY <1>7 DEF Find, Store, Dedupe, GetTarget, Kill, Jobs
<1>8. ResetTargets \/ PromoteCheck \/ PromoteRead \/ PromoteTarget \/ PromoteSave
        \/ (\E t \in DOMAIN targets : DeleteTarget(t)) \/ (\E a \in Addresses : PostTarget(a))
        => UNCHANGED runs
  BY DEF ResetTargets, PromoteCheck, PromoteRead, PromoteTarget, PromoteSave, DeleteTarget, PostTarget, Jobs
<1>. QED
  BY <1>1, <1>2, <1>3, <1>4, <1>5, <1>6, <1>7, <1>8 DEF Next, vars

-----------------------------------------------------------------------------
(* What each worker remembers, step by step.                               *)

LEMMA OthersRemember ==
    ASSUME EndpointTypes, KeepsOldest, KeepsPromotion, NoneReopened,
           NEW k \in WorkerState, Progressing(k), Remembers(k)
    PROVE  Remembers(k)'
<1>1. k.run # 0 => k.run \in DOMAIN runs
  BY DEF Progressing, EndpointTypes
<1>2. k.row # 0 => k.row \in DOMAIN rows
  BY DEF Progressing, EndpointTypes
<1>3. \A a \in k.found \ k.todo : a \in Addresses
  BY DEF WorkerState
<1>. QED
  BY <1>1, <1>2, <1>3 DEF Remembers, KeepsOldest, KeepsPromotion, NoneReopened

LEMMA FollowMoves ==
    ASSUME EndpointsInv, KeepsOldest, FollowInv, KeepsPromotion, NoneReopened, NEW w \in Workers,
           \A v \in Workers \ {w} : worker'[v] = worker[v],
           Remembers(worker[w])',
           worker'[w].run \in {0, worker[w].run} \/ \A v \in Workers : worker[v].run # worker'[w].run
    PROVE  FollowInv'
<1>1. ASSUME NEW v \in Workers \ {w} PROVE Remembers(worker[v])'
  <2>1. worker[v] \in WorkerState /\ Progressing(worker[v]) /\ Remembers(worker[v]) /\ worker'[v] = worker[v]
    BY WorkerNow DEF FollowInv
  <2>. QED
    BY <2>1, TablesNow, OthersRemember
<1>2. \A v, u \in Workers : worker'[v].run = worker'[u].run /\ worker'[v].run # 0 => v = u
  BY DEF FollowInv
<1>. QED
  BY <1>1, <1>2 DEF FollowInv, KeepsPromotion

LEMMA FollowStays ==
    ASSUME EndpointsInv, KeepsOldest, FollowInv, KeepsPromotion, NoneReopened, worker' = worker
    PROVE  FollowInv'
<1>1. ASSUME NEW v \in Workers PROVE Remembers(worker[v])'
  <2>1. worker[v] \in WorkerState /\ Progressing(worker[v]) /\ Remembers(worker[v]) /\ worker'[v] = worker[v]
    BY WorkerNow DEF FollowInv
  <2>. QED
    BY <2>1, TablesNow, OthersRemember
<1>. QED
  BY <1>1 DEF FollowInv, KeepsPromotion

\* A worker that keeps its run, and of whose addresses no more are done.
LEMMA GoesOn ==
    ASSUME EndpointsInv, KeepsOldest, FollowInv, KeepsPromotion, NoneReopened,
           NEW w \in Workers, NEW k, worker' = [worker EXCEPT ![w] = k],
           k.pc # "idle", k.run = worker[w].run,
           \A a \in k.found \ k.todo : Rows(a)' # {},
           k.pc \in {"store", "dedupe", "target", "link"} /\ k.row # 0 /\ k.seen.promoted
             => rows'[k.row] = Gone \/ rows'[k.row].promoted
    PROVE  FollowInv'
<1>1. worker'[w] = k
  BY WorkerNow
<1>2. k.run # 0 => k.run \in DOMAIN runs /\ runs[k.run].status # "PENDING"
  BY WorkerNow DEF FollowInv, Remembers, Progressing, EndpointTypes
<1>3. Remembers(worker[w])'
  BY <1>1, <1>2 DEF Remembers, NoneReopened
<1>. QED
  BY <1>1, <1>3, FollowMoves

LEMMA FollowNext ==
    ASSUME EndpointsAssumption, EndpointsInv, FollowInv, "reset" \notin Requests, [Next]_vars
    PROVE  FollowInv'
<1>0. KeepsOldest /\ KeepsPromotion /\ NoneReopened
  BY EndpointsNext, RowsPromote, ReopensNone
<1>1. CASE worker' = worker
  BY <1>0, <1>1, FollowStays
<1>2. ASSUME NEW w \in Workers, Claim(w) PROVE FollowInv'
  <2>1. PICK r \in DOMAIN runs : /\ runs[r].status = "PENDING" /\ runs' = [runs EXCEPT ![r].status = "RUNNING"]
                                 /\ worker' = [worker EXCEPT ![w] = [Idle EXCEPT !.pc = "probe", !.run = r]]
    BY <1>2 DEF Claim
  <2>2. /\ worker'[w].run = r /\ worker'[w].found = {} /\ worker'[w].pc = "probe"
        /\ \A v \in Workers \ {w} : worker'[v] = worker[v]
    BY <2>1, WorkerNow DEF Idle, EndpointTypes
  <2>3. runs'[r].status # "PENDING"
    BY <2>1, StatusChange, TablesNow DEF Statuses
  <2>4. Remembers(worker[w])'
    BY <2>2, <2>3 DEF Remembers
  <2>5. \A v \in Workers : worker[v].run # r
    BY <2>1, TablesNow DEF FollowInv, Remembers, EndpointTypes
  <2>. QED
    BY <1>0, <2>2, <2>4, <2>5, FollowMoves
<1>3. ASSUME NEW w \in Workers, worker' = [worker EXCEPT ![w] = Idle] PROVE FollowInv'
  <2>1. worker'[w] = Idle /\ \A v \in Workers \ {w} : worker'[v] = worker[v]
    BY <1>3, WorkerNow DEF EndpointTypes
  <2>2. Remembers(worker[w])'
    BY <2>1 DEF Remembers, Idle
  <2>3. worker'[w].run = 0
    BY <2>1 DEF Idle
  <2>. QED
    BY <1>0, <2>1, <2>2, <2>3, FollowMoves
<1>4. ASSUME NEW w \in Workers, NEW F, worker' = [worker EXCEPT ![w].pc = "find", ![w].found = F, ![w].todo = F]
      PROVE  FollowInv'
  <2> DEFINE k == [worker[w] EXCEPT !.pc = "find", !.found = F, !.todo = F]
  <2>1. /\ worker' = [worker EXCEPT ![w] = k] /\ k.pc = "find" /\ k.run = worker[w].run /\ k.found \ k.todo = {}
    BY <1>4, WorkerNow DEF WorkerState
  <2> HIDE DEF k
  <2>. QED
    BY <1>0, <2>1, GoesOn
<1>5. ASSUME NEW w \in Workers, Find(w) PROVE FollowInv'
  <2> DEFINE i(a) == IF Rows(a) = {} THEN 0 ELSE Min(Rows(a))
             q(a) == IF i(a) = 0 THEN None ELSE rows[i(a)]
             k(a) == [worker[w] EXCEPT !.pc = "store", !.addr = a, !.row = i(a), !.seen = q(a)]
  <2>1. PICK a \in worker[w].todo : worker' = [worker EXCEPT ![w] = k(a)]
    BY <1>5 DEF Find
  <2>2. /\ k(a).pc = "store" /\ k(a).run = worker[w].run /\ k(a).row = i(a) /\ k(a).seen = q(a)
        /\ k(a).found = worker[w].found /\ k(a).todo = worker[w].todo
    BY WorkerNow DEF WorkerState
  <2>3. \A b \in worker[w].found \ worker[w].todo : Rows(b)' # {}
    BY <1>0, WorkerNow DEF FollowInv, Remembers, KeepsOldest, WorkerState
  <2>4. UNCHANGED rows
    BY <1>5 DEF Find, Tables
  <2>5. i(a) # 0 /\ q(a).promoted => rows'[i(a)].promoted
    BY <2>4
  <2> HIDE DEF k, q, i
  <2>. QED
    BY <1>0, <2>1, <2>2, <2>3, <2>5, GoesOn
<1>6. ASSUME NEW w \in Workers, Store(w) \/ Dedupe(w) \/ GetTarget(w) PROVE FollowInv'
  <2>1. \A b \in worker[w].found \ worker[w].todo : Rows(b)' # {}
    BY <1>0, WorkerNow DEF FollowInv, Remembers, KeepsOldest, WorkerState
  <2>2. CASE worker[w].row = 0 /\ Store(w)
    <3> DEFINE fresh == [addr |-> worker[w].addr, target |-> 0, promoted |-> FALSE]
               k == [worker[w] EXCEPT !.pc = "target", !.row = Len(rows) + 1, !.seen = fresh]
    <3>1. worker' = [worker EXCEPT ![w] = k]
      BY <2>2 DEF Store
    <3>2. /\ k.pc = "target" /\ k.run = worker[w].run /\ ~ k.seen.promoted
          /\ k.found = worker[w].found /\ k.todo = worker[w].todo
      BY WorkerNow DEF WorkerState
    <3> HIDE DEF k
    <3>. QED
      BY <1>0, <2>1, <3>1, <3>2, GoesOn
  <2>3. CASE ~ (worker[w].row = 0 /\ Store(w))
    <3>1. worker[w].pc \in {"store", "dedupe", "target"} /\ worker[w].row # 0
      BY <1>6, <2>3, WorkerNow DEF Store, Dedupe, GetTarget, Progressing
    <3>2. worker[w].row \in DOMAIN rows
      BY <3>1, WorkerNow DEF Progressing, EndpointTypes
    <3>3. worker[w].seen.promoted => rows'[worker[w].row] = Gone \/ rows'[worker[w].row].promoted
      BY <1>0, <3>1, <3>2 DEF FollowInv, Remembers, KeepsPromotion
    <3>4. ASSUME NEW k, worker' = [worker EXCEPT ![w] = k], k.pc # "idle",
                 k.run = worker[w].run, k.row = worker[w].row, k.seen = worker[w].seen,
                 k.found = worker[w].found, k.todo = worker[w].todo
          PROVE  FollowInv'
      BY <1>0, <2>1, <3>3, <3>4, GoesOn
    <3>5. CASE worker' = [worker EXCEPT ![w] = [worker[w] EXCEPT !.pc = "dedupe"]]
      <4> DEFINE k == [worker[w] EXCEPT !.pc = "dedupe"]
      <4>1. /\ k.pc = "dedupe" /\ k.run = worker[w].run /\ k.row = worker[w].row /\ k.seen = worker[w].seen
            /\ k.found = worker[w].found /\ k.todo = worker[w].todo
        BY WorkerNow DEF WorkerState
      <4>2. worker' = [worker EXCEPT ![w] = k]
        BY <3>5
      <4> HIDE DEF k
      <4>. QED
        BY <3>4, <4>1, <4>2
    <3>6. CASE worker' = [worker EXCEPT ![w] = [worker[w] EXCEPT !.pc = "target"]]
      <4> DEFINE k == [worker[w] EXCEPT !.pc = "target"]
      <4>1. /\ k.pc = "target" /\ k.run = worker[w].run /\ k.row = worker[w].row /\ k.seen = worker[w].seen
            /\ k.found = worker[w].found /\ k.todo = worker[w].todo
        BY WorkerNow DEF WorkerState
      <4>2. worker' = [worker EXCEPT ![w] = k]
        BY <3>6
      <4> HIDE DEF k
      <4>. QED
        BY <3>4, <4>1, <4>2
    <3>7. ASSUME NEW t, worker' = [worker EXCEPT ![w] = [worker[w] EXCEPT !.pc = "link", !.target = t]]
          PROVE  FollowInv'
      <4> DEFINE k == [worker[w] EXCEPT !.pc = "link", !.target = t]
      <4>1. /\ k.pc = "link" /\ k.run = worker[w].run /\ k.row = worker[w].row /\ k.seen = worker[w].seen
            /\ k.found = worker[w].found /\ k.todo = worker[w].todo
        BY WorkerNow DEF WorkerState
      <4>2. worker' = [worker EXCEPT ![w] = k]
        BY <3>7
      <4> HIDE DEF k
      <4>. QED
        BY <3>4, <4>1, <4>2
    <3>. QED
      BY <1>6, <2>3, <3>5, <3>6, <3>7 DEF Store, Dedupe, GetTarget
  <2>. QED
    BY <2>2, <2>3
<1>7. ASSUME NEW w \in Workers, Link(w) PROVE FollowInv'
  <2> DEFINE k == [Idle EXCEPT !.pc = "find", !.run = worker[w].run, !.found = worker[w].found,
                               !.todo = worker[w].todo \ {worker[w].addr}]
  <2>1. CASE worker' = [worker EXCEPT ![w] = k]
    <3>1. /\ k.pc = "find" /\ k.run = worker[w].run /\ k.found = worker[w].found
          /\ k.todo = worker[w].todo \ {worker[w].addr}
      BY DEF Idle
    <3>2. Rows(worker[w].addr) # {} /\ worker[w].addr \in Addresses
      BY <1>7, WorkerNow DEF Link, Progressing
    <3>3. \A b \in worker[w].found \ k.todo : Rows(b)' # {}
      BY <1>0, <3>1, <3>2, WorkerNow DEF FollowInv, Remembers, KeepsOldest, WorkerState
    <3> HIDE DEF k
    <3>. QED
      BY <1>0, <2>1, <3>1, <3>3, GoesOn
  <2>. QED
    BY <1>3, <1>7, <2>1, LinkIs DEF FailTask
<1>8. ASSUME NEW w \in Workers, Probe(w) \/ Complete(w) \/ Kill(w) PROVE FollowInv'
  BY <1>3, <1>4, <1>8 DEF Probe, Complete, Kill, FailTask
<1>9. Create \/ ResetTargets \/ PromoteCheck \/ PromoteRead \/ PromoteTarget \/ PromoteSave
        \/ (\E r \in DOMAIN runs : Cancel(r)) \/ (\E t \in DOMAIN targets : DeleteTarget(t))
        \/ (\E a \in Addresses : PostTarget(a)) => worker' = worker
  BY DEF Create, ResetTargets, PromoteCheck, PromoteRead, PromoteTarget, PromoteSave, Cancel, DeleteTarget, PostTarget
<1>. QED
  BY <1>1, <1>2, <1>5, <1>6, <1>7, <1>8, <1>9 DEF Next, vars

\* The run that completes is the worker's own, and it has nothing left to do.
LEMMA FollowUpSteps ==
    ASSUME EndpointsAssumption, EndpointsInv, FollowInv, Next PROVE FollowUpStep
<1> SUFFICES ASSUME NEW w \in Workers, worker[w].run # 0,
                    runs[worker[w].run] # runs'[worker[w].run],
                    runs'[worker[w].run].status = "COMPLETED",
                    NEW a \in worker[w].found
             PROVE  \E i \in Rows(a) : rows[i].target # 0 => rows[i].target \in runs'[worker[w].run].followUp
  BY DEF FollowUpStep
<1> DEFINE r == worker[w].run
<1>1. r \in DOMAIN runs /\ Remembers(worker[w])
  BY WorkerNow DEF Progressing, EndpointTypes, FollowInv
<1>2. Complete(w)
  <2>1. ASSUME NEW v \in Workers, Complete(v) PROVE v = w
    <3>1. runs' = runs \/ runs' = [runs EXCEPT ![worker[v].run] = [status |-> "COMPLETED", followUp |-> FollowUp]]
      BY <2>1 DEF Complete, Jobs
    <3>2. worker[v].run = worker[w].run
      BY <1>1, <3>1
    <3>. QED
      BY <3>2 DEF FollowInv
  <2>2. ASSUME NEW v \in Workers, Claim(v) PROVE FALSE
    <3>1. PICK q \in DOMAIN runs : runs' = [runs EXCEPT ![q].status = "RUNNING"]
      BY <2>2 DEF Claim
    <3>. QED
      BY <1>1, <3>1, StatusChange, TablesNow DEF Statuses
  <2>3. ASSUME NEW v \in Workers, Probe(v) \/ Link(v) PROVE FALSE
    BY <1>1, <2>3, FailOwn DEF Probe, Link, Jobs
  <2>4. ASSUME Create PROVE FALSE
    <3>1. PICK j : runs' = Append(runs, j)
      BY <2>4 DEF Create
    <3>. QED
      BY <1>1, <3>1, TablesNow DEF EndpointTypes
  <2>5. ASSUME NEW q \in DOMAIN runs, Cancel(q) PROVE FALSE
    BY <1>1, <2>5, StatusChange, TablesNow DEF Cancel, Statuses
  <2>6. ASSUME NEW v \in Workers, Find(v) \/ Store(v) \/ Dedupe(v) \/ GetTarget(v) \/ Kill(v) PROVE UNCHANGED runs
    BY <2>6 DEF Find, Store, Dedupe, GetTarget, Kill, Jobs
  <2>7. ResetTargets \/ PromoteCheck \/ PromoteRead \/ PromoteTarget \/ PromoteSave
          \/ (\E t \in DOMAIN targets : DeleteTarget(t)) \/ (\E b \in Addresses : PostTarget(b))
          => UNCHANGED runs
    BY DEF ResetTargets, PromoteCheck, PromoteRead, PromoteTarget, PromoteSave, DeleteTarget, PostTarget, Jobs
  <2>. QED
    BY <2>1, <2>2, <2>3, <2>4, <2>5, <2>6, <2>7 DEF Next
<1>3. runs' = [runs EXCEPT ![r] = [status |-> "COMPLETED", followUp |-> FollowUp]] /\ worker[w].todo = {}
  BY <1>2 DEF Complete, Jobs
<1>4. runs'[r].followUp = FollowUp
  BY <1>1, <1>3
<1>5. PICK i \in Rows(a) : TRUE
  BY <1>1, <1>3 DEF Remembers
<1>6. rows[i].target # 0 => rows[i].target \in FollowUp
  BY <1>5 DEF Rows, Linked, FollowInv, FollowUp, Promoted
<1>. QED
  BY <1>4, <1>6
=============================================================================
