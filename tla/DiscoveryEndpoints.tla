------------------------ MODULE DiscoveryEndpoints ------------------------
(***************************************************************************)
(* What a discovery leaves behind: endpoint rows, the targets they are     *)
(* promoted to and the follow-up scan.  Workers store the endpoints they   *)
(* find one statement at a time, while users promote endpoints by hand,    *)
(* add and delete targets, reset all of them, cancel the discovery and     *)
(* start it again.  One scope, hence one discovery row; an address is a    *)
(* host, a port and a transport.                                           *)
(***************************************************************************)
EXTENDS Naturals, Sequences, FiniteSets, FiniteSetsExt

CONSTANTS
    Addresses,
    Workers,      \* processes that run discovery tasks
    Requests,     \* the kinds of requests users make, see Request
    MaxRequests,  \* bound on those requests
    MaxKills,     \* bound on workers that die
    None, Gone    \* no row; a row that is deleted

Endpoint == [addr : Addresses, target : Nat, promoted : BOOLEAN]   \* target 0 is NULL

EndpointsAssumption ==
    /\ Workers # {} /\ MaxRequests \in Nat /\ MaxKills \in Nat
    /\ Requests \subseteq {"create", "cancel", "promote", "post", "delete", "reset"}
    /\ Gone \notin Endpoint

VARIABLES
    discovery,  \* its status; its job is the latest of runs
    runs,       \* runs[r]: status of the r-th job and its follow-up, a set of targets
    rows,       \* rows[i]: endpoint row i: [addr, target, promoted], or Gone
    targets,    \* targets[t]: the address of target t, or Gone
    worker,     \* worker[w]: [pc, run, found, todo, addr, row, seen, target]
    client,     \* a promote request: [pc, cache, todo, row, target]
    budget      \* [requests, kills] still allowed

vars == <<discovery, runs, rows, targets, worker, client, budget>>
Tables == <<rows, targets>>
Jobs   == <<discovery, runs>>

Idle == [pc |-> "idle", run |-> 0, found |-> {}, todo |-> {}, addr |-> None,
         row |-> 0, seen |-> None, target |-> 0]
NoRequest == [pc |-> "idle", cache |-> <<>>, todo |-> {}, row |-> 0, target |-> 0]

Statuses == {"PENDING", "RUNNING", "COMPLETED", "FAILED", "CANCELLED"}

TypeOK ==
    /\ discovery \in Statuses
    /\ runs \in Seq([status : Statuses, followUp : SUBSET (DOMAIN targets)])
    /\ rows \in Seq(Endpoint \cup {Gone})
    /\ targets \in Seq(Addresses \cup {Gone})
    /\ \A w \in Workers :
         /\ worker[w].pc \in {"idle", "probe", "find", "store", "dedupe", "target", "link"}
         /\ worker[w].run \in 0 .. Len(runs)
         /\ worker[w].todo \subseteq worker[w].found
         /\ worker[w].row \in 0 .. Len(rows) /\ worker[w].seen \in Endpoint \cup {None}
         /\ worker[w].target \in 0 .. Len(targets)
    /\ client.pc \in {"idle", "read", "next", "save"}
    /\ budget.requests \in 0 .. MaxRequests /\ budget.kills \in 0 .. MaxKills
    \* the foreign key
    /\ \A i \in DOMAIN rows : rows[i] # Gone /\ rows[i].target # 0 =>
         rows[i].target \in DOMAIN targets /\ targets[rows[i].target] # Gone

Init ==
    /\ discovery = "PENDING" /\ runs = <<[status |-> "PENDING", followUp |-> {}]>>
    /\ rows = <<>> /\ targets = <<>>
    /\ worker = [w \in Workers |-> Idle]
    /\ client = NoRequest
    /\ budget = [requests |-> MaxRequests, kills |-> MaxKills]

Rows(a)      == {i \in DOMAIN rows : rows[i] # Gone /\ rows[i].addr = a}
TargetsAt(a) == {t \in DOMAIN targets : targets[t] = a}   \* at most one: unique

\* Target.objects.get_or_create: target t is the one of address a afterwards.
GetOrCreate(a, t) ==
    IF TargetsAt(a) = {} THEN t = Len(targets) + 1 /\ targets' = Append(targets, a)
                         ELSE t \in TargetsAt(a) /\ UNCHANGED targets

-----------------------------------------------------------------------------
(* The worker: process_discovery_task.                                     *)

Claim(w) ==
    /\ worker[w].pc = "idle"
    /\ \E r \in DOMAIN runs :
         /\ runs[r].status = "PENDING"
         /\ runs' = [runs EXCEPT ![r].status = "RUNNING"]
         /\ worker' = [worker EXCEPT ![w] = [Idle EXCEPT !.pc = "probe", !.run = r]]
    /\ discovery' = "RUNNING"
    /\ UNCHANGED <<Tables, client, budget>>

\* _fail_discovery_task: job and discovery, whatever became of them.
FailTask(w) ==
    /\ runs' = [runs EXCEPT ![worker[w].run].status = "FAILED"]
    /\ discovery' = "FAILED"
    /\ worker' = [worker EXCEPT ![w] = Idle]

\* The agent, or the central prober, answers with a set of endpoints or fails.
Probe(w) ==
    /\ worker[w].pc = "probe"
    /\ \/ /\ \E F \in SUBSET Addresses :
               worker' = [worker EXCEPT ![w].pc = "find", ![w].found = F, ![w].todo = F]
          /\ UNCHANGED Jobs
       \/ FailTask(w)
    /\ UNCHANGED <<Tables, client, budget>>

\* Fault: the newest row is taken for the existing one.
FindNewest(w) ==
    /\ worker[w].pc = "find"
    /\ \E a \in worker[w].todo :
         LET i == IF Rows(a) = {} THEN 0 ELSE Max(Rows(a))
         IN  worker' = [worker EXCEPT ![w].pc = "store", ![w].addr = a, ![w].row = i,
                                      ![w].seen = IF i = 0 THEN None ELSE rows[i]]
    /\ UNCHANGED <<Tables, Jobs, client, budget>>

\* upsert_discovered_endpoints: the oldest row of the address is read ...
Find(w) ==
    /\ worker[w].pc = "find"
    /\ \E a \in worker[w].todo :
         LET i == IF Rows(a) = {} THEN 0 ELSE Min(Rows(a))
         IN  worker' = [worker EXCEPT ![w].pc = "store", ![w].addr = a, ![w].row = i,
                                      ![w].seen = IF i = 0 THEN None ELSE rows[i]]
    /\ UNCHANGED <<Tables, Jobs, client, budget>>

\* ... and saved, or a row is inserted.  The oldest row of an address is never
\* removed (FoundStays), so the save finds it.
Store(w) ==
    LET fresh == [addr |-> worker[w].addr, target |-> 0, promoted |-> FALSE]
    IN /\ worker[w].pc = "store"
       /\ \/ /\ worker[w].row = 0
             /\ rows' = Append(rows, fresh)
             /\ worker' = [worker EXCEPT ![w].pc = "target", ![w].row = Len(rows) + 1,
                                         ![w].seen = fresh]
          \/ /\ worker[w].row # 0
             /\ worker' = [worker EXCEPT ![w].pc = "dedupe"]
             /\ UNCHANGED rows
       /\ UNCHANGED <<targets, Jobs, client, budget>>

Dedupe(w) ==
    /\ worker[w].pc = "dedupe"
    /\ rows' = [i \in DOMAIN rows |->
                  IF i \in Rows(worker[w].addr) \ {worker[w].row} THEN Gone ELSE rows[i]]
    /\ worker' = [worker EXCEPT ![w].pc = "target"]
    /\ UNCHANGED <<targets, Jobs, client, budget>>

\* _auto_promote_endpoint: the target of the address ...
GetTarget(w) ==
    /\ worker[w].pc = "target"
    /\ \E t \in 1 .. Len(targets) + 1 :
         /\ GetOrCreate(worker[w].addr, t)
         /\ worker' = [worker EXCEPT ![w].pc = "link", ![w].target = t]
    /\ UNCHANGED <<rows, Jobs, client, budget>>

\* ... and the row, as far as it differs from what was read of it before.
Link(w) ==
    LET i == worker[w].row
        t == worker[w].target
        relink == worker[w].seen.target # t
        save   == relink \/ ~worker[w].seen.promoted
        fits   == rows[i] # Gone /\ (relink => targets[t] # Gone)
    IN /\ worker[w].pc = "link"
       /\ \/ /\ save => fits
             /\ rows' = IF save
                        THEN [rows EXCEPT ![i].target   = IF relink THEN t ELSE @,
                                          ![i].promoted = @ \/ ~worker[w].seen.promoted]
                        ELSE rows
             /\ worker' = [worker EXCEPT ![w] = [Idle EXCEPT !.pc = "find", !.run = worker[w].run,
                             !.found = worker[w].found, !.todo = worker[w].todo \ {worker[w].addr}]]
             /\ UNCHANGED Jobs
          \/ /\ save /\ ~fits
             /\ FailTask(w) /\ UNCHANGED rows
       /\ UNCHANGED <<targets, client, budget>>

Linked   == {i \in DOMAIN rows : rows[i] # Gone /\ rows[i].target # 0}
Promoted == {rows[i].target : i \in {j \in Linked : rows[j].promoted}}

\* Fault: only targets that no earlier follow-up scan has had.
FollowUpNew == Promoted \ UNION {runs[r].followUp : r \in DOMAIN runs}

\* The targets of _enqueue_follow_up_scan.
FollowUp == Promoted

\* _complete_discovery_task, with the follow-up scan.
Complete(w) ==
    LET r == worker[w].run
    IN /\ worker[w].pc = "find" /\ worker[w].todo = {}
       /\ IF runs[r].status = "CANCELLED" THEN UNCHANGED Jobs
          ELSE /\ runs' = [runs EXCEPT ![r] = [status |-> "COMPLETED", followUp |-> FollowUp]]
               /\ discovery' = "COMPLETED"
       /\ worker' = [worker EXCEPT ![w] = Idle]
       /\ UNCHANGED <<Tables, client, budget>>

\* The process dies; nobody resumes its task.
Kill(w) ==
    /\ worker[w].pc # "idle" /\ budget.kills > 0
    /\ budget' = [budget EXCEPT !.kills = @ - 1]
    /\ worker' = [worker EXCEPT ![w] = Idle]
    /\ UNCHANGED <<Tables, Jobs, client>>

-----------------------------------------------------------------------------
(* The users.                                                              *)

Request(kind) ==
    /\ kind \in Requests /\ budget.requests > 0
    /\ budget' = [budget EXCEPT !.requests = @ - 1]

\* POST /discoveries of a scope whose discovery is over.
Create ==
    /\ Request("create") /\ discovery \notin {"PENDING", "RUNNING"}
    /\ runs' = Append(runs, [status |-> "PENDING", followUp |-> {}])
    /\ discovery' = "PENDING"
    /\ UNCHANGED <<Tables, worker, client>>

\* The discovery follows only its latest job.
Cancel(r) ==
    /\ Request("cancel") /\ runs[r].status \in {"PENDING", "RUNNING"}
    /\ runs' = [runs EXCEPT ![r].status = "CANCELLED"]
    /\ discovery' = IF r = Len(runs) THEN "CANCELLED" ELSE discovery
    /\ UNCHANGED <<Tables, worker, client>>

\* POST /targets; 409 when the address is taken.
PostTarget(a) ==
    /\ Request("post") /\ TargetsAt(a) = {}
    /\ targets' = Append(targets, a)
    /\ UNCHANGED <<rows, Jobs, worker, client>>

Unlink(S) == [i \in DOMAIN rows |-> IF i \in Linked /\ rows[i].target \in S
                                    THEN [rows[i] EXCEPT !.target = 0] ELSE rows[i]]

\* DELETE /targets/{id}: SET_NULL.
DeleteTarget(t) ==
    /\ Request("delete") /\ targets[t] # Gone
    /\ targets' = [targets EXCEPT ![t] = Gone]
    /\ rows' = Unlink({t})
    /\ UNCHANGED <<Jobs, worker, client>>

\* DELETE /settings/scan-targets.
ResetTargets ==
    /\ Request("reset")
    /\ targets' = [t \in DOMAIN targets |-> Gone]
    /\ rows' = [i \in DOMAIN rows |-> IF rows[i] = Gone THEN Gone
                    ELSE [rows[i] EXCEPT !.target = 0, !.promoted = FALSE]]
    /\ UNCHANGED <<Jobs, worker, client>>

\* POST /discoveries/{id}/promote: the status of the discovery is read,
PromoteCheck ==
    /\ Request("promote") /\ client.pc = "idle" /\ discovery # "CANCELLED"
    /\ client' = [client EXCEPT !.pc = "read"]
    /\ UNCHANGED <<Tables, Jobs, worker>>

\* then the rows,
PromoteRead ==
    /\ client.pc = "read"
    /\ \E S \in SUBSET {i \in DOMAIN rows : rows[i] # Gone} :
         client' = [client EXCEPT !.pc = "next", !.cache = rows,
                                  !.todo = {i \in S : ~rows[i].promoted}]
    /\ UNCHANGED <<Tables, Jobs, worker, budget>>

\* then for one row after the other a target is looked up under the host that
\* the user gave,
PromoteTarget ==
    /\ client.pc = "next"
    /\ \/ /\ client.todo = {}
          /\ client' = NoRequest /\ UNCHANGED targets
       \/ \E i \in client.todo, a \in Addresses, t \in 1 .. Len(targets) + 1 :
            /\ GetOrCreate(a, t)
            /\ client' = [client EXCEPT !.pc = "save", !.row = i, !.target = t,
                                        !.todo = @ \ {i}]
    /\ UNCHANGED <<rows, Jobs, worker, budget>>

\* and the row is saved; a row or target that has gone ends the request.
PromoteSave ==
    LET i == client.row
        fits == rows[i] # Gone /\ targets[client.target] # Gone
    IN /\ client.pc = "save"
       /\ rows' = IF fits THEN [rows EXCEPT ![i].target = client.target, ![i].promoted = TRUE]
                          ELSE rows
       /\ client' = IF fits THEN [client EXCEPT !.pc = "next", !.row = 0, !.target = 0]
                            ELSE NoRequest
       /\ UNCHANGED <<targets, Jobs, worker, budget>>

-----------------------------------------------------------------------------
Next ==
    \/ \E w \in Workers : \/ Claim(w) \/ Probe(w) \/ Find(w) \/ Store(w) \/ Dedupe(w)
                          \/ GetTarget(w) \/ Link(w) \/ Complete(w) \/ Kill(w)
    \/ Create \/ ResetTargets
    \/ PromoteCheck \/ PromoteRead \/ PromoteTarget \/ PromoteSave
    \/ \E r \in DOMAIN runs : Cancel(r)
    \/ \E t \in DOMAIN targets : DeleteTarget(t)
    \/ \E a \in Addresses : PostTarget(a)

Spec == Init /\ [][Next]_vars

-----------------------------------------------------------------------------
(* Properties.                                                             *)

\* An address that was found keeps a row, whoever removes duplicates at the
\* same time (upsert_discovered_endpoints, order_by("id") and exclude).
FoundStep == \A a \in Addresses : Rows(a) # {} => Rows(a)' # {}

\* The follow-up scan of a completed run covers what the run found: each
\* address still has its row, and the target of that row, unless it was
\* deleted since, is in the scan (_enqueue_follow_up_scan).
FollowUpStep ==
    \A w \in Workers :
         worker[w].run # 0 /\ runs[worker[w].run] # runs'[worker[w].run]
           /\ runs'[worker[w].run].status = "COMPLETED"
         => \A a \in worker[w].found : \E i \in Rows(a) :
              rows[i].target # 0 => rows[i].target \in runs'[worker[w].run].followUp

=============================================================================
