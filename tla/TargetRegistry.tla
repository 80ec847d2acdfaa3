--------------------------- MODULE TargetRegistry --------------------------
(***************************************************************************)
(* The table of targets under overlapping requests: POST, PATCH, which     *)
(* reads a row and later saves all of it, and DELETE, beside scans that    *)
(* were asked for by target id.  The queue may be down, and a patch that   *)
(* cannot enqueue its recomputation is rolled back.                        *)
(***************************************************************************)
EXTENDS Naturals

CONSTANTS
    Ids,         \* ids of targets; a new row takes the next one
    Addresses,   \* (host, port, transport)
    Clients,
    MaxRequests, \* bound: requests
    None

TargetAssumption == Ids \subseteq Nat \ {0} /\ (\A t \in Ids : 1..t \subseteq Ids) /\ MaxRequests \in Nat

VARIABLES
    target,   \* target[t]: its row, or None
    made,     \* ids given out
    client,   \* client[c]: the row it read, its patch and the last answer
    tasks,    \* recomputations enqueued: [of, context]
    scan,     \* the targets an unfinished scan asks for
    queueUp,
    requests

vars == <<target, made, client, tasks, scan, queueUp, requests>>
Tables == <<target, made, tasks>>

Contexts == 0..1
Row == [at : Addresses, context : Contexts, label : 0..1]
Patches == [field : {"at"}, to : Addresses] \cup [field : {"context", "label"}, to : 0..1]
Idle(answer) == [id |-> 0, row |-> None, patch |-> None, answer |-> answer]

TypeOK ==
    /\ target \in [Ids -> Row \cup {None}] /\ made \in Ids \cup {0}
    /\ \A t \in Ids : target[t] # None => t <= made
    /\ \A x \in tasks : x.of \in 1..made /\ x.context \in Contexts
    /\ scan \subseteq 1..made

Init ==
    /\ target = [t \in Ids |-> None] /\ made = 0 /\ tasks = {} /\ scan = {}
    /\ client = [c \in Clients |-> Idle(0)]
    /\ queueUp = TRUE /\ requests = 0

Asked(c) == client[c].patch = None /\ requests < MaxRequests /\ requests' = requests + 1
Answer(c, code) == client' = [client EXCEPT ![c] = Idle(code)]
Taken(address, t) == \E u \in Ids \ {t} : target[u] # None /\ target[u].at = address

-----------------------------------------------------------------------------

\* POST /targets: 409 when the unique constraint refuses the row.
Create(c, address) ==
    /\ Asked(c) /\ made + 1 \in Ids
    /\ IF Taken(address, 0)
       THEN Answer(c, 409) /\ UNCHANGED Tables
       ELSE /\ target' = [target EXCEPT ![made + 1] = [at |-> address, context |-> 0, label |-> 0]]
            /\ made' = made + 1 /\ Answer(c, 201) /\ UNCHANGED tasks
    /\ UNCHANGED <<scan, queueUp>>

\* PATCH /targets/{id}: the row is read.
ReadTarget(c, t, patch) ==
    /\ Asked(c)
    /\ IF target[t] = None THEN Answer(c, 404)
       ELSE client' = [client EXCEPT ![c] = [id |-> t, row |-> target[t], patch |-> patch, answer |-> 0]]
    /\ UNCHANGED <<Tables, scan, queueUp>>

Patched(c) == [client[c].row EXCEPT ![client[c].patch.field] = client[c].patch.to]
Changes(c) == client[c].patch.field = "context" /\ Patched(c).context # client[c].row.context
Noop(c) == client[c].patch.field = "context" /\ ~ Changes(c)
Saved(c) == target' = [target EXCEPT ![client[c].id] = Patched(c)]
Enqueued(c) == tasks' = IF Changes(c) THEN tasks \cup {[of |-> client[c].id, context |-> Patched(c).context]} ELSE tasks

\* The answers of a patch: nothing to do, a refused address, no queue, or the
\* row with every column as read, inserted anew if it was deleted meanwhile.
SaveTarget(c) ==
    /\ client[c].patch # None
    /\ CASE Noop(c) -> Answer(c, 200) /\ UNCHANGED Tables
         [] ~ Noop(c) /\ Taken(Patched(c).at, client[c].id) -> Answer(c, 500) /\ UNCHANGED Tables
         [] ~ Noop(c) /\ ~ Taken(Patched(c).at, client[c].id) /\ Changes(c) /\ ~ queueUp
              -> Answer(c, 503) /\ UNCHANGED Tables
         [] OTHER -> Saved(c) /\ Enqueued(c) /\ Answer(c, 200) /\ UNCHANGED made
    /\ UNCHANGED <<scan, queueUp, requests>>

\* DELETE /targets/{id}: whoever refers to the target.
Delete(c, t) ==
    /\ Asked(c)
    /\ IF target[t] = None THEN Answer(c, 404) /\ UNCHANGED target
       ELSE Answer(c, 204) /\ target' = [target EXCEPT ![t] = None]
    /\ UNCHANGED <<made, tasks, scan, queueUp>>

\* POST /jobs: the ids are stored in the job and looked up when it runs.
StartScan(c, S) ==
    /\ Asked(c) /\ scan = {}
    /\ scan' = S /\ Answer(c, 202) /\ UNCHANGED <<Tables, queueUp>>

FinishScan == scan # {} /\ scan' = {} /\ UNCHANGED <<Tables, client, queueUp, requests>>

QueueTurns == queueUp' = ~ queueUp /\ UNCHANGED <<Tables, client, scan, requests>>

Next ==
    \/ \E c \in Clients :
         \/ \E address \in Addresses : Create(c, address)
         \/ \E t \in 1..made : Delete(c, t) \/ \E patch \in Patches : ReadTarget(c, t, patch)
         \/ SaveTarget(c)
         \/ \E S \in (SUBSET {t \in Ids : target[t] # None}) \ {{}} : StartScan(c, S)
    \/ FinishScan \/ QueueTurns

Spec == Init /\ [][Next]_vars

-----------------------------------------------------------------------------
(* Properties.                                                             *)

\* Code: save and enqueueing share a transaction (targets/api.py:187).  A
\* context another than the one of its creation has a recomputation of it
\* enqueued, whoever else wrote the row since.
ContextHasTask ==
    \A t \in Ids : target[t] # None /\ target[t].context # 0 => [of |-> t, context |-> target[t].context] \in tasks

=============================================================================
