-------------------------- MODULE AssessmentCache --------------------------
(***************************************************************************)
(* Who may answer for an asset, and when a stored answer is returned in    *)
(* place of a new one.  Requests to the API and a worker with a queued     *)
(* task run refresh_qualitative_assessment on the same asset; a user       *)
(* changes what the prompt is built from, an operator the provider.        *)
(***************************************************************************)
EXTENDS Naturals

CONSTANTS
    Requests,   \* requests to the API
    Worker,     \* the worker
    Configs,    \* configurations of the provider: "disabled", "nokey", "ready"
    MaxChanges, \* bound: changes of the inputs and of the configuration
    None

CacheAssumption ==
    /\ Configs \subseteq {"disabled", "nokey", "ready"} /\ Configs # {}
    /\ MaxChanges \in Nat /\ Worker \notin Requests

Clients == Requests \cup {Worker}

VARIABLES
    input,    \* version of the metadata, context and risk of the asset
    config,   \* configuration of the provider
    stored,   \* the one assessment of the asset, or None
    client,   \* client[c]: its progress, what it read, the input it began with
    task,     \* status of the task of the worker, or None
    changes

vars == <<input, config, stored, client, task, changes>>

Idle == [pc |-> "idle", existing |-> None, read |-> 0, since |-> 0, result |-> None]

\* An assessment: the input it is about, the identity in its cache key, who answered.
Answer(n, identity, by) == [input |-> n, identity |-> identity, by |-> by]
Answerers == {"provider", "mock", "fallback"}

\* _qualitative_provider_cache_identity: the key is no part of it.
Identity(cfg) == IF cfg = "disabled" THEN "mock" ELSE "openai"

\* Fault: the version of the prompt is all that is compared.
CacheHitVersion(existing, n, cfg) == existing # None /\ existing.identity = Identity(cfg)

\* _qualitative_cache_hit.
CacheHit(existing, n, cfg) ==
    existing # None /\ existing.identity = Identity(cfg) /\ existing.input = n

-----------------------------------------------------------------------------
Init ==
    /\ input = 1 /\ config \in Configs /\ stored = None /\ task = None /\ changes = 0
    /\ client = [c \in Clients |-> Idle]

At(c, pc) == client[c].pc = pc

\* PATCH of a context, a new risk score.
ChangeInput ==
    /\ changes < MaxChanges /\ changes' = changes + 1
    /\ input' = input + 1
    /\ UNCHANGED <<config, stored, client, task>>

\* The environment of the processes changes with their restart.
Reconfigure ==
    /\ changes < MaxChanges /\ changes' = changes + 1
    /\ \A c \in Clients : At(c, "idle")
    /\ config' \in Configs \ {config}
    /\ UNCHANGED <<input, stored, client, task>>

\* enqueue_qualitative_assessment.
Enqueue ==
    /\ task \in {None, "completed", "failed"}
    /\ task' = "queued"
    /\ UNCHANGED <<input, config, stored, client, changes>>

Begin(c) == client' = [client EXCEPT ![c] = [Idle EXCEPT !.pc = "inputs", !.existing = stored, !.since = input]]

\* POST /assets/{id}/qualitative: the stored assessment is read first.
Request(c) ==
    /\ c \in Requests /\ At(c, "idle")
    /\ Begin(c)
    /\ UNCHANGED <<input, config, stored, task, changes>>

\* process_qualitative_assessment_task: the claim.
Claim ==
    /\ task = "queued" /\ At(Worker, "idle")
    /\ task' = "running"
    /\ Begin(Worker)
    /\ UNCHANGED <<input, config, stored, changes>>

\* The prompt is built; a hit ends the request with the assessment read before.
ReadInputs(c) ==
    /\ At(c, "inputs")
    /\ client' = [client EXCEPT ![c] =
         IF CacheHit(client[c].existing, input, config)
         THEN [@ EXCEPT !.pc = "done", !.read = input, !.result = client[c].existing]
         ELSE [@ EXCEPT !.pc = "call", !.read = input]]
    /\ UNCHANGED <<input, config, stored, task, changes>>

\* Without a usable provider the heuristic answers; an error, a timeout or an
\* answer that does not parse is replaced by it.  Either is kept under the
\* identity of the configured provider.
CallLlm(c) ==
    /\ At(c, "call")
    /\ \E by \in IF config = "ready" THEN {"provider", "fallback"} ELSE {"mock"} :
         client' = [client EXCEPT ![c].pc = "save",
                                  ![c].result = Answer(client[c].read, Identity(config), by)]
    /\ UNCHANGED <<input, config, stored, task, changes>>

\* update_or_create.
Save(c) ==
    /\ At(c, "save")
    /\ stored' = client[c].result
    /\ client' = [client EXCEPT ![c].pc = "done"]
    /\ UNCHANGED <<input, config, task, changes>>

\* The API answers.
Respond(c) ==
    /\ c \in Requests /\ At(c, "done")
    /\ client' = [client EXCEPT ![c] = Idle]
    /\ UNCHANGED <<input, config, stored, task, changes>>

\* _complete_qualitative_assessment_task.
Complete ==
    /\ At(Worker, "done")
    /\ task' = "completed"
    /\ client' = [client EXCEPT ![Worker] = Idle]
    /\ UNCHANGED <<input, config, stored, changes>>

\* _fail_qualitative_assessment_task: an error of the database on the way.
FailTask ==
    /\ client[Worker].pc \in {"inputs", "call", "save"}
    /\ task' = "failed"
    /\ client' = [client EXCEPT ![Worker] = Idle]
    /\ UNCHANGED <<input, config, stored, changes>>

Step(c) == ReadInputs(c) \/ CallLlm(c) \/ Save(c)
Next ==
    \/ ChangeInput \/ Reconfigure \/ Enqueue \/ Claim \/ Complete \/ FailTask
    \/ \E c \in Clients : Request(c) \/ Step(c) \/ Respond(c)

Fairness == WF_vars(Claim) /\ WF_vars(Complete) /\ \A c \in Clients : WF_vars(Step(c))
Spec == Init /\ [][Next]_vars /\ Fairness

Assessments == [input : 1 .. input, identity : {"mock", "openai"}, by : Answerers]

TypeOK ==
    /\ config \in Configs /\ task \in {None, "queued", "running", "completed", "failed"}
    /\ stored = None \/ stored \in Assessments
    /\ \A c \in Clients : client[c].result = None \/ client[c].result \in Assessments
    /\ (task = "running") = ~At(Worker, "idle")

-----------------------------------------------------------------------------
(* Properties.                                                             *)

Returned(c) == client[c].result
Returning(c) == At(c, "done")

\* A change made before a request is in what it returns, however many requests
\* overlap it: a hit is compared with the inputs read after the stored one was.
ReturnsNothingOlder == \A c \in Clients : Returning(c) => Returned(c).input >= client[c].since

\* A queued task ends (process_queued_jobs polls; every call has a timeout).
Queued == task = "queued"
TaskOver == task \in {"completed", "failed"}

=============================================================================
