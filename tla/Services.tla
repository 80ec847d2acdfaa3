------------------------------ MODULE Services ------------------------------
(***************************************************************************)
(* Seven services of the backend under concurrent requests, workers and    *)
(* kills, side by side.  They share no rows with each other (where they    *)
(* do, the module of one models what the others write), so a behaviour is  *)
(* about one of them: the first state chooses part, and the variables of   *)
(* the other services stay None.                                           *)
(***************************************************************************)
EXTENDS Naturals, Sequences, FiniteSets

CONSTANTS
    RiskAssets, Older, Fields, Values, Weights, Rename,        \* RiskScores
    RiskWorker, RiskClients, RiskChanges,
    EndpointAddresses, EndpointWorkers, EndpointRequests,      \* DiscoveryEndpoints
    EndpointBudget, EndpointKills, Gone,
    RivalAddresses, RivalWorkers, RivalRequests, RivalBudget,  \* the same, for the rivals
    RivalKills,
    Requests, Worker, Configs, CacheChanges,                   \* AssessmentCache
    RunIds, AutoStart, Posters, Patchers, Measurable,          \* PerformanceRun
    Snapshot,
    AgentIds, MaxTokens, AgentChanges,                         \* AgentRegistry
    TargetIds, Addresses, TargetClients, TargetRequests,       \* TargetRegistry
    ExportAssets, Scores, ExportWorkers, MaxWrites,            \* SnapshotExport
    None

VARIABLES
    part,                                                      \* the service a behaviour is about
    context, asset, override, weights, score, queue,           \* RiskScores
    scorer, patching, inference, owed, edits,
    discovery, runs, rows, targets, prober, promoting, budget, \* DiscoveryEndpoints
    input, config, stored, asking, task, moves,                \* AssessmentCache
    run, results, linked, runTask, creator, runner, posting,   \* PerformanceRun
    left,
    row, request, agent, call, issued, overlap, changes,       \* AgentRegistry
    target, made, client, tasks, scan, queueUp, requests,      \* TargetRegistry
    found, scores, fresh, writer, reader, writes               \* SnapshotExport

riskVars     == <<context, asset, override, weights, score, queue, scorer, patching, inference, owed, edits>>
endpointVars == <<discovery, runs, rows, targets, prober, promoting, budget>>
cacheVars    == <<input, config, stored, asking, task, moves>>
runVars      == <<run, results, linked, runTask, creator, runner, posting, left>>
agentVars    == <<row, request, agent, call, issued, overlap, changes>>
targetVars   == <<target, made, client, tasks, scan, queueUp, requests>>
exportVars   == <<found, scores, fresh, writer, reader, writes>>
vars == <<part, riskVars, endpointVars, cacheVars, runVars, agentVars, targetVars, exportVars>>

\* One worker: what two of them do to a score is RiskScoresTwoWorkers.cfg.
Risk == INSTANCE RiskScores WITH
    Assets <- RiskAssets, Clients <- RiskClients, Workers <- {RiskWorker}, MaxChanges <- RiskChanges,
    target <- context, worker <- scorer, client <- patching, changes <- edits

Endpoints == INSTANCE DiscoveryEndpoints WITH
    Addresses <- EndpointAddresses, Workers <- EndpointWorkers, Requests <- EndpointRequests,
    MaxRequests <- EndpointBudget, MaxKills <- EndpointKills,
    worker <- prober, client <- promoting

\* Another instance of it: workers that compete for one discovery.
Rivals == INSTANCE DiscoveryEndpoints WITH
    Addresses <- RivalAddresses, Workers <- RivalWorkers, Requests <- RivalRequests,
    MaxRequests <- RivalBudget, MaxKills <- RivalKills,
    worker <- prober, client <- promoting

Cache == INSTANCE AssessmentCache WITH MaxChanges <- CacheChanges, client <- asking, changes <- moves

Perf == INSTANCE PerformanceRun WITH
    Runs <- RunIds, task <- runTask, worker <- runner, client <- posting

Agents == INSTANCE AgentRegistry WITH Agents <- AgentIds, MaxChanges <- AgentChanges

Targets == INSTANCE TargetRegistry WITH
    Ids <- TargetIds, Clients <- TargetClients, MaxRequests <- TargetRequests

Export == INSTANCE SnapshotExport WITH
    Assets <- ExportAssets, Workers <- ExportWorkers, rows <- scores, worker <- writer

ASSUME ServicesAssumption ==
    /\ Risk!RiskAssumption
    /\ Endpoints!EndpointsAssumption
    /\ Rivals!EndpointsAssumption
    /\ Cache!CacheAssumption
    /\ Perf!RunAssumption
    /\ Agents!RegistryAssumption
    /\ Targets!TargetAssumption
    /\ Export!ExportAssumption

\* None is no value of theirs.
ASSUME NoneIsNoValue ==
    /\ None \notin [token : Agents!Tokens, active : BOOLEAN, fresh : BOOLEAN]
    /\ None \notin Targets!Row /\ None \notin Targets!Patches
    /\ None \notin [input : Nat, identity : {"mock", "openai"}, by : Cache!Answerers]
    /\ None \notin {"queued", "running", "completed", "failed"}

-----------------------------------------------------------------------------
NoRisk ==
    /\ context = None /\ asset = None /\ override = None /\ weights = None /\ score = None /\ queue = None
    /\ scorer = None /\ patching = None /\ inference = None /\ owed = None /\ edits = None
NoEndpoints ==
    /\ discovery = None /\ runs = None /\ rows = None /\ targets = None
    /\ prober = None /\ promoting = None /\ budget = None
NoCache == input = None /\ config = None /\ stored = None /\ asking = None /\ task = None /\ moves = None
NoRuns ==
    /\ run = None /\ results = None /\ linked = None /\ runTask = None
    /\ creator = None /\ runner = None /\ posting = None /\ left = None
NoAgents ==
    /\ row = None /\ request = None /\ agent = None /\ call = None
    /\ issued = None /\ overlap = None /\ changes = None
NoTargets ==
    /\ target = None /\ made = None /\ client = None /\ tasks = None
    /\ scan = None /\ queueUp = None /\ requests = None
NoExport == found = None /\ scores = None /\ fresh = None /\ writer = None /\ reader = None /\ writes = None

Init ==
    /\ part \in {"risk", "endpoints", "rivals", "cache", "runs", "agents", "targets", "export"}
    /\ IF part = "risk" THEN Risk!Init ELSE NoRisk
    /\ CASE part = "endpoints" -> Endpoints!Init [] part = "rivals" -> Rivals!Init [] OTHER -> NoEndpoints
    /\ IF part = "cache" THEN Cache!Init ELSE NoCache
    /\ IF part = "runs" THEN Perf!Init ELSE NoRuns
    /\ IF part = "agents" THEN Agents!Init ELSE NoAgents
    /\ IF part = "targets" THEN Targets!Init ELSE NoTargets
    /\ IF part = "export" THEN Export!Init ELSE NoExport

Next ==
    /\ UNCHANGED part
    /\ \/ part = "risk" /\ Risk!Next
          /\ UNCHANGED <<endpointVars, cacheVars, runVars, agentVars, targetVars, exportVars>>
       \/ part = "endpoints" /\ Endpoints!Next
          /\ UNCHANGED <<riskVars, cacheVars, runVars, agentVars, targetVars, exportVars>>
       \/ part = "rivals" /\ Rivals!Next
          /\ UNCHANGED <<riskVars, cacheVars, runVars, agentVars, targetVars, exportVars>>
       \/ part = "cache" /\ Cache!Next
          /\ UNCHANGED <<riskVars, endpointVars, runVars, agentVars, targetVars, exportVars>>
       \/ part = "runs" /\ Perf!Next
          /\ UNCHANGED <<riskVars, endpointVars, cacheVars, agentVars, targetVars, exportVars>>
       \/ part = "agents" /\ Agents!Next
          /\ UNCHANGED <<riskVars, endpointVars, cacheVars, runVars, targetVars, exportVars>>
       \/ part = "targets" /\ Targets!Next
          /\ UNCHANGED <<riskVars, endpointVars, cacheVars, runVars, agentVars, exportVars>>
       \/ part = "export" /\ Export!Next
          /\ UNCHANGED <<riskVars, endpointVars, cacheVars, runVars, agentVars, targetVars>>

Spec == Init /\ [][Next]_vars

-----------------------------------------------------------------------------
(* Properties.                                                             *)

\* Every variable keeps its type.
TypeOK ==
    /\ part = "risk" => Risk!TypeOK
    /\ part = "endpoints" => Endpoints!TypeOK
    /\ part = "rivals" => Rivals!TypeOK
    /\ part = "cache" => Cache!TypeOK
    /\ part = "runs" => Perf!TypeOK
    /\ part = "agents" => Agents!TypeOK
    /\ part = "targets" => Targets!TypeOK
    /\ part = "export" => Export!TypeOK

\* A changed context reaches the scores.  With no recompute task left a score
\* is that of the present context, unless the last change enqueues none or its
\* task was cancelled, killed or failed; and a target that shows another context
\* than that of its creation has had one enqueued for it, whoever else wrote the
\* row since (risk/services.py, targets/api.py patch_target, assets/api.py).
ScoresFollowContext ==
    /\ part = "risk" => Risk!ScoresFollowContext
    /\ part = "targets" => Targets!ContextHasTask

\* The follow-up scan of a completed discovery covers what it found
\* (discoveries/services.py _enqueue_follow_up_scan).
FollowUpCovers == [][part = "endpoints" => Endpoints!FollowUpStep]_vars

\* An address that was found keeps a row while two workers remove each other's
\* duplicates (discoveries/services.py upsert_discovered_endpoints).
FoundStays == [][part = "rivals" => Rivals!FoundStep]_vars

\* A change made before a request is in the assessment it returns, however
\* many requests overlap it (assets/services.py _qualitative_cache_hit).
ReturnsNothingOlder == part = "cache" => Cache!ReturnsNothingOlder

\* Whoever writes whose row over, a running run has a start, one that ended an
\* end, and a summary counts nothing that has no result
\* (performance/services.py update_run_status, upsert_result).
RunFitsItself == part = "runs" => Perf!TimesFitStatus /\ Perf!CountsOnlyResults

\* A registered agent goes by the token the API stores, unless two of its
\* registrations overlapped, and refuses the worker only then or when the worker
\* read an earlier one (agents/api.py register_agent, jobs/agent_client.py).
TokensAgree == part = "agents" => Agents!TokensAgree /\ Agents!RefusedForAReason

\* A deactivated agent comes back, and a token changes, only by a registration
\* (agents/api.py heartbeat_agent, register_agent).
OnlyRegistrationRestores == [][part = "agents" => Agents!RestoringStep]_vars

\* A document speaks of components it holds only, and one assembled while
\* nothing is written shows of each the score its migration was recommended for
\* (snapshots/cbom.py).
QuietExportAgrees == part = "export" => Export!SubjectsAreComponents /\ Export!QuietExportAgrees
=============================================================================
