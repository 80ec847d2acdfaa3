# Crypto-scanner: TLA+ specifications

These modules specify crypto-scanner: the durable job queue of the Django
backend and the workers that consume it, what the workers do (scan, discover,
score, measure, assess), the requests that interfere with them, the agents they
call, and the algorithms that turn what was found into scores, plans and
differences. Paths in this file are relative to the root of the repository;
`apps/` is short for `system/backend/apps/`.

## The system

A Django/Ninja API and a separate worker process share one SQLite database.
There is no broker: a request inserts an `AsyncJob` (what the client polls) and
a `QueuedTask` (what the worker consumes), and the worker polls the table.

| component | state | operations | talks to | modules |
| --- | --- | --- | --- | --- |
| Job queue (`apps/jobs`) | `AsyncJob`, `QueuedTask` | create, poll, cancel, claim, complete, fail | every component that works in the background | `JobQueue`, `JobEnvelope` |
| Worker (`jobs/management`, `risk/management`) | the task in hand, the place in its loop | `process_queued_jobs --loop`, `process_recompute_jobs --loop` | the five processors, through the queue table | `JobQueue` |
| Scan pipeline (`jobs/scan_worker.py`) | `ScanJob`, `ScanRunLog`, snapshot, assets, progress | run scanners and agents, merge, persist, score | targets, agents, risk, performance | `ScanRun` |
| Network scanner (`jobs/network_scanner.py`, `homepage_context.py`) | worklist of server names, candidates | probe TLS, STARTTLS, PostgreSQL, SSH, IKE; parse answers; infer a context | the scanned hosts | `NetworkScanner`, `NetworkParsers`, `HomepageContext` |
| Discovery (`apps/discoveries`) | `Discovery` (one row per scope, reused), `DiscoveredEndpoint` | create, run, upsert, promote, follow-up scan | agents, targets, queue | `DiscoveryEndpoints`, `DiscoveryProbe` |
| Risk (`apps/risk`, `risk_engine`) | `RiskScore`, `RiskWeights` | recompute asset, target, snapshot; change weights | assets, queue | `RiskScores`, `RiskEngine` |
| Performance (`apps/performance`, `performance_engine`) | `PerformanceEvaluationRun`, results | create, run, patch, upsert a result, compare | snapshots, queue (tasks without a job) | `PerformanceRun`, `PerformanceEngine` |
| Assets (`apps/assets`) | `Asset`, context override, qualitative assessment | patch context, assess | risk, queue, a language model | `Assessment`, `AssessmentCache` |
| Targets (`apps/targets`) | `Target` and its context | create, patch, delete | discovery, scan, risk | `TargetRegistry` |
| Agents (`apps/agents`, `testbed/agent/mock_agent.py`) | `Agent`; the agent's id and token | register, heartbeat, deactivate, scan | scan, discovery | `AgentRegistry` |
| Host agent (`testbed/agent/host_scanners`) | files and configurations of its host | `POST /scan` | scan pipeline | `HostScan`, `HostConfig` |
| Snapshots, migration plan (`apps/snapshots`, `migration_engine`) | `CbomSnapshot` | diff, export, plan | reads assets and scores | `SnapshotExport`, `SnapshotDiff`, `MigrationEngine` |
| Reset (`core/api.py`) | none | delete snapshots, delete targets | deletes rows of all the others | `JobQueue`, `ScanRun`, `DiscoveryEndpoints` |
| Dashboards, frontend, test bed, automation | caches, servers, CI | poll jobs, serve test endpoints | the API | none |

What is hard here is not any single handler but their interleaving:

- the poll reads the queue outside the transaction that claims the task;
- the payload (minutes of network traffic) runs between two transactions, and
  users cancel, delete and ask again meanwhile;
- three tables carry a copy of the same status;
- one `Discovery` row is reused by successive jobs while the worker's payload
  still names it;
- a failing payload is raised again and ends the process; only
  `restart: unless-stopped` keeps the loop going, and a killed worker leaves its
  task RUNNING;
- the reset works from ids listed before its transaction and cascades through
  foreign keys but not through the ids inside a task's payload;
- `instance.save()` of Django writes every column of a row that was read in an
  earlier statement: a PATCH, a heartbeat, a posted result or the inference of a
  scan may take back what another request saved;
- ordered rules that look for parts of names decide families, roles, ratings and
  migrations, and the names contain one another.

What makes each component correct:

- queue: a task runs at most once; a cancelled job never starts; status of job
  and task agree; a finished job does not move; everything queued is taken up;
- scan: every scanner asked for is accounted for, a scan fails only for a reason
  of its own, and a completed one shows everything that was found, once;
- network scanner: every name a certificate shows is followed, once; nothing is
  read past what contains it; a target is never left without a candidate;
- discovery: the row shows its newest job; what was found keeps a row and is in
  the follow-up scan; a service is recognised unless its samples are lost;
- risk: a score reflects the present context once the queue is empty, and a
  graver context is never scored lower;
- performance: a run that was asked for is measured; its times, status and
  summary fit its results; a worse measurement never ranks better;
- assessment: a change made before a request is in what it returns; what is
  stored can be scored;
- targets, agents: what is saved over an older row still has its recompute task;
  the agent and the API go by the same token;
- snapshots: a document assembled in quiet agrees with itself; a rescan of an
  unchanged host is no difference; a plan made before a recompute asks for the same
  work as the one made after it.

`PROJECT.json` lists the hazards with their lines and the properties aimed at
them.

## Modules

| module | what it is |
| --- | --- |
| `JobQueue` | the queue: state, requests, worker steps, properties |
| `JobEnvelope` | the abstract job service a client sees, without queue and workers |
| `ScanRun` | one scan, statement by statement, beside deletions, agents, cancellation, reset and kills |
| `NetworkScanner` | the scan of one port: routes, the worklist of server names, fallbacks |
| `NetworkParsers` | the loops over the length fields of IKE and SSH answers, and the family of a key |
| `HomepageContext` | the context inferred from a homepage |
| `DiscoveryEndpoints` | endpoint rows, promotion by workers and users, targets, follow-up scan |
| `DiscoveryProbe` | what the central executor and the discovery agent find |
| `RiskScores` | contexts, weights, recompute tasks and the workers that save scores |
| `RiskEngine` | the risk score of one asset while its context and weights are edited |
| `Assessment` | the six criteria, the parser of model answers, DHS score, suggested context |
| `AssessmentCache` | request, provider and stored record of an assessment, and its task |
| `PerformanceRun` | a performance run between its creator, worker, posters and patchers |
| `PerformanceEngine` | attempts, aggregation, thresholds, status, failure paths |
| `TargetRegistry` | overlapping creations, patches and deletions of targets |
| `AgentRegistry` | registrations, heartbeats, tokens and the call of the worker |
| `HostScan` | the host agent's walk over files that change while it reads |
| `HostConfig` | what it reads out of a configuration edited line by line |
| `MigrationEngine` | the ordered rules of a migration plan and the answer of a model |
| `SnapshotExport` | the CBOM document assembled while scans and workers write |
| `SnapshotDiff` | two scans of one host and the difference of their snapshots |
| `MCJobQueue`, `MCRiskScores` | small instances of one module for TLC |
| `Services` | seven services of the backend side by side, see Suites |
| `Scans` | what looks at hosts, side by side |
| `MCServices`, `MCScans` | small instances of these two |
| `MCEngines`, `MCProgress` | small instances of several modules for one run |
| `JobQueueProofs` | theorems about `JobQueue` |
| `ServicesProofs` | theorems about `Services` |
| `DiscoveryEndpointsProofs`, `DiscoveryProbeProofs`, `PerformanceRunProofs`, `RiskScoresProofs` | what the theorems about `Services` and `Scans` take from the modules of their parts |
| `ScansProofs`, `ScansWorkerProofs` | theorems about `Scans`: first parsers, rules, the network scan, host reports and configurations; then the scan of the worker, discovery probes and performance runs |
| `Lists` | Python's list comprehension, by places instead of by recursion, so that proofs can use it |

All of them are modelled in the same way. A transaction, or a statement that
commits by itself, is one action; a handler that reads, computes and saves in
several statements has a `pc` and one action for each (`ReadPatch`,
`SavePatch`), so that others may come between. Rows are records reduced to the
columns a property tells apart. A language model, a host, a file system and the
network are the environment: what they answer is chosen.

### How JobQueue corresponds to the code

`job[t]` is the `AsyncJob` of task `t`, `task[t]` the `QueuedTask`. Both rows are
inserted in one transaction and refer to each other one to one, so one id, that
of the task, indexes both; SQLite's AUTOINCREMENT never gives it away again
(`last`). A job row is reduced to kind, status and whether
`cancel_requested_at`, `finished_at`, `result` and `error` are set. A task row keeps
name, status and attempts; of its payload it keeps the `Discovery` it names
(`scope`), whether the performance run it names still exists (`run`), the task
whose completion enqueued it (`origin`) and the options of its chain (`wants`).
`discovery[d]` is the row of one scope with its current job.

A transaction is one action. SQLite runs writers one after the other, so a block
under `transaction.atomic()` takes effect at one moment; one that cannot
("database is locked") raises and rolls back, which for a claim or a closing
transaction ends the process as a kill does (`Crash`).

| action | code |
| --- | --- |
| `CreateScanJob`, `CreateRecomputeJob`, `EnqueueDetached` | `POST /jobs`; `POST /snapshots/{id}/recompute` and the PATCH of an asset context; tasks without a job |
| `CreateDiscovery` | `POST /discoveries`: returns a live row, takes over any other |
| `Cancel` | `request_cancel` with `_cancel_queued_tasks` and `_sync_cancelled_resource` |
| `DeleteSnapshotResults` | `DELETE /settings/snapshots`, ids listed earlier than deleted |
| `Poll` | `process_next_*`: oldest queued task of the name whose turn it is |
| `Claim`, `ClaimCancelled`, `ClaimRaises` | the first transaction of `process_*_task` and its two other exits |
| `Complete`, `CompleteCancelled` | `_complete_*`, with the follow-up scan or availability run |
| `Fail` | `_fail_*`, then the exception leaves the command |
| `FinishDeleted` | `_complete_*` or `_fail_*` when the reset took the row: `DoesNotExist` |
| `Restart`, `Crash` | the container's restart policy, a kill at any point |

`order_by("available_at", "id")` is the order of the ids, since `available_at` is
the time of creation. A second cancel of a CANCELLED job is an action too (it
answers 202 and settles the same fields). Payloads are abstracted to the time
between two transactions and end in `Complete` or in `Fail`, either of which may
happen to any payload. `persist_default_weights`, scores and snapshots are not in
this state. Nothing in the API enqueues a qualitative assessment today, although
the worker serves the name (and docs/08-api-contract.md describes it);
`EnqueueDetached` keeps both names.

### How the other modules correspond

`ScanRun`. `run` is the memory of `run_scan_job_payload`: the target it is at, the
scanners still to log, the candidates found so far, and the one it stored last. `ReadTargets`, `NextTarget`,
`NetworkScan`/`NetworkError`, `ChooseAgentScanners`, `CallAgent`, `WriteLog`,
`Progress` are the loop; `PersistSnapshot`, `PersistAsset`, `Score`, `Close` its end.
`Others` are the requests: deletion of targets, agents, cancel, the two steps of
the reset. It begins where `JobQueue!Claim` ends and its `Close` is
`JobQueue!Complete` or `Fail`. `Firsts` are the candidates whose key (the fingerprint
if there is one and else the bom_ref) no earlier one has, `Merged` is such a one with
what the later ones add; `PersistAsset` collides on the bom_ref alone.

`NetworkScanner` has one action for each connection: `NextName` takes a server name
from the worklist, `Handshake` to `Readiness` fill a `TlsProbeResult`, `Collect` makes
candidates of it and appends the names of the leaf. The other scanners
(`Smtp`, `Postgresql`, `Ssh`, `Ike`) are one action each; their parsers are
`NetworkParsers`, where a cursor moves through the bytes and every length field is
chosen. `HomepageContext` abstracts a page to the number of keywords of each rule.

`DiscoveryEndpoints`. `Store`, `Dedupe`, `GetTarget`, `Link` are the statements of
`upsert_discovered_endpoints` and `_auto_promote_endpoint`; `PromoteCheck` to
`PromoteSave` those of the promote request. A job is an entry of `runs` (its
lifecycle is `JobQueue`'s). `DiscoveryProbe` has a thread for each candidate, which
runs the probes of `registry.py` in order; `trouble` counts connections lost.

`RiskScores`. A task names an asset, the target or everything; a worker reads the
contexts in one step (`ReadAssets`) and saves scores one by one (`Save`). `owed` is a
ghost: it records which changes of a context enqueue no recompute by the code
(the inference of a scan, a PATCH that writes an older context back) or lost it
(a kill, a failure, a cancellation). `RiskEngine` computes in hundredths.

`PerformanceRun` keeps for each of the four writers (creator, worker, poster,
patcher) the row it read. `PerformanceEngine` is the arithmetic on it, in
hundredths and with `None` for metrics that are missing.

`Assessment` holds an asset as a set of tokens per text, since the code asks only
which tokens a text contains; `Heuristic` has the six criteria, `Parse` the parser
for any answer in `Answers`. In `AssessmentCache` inputs are a version number: the
key of the prompt compares them, so equal keys mean equal versions. The hash of
the prompt is taken to have no collisions, and the call of the model may answer,
time out or be unconfigured.

`AgentRegistry` has both ends of the protocol: `request` are the handlers at work in
the API, each with the token it generated or presented, `agent` the process with
its loop, `call` the worker's `POST /scan` with the token it read. `overlap` is a
ghost: agents of which two registrations were open at once. `TargetRegistry` numbers
contexts in the order they were asked for; 0 is the context of a new row.

`HostScan` walks lazily (`walk`) and reads twice (`parse`), files may be good, junk,
locked or gone and change between. `HostConfig` is a pure function of a text that an
editor changes line by line and, of `postgresql.conf`, of the certificate of the server
(`serverCert`, which `Reissue` replaces or takes away), `MigrationEngine` of an asset and its target, and
`SnapshotDiff` of two scans of a site that changes between them; in
`SnapshotExport` the reader takes one step for each query.

Operators introduced by the word *fault* are plausible bugs of the definition they
precede. The specification does not use them; with one in the place of the real
definition a property must fail, which shows that the property looks at the code
it is about (`PROJECT.json`, `mutants`).

## Runs

| cfg | instance | question |
| --- | --- | --- |
| `JobQueueOne` | one worker with the deployed loop, one scope, 3 tasks, 1 kill | do the tables agree, does the pipeline go on only from completed jobs, do exceptions abandon tasks? |
| `JobQueueTwo` | two such workers, 2 tasks, 1 kill, fair | is a task executed at most once, is a cancelled one never started, does the queue implement `JobEnvelope`, is everything queued taken up, does every job end? |
| `MCServices` | the services of the backend | which stale row does no harm? |
| `MCScans` | what looks at hosts | is what is reported whole, once, and read from within what was answered? |
| `MCEngines` | the algorithms | do their orders agree with what is worse? |
| `MCProgress` | what must end or come right, fair | does it? |
| `JobQueueDoc*`, `RiskScoresTwoWorkers`, `MCEnginesDocProtocol` | smallest instances, or that of `MCEngines` | six statements of the documents the code does not keep |

### Suites

The components share rows only where one of the modules already has the writers
of the other (a PATCH of a target is in `RiskScores`, the deletion of a target in
`ScanRun` and `DiscoveryEndpoints`). The remaining products would only multiply
states, so a suite has several instances in one specification: its first state
chooses `part`, the variables of that instance are at work and those of the others
stay `None`. A suite is thus the sum of its parts and not their product, and a
property of it says of each part what it says of its module. `Services` and `Scans`
are suites with constants of their own, which `MCServices` and `MCScans` give small
values and the proofs leave open; `MCEngines` and `MCProgress` fix theirs, and hold
the variables of a part in slots (`INSTANCE ... WITH target <- s1, ...`).

`MCServices` (properties of `Services` besides the types):

| property | part | bounds |
| --- | --- | --- |
| `ScoresFollowContext` | `RiskScores`: one worker, an asset in an old and one in a new snapshot, 3 requests, and the inference of a scan; `TargetRegistry`: 2 rows, 2 addresses, 2 overlapping clients, 5 requests | 3 requests are a change, another that overlaps it, and a reset, cancellation or change of weights |
| `FollowUpCovers` | `DiscoveryEndpoints`: one worker, 2 addresses, 3 requests, 1 kill | the worker and a user meet on one address while the other is still to be stored |
| `FoundStays` | `DiscoveryEndpoints`: 2 workers on one row, 5 requests | create, cancel, create again and a reset |
| `ReturnsNothingOlder` | `AssessmentCache`: one request beside the worker, 3 changes | |
| `RunFitsItself` | `PerformanceRun`: worker, one poster and one patcher on one run of 2 assets | each of the three may hold an older row |
| `TokensAgree`, `OnlyRegistrationRestores` | `AgentRegistry`: 2 agents, 3 registrations, 2 restarts, deactivations or agings | a retry and its late answer, beside another agent |
| `QuietExportAgrees` | `SnapshotExport`: 2 workers, 2 assets, 4 saves | |

`MCScans`:

| property | part |
| --- | --- |
| `EveryScannerAccounted`, `FailureHasReason`, `CompletedIsWhole` | `ScanRun`: 2 targets on a host, 3 scanners, 2 interfering requests; `CompletedIsWhole` also `PerformanceRun`: 2 runs of 3 assets left to the worker |
| `NetworkScanIsWhole` | `NetworkScanner`: 8 kinds of targets, 2 names, certificates that name both or none |
| `ServiceRecognised` | `DiscoveryProbe`: 2 hosts with 2 samples and 3 losses, and the probes of three other ports |
| `QuietScanIsWhole` | `HostScan`: 4 files of which two have one name and one lies below two roots, limit 2 |
| `PolicyAsWritten` | `HostConfig`: files of 3 kinds and up to 3 lines, with a server certificate that can be parsed or not |
| `LengthsNest`, `RulesAgree` | `NetworkParsers`: 3 sizes and 9 lengths around those of the headers; `HomepageContext`: 0, 1 or 5 keywords of each rule |

`MCEngines`: `GraverNeverLower` (`RiskEngine` and `Assessment`, all edits of one field),
`AnswersStayAllowed` (`Assessment`, `MigrationEngine`: all answers), `WorseNeverBetter`
(`PerformanceEngine`: up to 3 attempts on several ports, probes against a baseline,
posted results that contradict themselves), `StalePlanSameWork` (`MigrationEngine`: 20 names
as the scanners write them, of every type they come in, each with every change of context
and target before and after the recompute), `DiffIsSound` (`SnapshotDiff`: 2 ports,
a file, certificates of two algorithms, 2 scans).

Bounds of the queue. `MaxTasks` counts rows ever created: three are a whole chain
(discovery, scan, availability run) or three competing requests, two are the
least that compete for a scope or a queue. A request is refused when live chains
might still need the remaining rows (`Room`), so the bound stops requests and never
a completion. `MaxCrashes` is 1: a kill has no memory beyond the row it leaves
RUNNING. One scope is enough for the interplay of jobs of the same scope; scopes
share nothing else. The second command, `process_recompute_jobs`, is a worker whose
`Route` is `recompute` alone: the theorems hold for every route, and `RiskScores` has two
workers that serve recomputes. Deadlock is checked in the runs of the queue, whose
polling never stops; a suite stops when its scan, its requests or its edits have ended.

Bounds of the suites. `MaxChanges`, `MaxRequests`, `MaxWrites`, `MaxTokens`,
`MaxTroubles` and `MaxKills` bound what users and the network do, never a step of
the program; `MaxLines` the size of a file. Two actors and one interfering request
more than they are is the least in which one holds a row a second has changed and a
third brings back.

Fairness. `FairSpec` of the queue is weak fairness of each worker's steps: the loop
sleeps and polls again, network calls have timeouts, and the container is
restarted. `MCProgress` has weak fairness of the steps of a scan, a parser, the
host scan, a performance run and a recompute in hand (one statement after the
other, every wait with a timeout), of the steps of an assessment's task, and of
the loops and handlers of agent and API (`while True` with a sleep; the server
answers). It has strong fairness of `Claim` for each performance run, because the
worker is busy again and again and takes the oldest task first. Nothing is assumed
of users, hosts, models, or of the outcome of a payload.

### What the runs show

- The status of task and job agree after every transaction, envelopes are
  consistent, COMPLETED and FAILED are final, a follow-up is enqueued once and
  only by a completed job.
- `FinishedIsFinal` says nothing of CANCELLED on purpose: see the first finding.
- Only a kill leaves a task RUNNING without a process (`AbandonedOnlyByCrash`);
  without one every job ends (`EveryJobEnds`), although each failure ends the
  process. After a kill the job stays RUNNING: the code has no reaper, and a
  recompute in that state cannot be cancelled.
- `QueuedIsServed` excludes performance tasks, for the reason of the last finding.
- `ScopeExclusive` holds as long as no cancelled discovery of the scope fails
  afterwards; the third finding is what happens then.
- A scan accounts for every scanner it was asked for, whatever agents and targets
  do, and fails only when a row it needs was taken away or two different things
  claim one bom_ref; COMPLETED means all of what was found, merged, and scored.
- A stale read of a context is harmless as long as one process computes scores:
  the later change has a task of its own, which reads after it. With two
  processes it is not (`RiskScoresTwoWorkers`).
- A follow-up scan covers what its discovery found even if users promote, cancel
  and delete meanwhile, but what it covers is the target of the row, which
  may be another's than the worker's.
- The cache of assessments never returns what was computed before a change made
  before the request, although it takes no lock: it compares the key of the
  inputs read now. What may be older is the stored record.
- A performance run may show RUNNING after its task has ended and count too few
  results (see below), but never a status without its times or a count above its
  results, and a run left to the worker alone is whole.
- The length fields of an answer cannot move a parser past what contains them.
- `ServiceRecognised` is limited to services on their own ports and to probes with
  a sample that was not lost; a host beyond the limit of the agent is the one
  difference between agent and central executor that remains.
- Orders: of one context, criteria, DHS score, urgency and risk score are monotone;
  lost or slower attempts never rank better.
- A plan joins the context of the last score with the target of now. Until a changed
  context is recomputed it may name the algorithms of another kind of signature;
  strategy, steps, blockers and agility are those of the present already. (That what it
  recommends is never weaker is not among the properties: DSA migrates to itself, and
  `MCEnginesDocProtocol` shows a vulnerable protocol left alone.)
- Of a TLS configuration lines add up and of an sshd configuration they replace one
  another. The one algorithm a line can take from a TLS configuration is that of the
  server's certificate in `postgresql.conf`: the finding comes with it
  (`registry.py:236`), but the scanner records it only of a file without versions and
  suites (`agent_asset_mapper.py:90`).

### Disagreements the runs show

1. `ImplementsDocumentedLifecycle`: a job cancelled while it runs becomes FAILED if
   its payload raises (`_fail_*` does not look at the status);
   docs/07-data-model.md:262-266 has no transition out of CANCELLED.
   `ImplementsEnvelope` proves the rest of the state machine with that transition
   added.
2. `RunningCancelOnlyRequests`: cancelling a RUNNING job makes it CANCELLED at
   once; test-contracts/api/scenarios.md:417-418 has the worker do it.
3. `DiscoveryMirrorsJob`: after cancel and a new request for the same scope, the
   old payload's failure writes FAILED into the row of the new job.
4. `AvailabilityIsMeasured`: a performance task whose run was deleted is neither
   claimed nor closed, ends the worker at each poll, and keeps later ones waiting
   for ever.
5. `ScoresFollowContext` in `RiskScoresTwoWorkers`: with two processes that compute
   scores the older read may be saved last and stays; docs/06-risk-model.md:364
   has a change of context recompute the assets.
6. `VulnerableProtocolMoves`: the rule for hashes looks for `SHA2` anywhere in a name and
   precedes those of key exchanges, so `ecdh-sha2-nistp384` and
   `ECDHE-RSA-AES128-GCM-SHA256` are left alone; docs/11-migration-plan.md:91 has
   what a protocol uses that is quantum vulnerable get a recommendation.

### Disagreements met while modelling

These are what the modules follow the code in against a document or a test; the
properties of the runs are stated so that they hold of the code. Paths of the code
are those of the map.

| code | what it does | against |
| --- | --- | --- |
| `jobs/scan_worker.py:92` | a cancelled scan still persists its snapshot | docs/07-data-model.md:269 |
| `jobs/scan_worker.py:246` | snapshot and assets commit one by one | docs/07-data-model.md:534 |
| `jobs/scan_worker.py:168` | the inference overwrites a context set during the scan | tests/api/test_homepage_context.py:55 |
| `targets/api.py:189` | a PATCH of one field writes all columns of an older row | docs/08-api-contract.md:240 |
| `targets/api.py:188` | a PATCH after a deletion inserts the target anew | tests/api/test_api_targets.py:304 |
| `targets/api.py:186` | a PATCH onto a taken address is answered 500 | docs/08-api-contract.md:49 |
| `targets/api.py:221` | a target of an active job can be deleted | docs/10-ux-flows.md:537 |
| `targets/api.py:221` | deletion leaves `promoted` of the endpoint set | docs/07-data-model.md:501 |
| `risk/services.py:133` | one asset that cannot be saved ends the task for all | docs/07-data-model.md:535 |
| `risk/services.py:229` | two workers give an asset two scores | docs/07-data-model.md:450 |
| `risk_engine/engine.py:189` | RSA-8192 is scored above RSA-4096 | docs/06-risk-model.md:38 |
| `risk_engine/engine.py:164` | `ECDSA-P256` misses the rule for P-256 | docs/06-risk-model.md:39 |
| `risk_engine/engine.py:161` | EdDSA meets the rule for DSA first | docs/06-risk-model.md:42 |
| `risk_engine/engine.py:140` | no weight moves a factor of 0 or 1 | docs/06-risk-model.md:164 |
| `discoveries/services.py:212` | two workers insert one endpoint twice | docs/07-data-model.md:504 |
| `discoveries/services.py:257` | after a reset the new target is linked but not `promoted` | docs/07-data-model.md:501 |
| `discoveries/api.py:251` | a discovery cancelled meanwhile is still promoted | docs/08-api-contract.md:416 |
| `assets/services.py:1026` | tokens are found inside words ("ca" in "local") | docs/08-api-contract.md:857 |
| `assets/services.py:250` | an answer of the rules stays after a key was set | docs/08-api-contract.md:848 |
| `assets/services.py:190` | a fallback is cached like an answer | docs/08-api-contract.md:860 |
| `assets/services.py:149` | the slower request stores the older assessment | docs/08-api-contract.md:852 |
| `performance/services.py:145` | a posted result sets a completed run to RUNNING | tests/api/test_api_performance.py:123 |
| `performance/services.py:164` | of two results posted at once one may stay uncounted | tests/api/test_api_performance.py:64 |
| `performance/services.py:68` | of two runs created at once one link is lost | tests/api/test_api_performance.py:206 |
| `agents/api.py:93` | of two registrations of an agent the first may be saved last | tests/api/test_api_agents.py:82 |
| `testbed/agent/mock_agent.py:47` | id and token are not kept over a restart | docs/08-api-contract.md:1048 |
| `jobs/network_scanner.py:137` | one name that fails drops the others' candidates | docs/03-network-scanner.md:337 |
| `jobs/network_scanner.py:761` | a silent IKE port is not retried on 4500 | docs/03-network-scanner.md:209 |
| `jobs/scan_assets.py:25` | ECP-256 is found by the rule for P-256 and becomes ECDSA | docs/02-testbed.md:165 |
| `migration_engine/engine.py:109` | no rule knows DSA: it is to migrate to itself | docs/11-migration-plan.md:5 |
| `migration_engine/engine.py:83` | the hybrid set is never recommended, as tests/test_migration_engine.py:80 asserts | docs/11-migration-plan.md:190 |
| `migration_engine/mapping_rules.json:61` | `AES_256` misses the rule for AES-256 | docs/11-migration-plan.md:53 |
| `snapshots/cbom.py:69` | a component's score may not be that of its plan | docs/05-cbom-schema.md:455 |
| `snapshots/api.py:337` | pages over ties may repeat and miss rows | docs/08-api-contract.md:24 |
| `snapshots/api.py:90` | a certificate seen on another port is removed and added | docs/05-cbom-schema.md:479 |
| `snapshots/api.py:150` | no scan yields `algorithm_downgrade`: the bom_ref holds the algorithm | tests/api/test_api_snapshots_assets.py:156 |
| `host_scanners/crypto_utils.py:122` | a locked key drops the findings of its capability | docs/04-agent.md:226 |
| `host_scanners/crypto_utils.py:233` | `ssl_key_file = 'server.key'` names no file | testbed/agent/tests/test_host_scanners.py:171 |
| `host_scanners/registry.py:183` | any key of the same base name counts as used | testbed/agent/tests/test_host_scanners.py:169 |
| `host_scanners/registry.py:262` | the minimum TLS version is the first one listed | apps/snapshots/cbom.py:216 |
| `host_scanners/crypto_utils.py:491` | `!MD5` is recorded as an algorithm | docs/04-agent.md:313 |
| `host_scanners/crypto_utils.py:215` | a line below `Match` replaces the one above | docs/04-agent.md:278 |

## Proofs

`JobQueueProofs` holds, for every set of workers, every route, every set of scopes
and every bound (`QueueAssumption` only says they have their types and that a
route is not empty):

| theorem | what holds |
| --- | --- |
| `TypeCorrect` | every variable keeps its type |
| `TasksMirrorJobs` | after every transaction the status of a task is the one its job implies |
| `ExecutedAtMostOnce` | a task is claimed at most once |
| `EnvelopesAreConsistent` | result, error and finished agree with the status |
| `CancelledRecomputesNeverRan` | a recompute that shows CANCELLED was never claimed |
| `CancelledJobsNeverStart` | no step claims the task of a CANCELLED job |
| `FollowUpsOnlyOnce` | a follow-up belongs to a completed (or deleted) origin, and is its only one |
| `QueueImplementsEnvelope` | the queue implements `JobEnvelope` |
| `FinishedStaysFinal` | COMPLETED and FAILED are left only by deletion |
| `OnlyKillsAbandon` | no more tasks are RUNNING without a process than workers were killed |
| `ScopesAreExclusive` | without a late failure the row of a scope shows its newest job, the only live one |

None of the properties is inductive. `IInv` adds

- `HeldInv`: a task whose payload runs is RUNNING, CANCELLED or deleted, was
  claimed exactly once, and is run by one worker only. Without it a second
  completion could move a finished job, and a recompute could be cancelled in the
  hands of a worker;
- `FreshInv`: ids above `last` occur nowhere, so a new row never overwrites one a
  worker, an origin or a Discovery still refers to;
- `RowInv`: the attempts of a task follow its status, and a job and its task come
  and go together.

Each request and each worker step has a lemma; `EnqueueStep` treats all inserts,
`EndStep` all closing transactions (including the one that inserts a follow-up),
`FreeStep` the steps that only free a process. `RoomBound` needs that the promised
rows are finitely many. `IInv` was checked with TLC on the instances above before
it was proved.

`CancelledJobsNeverStart` and `FollowUpsOnlyOnce` rest on `StepRows`, which says
what any step does to the rows there are (`OldRow`) and to the one it adds
(`NewRow`): a follow-up is inserted only in the step that moves its origin from
RUNNING to COMPLETED, and a job that has a follow-up is never RUNNING again.

For the refinement the mapping is `envelope <- job`. `RequestImplements` and
`WorkerImplements` map every action to the abstract transition it is or to a
stutter: a second cancel, for instance, is a stutter because `IInv` says the
fields are already those it writes, and a completion is `Complete` because a
task whose payload runs and whose job is not cancelled has a RUNNING job.
`FinishedIsFinal` is then read off the abstract transitions.

`OnlyKillsAbandon` adds to `IInv` that the abandoned tasks are finite and at most
`crashes`: `KeepsHold` says that a step of a process which closes what it held
abandons nothing, `CrashAbandonsOne` that a kill adds one task at most.
`ScopesAreExclusive` needs `ScopeInv`: the row of a scope names a task of that scope,
and no task changes its scope. Its premise, that no cancelled payload of the scope
failed, is carried backwards: a step that leaves the tasks of a scope alone leaves
it as it was (`OtherRowsStep`), one that changes a task must show that the row
follows (`OneScopeStep`), and only `CreateDiscovery` hands the row to a newer job, and
only when the last is not live.

### Services

Every property the run of `MCServices` checks is a theorem of `Services`, for every
value of its constants: any number of assets, fields, addresses, workers, clients,
agents, rows, requests, restarts and kills. The theorems rest on `ServicesAssumption`
(the assumptions of the parts: types of the constants, finite bounds) and on
`NoneIsNoValue` (a missing value is not a value). Each part has an inductive invariant
under `part = ...`, which TLC was asked for on the instance of its run as well;
`FirstPart` and `OnePart` say that a behaviour is one of its part.

| theorem | what holds | the inductive invariant, and why the property needs it |
| --- | --- | --- |
| `ScoresAlwaysFollow` | `ScoresFollowContext`: with no task left every score is that of the present context, or a reason that enqueues nothing is on record; every target that shows a context has had a task for it | `RiskInv` (`RiskScoresProofs`): of each asset a task waits, a worker has claimed one, the worker that read its context read the present one, or the score is the present one. The property alone says nothing while there are tasks. It needs one worker: another could hold an older context, which `RiskScoresTwoWorkers` shows. `TargetInv`: the row a client read before is one whose context was enqueued too, so writing it back brings back a context that has its task |
| `FoundAddressesStay` | `FoundStays`: an address that was found keeps a row, although workers take each other's rows for duplicates | `EndpointsInv` (`DiscoveryEndpointsProofs`): the row a worker keeps is the oldest of its address until it has removed the others, so two workers keep the same one |
| `FollowUpsCover` | `FollowUpCovers`, when the targets are not reset meanwhile (`NoReset`, as in the run: a reset takes promotions back, see the table above) | `FollowInv`: what a worker has stored still has its row, a linked row is promoted, and no two workers have one run |
| `RunsFitThemselves` | `RunFitsItself`: status and times agree and a summary counts nothing without a result | `RunInv` (`PerformanceRunProofs`): so does each copy of the row a worker, poster or patcher will save, and results only grow, which is why an old copy does no harm to this property |
| `QuietExportsAgree` | `QuietExportAgrees` | `ExportInv`: ids of rows are fresh and unique, and a reader that was not disturbed holds a plan in the order of the present rows and of each asset its latest score |
| `TokensAlwaysAgree` | `TokensAgree` | `AgentInv`, `CallKnows`: an agent whose registrations never overlapped has one open at most, waits for that one, and once answered has none; the worker's token was the stored one when it was read |
| `OnlyRegistrationsRestore` | `OnlyRegistrationRestores`, an action property | the types, and that a heartbeat found valid has a row |
| `NothingOlderIsReturned` | `ReturnsNothingOlder` | `CacheInv`: what a request has read, and what it will return, is no older than the input it began with, wherever it is between the two |
| `ServicesTyped` | `TypeOK` | all of the above: that a row a step indexes exists follows from what the writers remember |

`DiscoveryEndpointsProofs`, `PerformanceRunProofs` and `RiskScoresProofs` are about one
module each, with that module's assumption as an `ASSUME` of their lemmas.
`ServicesProofs` and `ScansWorkerProofs` take an INSTANCE of them with their own variables
and show that it is the instance in `Services` or `Scans` (`SameEndpoints`, `SameRuns`,
`SameMeasure`, ...). `DiscoveryEndpoints` is used twice in this way, `PerformanceRun`
with clients and without.

### Scans

Theorems of `Scans`, from `ScansAssumption`: types of the constants, a request with at
least one target (`jobs/api.py:35`, `min_length=1`), finitely many server names, and
certificates known by their ids (the code compares fingerprints).

| theorem | what holds | the inductive invariant, and why the property needs it |
| --- | --- | --- |
| `CompletedIsAlwaysWhole` | `CompletedIsWhole`: a COMPLETED scan shows everything that was found, once, with every scanner that saw it, and a score for each; a COMPLETED performance run left to the worker has and counts every result | `ScanInv`: what was found was found of a requested target; the rows are those of the first candidates so far, each with all that merged into it; unless the job was deleted the snapshot stays; only the last step sets COMPLETED. `FirstOfKey`: among the candidates of one key there is a first, by well-foundedness. `WholeInv` of `PerformanceRunProofs`: there is a result for every asset the worker passed |
| `FailuresHaveReasons` | `FailureHasReason`: a scan fails only because a row it needs was taken away, its agent deactivated, or two different things claim one bom_ref | the same `ScanInv`: an exception in `PersistAsset` is a `Collision` only because the rows are those of candidates, and a log row has a target only because it was asked for |
| `NetworkScansAreWhole` | `NetworkScanIsWhole`: a TLS scan that ends has probed every name of its leaf certificates, none twice, and a scan of any kind has a candidate | `NetInv`: every name of a leaf collected so far was probed or waits (`Worklist`), `seen` is what was probed (`NetTyped`), and a scanner runs only for targets routed to it (`OnRoute`), so that the SSH attempt after a failed TLS scan, which drops what that found, is never a target routed to TLS |
| `ReadsStayWithin` | `LengthsNest`: every loop of the parsers stays within what contains it, for answers and length fields of any size | the types of the readers, and that a transform was read only while its proposal had room for it |
| `RulesAlwaysAgree` | `RulesAgree`: the role of a page is the first with most keywords, for any number of them, and families agree | `BestSoFar`: the best among the rules reached so far is the first with most |
| `ServicesAreRecognised` | `ServiceRecognised` (`DiscoveryProbe`): what answers is an endpoint, a service on a port of its own keeps its name unless its samples are lost, and no endpoint of the report failed all its samples | `ProbeInv` (`DiscoveryProbeProofs`): what a thread has still to try is the end of the list of its port, and what it passed over missed; the failed samples of a TLS service are at most the connections lost; an endpoint stems from the probe its thread ended with. The two instances (samples for the report, a sweep for the worker) are those of the lemmas by `SameProbe` and `SameSweep` |
| `QuietScanAlwaysWhole` | `QuietScanIsWhole`, if the request names each capability once (`DistinctRequests`) | `HostInv`: a capability that is still to come has no row, one that is done has its exception alone or each file once (`HostReports`); a walk holds a row of every file it has come to but the one it reads, and what it has come to and what is left are together the files below its roots as long as nothing changes (`HostHeld`); the references it read are those there are (`HostQuiet`) |
| `PolicyAlwaysAsWritten` | `PolicyAsWritten`, if no cipher of a line has the name of a TLS version (`CiphersAreNoVersions`): a version is an asset if a live line turns it on and only then; the versions and suites of the lines above stay, and what a line takes away is a placeholder or the certificate's algorithm, while no line gave anything; an sshd line of key exchanges replaces those above it; a comment says nothing | `ConfigInv`: every line is one an editor may add, perhaps made a comment. The rest is about lists of every length: what a nested comprehension holds (`FlatElements`), the algorithms of a finding by case (`TlsAlgorithms`), that they only grow (`LinesOnlyAdd`), that the last directive of a file is the last of its end (`LastKept`, `KexFromLast`), that keeping twice is keeping once (`KeptTwice`), hence that a file without its comments has the same directives (`CommentsIgnored`) |

`DistinctRequests` is a hypothesis and no assumption of `HostScan`: `run_host_scan` takes the
list it is sent as it is (`registry.py:39`), and a capability named twice is reported twice.
The worker sends the scanners of the request that the agent supports
(`jobs/scan_worker.py:194`), so this is `DistinctScanners` again. `CiphersAreNoVersions` is
needed because the algorithms of a finding are versions and suites in one list
(`jobs/agent_asset_mapper.py:76`), and OpenSSL takes `TLSv1.2` for a cipher string as well.

`ScannersAlwaysAccounted` is about `EveryScannerAccounted`, under the
assumption `DistinctScanners`: no scanner is asked for twice. `jobs/api.py:36` only asks
for one scanner at least, and the property does not hold without the assumption: `network`
runs once however often it is asked for, and `skip_errors` is a dict, so that a skipped
kind has one row; the bar of such a scan stops short until the job is closed (and never
runs past its end, which `BarInv` says without the assumption). The inductive invariant
`CountInv` is a balance: rows written plus rows owed - those in `todo`, the scanners the
agent is still to be asked for, and those not yet chosen, by the place the worker has
reached - make the rows of the targets up to this one (`BarInv`, `BarExact`), and of each
target and scanner there is a row for every time the target was passed, unless it is
still owed (`RowsExact`); the lists waiting never name a scanner twice (`Once`). That the lists
hold together what was asked for needs lemmas on `Keep`: it is the list composed with an
increasing bijection onto the places kept (`Places`, `Kept`), so that a kind that occurs once
occurs once among those kept or once among those left out (`SkippedAndSupported`).

`LeastOf` (every non-empty set of naturals has a least element) comes from the
library's theorem on well-founded relations; induction over positions is done with it,
as a proof by least counterexample, since the induction theorems themselves take an
operator as a parameter.

### What is only model-checked, and why

- Liveness (`QueuedIsServed`, `EveryJobEnds`, `WorkEnds`, `Converges`): needs fairness
  and ENABLED, which the prover does not have.
- `TypeOK` of `Scans`: it counts the lists of nested loops and folds strings; of each part
  the types its properties need are conjuncts of the invariants above.
- `MCEngines` (`GraverNeverLower`, `AnswersStayAllowed`, `WorseNeverBetter`,
  `StalePlanSameWork`, `DiffIsSound`): folds over tables of tokens, thresholds and rules;
  TLC compares them with every edit of small inputs.
- `RiskScores` with two workers is refuted, not proved, and a reset of the targets
  during a discovery is outside `FollowUpsCover`.

## Not modelled

- Dashboard, health and meta endpoints: read-only sums over rows of the others.
- The frontend: the polling of a job is the environment of `JobEnvelope`; views,
  forms and query caches change no row of the backend.
- Validation and formatting of requests, listings and their filters, texts
  (rationales, rollback and validation steps, prompts and their redaction),
  confidence of a plan, the copying of metadata into the properties of a component.
- The bytes of handshakes and the decoding of certificates, keys and key blobs by
  openssl: the modules choose what they yield.
- Floating point: scores are exact in hundredths.
- Rows of demonstration data (`seed_testbed_demo`), the servers of the test bed, the
  deployment and issue scripts: fixed data, or loops outside the program.

What could follow: theorems about the algorithms of `MCEngines`, by least
counterexample over the positions of a list, as for `HostConfig`; an abstract registry of
agents that `AgentRegistry` implements; `ScanRun` composed with `JobQueue` in one
specification, its `Close` refining `JobQueue!Complete`.
