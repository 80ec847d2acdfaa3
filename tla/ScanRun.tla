------------------------------- MODULE ScanRun -------------------------------
(***************************************************************************)
(* One scan, from the moment its task is claimed (JobQueue!Claim) to the   *)
(* transaction that closes it: the payload run_scan_job_payload statement  *)
(* by statement, beside the requests that touch the same rows - deletion   *)
(* of a target, registration and removal of an agent, cancellation, the    *)
(* reset of all scan results - and a kill of the worker.                   *)
(*                                                                         *)
(* Every statement of the payload commits by itself; nothing spans two.    *)
(***************************************************************************)
EXTENDS Naturals, Sequences, FiniteSets, SequencesExt, Lists

CONSTANTS
    Targets, Hosts,
    HostOf,        \* HostOf[t]: the host of target t, where its agent runs
    AgentEnabled,  \* the targets with agent_enabled
    Request,       \* ScanJob.target_ids
    Scanners,      \* ScanJob.scanner_selection: "network" and agent kinds
    NoTarget,      \* the target of a log row whose target was deleted
    NoPrint,       \* a candidate without fingerprint_sha256
    Scans,         \* Scans[t]: what the network scan of t may find, [ref, print, kinds]
    Answers,       \* Answers[h]: what the agent of h may answer
    MaxChanges     \* bound: requests and silences during the scan

Network    == "network"
AgentKinds == ToSet(Scanners) \ {Network}

ScanAssumption ==
    /\ HostOf \in [Targets -> Hosts] /\ AgentEnabled \subseteq Targets
    /\ Request \in Seq(Targets) \ {<<>>} /\ Scanners \in Seq(STRING)
    /\ \A t \in Targets : \A found \in Scans[t] : found \in Seq(ToSet(found))
    /\ \A h \in Hosts : \A answer \in Answers[h] : answer \in Seq(ToSet(answer))
    /\ MaxChanges \in Nat /\ NoTarget \notin Targets

VARIABLES
    target,    \* target[t]: the row exists
    agent,     \* agent[h]: the host agent of h
    job,       \* status of the AsyncJob, "GONE" once deleted
    progress,  \* AsyncJob.progress.completed
    logs,      \* ScanRunLog rows of the job
    snapshot,  \* the CbomSnapshot of the job, its assets and scores
    run,       \* the worker's memory; at: the candidate it stored last
    reset,     \* a DELETE /settings/snapshots in flight
    changes    \* requests and silences so far

vars == <<target, agent, job, progress, logs, snapshot, run, reset, changes>>

Total == Len(Request) * Len(Scanners)

LogRow   == [target : Targets \cup {NoTarget}, scanner : ToSet(Scanners),
             status : {"SUCCESS", "ERROR", "SKIPPED"}]
Inactive == [active |-> FALSE, fresh |-> FALSE, wired |-> FALSE, can |-> {}]
NoSnapshot == [made |-> FALSE, rows |-> <<>>, scored |-> 0]

\* Resting: the worker's command is over.
Over == {"done", "raised", "killed"}

TypeOK ==
    /\ target \in [Targets -> BOOLEAN]
    /\ agent \in [Hosts -> [active : BOOLEAN, fresh : BOOLEAN,
                            wired : BOOLEAN, can : SUBSET AgentKinds]]
    /\ job \in {"RUNNING", "CANCELLED", "COMPLETED", "FAILED", "GONE"}
    /\ progress \in 0 .. Total
    /\ logs \in Seq(LogRow)
    /\ snapshot.made \in BOOLEAN /\ snapshot.scored \in 0 .. Len(snapshot.rows)
    /\ run.pc \in Over \cup {"start", "network", "agents", "call", "log",
                             "progress", "next", "persist", "assets", "score",
                             "close"}
    /\ run.i \in 1 .. Len(Request) + 1
    /\ reset \in {"idle", "listed", "listed with snapshot"}
    /\ changes \in 0 .. MaxChanges

Init ==
    /\ target = [t \in Targets |-> TRUE]
    /\ agent \in [Hosts -> {Inactive,
          [active |-> TRUE, fresh |-> TRUE, wired |-> TRUE, can |-> AgentKinds]}]
    /\ job = "RUNNING" /\ progress = 0 /\ logs = <<>> /\ snapshot = NoSnapshot
    /\ run = [pc |-> "start", then |-> "start", i |-> 1, asked |-> <<>>,
              todo |-> <<>>, found |-> <<>>, at |-> 0]
    /\ reset = "idle" /\ changes = 0

-----------------------------------------------------------------------------
(* Candidates (AssetCandidate): [target, ref, print, kinds].               *)

\* _dedupe_key.
Key(c) == IF c.print # NoPrint THEN <<"fingerprint", c.print>> ELSE <<"bom_ref", c.ref>>

\* _dedupe_candidates: the first with a key stands for all of them.
Firsts(found) == {i \in DOMAIN found : \A j \in 1 .. i - 1 : Key(found[j]) # Key(found[i])}

MergedForgetful(found, i) ==   \* fault: later observations leave no trace
    [ref |-> found[i].ref, print |-> found[i].print, kinds |-> found[i].kinds]
\* _merge_candidates: the first observation wins, source_scanners adds up.
Merged(found, i) ==
    [ref |-> found[i].ref, print |-> found[i].print,
     kinds |-> UNION {found[j].kinds : j \in {k \in DOMAIN found : Key(found[k]) = Key(found[i])}}]

\* map_agent_findings: findings of kinds that were not asked for are dropped.
Wanted(answer, kinds) == Keep(answer, {i \in DOMAIN answer : answer[i].kinds \subseteq kinds})

-----------------------------------------------------------------------------
(* The payload.                                                            *)

Here == Request[run.i]

\* _fail_scan_job_task overwrites whatever status the job has; without a job
\* it raises in its turn.
Raise ==
    /\ run' = [run EXCEPT !.pc = "raised"]
    /\ job' = IF job = "GONE" THEN job ELSE "FAILED"

\* What was found is found of the target it was looked for on.
OfTarget(found) ==
    [i \in DOMAIN found |->
        [target |-> Here, ref |-> found[i].ref, print |-> found[i].print, kinds |-> found[i].kinds]]

Goto(pc) == run' = [run EXCEPT !.pc = pc]
World == <<target, agent, reset, changes>>

\* Write todo, row by row, each followed by its progress; then go on.
LogThen(rows, then, found, asked) ==
    run' = [run EXCEPT !.pc = IF rows = <<>> THEN then ELSE "log", !.todo = rows,
                       !.then = then, !.found = @ \o OfTarget(found), !.asked = asked]

Rows(kinds, status) == [i \in DOMAIN kinds |-> [target |-> Here,
                                   scanner |-> kinds[i], status |-> status]]

\* _targets_for_ids: one missing target fails the whole scan.
ReadTargets ==
    /\ run.pc = "start"
    /\ IF \A t \in ToSet(Request) : target[t]
       THEN Goto("network") /\ UNCHANGED job
       ELSE Raise
    /\ UNCHANGED <<progress, logs, snapshot, World>>

\* The loop over the targets ends in _persist_snapshot.
NextTarget ==
    /\ run.pc = "next"
    /\ run' = [run EXCEPT !.i = @ + 1,
                  !.pc = IF run.i < Len(Request) THEN "network" ELSE "persist"]
    /\ UNCHANGED <<job, progress, logs, snapshot, World>>

\* _run_network_scanner, when the scan returns.
NetworkScan ==
    /\ run.pc = "network"
    /\ IF Network \in ToSet(Scanners)
       THEN \E found \in Scans[Here] :
               LogThen(Rows(<<Network>>, "SUCCESS"), "agents", found, <<>>)
       ELSE Goto("agents")
    /\ UNCHANGED <<job, progress, logs, snapshot, World>>

\* Fault: the exception of the scan is not caught.
NetworkErrorUncaught ==
    /\ run.pc = "network" /\ Network \in ToSet(Scanners)
    /\ Raise
    /\ UNCHANGED <<progress, logs, snapshot, World>>

\* When it raises: an unreachable target is an ERROR row, not a failure.
NetworkError ==
    /\ run.pc = "network" /\ Network \in ToSet(Scanners)
    /\ LogThen(Rows(<<Network>>, "ERROR"), "agents", <<>>, <<>>)
    /\ UNCHANGED <<job, progress, logs, snapshot, World>>

\* ScanRunLog.objects.create, outside any try: the foreign keys must exist.
WriteLog ==
    /\ run.pc = "log"
    /\ IF target[Here] /\ job # "GONE"
       THEN /\ logs' = Append(logs, Head(run.todo))
            /\ Goto("progress") /\ UNCHANGED job
       ELSE Raise /\ UNCHANGED logs
    /\ UNCHANGED <<progress, snapshot, World>>

ProgressForever ==   \* fault: the row logged last is never taken off the list
    /\ run.pc = "progress"
    /\ progress' = IF job = "GONE" THEN progress ELSE progress + 1
    /\ run' = [run EXCEPT !.pc = "log"]
    /\ UNCHANGED <<job, logs, snapshot, World>>

\* _update_progress, an UPDATE that does not look at the status.
Progress ==
    /\ run.pc = "progress"
    /\ progress' = IF job = "GONE" THEN progress ELSE progress + 1
    /\ run' = [run EXCEPT !.todo = Tail(@),
                  !.pc = IF Len(run.todo) = 1 THEN run.then ELSE "log"]
    /\ UNCHANGED <<job, logs, snapshot, World>>

\* The scanners asked for of these kinds.
Selected(kinds) == Keep(Scanners, {i \in DOMAIN Scanners : Scanners[i] \in kinds})

\* _supported_agent_scanners, for the agent of the target.
Answering ==
    LET a == agent[HostOf[Here]]
    IN IF Here \in AgentEnabled /\ a.active /\ a.fresh /\ a.wired
       THEN Selected(AgentKinds \cap a.can) ELSE <<>>

\* Fault: with a supported scanner at hand the skipped ones go unrecorded.
ChooseWithoutSkips ==
    /\ run.pc = "agents"
    /\ IF Answering = <<>> THEN LogThen(Rows(Selected(AgentKinds), "SKIPPED"), "next", <<>>, <<>>)
       ELSE LogThen(<<>>, "call", <<>>, Answering)
    /\ UNCHANGED <<job, progress, logs, snapshot, World>>

\* The SKIPPED rows first (skip_errors is a dict: one per kind).
ChooseAgentScanners ==
    /\ run.pc = "agents"
    /\ LogThen(Rows(SetToSeq(AgentKinds \ ToSet(Answering)), "SKIPPED"),
               IF Answering = <<>> THEN "next" ELSE "call", <<>>, Answering)
    /\ UNCHANGED <<job, progress, logs, snapshot, World>>

\* The second read of the agent (outside the try) and post_scan: the request
\* may fail, and does when the agent has lost its URL since.
CallAgent ==
    /\ run.pc = "call"
    /\ LET a == agent[HostOf[Here]]
       IN \/ ~ a.active /\ Raise
          \/ /\ a.active
             /\ LogThen(Rows(run.asked, "ERROR"), "next", <<>>, <<>>)
             /\ UNCHANGED job
          \/ /\ a.active /\ a.wired
             /\ \E answer \in Answers[HostOf[Here]] :
                   LogThen(Rows(run.asked, "SUCCESS"), "next",
                           Wanted(answer, ToSet(run.asked)), <<>>)
             /\ UNCHANGED job
    /\ UNCHANGED <<progress, logs, snapshot, World>>

\* _persist_snapshot: the row first; its scan_job must still exist.
PersistSnapshot ==
    /\ run.pc = "persist"
    /\ IF job = "GONE" THEN Raise /\ UNCHANGED snapshot
       ELSE /\ snapshot' = [NoSnapshot EXCEPT !.made = TRUE]
            /\ Goto("assets") /\ UNCHANGED job
    /\ UNCHANGED <<progress, logs, World>>

\* Asset.objects.create, for one unique candidate after the other: the snapshot
\* and the target must exist, and bom_ref must be new in the snapshot.
PersistAsset ==
    /\ run.pc = "assets"
    /\ LET rest == {i \in Firsts(run.found) : i > run.at}
       IN \/ rest = {} /\ Goto("score") /\ UNCHANGED <<job, snapshot>>
          \/ \E n \in rest :
               /\ \A m \in rest : n <= m
               /\ IF /\ snapshot.made /\ target[run.found[n].target]
                     /\ \A i \in DOMAIN snapshot.rows : snapshot.rows[i].ref # run.found[n].ref
                  THEN /\ snapshot' = [snapshot EXCEPT !.rows = Append(@, Merged(run.found, n))]
                       /\ run' = [run EXCEPT !.at = n] /\ UNCHANGED job
                  ELSE Raise /\ UNCHANGED snapshot
    /\ UNCHANGED <<progress, logs, World>>

\* recompute_snapshot_risks: one score per asset, in the order of their ids.
\* The assets are listed once; a score needs its asset and snapshot.
Score ==
    /\ run.pc = "score"
    /\ \/ /\ snapshot.scored = Len(snapshot.rows)
          /\ Goto("close")
          /\ UNCHANGED <<job, snapshot>>
       \/ /\ snapshot.scored < Len(snapshot.rows)
          /\ snapshot' = [snapshot EXCEPT !.scored = @ + 1]
          /\ UNCHANGED <<job, run>>
       \/ /\ ~ snapshot.made   \* deleted under its feet
          /\ Raise
          /\ UNCHANGED snapshot
    /\ UNCHANGED <<progress, logs, World>>

\* _complete_scan_job_task.
Close ==
    /\ run.pc = "close"
    /\ IF job = "GONE" THEN Raise /\ UNCHANGED progress
       ELSE /\ Goto("done")
            /\ job' = IF job = "CANCELLED" THEN job ELSE "COMPLETED"
            /\ progress' = IF job = "CANCELLED" THEN progress ELSE Total
    /\ UNCHANGED <<logs, snapshot, World>>

Kill ==
    /\ run.pc \notin Over
    /\ Goto("killed")
    /\ UNCHANGED <<job, progress, logs, snapshot, World>>

Work == \/ ReadTargets \/ NetworkScan \/ NetworkError \/ WriteLog \/ Progress
        \/ ChooseAgentScanners \/ CallAgent \/ NextTarget
        \/ PersistSnapshot \/ PersistAsset \/ Score \/ Close

-----------------------------------------------------------------------------
(* Everybody else.                                                         *)

Idle == <<job, progress, logs, snapshot, run>>
Change == changes < MaxChanges /\ changes' = changes + 1

\* DELETE /targets/{id} and /settings/scan-targets; log rows stay (SET_NULL).
DeleteTargets(S) ==
    /\ Change /\ \A t \in S : target[t]
    /\ target' = [t \in Targets |-> target[t] /\ t \notin S]
    /\ logs' = [i \in DOMAIN logs |-> [logs[i] EXCEPT
                  !.target = IF @ \in S THEN NoTarget ELSE @]]
    /\ UNCHANGED <<agent, reset, job, progress, snapshot, run>>

\* POST /agents/register: created, or token rotated and everything renewed.
RegisterAgent(h, wired, can) ==
    /\ Change
    /\ agent' = [agent EXCEPT ![h] = [active |-> TRUE, fresh |-> TRUE,
                                      wired |-> wired, can |-> can]]
    /\ UNCHANGED <<target, reset, Idle>>

\* POST /agents/{id}/heartbeat: refused to an inactive agent; five minutes
\* without one make the agent stale.
Heartbeat(h, heard) ==
    /\ Change /\ agent[h].active
    /\ agent' = [agent EXCEPT ![h].fresh = heard]
    /\ UNCHANGED <<target, reset, Idle>>

\* DELETE /agents/{id}.
DeactivateAgent(h) ==
    /\ Change /\ agent[h].active
    /\ agent' = [agent EXCEPT ![h].active = FALSE]
    /\ UNCHANGED <<target, reset, Idle>>

\* POST /jobs/{id}/cancel.
CancelJob ==
    /\ job = "RUNNING"
    /\ job' = "CANCELLED"
    /\ UNCHANGED <<target, agent, progress, logs, snapshot, run, reset, changes>>

\* DELETE /settings/snapshots: ids are listed first ...
ListForReset ==
    /\ Change /\ reset = "idle"
    /\ reset' = IF snapshot.made THEN "listed with snapshot" ELSE "listed"
    /\ UNCHANGED <<target, agent, Idle>>

\* ... and deleted in a transaction afterwards; logs go with their job.
DeleteListed ==
    /\ reset # "idle"
    /\ job' = "GONE" /\ logs' = <<>>
    /\ snapshot' = IF reset = "listed" THEN snapshot ELSE NoSnapshot
    /\ reset' = "idle"
    /\ UNCHANGED <<target, agent, progress, run, changes>>

Others ==
    \/ \E S \in (SUBSET Targets) \ {{}} : DeleteTargets(S)
    \/ \E h \in Hosts, wired \in BOOLEAN, can \in SUBSET AgentKinds :
          RegisterAgent(h, wired, can)
    \/ \E h \in Hosts, heard \in BOOLEAN : Heartbeat(h, heard)
    \/ \E h \in Hosts : DeactivateAgent(h)
    \/ CancelJob \/ ListForReset \/ DeleteListed

Next == Work \/ Others \/ Kill
Spec == Init /\ [][Next]_vars

\* Every network call has a timeout; users and agents owe nothing.
FairSpec == Spec /\ WF_vars(Work)

-----------------------------------------------------------------------------
(* Properties.                                                             *)

Times(x, seq) == Cardinality({i \in DOMAIN seq : seq[i] = x})

\* When the scanning is over, every scanner asked for on every target has
\* exactly one log row - executed, failed or skipped - and the progress bar is
\* full, whatever agents and targets did meanwhile (_run_agent_scanners
\* returns `completed` through three exits).
EveryScannerAccounted ==
    (run.pc \in {"persist", "assets", "score", "close", "done"} /\ job # "GONE") =>
        /\ progress = Total
        /\ Len(logs) = Total
        /\ \A t \in Targets, k \in ToSet(Scanners) : target[t] =>
              Times([target |-> t, scanner |-> k],
                    [i \in DOMAIN logs |-> [target |-> logs[i].target,
                                           scanner |-> logs[i].scanner]])
                  = Times(t, Request) * Times(k, Scanners)

\* Two observations of the same thing.
Same(c, d) == IF NoPrint \in {c.print, d.print} THEN c.ref = d.ref
              ELSE c.print = d.print

\* A COMPLETED scan shows everything that was found, once, with every scanner
\* that saw it, and a score for each asset (_dedupe_candidates,
\* _persist_snapshot and recompute_snapshot_risks together).
CompletedIsWhole ==
    job = "COMPLETED" =>
        /\ snapshot.made
        /\ snapshot.scored = Len(snapshot.rows)
        /\ \A i \in DOMAIN run.found :
              \E r \in ToSet(snapshot.rows) :
                 Same(r, run.found[i]) /\ run.found[i].kinds \subseteq r.kinds
        /\ \A i, j \in DOMAIN snapshot.rows :
              Same(snapshot.rows[i], snapshot.rows[j]) => i = j

\* Two candidates that are not the same but claim the same bom_ref.
Collision ==
    \E c, d \in ToSet(run.found) : c.ref = d.ref /\ c.print # d.print

\* A scan fails only because a row it needs was taken away or because of a
\* collision: no unreachable target, unwilling agent or skipped scanner ends
\* it (docs/03-network-scanner.md:337).
FailureStep ==
    run'.pc = "raised" /\ run.pc # "raised" =>
        \/ Collision
        \/ job = "GONE"
        \/ \E t \in ToSet(Request) : ~ target[t]
        \/ run.pc = "call" /\ ~ agent[HostOf[Here]].active

\* Whatever users and agents do, the worker gets to the end of the payload.
RunEnded == run.pc \in Over

=============================================================================
