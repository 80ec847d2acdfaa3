-------------------------------- MODULE Scans -------------------------------
(***************************************************************************)
(* What looks at hosts: the worker's scan, its network scanner with the    *)
(* parsers of answers and pages, the discovery probes, the agent's scan of *)
(* its host, and the runner that measures.  Where one uses another's       *)
(* answers its module chooses them freely, so a behaviour is about one of  *)
(* them: the first state chooses part, and the variables of the others     *)
(* stay None.                                                              *)
(***************************************************************************)
EXTENDS Naturals, Sequences, FiniteSets

CONSTANTS
    Targets, Hosts, HostOf, AgentEnabled, TargetIds, Scanners, \* ScanRun
    NetworkFinds, AgentFinds, ScanChanges, NoTarget, NoPrint,
    Peers, Names, Certificates, Suites, SuiteList, Limit,      \* NetworkScanner
    ProbeHosts, ProbePorts, ProbeServices, HostLimit,          \* DiscoveryProbe
    Samples, ProbeTroubles,
    SweepHosts, SweepPorts, SweepServices, SweepTroubles,      \* the same, for the ports
    Files, Base, KeyFiles, Roots, Requests, Supported,         \* HostScan
    MaxFiles, Forms, HostChanges,
    ConfigKinds, Versions, Lines, ServerCerts, MaxLines,       \* HostConfig
    Sizes, Lengths, Ids,                                       \* NetworkParsers
    Homepages, HttpCodes, HitCounts,                           \* HomepageContext
    RunIds, Measurable, Snapshot,                              \* PerformanceRun
    None

VARIABLES
    part,                                                      \* what a behaviour is about
    target, agent, job, progress, logs, snapshot, run, reset,  \* ScanRun
    changes,
    peer, scanning, aliases, pending, seen, probed, result,    \* NetworkScanner
    suite, candidates, silent,
    executor, service, thread, endpoint, trouble, answer,      \* DiscoveryProbe
    disk, config, walk, edits,                                 \* HostScan
    kind, text, serverCert,                                    \* HostConfig
    parsing, size, next, cursor, body, proposal, attr, found,  \* NetworkParsers
    site, asking, reply, page, rule, context,                  \* HomepageContext
    runs, results, linked, task, creator, runner, client, left \* PerformanceRun

scanVars     == <<target, agent, job, progress, logs, snapshot, run, reset, changes>>
netVars      == <<peer, scanning, aliases, pending, seen, probed, result, suite, candidates, silent>>
probeVars    == <<executor, service, thread, endpoint, trouble, answer>>
hostVars     == <<disk, config, walk, edits>>
configVars   == <<kind, text, serverCert>>
parserVars   == <<parsing, size, next, cursor, body, proposal, attr, found>>
homepageVars == <<site, asking, reply, page, rule, context>>
measureVars  == <<runs, results, linked, task, creator, runner, client, left>>
vars == <<part, scanVars, netVars, probeVars, hostVars, configVars, parserVars, homepageVars, measureVars>>

Scan == INSTANCE ScanRun WITH
    Request <- TargetIds, Scans <- NetworkFinds, Answers <- AgentFinds, MaxChanges <- ScanChanges

Net == INSTANCE NetworkScanner WITH
    Targets <- Peers, NoName <- None,
    target <- peer, pc <- scanning, found <- candidates

Probe == INSTANCE DiscoveryProbe WITH
    Hosts <- ProbeHosts, Ports <- ProbePorts, Services <- ProbeServices, MaxTroubles <- ProbeTroubles

\* Another instance of it: no samples, ports of other probes.
Sweep == INSTANCE DiscoveryProbe WITH
    Hosts <- SweepHosts, Ports <- SweepPorts, Services <- SweepServices, MaxTroubles <- SweepTroubles,
    HostLimit <- 1, Samples <- 0

Host == INSTANCE HostScan WITH HostKeys <- KeyFiles, MaxChanges <- HostChanges, scan <- walk, changes <- edits

Config == INSTANCE HostConfig WITH Kinds <- ConfigKinds

Parser == INSTANCE NetworkParsers WITH pc <- parsing

Home == INSTANCE HomepageContext WITH
    Targets <- Homepages, Statuses <- HttpCodes, target <- site, pc <- asking, answer <- reply, scan <- rule

\* Performance runs left to the worker: nobody posts or patches.
Measure == INSTANCE PerformanceRun WITH
    Runs <- RunIds, AutoStart <- RunIds, Posters <- {}, Patchers <- {}, run <- runs, worker <- runner

ASSUME ScansAssumption ==
    /\ Scan!ScanAssumption
    /\ Net!ScannerAssumption
    /\ Probe!ProbeAssumption
    /\ Sweep!ProbeAssumption
    /\ Host!HostAssumption
    /\ Config!ConfigAssumption
    /\ Parser!ParserAssumption
    /\ Home!HomepageAssumption
    /\ Measure!RunAssumption

-----------------------------------------------------------------------------
NoScan ==
    /\ target = None /\ agent = None /\ job = None /\ progress = None /\ logs = None
    /\ snapshot = None /\ run = None /\ reset = None /\ changes = None
NoNet ==
    /\ peer = None /\ scanning = None /\ aliases = None /\ pending = None /\ seen = None
    /\ probed = None /\ result = None /\ suite = None /\ candidates = None /\ silent = None
NoProbe ==
    /\ executor = None /\ service = None /\ thread = None
    /\ endpoint = None /\ trouble = None /\ answer = None
NoHost   == disk = None /\ config = None /\ walk = None /\ edits = None
NoConfig == kind = None /\ text = None /\ serverCert = None
NoParser ==
    /\ parsing = None /\ size = None /\ next = None /\ cursor = None
    /\ body = None /\ proposal = None /\ attr = None /\ found = None
NoHomepage == site = None /\ asking = None /\ reply = None /\ page = None /\ rule = None /\ context = None
NoMeasure ==
    /\ runs = None /\ results = None /\ linked = None /\ task = None
    /\ creator = None /\ runner = None /\ client = None /\ left = None

Init ==
    /\ part \in {"scan", "network", "probe", "ports", "host", "config", "parser", "homepage", "measure"}
    /\ IF part = "scan" THEN Scan!Init ELSE NoScan
    /\ IF part = "network" THEN Net!Init ELSE NoNet
    /\ CASE part = "probe" -> Probe!Init [] part = "ports" -> Sweep!Init [] OTHER -> NoProbe
    /\ IF part = "host" THEN Host!Init ELSE NoHost
    /\ IF part = "config" THEN Config!Init ELSE NoConfig
    /\ IF part = "parser" THEN Parser!Init ELSE NoParser
    /\ IF part = "homepage" THEN Home!Init ELSE NoHomepage
    /\ IF part = "measure" THEN Measure!Init ELSE NoMeasure

Next ==
    /\ UNCHANGED part
    /\ \/ part = "scan" /\ Scan!Next
          /\ UNCHANGED <<netVars, probeVars, hostVars, configVars, parserVars, homepageVars, measureVars>>
       \/ part = "network" /\ Net!Next
          /\ UNCHANGED <<scanVars, probeVars, hostVars, configVars, parserVars, homepageVars, measureVars>>
       \/ part = "probe" /\ Probe!Next
          /\ UNCHANGED <<scanVars, netVars, hostVars, configVars, parserVars, homepageVars, measureVars>>
       \/ part = "ports" /\ Sweep!Next
          /\ UNCHANGED <<scanVars, netVars, hostVars, configVars, parserVars, homepageVars, measureVars>>
       \/ part = "host" /\ Host!Next
          /\ UNCHANGED <<scanVars, netVars, probeVars, configVars, parserVars, homepageVars, measureVars>>
       \/ part = "config" /\ Config!Next
          /\ UNCHANGED <<scanVars, netVars, probeVars, hostVars, parserVars, homepageVars, measureVars>>
       \/ part = "parser" /\ Parser!Next
          /\ UNCHANGED <<scanVars, netVars, probeVars, hostVars, configVars, homepageVars, measureVars>>
       \/ part = "homepage" /\ Home!Next
          /\ UNCHANGED <<scanVars, netVars, probeVars, hostVars, configVars, parserVars, measureVars>>
       \/ part = "measure" /\ Measure!Next
          /\ UNCHANGED <<scanVars, netVars, probeVars, hostVars, configVars, parserVars, homepageVars>>

Spec == Init /\ [][Next]_vars

-----------------------------------------------------------------------------
(* Properties.                                                             *)

\* Every variable keeps its type.
TypeOK ==
    /\ part = "scan" => Scan!TypeOK
    /\ part = "network" => Net!TypeOK
    /\ part = "probe" => Probe!TypeOK
    /\ part = "ports" => Sweep!TypeOK
    /\ part = "host" => Host!TypeOK
    /\ part = "config" => Config!TypeOK
    /\ part = "parser" => Parser!TypeOK
    /\ part = "homepage" => Home!TypeOK
    /\ part = "measure" => Measure!TypeOK

\* When the scanning is over every scanner asked for on every target has one
\* log row and the progress bar is full (jobs/scan_worker.py).
EveryScannerAccounted == part = "scan" => Scan!EveryScannerAccounted

\* A scan fails only because a row it needs was taken away or because two
\* different things it found claim one bom_ref (jobs/scan_worker.py).
FailureHasReason == [][part = "scan" => Scan!FailureStep]_vars

\* A COMPLETED scan shows everything that was found, once, with every scanner
\* that saw it, and a score for each asset; a COMPLETED performance run that is
\* left to the worker has and counts a result for every measurable asset
\* (jobs/scan_worker.py, performance/runner.py).
CompletedIsWhole ==
    /\ part = "scan" => Scan!CompletedIsWhole
    /\ part = "measure" => Measure!CompletedIsWhole

\* A TLS scan that ends has probed every name its leaf certificates carry, none
\* of them twice, and a scan of any kind that ends has something to say of its
\* target (jobs/network_scanner.py seen_sni, pending_sni and the fallbacks).
NetworkScanIsWhole ==
    part = "network" => Net!NamesFollowed /\ Net!NoNameTwice /\ Net!AlwaysACandidate

\* What answers is found, a service on a port of its own keeps its name unless
\* each sample of its probe is lost, the availability counts what was measured
\* only, and agent and worker would scan it alike (testbed/agent/discovery,
\* discoveries/services.py).
ServiceRecognised ==
    /\ part = "probe" => Probe!ServiceRecognised /\ Probe!OpenIsFound /\ Probe!ReportShowsSurvivors
    /\ part = "ports" => Sweep!OpenIsFound /\ Sweep!ExecutorsAgree

\* No file is reported twice; of a host that does not change every file below
\* the roots is, unless its capability raised or met its limit, and a key that
\* a configuration names is not dormant (host_scanners/registry.py).
QuietScanIsWhole ==
    part = "host" => Host!EachFileOnce /\ Host!QuietScanIsWhole /\ Host!NamedKeyIsInUse

\* A TLS version becomes an asset if some line turns it on, and only then; the
\* versions and suites of the lines above none below takes away, while a line
\* of sshd's key exchanges replaces those above, and a comment says nothing
\* (host_scanners/crypto_utils.py, registry.py, jobs/agent_asset_mapper.py).
PolicyAsWritten ==
    part = "config" =>
        Config!AssetIffEnabled /\ Config!LinesAddUp /\ Config!KexReplaced /\ Config!CommentsSayNothing

\* Whatever the length fields of an answer hold, nothing is read past what
\* contains it (jobs/network_scanner.py, the loops over IKE and SSH answers).
LengthsNest == part = "parser" => Parser!LengthsNest

\* Ordered rules over words that contain one another: the role of a page is the
\* first of those with most keywords, and the family derived from the name of a
\* key is the one its parser gave (jobs/homepage_context.py, jobs/scan_assets.py).
RulesAgree ==
    /\ part = "homepage" => Home!RoleHasMost
    /\ part = "parser" => Parser!FamiliesAgree
=============================================================================
