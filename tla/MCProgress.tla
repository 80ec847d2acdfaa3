----------------------------- MODULE MCProgress -----------------------------
(***************************************************************************)
(* What must come to an end or come right, under the fairness the code     *)
(* gives, for one TLC run: scans, parsers, measurements and assessments    *)
(* end, scores catch up with their context and agents with their           *)
(* registration.  A behaviour is about one of them: the first state        *)
(* chooses part, and the slots s1 .. s11 hold the variables of that module.*)
(***************************************************************************)
EXTENDS Naturals, Sequences, FiniteSets

CONSTANTS None, Rename, NoTarget, NoPrint   \* model values of the modules

VARIABLES part, s1, s2, s3, s4, s5, s6, s7, s8, s9, s10, s11

Rest10 == <<s11>>                    \* the slots ten variables leave
Rest9  == <<s10, Rest10>>
Rest8  == <<s9, Rest9>>
Rest7  == <<s8, Rest8>>
Rest6  == <<s7, Rest7>>
Rest4  == <<s5, s6, Rest6>>
vars   == <<part, s1, s2, s3, s4, Rest4>>

\* One target whose agent finds a bundle: two certificates, one bom_ref.
Seen(ref, print, kind) == [ref |-> ref, print |-> print, kinds |-> {kind}]
Certs == "agent.cert_store"
Scan == INSTANCE ScanRun WITH
    Targets <- {"web"}, Hosts <- {"host"}, HostOf <- [t \in {"web"} |-> "host"],
    AgentEnabled <- {"web"}, Request <- <<"web">>, Scanners <- <<"network", Certs>>,
    Scans <- [t \in {"web"} |-> {<<Seen(<<"cert", t>>, "crt", "network"), Seen(<<"tls", t>>, NoPrint, "network")>>}],
    Answers <- [h \in {"host"} |-> {<<Seen(<<"file", "web">>, "old", Certs), Seen(<<"file", "web">>, "new", Certs)>>}],
    MaxChanges <- 1,
    target <- s1, agent <- s2, job <- s3, progress <- s4, logs <- s5, snapshot <- s6,
    run <- s7, reset <- s8, changes <- s9

\* A target of every other kind than TLS on its port.
At(hint, transport, port) == [hint |-> hint, transport |-> transport, port |-> port, name |-> "a"]
Net == INSTANCE NetworkScanner WITH
    Targets <- {At("SMTP", "TCP", 25), At("UNKNOWN", "TCP", 1234), At("TLS", "TCP", 5432), At("TLS", "TCP", 22),
                At("IKE", "UDP", 500), At("IKE", "TCP", 500)},
    Names <- {"a", "b"}, NoName <- None,
    Certificates <- {[id |-> 1, sans |-> {}], [id |-> 2, sans |-> {"a", "b"}]},
    Suites <- {"s1", "s2"}, SuiteList <- <<"s1", "s3", "s2">>, Limit <- 2,
    target <- s1, pc <- s2, aliases <- s3, pending <- s4, seen <- s5, probed <- s6,
    result <- s7, suite <- s8, found <- s9, silent <- s10

\* Short and longer answers.
Parser == INSTANCE NetworkParsers WITH
    Sizes <- {20, 48}, Lengths <- {0, 3, 4, 8, 16, 40, 200}, Ids <- {12, 99},
    pc <- s1, size <- s2, next <- s3, cursor <- s4, body <- s5, proposal <- s6, attr <- s7, found <- s8

\* A key, a keystore, and a change of the host while they are read.
Files == {"server.key", "app.p12"}
Roots == [c \in {"keys", "keystore"} |-> IF c = "keys" THEN << <<"server.key">>, <<"server.key">> >> ELSE << <<"app.p12">> >>]
Host == INSTANCE HostScan WITH
    Base <- [f \in Files |-> f], HostKeys <- {}, Requests <- {<<"keys", "keystore">>, <<"keys", "gpg">>},
    Supported <- {"keys", "keystore"}, MaxFiles <- 1, Forms <- {"relative"}, MaxChanges <- 1,
    disk <- s1, config <- s2, scan <- s3, changes <- s4

\* A request, the worker and two changes.
Cache == INSTANCE AssessmentCache WITH
    Requests <- {"r"}, Worker <- "w", Configs <- {"disabled", "ready"}, MaxChanges <- 2,
    input <- s1, config <- s2, stored <- s3, client <- s4, task <- s5, changes <- s6

\* Two runs left to the worker.
Runs == INSTANCE PerformanceRun WITH
    Runs <- {"r1", "r2"}, AutoStart <- {"r1", "r2"}, Posters <- {}, Patchers <- {},
    Measurable <- <<"a1", "a2">>, Snapshot <- 2,
    run <- s1, results <- s2, linked <- s3, task <- s4, creator <- s5, worker <- s6, client <- s7, left <- s8

\* One asset and three requests.
Risk == INSTANCE RiskScores WITH
    Assets <- <<"new">>, Older <- {}, Fields <- {"exposure"}, Values <- {"high"}, Weights <- {"even", "sharp"},
    Clients <- {"c"}, Workers <- {"w"}, MaxChanges <- 3,
    target <- s1, asset <- s2, override <- s3, weights <- s4, score <- s5, queue <- s6,
    worker <- s7, client <- s8, inference <- s9, owed <- s10, changes <- s11

\* One agent.
Agents == INSTANCE AgentRegistry WITH
    Agents <- {"a"}, MaxTokens <- 3, MaxChanges <- 3,
    row <- s1, request <- s2, agent <- s3, call <- s4, issued <- s5, overlap <- s6, changes <- s7

ASSUME ProgressAssumption ==
    /\ Scan!ScanAssumption
    /\ Net!ScannerAssumption
    /\ Host!HostAssumption
    /\ Cache!CacheAssumption
    /\ Runs!RunAssumption
    /\ Risk!RiskAssumption
    /\ Agents!RegistryAssumption

-----------------------------------------------------------------------------
Free10 == s11 = None
Free9  == s10 = None /\ Free10
Free8  == s9 = None /\ Free9
Free7  == s8 = None /\ Free8
Free6  == s7 = None /\ Free7
Free4  == s5 = None /\ s6 = None /\ Free6

Init ==
    \/ part = "scan" /\ Scan!Init /\ Free9
    \/ part = "network" /\ Net!Init /\ Free10
    \/ part = "parser" /\ Parser!Init /\ Free8
    \/ part = "host" /\ Host!Init /\ Free4
    \/ part = "cache" /\ Cache!Init /\ Free6
    \/ part = "runs" /\ Runs!Init /\ Free8
    \/ part = "risk" /\ Risk!Init
    \/ part = "agents" /\ Agents!Init /\ Free7

Next ==
    /\ UNCHANGED part
    /\ \/ part = "scan" /\ Scan!Next /\ UNCHANGED Rest9
       \/ part = "network" /\ Net!Next /\ UNCHANGED Rest10
       \/ part = "parser" /\ Parser!Next /\ UNCHANGED Rest8
       \/ part = "host" /\ Host!Next /\ UNCHANGED Rest4
       \/ part = "cache" /\ Cache!Next /\ UNCHANGED Rest6
       \/ part = "runs" /\ Runs!Next /\ UNCHANGED Rest8
       \/ part = "risk" /\ Risk!Next
       \/ part = "agents" /\ Agents!Next /\ UNCHANGED Rest7

(***************************************************************************)
(* Fairness.  A scan, a parser and a worker run one step after another,    *)
(* and every wait of theirs has a timeout; the loops that claim tasks and  *)
(* those of the agent are kept running; the API answers.  Users, other     *)
(* clients and the network owe nothing.                                    *)
(***************************************************************************)
In(p) == part = p /\ UNCHANGED part

Running ==
    \/ In("scan") /\ Scan!Work /\ UNCHANGED Rest9
    \/ In("network") /\ Net!Scan /\ UNCHANGED Rest10
    \/ In("parser") /\ Parser!Next /\ UNCHANGED Rest8
    \/ In("host") /\ Host!Step /\ UNCHANGED Rest4
    \/ In("runs") /\ Runs!Work /\ UNCHANGED Rest8
    \/ In("risk") /\ Risk!Work("w")

\* The worker is kept running: a run that is queued again and again while it
\* is idle is claimed.
Claiming(r) == In("runs") /\ Runs!Claim(r) /\ UNCHANGED Rest8

\* The task of an assessment: claimed, computed, completed.
Assessing ==
    In("cache") /\ (Cache!Claim \/ Cache!Step("w") \/ Cache!Complete) /\ UNCHANGED Rest6

\* The agent starts and repeats its registration and its heartbeat, the API
\* handles a request, and the agent hears of it.
AgentStarts    == In("agents") /\ Agents!Start("a") /\ UNCHANGED Rest7
AgentRegisters == In("agents") /\ Agents!SendRegister("a") /\ UNCHANGED Rest7
AgentBeats     == In("agents") /\ Agents!SendHeartbeat("a") /\ UNCHANGED Rest7
RequestHandled == In("agents") /\ (\E r \in s2 : Agents!Handle(r)) /\ UNCHANGED Rest7
AnswerReceived == In("agents") /\ (\E r \in s2 : Agents!Receive("a", r)) /\ UNCHANGED Rest7

Fairness ==
    /\ WF_vars(Running) /\ WF_vars(Assessing)
    /\ SF_vars(Claiming("r1")) /\ SF_vars(Claiming("r2"))
    /\ WF_vars(AgentStarts) /\ WF_vars(AgentRegisters) /\ WF_vars(AgentBeats)
    /\ WF_vars(RequestHandled) /\ WF_vars(AnswerReceived)

Spec == Init /\ [][Next]_vars /\ Fairness

-----------------------------------------------------------------------------
(* Properties.                                                             *)

\* What is begun ends, whatever users, agents and hosts do meanwhile: the scan
\* of the worker, that of a port, the parsing of an answer, the agent's scan of
\* its host, a queued assessment, and a performance run that was answered as
\* started (jobs/scan_worker.py, jobs/network_scanner.py, host_scanners/,
\* assets/services.py, performance/services.py).
Ended ==
    /\ part = "scan" => Scan!RunEnded
    /\ part = "network" => Net!ScanEnded
    /\ part = "parser" => Parser!ParsingEnded
    /\ part = "host" => Host!Answered
WorkEnds ==
    /\ <>Ended
    /\ (part = "cache" /\ Cache!Queued) ~> (part = "cache" /\ Cache!TaskOver)
    /\ \A r \in {"r1", "r2"} : (part = "runs" /\ Runs!LeftToWorker(r)) ~> (part = "runs" /\ Runs!TaskOver(r))

\* What disagrees comes right: a changed context reaches the score, an agent
\* that was restarted or lost an answer is registered, a stale one is fresh
\* again (risk/services.py, testbed/agent register_loop, heartbeat_loop).
Right ==
    /\ part = "risk" => Risk!ScoresReached
    /\ part = "agents" => Agents!AllRegistered
Converges ==
    /\ <>[]Right
    /\ (part = "agents" /\ Agents!Stale("a")) ~> (part = "agents" /\ Agents!Recovered("a"))
=============================================================================
