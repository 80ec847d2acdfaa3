----------------------------- MODULE MCEngines ------------------------------
(***************************************************************************)
(* The engines that compute, for one TLC run: the risk score, the          *)
(* qualitative assessment, the evaluation of measurements, the migration   *)
(* plan and the difference of two snapshots.  A behaviour is about one of  *)
(* them: the first state chooses part, and the slots s1 .. s6 hold the     *)
(* variables of that module.                                               *)
(***************************************************************************)
EXTENDS Naturals, Sequences, FiniteSets

CONSTANT None   \* model value of the modules

VARIABLES part, s1, s2, s3, s4, s5, s6

Rest3 == <<s4, s5, s6>>   \* the slots three variables leave
Rest2 == <<s3, Rest3>>
vars  == <<part, s1, s2, Rest2>>

\* Algorithms as the scanners name them.
Alg(family, bits, words, digits) ==
    [family |-> family, bits |-> bits, words |-> words, digits |-> digits]
Algorithms ==
    {Alg("RSA", 2048, {"RSA"}, {2048}), Alg("ECDSA", 256, {"ECDSA", "DSA", "P-256"}, {}), Alg("SHA", 160, {"SHA-1"}, {}),
     Alg("ML-KEM", 768, {"ML-KEM"}, {}), Alg("ML-KEM", 768, {"ML-KEM", "X25519", "+"}, {}), Alg("", 0, {}, {})}
ByRisk == [sensitivity |-> <<"low", "medium", "critical">>,
           exposure    |-> <<"air_gapped", "public_internet">>,
           criticality |-> <<"low", "critical">>,
           years       |-> <<0, 4, 30>>]
Even   == [f \in {"a", "d", "e", "l", "c"} |-> 2]
WeightSets == {Even, [Even EXCEPT !.a = 1, !.d = 1, !.l = 1], [Even EXCEPT !.d = 4, !.e = 3, !.c = 4]}
Risk == INSTANCE RiskEngine WITH
    Contexts <- ByRisk, Roles <- {"auth", "mail"}, Hints <- {"TLS"}, Addresses <- {"private", "public"},
    asset <- s1, context <- s2, weights <- s3

\* "local" holds "ca", "oauth" holds "auth".
WordTokens ==
    [w \in {"web", "monitoring", "api", "auth", "mail", "database", "ssh", "oauth", "customer", "archive", "kms",
            "certificate", "algorithm", "ssh_host_key", "node", "local", "vendor"} |->
        CASE w = "oauth" -> {"auth", "oauth"}
          [] w = "certificate" -> {"ca", "certificate"}
          [] w = "local" -> {"ca"}
          [] w \in {"web", "ssh", "algorithm", "ssh_host_key", "node"} -> {}
          [] OTHER -> {w}]
Web     == [protocol |-> "tls", port |-> 443, local |-> FALSE]
Lan     == [protocol |-> "ssh", port |-> 22, local |-> TRUE]
Rsa     == [type |-> "certificate", class |-> "crypto", family |-> "RSA", name |-> "node",
            words |-> {}, target |-> Web, risk |-> None, edges |-> 0]
HostKey == [type |-> "ssh_host_key", class |-> "crypto", family |-> "ECDSA", name |-> "node",
            words |-> {"vendor"}, target |-> Lan, risk |-> 70, edges |-> 2]
Pqc     == [type |-> "algorithm", class |-> "crypto", family |-> "ML-KEM", name |-> "node",
            words |-> {}, target |-> None, risk |-> None, edges |-> 0]

\* Two assets under every context.
Words == INSTANCE Assessment WITH
    Assets <- {Rsa, HostKey}, Roles <- {"api", "oauth", "customer"}, Lifespans <- {0, 15}, Tokens <- WordTokens,
    asset <- s1, context <- s2, assessment <- s3

\* Three assets, every answer of the model.
Answers == INSTANCE Assessment WITH
    Assets <- {Rsa, HostKey, Pqc}, Roles <- {"api"}, Lifespans <- {5}, Tokens <- WordTokens,
    asset <- s1, context <- s2, assessment <- s3

At(transport, hint, port) == [transport |-> transport, hint |-> hint, port |-> port]

\* Four attempts of one target.
Tries == INSTANCE PerformanceEngine WITH
    Targets <- [web |-> At("TCP", "TLS", 443)], Baseline <- [web |-> [ms |-> 10, rps |-> None]],
    Attempts <- 4, Latencies <- {6, 10, 14}, Posts <- {},
    samples <- s1, results <- s2

\* One attempt of a target of each kind.
Kinds == [smtp |-> At("TCP", "SMTP", 25), db |-> At("TCP", "UNKNOWN", 5432), ssh |-> At("TCP", "UNKNOWN", 22),
          other |-> At("UDP", "UNKNOWN", 500)]
Probes == INSTANCE PerformanceEngine WITH
    Targets <- Kinds, Baseline <- [a \in DOMAIN Kinds |-> [ms |-> None, rps |-> None]],
    Attempts <- 1, Latencies <- {10}, Posts <- {},
    samples <- s1, results <- s2

\* Two targets, two attempts, results posted by clients.
Posted(fields, compatibility) ==
    [metrics |-> [f \in DOMAIN Tries!NoMetrics |-> IF f \in DOMAIN fields THEN fields[f] ELSE Tries!NoMetrics[f]],
     compatibility |-> compatibility]
Clients == INSTANCE PerformanceEngine WITH
    Targets <- [web |-> At("TCP", "TLS", 443), mail |-> At("TCP", "SMTP", 587)],
    Baseline <- [web |-> [ms |-> 10, rps |-> 40], mail |-> [ms |-> 14, rps |-> 90]],
    Attempts <- 2, Latencies <- {14},
    Posts <- {Posted([ms |-> 11, rps |-> 60], "PASS"), Posted([success |-> 99, failed |-> 1], "PASS"),
              Posted([success |-> 3, total |-> 2], "PASS"), Posted([failureRate |-> 200], "WARN"),
              Posted([clients |-> <<[profile |-> "legacy", raw |-> "FAILED", status |-> "FAILED"]>>], "PASS"),
              Posted([success |-> 1, total |-> 1], "ERROR")},
    samples <- s1, results <- s2

\* Assets as the scanners name and type them, with the words of their family.
Named(name, words, types) == {[name |-> name, type |-> t, words |-> words] : t \in types}
KeyTypes == {"certificate", "key", "ssh_host_key", "ssh_user_key"}
Scanned == UNION {
    Named("ecdh-sha2-nistp256", {"ECDH", "DH", "SHA2", "NISTP256"}, {"protocol"}),
    Named("ecdh-sha2-nistp384", {"ECDH", "DH", "SHA2", "384"}, {"protocol"}),
    Named("curve25519-sha256", {"ECDH", "DH", "SHA2", "CURVE25519"}, {"protocol"}),
    Named("diffie-hellman-group14-sha256", {"\\DH", "DH", "SHA2", "DIFFIE-HELLMAN", "GROUP", "GROUP14"}, {"protocol"}),
    Named("DSA-1024", {"DSA", "1024"}, {"key"}),
    Named("TLS_AES_256_GCM_SHA384", {"384"}, {"protocol"}),
    Named("ECDHE-RSA-AES128-GCM-SHA256", {"RSA", "ECDH", "DH", "SHA2"}, {"protocol"}),
    Named("RSA-1024", {"RSA", "1024"}, KeyTypes), Named("RSA-2048", {"RSA"}, KeyTypes),
    Named("ECDSA-P-384", {"ECDSA", "DSA", "384"}, KeyTypes), Named("Ed25519", {"DSA", "ED25519"}, KeyTypes),
    Named("MODP-2048", {"\\DH", "DH", "MODP"}, {"key_agreement"}), Named("ECP-256", {"ECDSA", "DSA", "ECP"}, {"key_agreement"}),
    Named("HMAC-SHA1", {"HMAC", "SHA1"}, {"protocol"}), Named("ML-DSA-65", {"ML-DSA", "DSA"}, {"certificate"}),
    Named("ML-KEM-768", {"ML-KEM"}, {"key_agreement"}), Named("X25519MLKEM768", {"ML-KEM", "X25519"}, {"protocol"}),
    Named("SLH-DSA-SHA2-128s", {"SLH-DSA", "DSA", "SHA2"}, {"certificate"}),
    Named("AES-256", {"AES-256"}, {"key"}), Named("AES-128", {"AES-128"}, {"key"})}
Migration == INSTANCE MigrationEngine WITH
    Assets <- Scanned, Roles <- {"", "web", "archive-signing"}, Archival <- {"archive-signing"},
    asset <- s1, target <- s2, role <- s3, scored <- s4, held <- s5, step <- s6

\* A host with two ports, a file and certificates of two algorithms.
Size(n, w, s) == [name |-> n, words |-> w, numbers |-> s]
Diff == INSTANCE SnapshotDiff WITH
    PortList <- <<"443", "8443">>, Certificates <- {"old", "pqc"}, Files <- {"leaf.pem"},
    AlgorithmOf <- [c \in {"old", "pqc"} |->
        IF c = "pqc" THEN Size("ML-DSA-65", {"ML-DSA", "DSA"}, {65}) ELSE Size("RSA-2048", {"RSA"}, {2048})],
    Versions <- {Size("TLSv1.2", {}, {1, 2}), Size("TLSv1.3", {}, {1, 3})},
    site <- s1, snapshots <- s2

ASSUME EnginesAssumption ==
    /\ Risk!EngineAssumption
    /\ Words!AssessmentAssumption
    /\ Answers!AssessmentAssumption
    /\ Tries!EngineAssumption
    /\ Probes!EngineAssumption
    /\ Clients!EngineAssumption
    /\ Migration!AssetAssumption
    /\ Diff!DiffAssumption

-----------------------------------------------------------------------------
Free3 == s4 = None /\ s5 = None /\ s6 = None
Free2 == s3 = None /\ Free3

Init ==
    \/ part = "risk" /\ Risk!Init /\ Free3
    \/ part = "words" /\ Words!Init /\ Free3
    \/ part = "answers" /\ Answers!Init /\ Free3
    \/ part = "tries" /\ Tries!Init /\ Free2
    \/ part = "probes" /\ Probes!Init /\ Free2
    \/ part = "clients" /\ Clients!Init /\ Free2
    \/ part = "migration" /\ Migration!Init
    \/ part = "diff" /\ Diff!Init /\ Free2

Next ==
    /\ UNCHANGED part
    /\ \/ part = "risk" /\ Risk!Next /\ UNCHANGED Rest3
       \/ part = "words" /\ (Words!PatchContext \/ Words!AcceptSuggestion) /\ UNCHANGED Rest3
       \/ part = "answers" /\ Answers!Next /\ UNCHANGED Rest3
       \/ part = "tries" /\ Tries!Next /\ UNCHANGED Rest2
       \/ part = "probes" /\ Probes!Next /\ UNCHANGED Rest2
       \/ part = "clients" /\ Clients!Next /\ UNCHANGED Rest2
       \/ part = "migration" /\ Migration!Next
       \/ part = "diff" /\ Diff!Next /\ UNCHANGED Rest2

Spec == Init /\ [][Next]_vars

-----------------------------------------------------------------------------
(* Properties.                                                             *)

\* Every variable keeps its type.
TypeOK ==
    /\ part = "risk" => Risk!TypeOK
    /\ part = "words" => Words!TypeOK
    /\ part = "answers" => Answers!TypeOK
    /\ part = "tries" => Tries!TypeOK
    /\ part = "probes" => Probes!TypeOK
    /\ part = "clients" => Clients!TypeOK
    /\ part = "migration" => Migration!TypeOK
    /\ part = "diff" => Diff!TypeOK

\* A graver value of one field of the context never lowers the risk score, nor
\* a criterion of the assessment, its DHS score or its urgency
\* (risk_engine/engine.py compute_risk, assets/services.py qualitative_criteria).
GraverNeverLower ==
    [][ /\ part = "risk" => Risk!GraverStep
        /\ part = "words" => Words!GraverStep ]_vars

\* Whatever a model answers, the assessment that is stored can be scored, the
\* migration that is given is one the policy allows, and the system's own answer
\* passes the parser it shares with the model's
\* (assets/services.py parse_qualitative_risk_response, snapshots/migration_plan.py).
AnswersStayAllowed ==
    /\ part = "answers" => Answers!StoredIsScorable /\ Answers!HeuristicParses
    /\ part = "migration" => Migration!AppliedIsNamed

\* A target measured worse, an attempt slower or lost, never ranks better, no
\* number of attempts hides one that was lost, and a run is no better than its
\* worst result, of which each that is not a pass is among its failure paths
\* (performance_engine/engine.py).
WorseNeverBetter ==
    /\ part = "tries" => Tries!WorseNeverBetter /\ Tries!OneLossFails
    /\ part = "probes" => Probes!SummaryAgrees
    /\ part = "clients" => Clients!FailuresListed /\ Clients!ComparisonWithinResults /\ Clients!ClientsCount

\* A plan whose context changed since the score was computed asks for the same
\* work as one of the present context: at most a signature is to be replaced
\* by the algorithm of another use (snapshots/migration_plan.py
\* recommend_for_risk_score, migration_engine/engine.py).
StalePlanSameWork == part = "migration" => Migration!StalePlanSameWork

\* A second scan of a host that did not change finds no difference, of two
\* others each row is counted once, and a downgrade has one direction
\* (snapshots/api.py diff_snapshots).
DiffIsSound == part = "diff" => Diff!QuietRescanIsClean /\ Diff!EveryRowCounted /\ Diff!DowngradeOneWay

\* docs/11-migration-plan.md:91: a protocol that uses an algorithm a quantum
\* computer breaks gets a recommendation.
VulnerableProtocolMoves == part = "migration" => Migration!VulnerableProtocolMoves
=============================================================================
