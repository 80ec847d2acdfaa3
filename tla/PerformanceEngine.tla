------------------------- MODULE PerformanceEngine -------------------------
(***************************************************************************)
(* Measurements of the targets of a snapshot and what is concluded from    *)
(* them: the attempts of one target are aggregated to metrics, these       *)
(* compared with thresholds and with a baseline, and the results of a run  *)
(* summarised.  Rates are in ten-thousandths, deltas in hundredths of a    *)
(* percent, latencies in milliseconds.                                     *)
(***************************************************************************)
EXTENDS Integers, Sequences, SequencesExt, FiniteSets, FiniteSetsExt

CONSTANTS
    Targets,    \* Targets[a]: the target of asset a, [transport, hint, port]
    Baseline,   \* Baseline[a]: [ms, rps] of a in the baseline run
    Attempts,   \* attempts per target: by profile, or configured, 1 to 20
    Latencies,  \* milliseconds of a successful attempt
    Posts,      \* results clients post: [metrics, compatibility]
    None

Assets == DOMAIN Targets

EngineAssumption ==
    /\ Attempts \in 1 .. 20 /\ Latencies \subseteq Nat
    /\ DOMAIN Baseline = Assets

VARIABLES
    samples,   \* samples[a]: the attempts of the runner, or None
    results    \* results[a]: [status, compatibility, metrics, delta, signals], or None

vars == <<samples, results>>

Known(v) == v # None
Or(v, default) == IF Known(v) THEN v ELSE default
Ratio(n, d, scale) == (2 * n * scale + d) \div (2 * d)
Clamp(rate) == IF rate > 10000 THEN 10000 ELSE IF rate < 0 THEN 0 ELSE rate
When(cond, s) == IF cond THEN s ELSE <<>>

-----------------------------------------------------------------------------
(* One attempt: the ways each probe ends.  "" is a success.                *)

Connect == {"", "connection_timeout", "connection_refused", "dns_resolution_failed"}
ProbeTcp      == Connect
ProbeTls      == Connect \cup {"tls_handshake_failed"}
ProbePostgres == ProbeTls \cup {"postgres_tls_rejected"}
ProbeSmtp     == ProbeTls \cup {"starttls_not_advertised", "starttls_rejected"}
ProbeSsh      == Connect \cup {"ssh_banner_missing"}
ProbeIke      == (Connect \ {"connection_refused"}) \cup {"ike_response_mismatch"}
ProbeHttp     == Connect \cup {"http_response_missing"}

TlsPorts  == {443, 465, 993, 995, 3306, 5000, 6380, 8200, 8443, 8883, 9090, 9093, 9200, 9443, 15017}
HttpPorts == {80, 8080}

TargetProtocol(t) ==
    CASE t.transport = "UDP" /\ t.port \in {500, 4500} -> "IKE"
      [] t.port \in {22, 2222} -> "SSH"
      [] t.port \in HttpPorts -> "HTTP"
      [] OTHER -> t.hint

\* _probe_once.
Outcomes(t) ==
    LET protocol == TargetProtocol(t)
    IN CASE t.transport = "UDP" /\ protocol = "IKE"        -> ProbeIke
         [] protocol = "SSH"                              -> ProbeSsh
         [] protocol = "SMTP" /\ t.port \in {25, 587}      -> ProbeSmtp
         [] t.port = 5432                                 -> ProbePostgres
         [] protocol = "HTTP"                             -> ProbeHttp
         [] protocol \in {"TLS", "SMTP", "IMAP", "POP3"} \/ t.port \in TlsPorts -> ProbeTls
         [] OTHER                                         -> ProbeTcp

Attempt(t) == [code : Outcomes(t) \ {""}, ms : {0}] \cup [code : {""}, ms : Latencies]
Ok(x) == x.code = ""

-----------------------------------------------------------------------------
(* The attempts of one target.                                             *)

\* Of n sorted values, as far as n <= 20.
P95Index(n) == 1 + (95 * (n - 1) + 50) \div 100
P95(values) == LET ordered == SortSeq(values, LAMBDA x, y : x < y) IN ordered[P95Index(Len(values))]

NoMetrics == [protocol |-> "UNKNOWN", success |-> None, failed |-> None, total |-> None, failureRate |-> None,
              timeoutRate |-> None, successRate |-> None, ms |-> None, rps |-> None, reason |-> "", clients |-> <<>>]

\* _aggregate_measurements, with _merge_success_metrics.
Aggregate(t, s) ==
    LET passed == SelectSeq(s, Ok)
        failed == SelectSeq(s, LAMBDA x : ~Ok(x))
        late   == SelectSeq(s, LAMBDA x : x.code = "connection_timeout")
    IN [NoMetrics EXCEPT
          !.protocol = TargetProtocol(t), !.success = Len(passed), !.failed = Len(failed), !.total = Len(s),
          !.failureRate = Ratio(Len(failed), Len(s), 10000), !.timeoutRate = Ratio(Len(late), Len(s), 10000),
          !.ms = IF passed = <<>> THEN None ELSE P95([i \in DOMAIN passed |-> passed[i].ms]),
          !.reason = IF failed = <<>> THEN "" ELSE Last(failed).code]

Compatibility(s) ==
    CASE \E i \in DOMAIN s : Ok(s[i]) -> "PASS"
      [] Last(s).code = "dns_resolution_failed" -> "ERROR"
      [] OTHER -> "FAIL"

-----------------------------------------------------------------------------
(* evaluate_asset_performance, with the default thresholds.                *)

\* normalize_availability_metrics.
Normalize(m) ==
    LET total == IF Known(m.total) /\ m.total # 0 THEN m.total
                 ELSE IF Known(m.success) THEN m.success + Or(m.failed, 0) ELSE None
        counted == Known(m.success) /\ Known(total) /\ total # 0
        rate == Clamp(Ratio(m.success, total, 10000))
    IN  CASE counted -> [m EXCEPT !.total = total, !.successRate = rate, !.failureRate = Or(@, 10000 - rate)]
          [] ~counted /\ ~Known(m.successRate) /\ Known(m.failureRate) ->
                [m EXCEPT !.successRate = Clamp(10000 - m.failureRate)]
          [] OTHER -> m

\* _percent_delta.
PercentDelta(candidate, base) ==
    IF Known(candidate) /\ Known(base) /\ base > 0 THEN Ratio(candidate - base, base, 10000) ELSE None

Signal(level, reason) == <<[level |-> level, reason |-> reason]>>

\* _append_rate_signal and _append_min_rate_signal.
RateSignal(value, reason) ==
    IF value > 300 THEN Signal("FAIL", reason) ELSE When(value > 100, Signal("WARN", reason))
MinRateSignal(value, reason) ==
    IF value < 9700 THEN Signal("FAIL", reason) ELSE When(value < 9900, Signal("WARN", reason))
\* Fault: any change counts.
DeltaSignalAny(delta) ==
    IF delta > 3000 \/ -delta > 3000 THEN Signal("FAIL", "latency") ELSE When(delta > 1000, Signal("WARN", "latency"))
DeltaSignal(delta) ==
    IF delta > 3000 THEN Signal("FAIL", "latency") ELSE When(delta > 1000, Signal("WARN", "latency"))

DropSignal(delta) ==
    IF delta < -3000 THEN Signal("FAIL", "throughput") ELSE When(delta < -1000, Signal("WARN", "throughput"))

\* _normalize_client_compatibility: an unknown status is a pass.
ClientStatus(raw) ==
    CASE raw \in {"OK", "SUCCESS", "PASSED"} -> "PASS" [] raw = "PARTIAL" -> "WARN"
      [] raw \in {"FAILED", "UNREACHABLE"} -> "FAIL"
      [] OTHER -> IF raw \in {"PASS", "WARN", "FAIL", "ERROR"} THEN raw ELSE "PASS"

ClientSignal(check) ==
    CASE check.status \in {"FAIL", "ERROR"} -> Signal("FAIL", "client")
      [] check.status = "WARN" -> Signal("WARN", "client")
      [] OTHER -> <<>>

\* _collect_signals.
Signals(m, delta, compatibility) ==
    (CASE compatibility \in {"FAIL", "ERROR"} -> Signal("FAIL", "compatibility")
       [] compatibility = "WARN" -> Signal("WARN", "compatibility") [] OTHER -> <<>>)
    \o When(Known(m.successRate), MinRateSignal(Or(m.successRate, 0), "success_rate"))
    \o RateSignal(Or(m.failureRate, 0), "failure_rate")
    \o RateSignal(Or(m.timeoutRate, 0), "timeout_rate")
    \o FlattenSeq([i \in DOMAIN m.clients |-> ClientSignal(m.clients[i])])
    \o When(Known(delta.ms), DeltaSignal(Or(delta.ms, 0)))
    \o When(Known(delta.rps), DropSignal(Or(delta.rps, 0)))

Level(signals, l) == \E i \in DOMAIN signals : signals[i].level = l

StatusOf(signals) ==
    CASE Level(signals, "FAIL") -> "FAIL" [] Level(signals, "WARN") -> "WARN" [] OTHER -> "PASS"

Recommendation(status, compatibility) ==
    CASE compatibility = "ERROR" -> "manual_review"
      [] compatibility # "ERROR" /\ status = "FAIL" -> "rollback_or_manual_review"
      [] compatibility # "ERROR" /\ status = "WARN" -> "canary_more"
      [] OTHER -> "proceed"

\* _metrics_with_failure_context.
Explained(m, signals, status) ==
    IF status # "PASS" /\ m.reason = "" /\ signals # <<>> THEN [m EXCEPT !.reason = signals[1].reason] ELSE m

Deltas(m, base) == [ms |-> PercentDelta(m.ms, base.ms), rps |-> PercentDelta(m.rps, base.rps)]
Checks(m) == [m EXCEPT !.clients = [i \in DOMAIN @ |-> [@[i] EXCEPT !.status = ClientStatus(@)]]]

\* upsert_result.
Result(a, given, compatibility) ==
    LET m       == Normalize(Checks(given))
        delta   == Deltas(m, Baseline[a])
        signals == Signals(m, delta, compatibility)
        status  == IF compatibility = "ERROR" THEN "ERROR" ELSE StatusOf(signals)
    IN [status |-> status, metrics |-> Explained(m, signals, status), delta |-> delta,
        base |-> Baseline[a], advice |-> Recommendation(StatusOf(signals), compatibility)]

Measured(a, s) == Result(a, Aggregate(Targets[a], s), Compatibility(s))

-----------------------------------------------------------------------------
(* The summary of a run.                                                   *)

Statuses == {"PASS", "WARN", "FAIL", "ERROR"}
Rank(status) == CASE status \in {"PASS", "PENDING"} -> 0 [] status = "WARN" -> 1 [] status = "FAIL" -> 2 [] status = "ERROR" -> 3
Done == {a \in Assets : Known(results[a])}

Counts(S) == [s \in Statuses |-> Cardinality({a \in S : results[a].status = s})]
ByProtocol == [p \in {results[a].metrics.protocol : a \in Done} |->
                 Counts({a \in Done : results[a].metrics.protocol = p})]

Overall(counts) ==
    IF \A s \in Statuses : counts[s] = 0 THEN "PENDING"
    ELSE CHOOSE s \in Statuses : counts[s] > 0 /\ \A t \in Statuses : counts[t] > 0 => Rank(t) <= Rank(s)

\* The comparisons of a run: averages in hundredths, over the results that
\* have both values, f being "ms" or "rps".
Compared(f) == {a \in Done : Known(results[a].metrics[f]) /\ Known(results[a].base[f])}
Average(S, v(_)) == Ratio(MapThenSumSet(v, S), Cardinality(S), 100)
Comparison(f) ==
    LET new(a) == results[a].metrics[f]  base(a) == results[a].base[f]
    IN  PercentDelta(Average(Compared(f), new), Average(Compared(f), base))

\* _summarize_client_compatibility.
AllChecks == {<<a, i>> : a \in Done, i \in 1 .. 2}
ClientCounts == [s \in Statuses |-> Cardinality({x \in AllChecks :
    x[2] \in DOMAIN results[x[1]].metrics.clients /\ results[x[1]].metrics.clients[x[2]].status = s})]

FailedChecks(a) == {i \in DOMAIN results[a].metrics.clients : results[a].metrics.clients[i].status # "PASS"}

\* _summarize_failure_paths: the reasons under which a is listed.
FailurePaths(a) ==
    LET m == results[a].metrics
    IN  (IF (results[a].status # "PASS" \/ m.reason # "") /\ ~(FailedChecks(a) # {} /\ m.reason = "client")
         THEN {IF m.reason # "" THEN m.reason ELSE results[a].status} ELSE {})
        \cup {"client" : i \in FailedChecks(a)}

-----------------------------------------------------------------------------
Init ==
    /\ samples = [a \in Assets |-> None]
    /\ results = [a \in Assets |-> None]

\* measure_target for the runner.
Measure(a) ==
    /\ results[a] = None
    /\ \E s \in [1 .. Attempts -> Attempt(Targets[a])] :
         /\ samples' = [samples EXCEPT ![a] = s]
         /\ results' = [results EXCEPT ![a] = Measured(a, s)]

\* POST of a result, over what the runner measured if it did.
PostResult(a) ==
    /\ \E p \in Posts : results' = [results EXCEPT ![a] = Result(a, p.metrics, p.compatibility)]
    /\ samples' = [samples EXCEPT ![a] = None]

Next == \E a \in Assets : Measure(a) \/ PostResult(a)
Spec == Init /\ [][Next]_vars

TypeOK == \A a \in Done :
    /\ results[a].status \in Statuses
    /\ results[a].metrics.successRate \in 0 .. 10000 \cup {None}

-----------------------------------------------------------------------------
(* Properties.                                                             *)

\* Up to twenty attempts, one that fails fails the target: no number of
\* attempts the code accepts hides a lost connection below the thresholds.
OneLossFails ==
    /\ \A n \in 1 .. 20 : StatusOf(RateSignal(Ratio(1, n, 10000), "failure_rate")) = "FAIL"
    /\ \A a \in Done : Known(samples[a]) =>
         ((\E i \in DOMAIN samples[a] : ~Ok(samples[a][i])) => results[a].status \in {"FAIL", "ERROR"})

\* A target measured worse, an attempt slower or lost, never ranks better.
WorseNeverBetter == \A a \in Done : Known(samples[a]) =>
    \A i \in DOMAIN samples[a] : Ok(samples[a][i]) =>
        \A y \in {z \in Attempt(Targets[a]) : ~Ok(z) \/ z.ms > samples[a][i].ms} :
            Rank(Measured(a, [samples[a] EXCEPT ![i] = y]).status) >= Rank(results[a].status)

\* The summary counts every result once under its protocol, and its status is
\* that of the worst.
SummaryAgrees ==
    /\ MapThenSumSet(LAMBDA p : MapThenSumSet(LAMBDA s : ByProtocol[p][s], Statuses), DOMAIN ByProtocol) = Cardinality(Done)
    /\ \A a \in Done : Rank(Overall(Counts(Done))) >= Rank(results[a].status)

\* A result that is not a pass is listed among the failure paths: the two
\* sources of a path, status and clients, exclude each other's entries.
FailuresListed == \A a \in Done : results[a].status # "PASS" => FailurePaths(a) # {}

\* The change of latency and of throughput of a run lies between those of its
\* results, of which it is an average.
ComparisonWithinResults == \A f \in {"ms", "rps"} : Compared(f) # {} =>
    /\ \E a \in Compared(f) : Comparison(f) <= results[a].delta[f] + 1
    /\ \E a \in Compared(f) : Comparison(f) >= results[a].delta[f] - 1

\* A client that fails is a failure of the run, in whatever words it was reported.
ClientsCount ==
    /\ Rank(Overall(ClientCounts)) <= 2 => Rank(Overall(Counts(Done))) >= Rank(Overall(ClientCounts))
    /\ \A a \in Done : \A i \in DOMAIN results[a].metrics.clients :
         results[a].metrics.clients[i].raw \in {"FAILED", "UNREACHABLE", "FAIL"} => Rank(results[a].status) >= 2

=============================================================================
