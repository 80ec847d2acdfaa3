-------------------------- MODULE DiscoveryProbe --------------------------
(***************************************************************************)
(* What a discovery finds on a network.  Either the worker connects to     *)
(* every host and TCP port of the scope, or a discovery agent tries the    *)
(* probes of its registry on each of them, some of which measure TLS       *)
(* handshakes.  All candidates are probed at once by a pool of threads;    *)
(* the network may lose a connection at any of their steps.                *)
(***************************************************************************)
EXTENDS Naturals, Sequences, FiniteSets, SequencesExt, Lists

CONSTANTS
    Hosts,        \* the hosts of the scope, in order (_hosts_for_scope)
    Ports,        \* the ports of the request (resolved_ports)
    Services,     \* what a host may run on a port
    HostLimit,    \* DISCOVERY_MAX_HOSTS of the agent
    Samples,      \* DISCOVERY_AVAILABILITY_SAMPLES of the agent; 0 measures nothing
    MaxTroubles,  \* bound on connections the network loses
    None          \* no endpoint; no metrics

Kinds == {"closed", "mute", "tls", "ssh", "smtp", "smtp-starttls", "imap", "pop3",
          "postgres", "postgres-tls", "ike"}

Metrics == [good : 0 .. Samples, failures : 0 .. Samples, timeouts : 0 .. Samples]

Hints     == {"IKE", "SSH", "SMTP", "IMAP", "POP3", "TLS", "UNKNOWN"}
Protocols == Hints \cup {"TCP", "SMTP_STARTTLS", "POSTGRES", "POSTGRES_TLS", "SMTPS", "IMAPS",
                         "POP3S", "MQTT_TLS"}
Endpoint  == [detected : Protocols, hint : Hints, metrics : Metrics \cup {None}]

LastPort == 65535

ProbeAssumption ==
    /\ Hosts \in Seq(ToSet(Hosts)) /\ Services \subseteq Kinds /\ Ports \subseteq 1 .. LastPort
    /\ Samples \in Nat /\ Samples <= 50 /\ HostLimit \in Nat /\ MaxTroubles \in Nat
    /\ None \notin Metrics /\ None \notin Endpoint

VARIABLES
    executor,  \* "agent" or "central"
    service,   \* service[c]: what candidate c, a host and a port, runs
    thread,    \* thread[c]: [at, probes, good, failures, timeouts]
    endpoint,  \* endpoint[c]: what the discovery says of c, or None
    trouble,   \* ghost: trouble[c], the connections to c that were lost
    answer     \* "waiting", then "ok" or "failed"

vars == <<executor, service, thread, endpoint, trouble, answer>>

UDP == {500, 4500}
Transport(port) == IF port \in UDP THEN "UDP" ELSE "TCP"

\* The candidates: the agent stops at its host limit, the central executor
\* leaves the UDP ports out.
Candidates == ToSet(Hosts) \X Ports
Scope == IF executor = "agent"
         THEN {c \in Candidates : \E i \in DOMAIN Hosts : Hosts[i] = c[1] /\ i <= HostLimit}
         ELSE {c \in Candidates : c[2] \notin UDP}

TLSPorts == {443, 465, 993, 995, 3306, 5000, 6380, 8200, 8443, 8883, 9090, 9093, 9200,
             9443, 15017}

\* build_default_registry, without the fallback.
Registry == <<[name |-> "ssh",      on |-> {22, 2222}],
              [name |-> "smtp",     on |-> {25, 587}],
              [name |-> "imap",     on |-> {143}],
              [name |-> "pop3",     on |-> {110}],
              [name |-> "postgres", on |-> {5432}],
              [name |-> "tls",      on |-> TLSPorts],
              [name |-> "ike",      on |-> UDP]>>

\* ProbeRegistry.probes_for: the probes of the port, then the fallback.
ProbesFor(port) ==
    LET exact == Keep(Registry, {i \in DOMAIN Registry : port \in Registry[i].on})
    IN  [i \in DOMAIN exact |-> exact[i].name]
            \o (IF Transport(port) = "TCP" THEN <<"tcp">> ELSE <<>>)

\* _protocol_hint_for_port of the backend; suggested_hint_for_port of the agent.
Hint(port) == CASE port \in UDP                          -> "IKE"
                [] port \in {22, 2222}                   -> "SSH"
                [] port \in {25, 465, 587}               -> "SMTP"
                [] port = 993                            -> "IMAP"
                [] port = 995                            -> "POP3"
                [] port \in (TLSPorts \cup {5432})       -> "TLS"
                [] OTHER                                 -> "UNKNOWN"

\* What each probe makes of a service that answers it, as detected_protocol;
\* "" when the service does not speak its protocol.
TcpAnswer(kind)      == IF kind \in {"closed", "ike"} THEN "" ELSE "TCP"
SshBanner(kind)      == IF kind = "ssh" THEN "SSH" ELSE ""
ImapBanner(kind)     == IF kind = "imap" THEN "IMAP" ELSE ""
Pop3Banner(kind)     == IF kind = "pop3" THEN "POP3" ELSE ""
IkeAnswer(kind)      == IF kind = "ike" THEN "IKE" ELSE ""
SmtpAnswer(kind)     == CASE kind = "smtp"          -> "SMTP"
                          [] kind = "smtp-starttls" -> "SMTP_STARTTLS"
                          [] OTHER                  -> ""
PostgresAnswer(kind) == CASE kind = "postgres"     -> "POSTGRES"
                          [] kind = "postgres-tls" -> "POSTGRES_TLS"
                          [] OTHER                 -> ""
TlsName(port)        == CASE port = 465  -> "SMTPS" [] port = 993  -> "IMAPS"
                          [] port = 995  -> "POP3S" [] port = 8883 -> "MQTT_TLS"
                          [] OTHER       -> "TLS"

Recognises(probe, kind, port) ==
    CASE probe = "tcp"      -> TcpAnswer(kind)
      [] probe = "central"  -> IF TcpAnswer(kind) = "" THEN "" ELSE Hint(port)
      [] probe = "ssh"      -> SshBanner(kind)
      [] probe = "smtp"     -> SmtpAnswer(kind)
      [] probe = "imap"     -> ImapBanner(kind)
      [] probe = "pop3"     -> Pop3Banner(kind)
      [] probe = "postgres" -> PostgresAnswer(kind)
      [] probe = "ike"      -> IkeAnswer(kind)
      [] probe = "tls"      -> IF kind = "tls" THEN TlsName(port) ELSE ""

\* The suggested_protocol_hint that goes with it.
HintOf(probe, port) ==
    CASE probe \in {"tcp", "central", "tls"} -> Hint(port)
      [] probe = "ssh"  -> "SSH"  [] probe = "smtp" -> "SMTP" [] probe = "imap"     -> "IMAP"
      [] probe = "pop3" -> "POP3" [] probe = "ike"  -> "IKE"  [] probe = "postgres" -> "TLS"

TypeOK ==
    /\ executor \in {"agent", "central"} /\ service \in [Candidates -> Services]
    /\ \A c \in Candidates :
         /\ thread[c].at \in {"waiting", "probing", "http", "done"}
         /\ thread[c].good \in 0 .. Samples
         /\ thread[c].timeouts <= thread[c].failures
         /\ thread[c].good + thread[c].failures <= Samples
    /\ endpoint \in [Candidates -> Endpoint \cup {None}]
    /\ trouble \in [Candidates -> 0 .. MaxTroubles]
    /\ answer \in {"waiting", "ok", "failed"}

Init ==
    /\ executor \in {"agent", "central"} /\ service \in [Candidates -> Services]
    /\ thread = [c \in Candidates |-> [at |-> IF c \in Scope THEN "waiting" ELSE "done",
                    probes |-> IF executor = "agent" THEN ProbesFor(c[2]) ELSE <<"central">>,
                    good |-> 0, failures |-> 0, timeouts |-> 0]]
    /\ endpoint = [c \in Candidates |-> None]
    /\ trouble = [c \in Candidates |-> 0]
    /\ answer = "waiting"

-----------------------------------------------------------------------------
Probe(c) == Head(thread[c].probes)
Sampling(c) == Probe(c) = "tls" /\ Samples > 0

\* The network loses the connection of candidate c.
Lost(c) ==
    /\ Cardinality({l \in Candidates \X (1 .. MaxTroubles) : l[2] <= trouble[l[1]]}) < MaxTroubles
    /\ trouble' = [trouble EXCEPT ![c] = @ + 1]

\* The probe of a thread has an endpoint, and the thread ends ...
Found(c, metrics) ==
    /\ endpoint' = [endpoint EXCEPT ![c] =
                      [detected |-> Recognises(Probe(c), service[c], c[2]),
                       hint |-> HintOf(Probe(c), c[2]), metrics |-> metrics]]
    /\ thread' = [thread EXCEPT ![c].at = "done"]

\* ... or has none, and the next one is tried.
NextProbe(c) ==
    /\ thread' = [thread EXCEPT ![c].probes = Tail(@),
                    ![c].at = IF Len(thread[c].probes) = 1 THEN "done" ELSE "probing"]
    /\ UNCHANGED endpoint

StartThread(c) ==
    /\ thread[c].at = "waiting"
    /\ thread' = [thread EXCEPT ![c].at = IF thread[c].probes = <<>> THEN "done" ELSE "probing"]
    /\ UNCHANGED <<executor, service, endpoint, trouble, answer>>

\* A probe of one connection: its banner, its first answer, its handshake.
RunProbe(c) ==
    /\ thread[c].at = "probing" /\ ~Sampling(c)
    /\ \/ /\ IF Recognises(Probe(c), service[c], c[2]) # "" THEN Found(c, None) ELSE NextProbe(c)
          /\ UNCHANGED trouble
       \/ Lost(c) /\ NextProbe(c)
    /\ UNCHANGED <<executor, service, answer>>

HTTPPorts == {443, 5000, 8200, 8443, 9090, 9200, 9443, 15017}
Taken(c)  == thread[c].good + thread[c].failures
Fails(c, late) == thread' = [thread EXCEPT ![c].failures = @ + 1, ![c].at = "probing",
                                           ![c].timeouts = IF late THEN @ + 1 ELSE @]

\* measure_tls_availability: one sample, a connection and a handshake.
Sample(c) ==
    /\ thread[c].at = "probing" /\ Sampling(c) /\ Taken(c) < Samples
    /\ \/ /\ service[c] = "tls"
          /\ thread' = IF c[2] \in HTTPPorts THEN [thread EXCEPT ![c].at = "http"]
                                             ELSE [thread EXCEPT ![c].good = @ + 1]
          /\ UNCHANGED trouble
       \/ service[c] # "tls" /\ Fails(c, service[c] = "mute") /\ UNCHANGED trouble
       \/ \E late \in BOOLEAN : Lost(c) /\ Fails(c, late)
    /\ UNCHANGED <<executor, service, endpoint, answer>>

\* _measure_http_request over the new connection: a lost read ends it without
\* times, a lost write makes the whole sample a failure.
MeasureHttp(c) ==
    /\ thread[c].at = "http"
    /\ \/ thread' = [thread EXCEPT ![c].good = @ + 1, ![c].at = "probing"] /\ UNCHANGED trouble
       \/ Lost(c) /\ (Fails(c, FALSE) \/ thread' = [thread EXCEPT ![c].good = @ + 1, ![c].at = "probing"])
    /\ UNCHANGED <<executor, service, endpoint, answer>>

\* Fault: one failed sample is enough to give the endpoint up.
EndSamplesStrict(c) ==
    /\ thread[c].at = "probing" /\ Sampling(c) /\ Taken(c) = Samples
    /\ IF thread[c].failures > 0 THEN NextProbe(c)
       ELSE Found(c, [good |-> thread[c].good, failures |-> thread[c].failures,
                      timeouts |-> thread[c].timeouts])
    /\ UNCHANGED <<executor, service, trouble, answer>>

\* probe_tls: an endpoint unless every sample failed.
EndSamples(c) ==
    /\ thread[c].at = "probing" /\ Sampling(c) /\ Taken(c) = Samples
    /\ IF thread[c].good = 0 THEN NextProbe(c)
       ELSE Found(c, [good |-> thread[c].good, failures |-> thread[c].failures,
                      timeouts |-> thread[c].timeouts])
    /\ UNCHANGED <<executor, service, trouble, answer>>

\* All futures are done: the worker has the endpoints.
Answer ==
    /\ answer = "waiting" /\ \A c \in Scope : thread[c].at = "done"
    /\ answer' = "ok"
    /\ UNCHANGED <<executor, service, thread, endpoint, trouble>>

\* post_discover gives up after 60 seconds: what the agent found is lost.
GiveUp ==
    /\ answer = "waiting" /\ executor = "agent"
    /\ answer' = "failed" /\ endpoint' = [c \in Candidates |-> None]
    /\ UNCHANGED <<executor, service, thread, trouble>>

Next ==
    \/ answer = "waiting" /\ \E c \in Scope :
         StartThread(c) \/ RunProbe(c) \/ Sample(c) \/ MeasureHttp(c) \/ EndSamples(c)
    \/ Answer \/ GiveUp

Spec == Init /\ [][Next]_vars

\* summarize_availability of the agent, with sums for averages; the worker
\* computes the same when a report is missing (summarize_discovery_availability).
Reported == {c \in Candidates : endpoint[c] # None /\ endpoint[c].metrics # None}
Report   == [measured |-> Cardinality(Reported),
             tls      |-> Cardinality({c \in Candidates : endpoint[c] # None /\ endpoint[c].hint = "TLS"}),
             samples  |-> Cardinality({s \in Reported \X (1 .. Samples) : s[2] <= endpoint[s[1]].metrics.good}),
             failures |-> Cardinality({s \in Reported \X (1 .. Samples) : s[2] <= endpoint[s[1]].metrics.failures})]

-----------------------------------------------------------------------------
(* Properties, of the endpoints of an answer.                              *)

FoundSet  == {c \in Candidates : endpoint[c] # None}
Open(c)   == service[c] \notin {"closed", "ike"}
Steady(c) == trouble[c] = 0

\* A port that accepts connections is an endpoint, whatever speaks behind it,
\* unless a connection to it was lost; a closed one never is (probes_for ends
\* with the TCP fallback; _tcp_port_open).
OpenIsFound == answer = "ok" => \A c \in Scope :
    /\ Transport(c[2]) = "TCP" /\ Open(c) /\ Steady(c) => c \in FoundSet
    /\ service[c] = "closed" => c \notin FoundSet

\* A service on a port of its own keeps its name unless the network loses each
\* of the samples, or the only connection, of its probe.
ServiceRecognised == answer = "ok" /\ executor = "agent" => \A c \in FoundSet :
    \A p \in ToSet(Registry) :
      c[2] \in p.on /\ Recognises(p.name, service[c], c[2]) # "" =>
        \/ endpoint[c].detected = Recognises(p.name, service[c], c[2])
        \/ trouble[c] >= (IF p.name = "tls" /\ Samples > 0 THEN Samples ELSE 1)

\* On a steady network the hint, which decides how a target is scanned, is the
\* one the worker would give, but for the ports 110 and 143, which it does not
\* know (suggested_hint_for_port and _protocol_hint_for_port).
ExecutorsAgree == answer = "ok" => \A c \in FoundSet :
    endpoint[c].hint = Hint(c[2]) \/ c[2] \in {110, 143}

\* The report counts the samples of measured endpoints only, and an endpoint
\* that failed all of them is not one: what cannot be reached at all is never
\* in the failure rate (summarize_availability).
ReportShowsSurvivors == answer = "ok" =>
    /\ Report.samples >= Report.measured
    /\ Report.measured > 0 => Report.failures < Samples * Report.measured
=============================================================================
