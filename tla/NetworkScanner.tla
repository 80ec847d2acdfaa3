--------------------------- MODULE NetworkScanner --------------------------
(***************************************************************************)
(* The network scan of one target, connection by connection.  A TLS scan   *)
(* is a worklist of server names: each name found in a certificate or with *)
(* another target of the address is probed in turn, and every probe makes  *)
(* several connections to a server that may answer each of them otherwise  *)
(* or not at all.                                                          *)
(***************************************************************************)
EXTENDS Integers, FiniteSets, SequencesExt

CONSTANTS
    Targets,      \* targets: [hint, transport, port, name]
    Names,        \* names a server may be asked for
    Certificates, \* certificates: [id, sans]
    Suites,       \* suites a server accepts when asked for one
    SuiteList,    \* the suites that are asked for, in order, Unnamed among them
    Limit,        \* NETWORK_TLS_CIPHER_ENUMERATION_LIMIT
    NoName        \* None, of a target known by its address only

ScannerAssumption ==
    /\ NoName \notin Names /\ Limit \in Int /\ IsFiniteSet(Names)
    /\ \A x \in Targets : x.name \in Names \cup {NoName}
    /\ \A x \in Certificates : x.sans \subseteq Names /\ \A y \in Certificates : x.id = y.id => x = y

VARIABLES
    target,
    pc,
    aliases,  \* names of other targets of the address and port
    pending,  \* pending_sni
    seen,     \* seen_sni
    probed,   \* the names probed, in order
    result,   \* TlsProbeResult of the probe under way
    suite,    \* position in the list of suites
    found,    \* the candidates of the scan, a set for each probe
    silent    \* ports that did not answer

vars == <<target, pc, aliases, pending, seen, probed, result, suite, found, silent>>

TLS_DIRECT_PORTS == {443, 465, 993, 995, 3306, 5000, 6380, 8200, 8443, 8883, 9090, 9093, 9200, 9443, 15017}
SMTP_STARTTLS_PORTS == {25, 587}
MQTT_TLS_PORTS == {8883}
ReadinessPorts == {443, 5000, 8200, 8443, 9090, 9200, 9443, 15017}

NoResult == [sni |-> NoName, chain |-> <<>>, negotiated |-> "none", suites |-> <<>>, mqtt |-> FALSE, ready |-> {}]
Roles == {"signature", "kem", "hybrid"}

TypeOK ==
    /\ target \in Targets /\ aliases \subseteq Names
    /\ ToSet(pending) \subseteq Names \cup {NoName} /\ seen \subseteq Names \cup {NoName}
    /\ ToSet(result.suites) \subseteq Suites /\ suite \in 1..Len(SuiteList) + 1
    /\ \A i \in DOMAIN result.chain : result.chain[i] \in Certificates
    /\ result.ready \subseteq Roles

Init ==
    /\ target \in Targets /\ aliases \in SUBSET (Names \ {target.name})
    /\ pc = "dispatch" /\ pending = <<>> /\ seen = {} /\ probed = <<>>
    /\ result = NoResult /\ suite = 1 /\ found = <<>> /\ silent = {}

-----------------------------------------------------------------------------
\* scan_network_target: the first rule that fits.
Route(x) ==
    IF x.transport = "UDP" /\ x.hint = "IKE" THEN "ike"
    ELSE IF x.hint = "SSH" \/ x.port \in {22, 2222} THEN "ssh"
    ELSE IF x.hint = "SMTP" /\ x.port \in SMTP_STARTTLS_PORTS THEN "smtp"
    ELSE IF x.port = 5432 THEN "postgresql"
    ELSE IF x.hint \in {"TLS", "SMTP", "IMAP", "POP3"} \/ x.port \in TLS_DIRECT_PORTS THEN "tls"
    ELSE IF x.hint = "UNKNOWN" THEN "unknown"
    ELSE "fallback"

Guessing == Route(target) = "unknown"

Candidate(kind, sni, of) == [kind |-> kind, sni |-> sni, of |-> of]
Finish(S) == pc' = "done" /\ found' = Append(found, S)
Fallback == {Candidate("tcp-fallback", NoName, <<>>)}
Policy(of) == {Candidate("policy", NoName, <<of>>)}

\* _initial_sni_names.
InitialNames == <<target.name>> \o SetToSeq(aliases)

Dispatch ==
    /\ pc = "dispatch"
    /\ CASE Route(target) \in {"tls", "unknown"} -> pc' = "tls" /\ pending' = InitialNames /\ UNCHANGED found
         [] Route(target) = "fallback" -> Finish(Fallback) /\ UNCHANGED pending
         [] OTHER -> pc' = Route(target) /\ UNCHANGED <<pending, found>>
    /\ UNCHANGED <<target, aliases, seen, probed, result, suite, silent>>

\* An exception reaches _scan_unknown, which goes on with SSH, or the caller.
Raise == pc' = IF Guessing /\ pc # "ssh" THEN "ssh" ELSE "raised"

(***************************************************************************)
(* TLS.                                                                    *)

NextName ==
    /\ pc = "tls" /\ pending # <<>>
    /\ pending' = Tail(pending)
    /\ IF Head(pending) \in seen THEN UNCHANGED <<pc, seen, probed, result>>
       ELSE /\ seen' = seen \cup {Head(pending)} /\ probed' = Append(probed, Head(pending))
            /\ result' = [NoResult EXCEPT !.sni = Head(pending)] /\ pc' = "handshake"
    /\ UNCHANGED <<target, aliases, suite, found, silent>>

NoMoreNames ==
    /\ pc = "tls" /\ pending = <<>>
    /\ pc' = "done"
    /\ UNCHANGED <<target, aliases, pending, seen, probed, result, suite, found, silent>>

\* The first connection gives version, cipher, ALPN and the leaf.
Handshake ==
    /\ pc = "handshake"
    /\ \/ \E c \in Certificates, s \in Suites, mqtt \in BOOLEAN :
            /\ result' = [result EXCEPT !.chain = <<c>>, !.negotiated = s, !.mqtt = mqtt]
            /\ pc' = "chain"
       \/ Raise /\ UNCHANGED result
    /\ UNCHANGED <<target, aliases, pending, seen, probed, suite, found, silent>>

Chains == {<<c>> : c \in Certificates} \cup {<<c, d>> : c, d \in Certificates}

\* The chain is asked for on another connection; without it the leaf remains.
OpensslChain ==
    /\ pc = "chain" /\ pc' = "suites" /\ suite' = 1
    /\ \/ \E chain \in Chains : result' = [result EXCEPT !.chain = chain]
       \/ UNCHANGED result
    /\ UNCHANGED <<target, aliases, pending, seen, probed, found, silent>>

ListEnd == IF Limit < 0 THEN 0 ELSE IF Limit < Len(SuiteList) THEN Limit ELSE Len(SuiteList)

\* A server asked for one suite: that suite, or a refusal, a failure, a timeout.
Negotiated(s) == {<<>>} \cup {<<x>> : x \in {s} \cap Suites}

\* One connection for each suite.
ProbeSuite ==
    /\ pc = "suites" /\ suite <= ListEnd
    /\ suite' = suite + 1
    /\ \E answer \in Negotiated(SuiteList[suite]) : result' = [result EXCEPT !.suites = @ \o answer]
    /\ UNCHANGED <<target, pc, aliases, pending, seen, probed, found, silent>>

\* The readiness document, on some ports, and never an error.
Readiness ==
    /\ pc = "suites" /\ suite > ListEnd
    /\ pc' = "collect"
    /\ \/ UNCHANGED result
       \/ target.port \in ReadinessPorts /\ \E R \in SUBSET Roles : result' = [result EXCEPT !.ready = R]
    /\ UNCHANGED <<target, aliases, pending, seen, probed, suite, found, silent>>

\* The leaf and the rest of the chain each under the name that was asked for.
CertificateCandidates(r) == {Candidate("certificate", r.sni, <<i, r.chain[i].id>>) : i \in DOMAIN r.chain}
VersionCandidates(r) == {Candidate("version", r.sni, <<>>)}
CipherCandidates(r) == {Candidate("cipher", r.sni, <<s>>) : s \in {r.negotiated} \cup ToSet(r.suites)}
PqcCandidates(r) == {Candidate("pqc", r.sni, <<x>>) : x \in r.ready}
ApplicationCandidates(r) ==
    {Candidate(kind, r.sni, <<>>) : kind \in (IF r.mqtt THEN {"alpn", "mqtt"} ELSE {})
                                        \cup (IF target.port \in MQTT_TLS_PORTS THEN {"mqtt"} ELSE {})}

\* _tls_candidates_from_result.
TlsCandidates(r) == CertificateCandidates(r) \cup VersionCandidates(r) \cup CipherCandidates(r)
                    \cup PqcCandidates(r) \cup ApplicationCandidates(r)

\* Names to probe yet: of the leaf, then of the targets there are by now.
Discovered == result.chain[1].sans \cup aliases
Unseen(S) == SetToSeq((S \ seen) \ ToSet(pending))

CollectAliases ==   \* fault: the names of the certificate are not followed
    /\ pc = "collect" /\ pc' = "tls"
    /\ found' = Append(found, TlsCandidates(result))
    /\ pending' = pending \o Unseen(aliases)
    /\ UNCHANGED <<target, aliases, seen, probed, result, suite, silent>>

Collect ==
    /\ pc = "collect" /\ pc' = "tls"
    /\ found' = Append(found, TlsCandidates(result))
    /\ pending' = pending \o Unseen(Discovered)
    /\ UNCHANGED <<target, aliases, seen, probed, result, suite, silent>>

\* Somebody adds or deletes a target of the address meanwhile.
AliasesChange ==
    /\ pc = "handshake" /\ Len(probed) = 1
    /\ aliases' \in SUBSET (Names \ {target.name}) /\ aliases' # aliases
    /\ UNCHANGED <<target, pc, pending, seen, probed, result, suite, found, silent>>

(***************************************************************************)
(* The other protocols.                                                    *)

\* EHLO, STARTTLS, then a handshake under the name of the target.
Smtp ==
    /\ pc = "smtp"
    /\ \/ Finish(Policy("no-starttls")) /\ UNCHANGED result
       \/ Finish(Policy("rejected")) /\ UNCHANGED result
       \/ Raise /\ UNCHANGED <<found, result>>
       \/ \E chain \in Chains, s \in Suites :
            /\ result' = [NoResult EXCEPT !.sni = target.name, !.chain = chain, !.negotiated = s]
            /\ Finish(TlsCandidates(result'))
    /\ UNCHANGED <<target, aliases, pending, seen, probed, suite, silent>>

\* SSLRequest, answered S, then a handshake without a name.
Postgresql ==
    /\ pc = "postgresql"
    /\ \/ Finish(Policy("disabled")) /\ UNCHANGED result
       \/ Raise /\ UNCHANGED <<found, result>>
       \/ \E chain \in Chains, s \in Suites :
            /\ result' = [NoResult EXCEPT !.chain = chain, !.negotiated = s]
            /\ Finish(TlsCandidates(result'))
    /\ UNCHANGED <<target, aliases, pending, seen, probed, suite, silent>>

HostKeys == {"rsa", "ecdsa", "ed25519"}

\* ssh-keyscan: the lines that parse, or a policy.  What a failed TLS scan of
\* an unknown service found is not returned.
Ssh ==
    /\ pc = "ssh"
    /\ \E K \in SUBSET HostKeys :
         /\ pc' = "done"
         /\ found' = <<IF K = {} THEN Policy("ssh") ELSE {Candidate("ssh", NoName, <<k>>) : k \in K}>>
    /\ UNCHANGED <<target, aliases, pending, seen, probed, result, suite, silent>>

\* One datagram and the first that comes back.
Ike ==
    /\ pc = "ike"
    /\ \/ Finish(Policy("no-response")) /\ silent' = silent \cup {target.port}
       \/ /\ Finish(Policy("mismatch")) \/ Finish(Policy("unparsed"))
             \/ \E K \in (SUBSET {"encryption", "prf", "integrity", "dh_group"}) \ {{}} :
                  Finish({Candidate("ike", NoName, <<k>>) : k \in K})
          /\ UNCHANGED silent
    /\ UNCHANGED <<target, aliases, pending, seen, probed, result, suite>>

-----------------------------------------------------------------------------
Tls == \/ NextName \/ NoMoreNames \/ Handshake \/ OpensslChain \/ ProbeSuite \/ Readiness \/ Collect
Scan == Dispatch \/ Tls \/ Smtp \/ Postgresql \/ Ssh \/ Ike
Next == Scan \/ AliasesChange

Spec == Init /\ [][Next]_vars

\* Every wait of the scanner has a timeout.
LiveSpec == Spec /\ WF_vars(Scan)

-----------------------------------------------------------------------------
(* Properties.                                                             *)

\* Code: seen_sni and pending_sni (network_scanner.py:127).  No name is probed
\* twice, whatever certificates name one another and targets come and go.
NoNameTwice == IsInjective(probed)

\* Code: the same worklist.  A TLS scan that ends has probed every name its
\* leaf certificates carry.
NamesFollowed ==
    pc = "done" /\ Route(target) = "tls" =>
        \A i \in DOMAIN found : \A x \in found[i] :
            x.kind = "certificate" /\ x.of[1] = 1
                => \A c \in Certificates : c.id = x.of[2] => c.sans \subseteq seen

\* Code: the fallbacks of every scanner.  A scan that ends without an
\* exception has a candidate, and a scan of an unknown service has no other end.
AlwaysACandidate ==
    /\ pc = "done" => found # <<>> /\ \A i \in DOMAIN found : found[i] # {}
    /\ Guessing => pc # "raised"

\* Code: the worklist grows by names of certificates and targets, of which
\* there are finitely many.  Every scan ends.
ScanEnded == pc \in {"done", "raised"}

=============================================================================
