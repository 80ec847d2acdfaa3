----------------------------- MODULE HostConfig -----------------------------
(***************************************************************************)
(* What an agent reads out of a TLS or sshd configuration and which        *)
(* algorithms the scanner records of it, while the file is edited line by  *)
(* line.  A line is [word, live, tokens]: its directive, whether it is not *)
(* a comment, and its values, each perhaps switched off with ! or -.  Of   *)
(* postgresql.conf the agent reads the certificate of the server too.      *)
(***************************************************************************)
EXTENDS Naturals, Sequences, FiniteSets, SequencesExt, Lists

CONSTANTS
    Kinds,       \* kinds of files: "nginx", "postgresql", "sshd"
    Lines,       \* lines an editor may add
    Versions,    \* names that _normalize_tls_protocol knows, oldest first
    ServerCerts, \* algorithms of server.crt, "none" for a file that cannot be parsed
    MaxLines     \* bound: lines of a file

Token == [name : STRING, off : BOOLEAN]
Line == [word : STRING, live : BOOLEAN, tokens : Seq(Token)]
Placeholders == {"unknown", "TLS config"}   \* of a finding without algorithms

ConfigAssumption ==
    /\ Kinds \subseteq {"nginx", "postgresql", "sshd"} /\ MaxLines \in Nat
    /\ Lines \subseteq Line
    /\ Versions \in Seq(STRING) /\ ToSet(Versions) \cap Placeholders = {}
    /\ ServerCerts \subseteq STRING /\ ServerCerts \cap (Placeholders \cup ToSet(Versions)) = {}

VARIABLES
    kind,
    text,
    serverCert   \* what parse_certificate_algorithm makes of server.crt now

vars == <<kind, text, serverCert>>

SshWords == {"KexAlgorithms", "Ciphers"}
TlsWords == {"protocols", "min_version", "max_version"}   \* ssl_protocols, ssl_min_protocol_version, ...
References == "certificate_key"

Init == kind \in Kinds /\ text = <<>> /\ serverCert \in ServerCerts

AddLine(l) == Len(text) < MaxLines /\ text' = Append(text, l) /\ UNCHANGED <<kind, serverCert>>
Comment(i) == text' = [text EXCEPT ![i].live = ~@] /\ UNCHANGED <<kind, serverCert>>

\* server.crt is replaced, or taken away.
Reissue(c) == kind = "postgresql" /\ serverCert' = c /\ UNCHANGED <<kind, text>>

Next ==
    \/ \E l \in Lines : AddLine(l)
    \/ \E i \in DOMAIN text : Comment(i)
    \/ \E c \in ServerCerts : Reissue(c)
Spec == Init /\ [][Next]_vars

-----------------------------------------------------------------------------
\* _dedupe: the first of equal values stays.
Distinct(s) == Keep(s, {i \in DOMAIN s : \A j \in DOMAIN s : j < i => s[j] # s[i]})

Directives(words, t) == Keep(t, {i \in DOMAIN t : t[i].live /\ t[i].word \in words})

Tokens(words, t) ==
    LET d == Directives(words, t) IN Flat([i \in DOMAIN d |-> d[i].tokens])

\* _extract_tls_protocols: known names, by their sign.
OnlyKnown(s) == Keep(s, {i \in DOMAIN s : s[i].name \in ToSet(Versions)})
OfSign(off, s) == Keep(s, {i \in DOMAIN s : s[i].off = off})
Named(s) == [i \in DOMAIN s |-> s[i].name]
EnabledSigned(t) == Distinct(Named(OnlyKnown(Tokens(TlsWords, t))))   \* fault: the sign is dropped
Enabled(t) == Distinct(Named(OfSign(FALSE, OnlyKnown(Tokens(TlsWords, t)))))
Disabled(t) == Distinct(Named(OfSign(TRUE, OnlyKnown(Tokens(TlsWords, t)))))

\* _split_cipher_suites keeps the sign as a part of the name.
Spelled(x) == IF x.off THEN "!" \o x.name ELSE x.name
CipherSuites(t) == LET s == Tokens({"ciphers"}, t) IN Distinct([i \in DOMAIN s |-> Spelled(s[i])])

NoFinding == [versions |-> <<>>, suites |-> <<>>, kex |-> <<>>, minimum |-> "none", algorithm |-> "none", is |-> FALSE]

\* parse_tls_config_policy: any live directive makes a policy.
Policy(t) == \E i \in DOMAIN t : t[i].live

\* extract_key_references_from_config finds a path in comments too.
Refers(t) == \E i \in DOMAIN t : t[i].word = References

\* _tls_config_finding.
Minimum(t) ==
    IF Enabled(t) # <<>> THEN Head(Enabled(t))
    ELSE IF Policy(t) THEN "none" ELSE "TLS config"

\* _app_config_finding: postgresql.conf comes with the algorithm of server.crt.
Stated ==
    CASE kind # "postgresql"                         -> "none"
      [] kind = "postgresql" /\ serverCert = "none" -> "TLS config"
      [] OTHER                                       -> serverCert

TlsFinding(t) ==
    IF ~Policy(t) /\ ~Refers(t) THEN NoFinding
    ELSE [versions |-> Enabled(t), suites |-> CipherSuites(t), kex |-> <<>>, minimum |-> Minimum(t), is |-> TRUE,
          algorithm |-> Stated]

\* parse_ssh_config_algorithms: the last line of a word wins, and those of
\* Match blocks are lines like any other.
SshPolicy(w, t) ==
    LET d == Directives({w}, t) IN IF d = <<>> THEN <<>> ELSE Named(Last(d).tokens)

SshFinding(t) ==
    IF \A w \in SshWords : Directives({w}, t) = <<>> THEN NoFinding
    ELSE [NoFinding EXCEPT !.kex = SshPolicy("KexAlgorithms", t), !.is = TRUE]

FindingOf(t) == IF kind = "sshd" THEN SshFinding(t) ELSE TlsFinding(t)

AlgorithmsOf(f) ==
    LET collected == Distinct(f.kex \o f.versions \o f.suites)
    IN CASE ~f.is -> <<>>
         [] f.is /\ collected # <<>> -> collected
         [] f.is /\ collected = <<>> /\ f.algorithm # "none" -> <<f.algorithm>>
         [] f.is /\ collected = <<>> /\ f.algorithm = "none" /\ f.minimum # "none" -> <<f.minimum>>
         [] OTHER -> <<"unknown">>

Algorithms == ToSet(AlgorithmsOf(FindingOf(text)))

-----------------------------------------------------------------------------
\* A finding comes with an algorithm, and with a placeholder alone.
TypeOK ==
    /\ kind \in Kinds /\ Len(text) <= MaxLines /\ text \in Seq(Line) /\ serverCert \in ServerCerts
    /\ FindingOf(text).is => Algorithms # {}
    /\ Algorithms \cap Placeholders # {} => Cardinality(Algorithms) = 1

\* crypto_utils.py:209, 452: a comment says nothing: without its comments the
\* file has the same policy.  (References are another matter.)
CommentsSayNothing ==
    LET bare == Keep(text, {i \in DOMAIN text : text[i].live})
    IN /\ Enabled(text) = Enabled(bare) /\ Disabled(text) = Disabled(bare) /\ CipherSuites(text) = CipherSuites(bare)
       /\ \A w \in SshWords : SshPolicy(w, text) = SshPolicy(w, bare)

\* A version becomes an asset if some line turns it on, and only then: two
\* server blocks add up, and a version that is only switched off is none.
AssetIffEnabled ==
    kind # "sshd" => \A v \in ToSet(Versions) :
        v \in Algorithms <=> \E i \in DOMAIN text : text[i].live /\ text[i].word \in TlsWords /\ [name |-> v, off |-> FALSE] \in ToSet(text[i].tokens)

\* Of a TLS configuration lines add up: what versions and suites the first n
\* lines give is recorded of the whole file.  A line below takes an algorithm
\* away only if those above gave none: then it was a placeholder or, while no
\* line gave anything, the algorithm of server.crt, for which
\* agent_asset_mapper.py:90 has no place beside a version or a suite.
Given(t) == ToSet(Enabled(t)) \cup ToSet(CipherSuites(t))
AlgorithmsAbove(n) == ToSet(AlgorithmsOf(FindingOf(SubSeq(text, 1, n))))
LinesAddUp ==
    kind # "sshd" => \A n \in 0 .. Len(text) :
        LET lost == AlgorithmsAbove(n) \ Algorithms
        IN /\ Given(SubSeq(text, 1, n)) \subseteq Algorithms
           /\ lost # {} => Given(SubSeq(text, 1, n)) = {}
           /\ lost \subseteq Placeholders \cup (IF Given(text) = {} THEN {} ELSE {serverCert})

\* Of an sshd configuration lines replace one another: whatever stands above a
\* line that names key exchanges, the file says what it says from there on.
KexReplaced ==
    kind = "sshd" => \A n \in DOMAIN text :
        text[n].live /\ text[n].word = "KexAlgorithms"
            => Algorithms = ToSet(AlgorithmsOf(FindingOf(SubSeq(text, n, Len(text)))))

=============================================================================
