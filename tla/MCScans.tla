------------------------------- MODULE MCScans ------------------------------
(* An instance of Scans for TLC; plain sets and numbers are in the cfg.    *)
EXTENDS Scans

\* Two services of a host present one certificate, and each has a TLS policy;
\* the host's agent finds the certificate again as a file, and a key store.
Seen(ref, print, seenBy) == [ref |-> ref, print |-> print, kinds |-> {seenBy}]
Certs == "agent.cert_store"
Keys  == "agent.keystore"
BothOnHost == [t \in {"web", "mail"} |-> "host"]
BothTargets == <<"web", "mail">>
AllScanners == <<"network", Certs, Keys>>
CertificateAndPolicy ==
    [t \in {"web", "mail"} |-> {<<Seen(<<"cert", t>>, "crt", "network"), Seen(<<"tls", t>>, NoPrint, "network")>>}]
CertificateAndStore ==
    [h \in {"host"} |-> {<<Seen(<<"file", "web">>, "crt", Certs), Seen(<<"store", "web">>, NoPrint, Keys)>>}]

\* TLS on two ports, one target without a name, and each other kind of target;
\* a certificate that names both names.
At(hint, transport, port, name) == [hint |-> hint, transport |-> transport, port |-> port, name |-> name]
EachKind ==
    {At("TLS", "TCP", 443, "a"), At("TLS", "TCP", 8883, None), At("SMTP", "TCP", 25, "a"), At("UNKNOWN", "TCP", 1234, "a"),
     At("TLS", "TCP", 5432, "a"), At("TLS", "TCP", 22, "a"), At("IKE", "UDP", 500, "a"), At("IKE", "TCP", 500, "a")}
TwoCertificates == {[id |-> 1, sans |-> {}], [id |-> 2, sans |-> {"a", "b"}]}
TwoSuites == <<"s1", "s3">>

TwoHosts == <<"h1", "h2">>
OneHost  == <<"h1">>

\* Two keys of one name, a certificate below two roots and a keystore.
FourFiles == {"tls/server.key", "old/server.key", "tls/server.crt", "app.p12"}
WithoutDirectory == [f \in FourFiles |-> IF f \in {"tls/server.key", "old/server.key"} THEN "server.key" ELSE f]
RootsOverlap ==
    [c \in {"certs", "keys", "keystore"} |->
        IF c = "certs" THEN << <<"tls/server.crt">>, <<"tls/server.crt">> >>
        ELSE IF c = "keys" THEN << <<"tls/server.key">>, <<"old/server.key", "tls/server.key">> >>
        ELSE << <<"app.p12">> >>]
Asked == {<<"certs", "keys">>, <<"keys", "keystore">>, <<"keys", "gpg">>}

\* Files of up to three lines.
On(n)  == [name |-> n, off |-> FALSE]
Off(n) == [name |-> n, off |-> TRUE]
Line(w, s) == [word |-> w, live |-> TRUE, tokens |-> s]
EachLine ==
    {Line("protocols", <<On("TLSv1.3"), On("TLSv1.2")>>), Line("protocols", <<Off("SSLv3"), On("TLSv1.2")>>),
     Line("max_version", <<On("TLSv1.3")>>), Line("ciphers", <<On("HIGH"), Off("MD5")>>),
     Line("certificate_key", <<>>), Line("KexAlgorithms", <<On("curve25519-sha256")>>),
     Line("KexAlgorithms", <<On("diffie-hellman-group14-sha256")>>), Line("listen", <<>>)}
ThreeVersions == <<"SSLv3", "TLSv1.2", "TLSv1.3">>

ThreePages ==
    {[transport |-> "TCP", port |-> 443], [transport |-> "TCP", port |-> 22], [transport |-> "UDP", port |-> 443]}

\* Two performance runs of three assets.
ThreeMeasurable == <<"a1", "a2", "a3">>
=============================================================================
