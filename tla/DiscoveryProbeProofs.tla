------------------------ MODULE DiscoveryProbeProofs ------------------------
(***************************************************************************)
(* The probes of a discovery, for any hosts, ports, services and samples:  *)
(* what answers is found, what has a port of its own keeps its name unless *)
(* the network takes each of its connections, and the report counts what   *)
(* was measured.  ScansCounts carries this over to the two instances of    *)
(* Scans.                                                                  *)
(***************************************************************************)
EXTENDS DiscoveryProbe, FiniteSetTheorems, TLAPS

-----------------------------------------------------------------------------
(* The registry: no port has two probes of its own.                        *)

Owner(port) == CASE port \in {22, 2222} -> "ssh"
                 [] port \in {25, 587}  -> "smtp"
                 [] port = 143          -> "imap"
                 [] port = 110          -> "pop3"
                 [] port = 5432         -> "postgres"
                 [] port \in TLSPorts   -> "tls"
                 [] port \in UDP        -> "ike"
                 [] OTHER               -> "none"

Owners == {"ssh", "smtp", "imap", "pop3", "postgres", "tls"}
Names  == Owners \cup {"ike", "tcp", "central"}

LEMMA KeepNone == ASSUME NEW seq PROVE Keep(seq, {}) = <<>>
<1>1. Cardinality({}) = 0
  BY FS_EmptySet
<1>. QED
  BY <1>1 DEF Keep

LEMMA KeepOne == ASSUME NEW seq, NEW i \in Nat PROVE Keep(seq, {i}) = <<seq[i]>>
<1>1. Cardinality({i}) = 1
  BY FS_Singleton
<1>2. {j \in {i} : j <= i} = {i}
  OBVIOUS
<1>3. (CHOOSE k \in {i} : Cardinality({j \in {i} : j <= k}) = 1) = i
  BY <1>1, <1>2
<1>. QED
  BY <1>1, <1>3 DEF Keep

LEMMA OwnerIsOne ==
    ASSUME NEW port \in Nat
    PROVE  /\ Owner(port) \in Owners \cup {"ike", "none"}
           /\ Owner(port) = "ike" <=> port \in UDP
           /\ \A p \in ToSet(Registry) : port \in p.on => p.name = Owner(port)
           /\ {i \in DOMAIN Registry : port \in Registry[i].on}
                = CASE Owner(port) = "ssh"      -> {1} [] Owner(port) = "smtp" -> {2}
                    [] Owner(port) = "imap"     -> {3} [] Owner(port) = "pop3" -> {4}
                    [] Owner(port) = "postgres" -> {5} [] Owner(port) = "tls"  -> {6}
                    [] Owner(port) = "ike"      -> {7} [] OTHER -> {}
<1>1. DOMAIN Registry = 1 .. 7
  BY DEF Registry
<1>2. /\ Registry[1].name = "ssh" /\ Registry[1].on = {22, 2222}
      /\ Registry[2].name = "smtp" /\ Registry[2].on = {25, 587}
      /\ Registry[3].name = "imap" /\ Registry[3].on = {143}
      /\ Registry[4].name = "pop3" /\ Registry[4].on = {110}
      /\ Registry[5].name = "postgres" /\ Registry[5].on = {5432}
      /\ Registry[6].name = "tls" /\ Registry[6].on = TLSPorts
      /\ Registry[7].name = "ike" /\ Registry[7].on = UDP
  BY DEF Registry
<1>3. Owner(port) \in Owners \cup {"ike", "none"}
  BY DEF Owner, Owners
<1>4. Owner(port) = "ike" <=> port \in UDP
  BY DEF Owner, UDP, TLSPorts
<1>5. \A i \in 1 .. 7 : port \in Registry[i].on => Registry[i].name = Owner(port)
  BY <1>2 DEF Owner, UDP, TLSPorts
<1>6. \A i \in 1 .. 7 : Registry[i].name = Owner(port) => port \in Registry[i].on
  BY <1>2 DEF Owner, UDP, TLSPorts
<1>7. \A p \in ToSet(Registry) : port \in p.on => p.name = Owner(port)
  BY <1>1, <1>5 DEF ToSet
<1>8. {i \in 1 .. 7 : port \in Registry[i].on} = {i \in 1 .. 7 : Registry[i].name = Owner(port)}
  BY <1>5, <1>6
<1>. QED
  BY <1>1, <1>2, <1>3, <1>4, <1>7, <1>8 DEF Owners

\* A port with a probe of its own is given that one before the fallback.
LEMMA OwnFirst ==
    ASSUME NEW port \in Nat
    PROVE  ProbesFor(port) = CASE Owner(port) = "none" -> <<"tcp">>
                               [] Owner(port) = "ike"  -> <<"ike">>
                               [] OTHER                -> <<Owner(port), "tcp">>
<1> DEFINE kept == {i \in DOMAIN Registry : port \in Registry[i].on}
           exact == Keep(Registry, kept)
<1>1. exact = IF Owner(port) = "none" THEN <<>>
              ELSE <<Registry[CASE Owner(port) = "ssh"      -> 1 [] Owner(port) = "smtp" -> 2
                                [] Owner(port) = "imap"     -> 3 [] Owner(port) = "pop3" -> 4
                                [] Owner(port) = "postgres" -> 5 [] Owner(port) = "tls"  -> 6
                                [] OTHER -> 7]>>
  <2>1. Owner(port) = "none" => kept = {}
    BY OwnerIsOne
  <2>2. \A o \in Owners \cup {"ike"} : Owner(port) = o =>
           kept = {CASE o = "ssh"      -> 1 [] o = "smtp" -> 2 [] o = "imap" -> 3 [] o = "pop3" -> 4
                     [] o = "postgres" -> 5 [] o = "tls"  -> 6 [] OTHER -> 7}
    BY OwnerIsOne DEF Owners
  <2>3. Owner(port) \in Owners \cup {"ike", "none"}
    BY OwnerIsOne
  <2> HIDE DEF kept
  <2>4. CASE Owner(port) = "none"
    BY <2>1, <2>4, KeepNone
  <2>5. CASE Owner(port) # "none"
    <3> DEFINE k == CASE Owner(port) = "ssh"      -> 1 [] Owner(port) = "smtp" -> 2
                      [] Owner(port) = "imap"     -> 3 [] Owner(port) = "pop3" -> 4
                      [] Owner(port) = "postgres" -> 5 [] Owner(port) = "tls"  -> 6
                      [] OTHER -> 7
    <3>1. k \in Nat
      OBVIOUS
    <3>2. kept = {k}
      BY <2>2, <2>3, <2>5
    <3> HIDE DEF k
    <3>3. exact = <<Registry[k]>>
      BY <3>1, <3>2, KeepOne
    <3>. QED
      BY <2>5, <3>3 DEF k
  <2>. QED
    BY <2>4, <2>5
<1>2. ProbesFor(port) = [i \in DOMAIN exact |-> exact[i].name]
            \o (IF Transport(port) = "TCP" THEN <<"tcp">> ELSE <<>>)
  BY DEF ProbesFor
<1> HIDE DEF exact
<1>3. Transport(port) = "TCP" <=> Owner(port) # "ike"
  BY OwnerIsOne DEF Transport
<1>4. CASE Owner(port) = "none"
  <2>1. [i \in DOMAIN exact |-> exact[i].name] = <<>>
    BY <1>1, <1>4
  <2>. QED
    BY <1>2, <1>3, <1>4, <2>1
<1>5. CASE Owner(port) # "none"
  <2>1. PICK k \in 1 .. 7 : exact = <<Registry[k]>> /\ Registry[k].name = Owner(port)
    <3>1. /\ Registry[1].name = "ssh" /\ Registry[2].name = "smtp" /\ Registry[3].name = "imap"
          /\ Registry[4].name = "pop3" /\ Registry[5].name = "postgres" /\ Registry[6].name = "tls"
          /\ Registry[7].name = "ike"
      BY DEF Registry
    <3>2. Owner(port) \in Owners \cup {"ike"}
      BY <1>5, OwnerIsOne
    <3>. QED
      BY <1>1, <1>5, <3>1, <3>2 DEF Owners
  <2>2. [i \in DOMAIN exact |-> exact[i].name] = <<Owner(port)>>
    BY <2>1
  <2>. QED
    BY <1>2, <1>3, <1>5, <2>2
<1>. QED
  BY <1>4, <1>5

-----------------------------------------------------------------------------
(* What one thread still has to try.                                       *)

First(c) == IF executor = "agent" THEN ProbesFor(c[2]) ELSE <<"central">>

\* All the probes a candidate may meet.
Tried(c) == IF executor # "agent" THEN {"central"}
            ELSE ({Owner(c[2])} \cap (Owners \cup {"ike"})) \cup (IF Owner(c[2]) = "ike" THEN {} ELSE {"tcp"})

\* Probe q got no answer: there was none to get, or, of n losses, each of its
\* connections.
Need(q)      == IF q = "tls" /\ Samples > 0 THEN Samples ELSE 1
Missed(q, c, n) == Recognises(q, service[c], c[2]) # "" => n >= Need(q)

\* What is left to try after n losses.
Left(c, probes, n) ==
    \/ probes = First(c)
    \/ /\ executor = "agent" /\ Owner(c[2]) \in Owners
       /\ probes = <<"tcp">> /\ Missed(Owner(c[2]), c, n)
    \/ probes = <<>> /\ \A q \in Tried(c) : Missed(q, c, n)

LEMMA HeadOfLeft ==
    ASSUME NEW c, c[2] \in Nat, NEW probes, NEW n, Left(c, probes, n), probes # <<>>
    PROVE  /\ Head(probes) \in Tried(c) /\ Head(probes) \in Names /\ Tail(probes) \in Seq(Names)
           /\ Len(probes) = 1 <=> Tail(probes) = <<>>
           /\ Missed(Head(probes), c, n) => Left(c, Tail(probes), n)
           /\ executor = "agent" /\ Owner(c[2]) # "none" =>
                 Head(probes) = Owner(c[2]) \/ Missed(Owner(c[2]), c, n)
<1>1. Owner(c[2]) \in Owners \cup {"ike", "none"} /\ "none" \notin Owners \cup {"ike"} /\ "ike" \notin Owners
  BY OwnerIsOne DEF Owners
<1>2. CASE executor # "agent"
  <2>1. probes = <<"central">> /\ Tried(c) = {"central"}
    BY <1>2 DEF Left, First, Tried
  <2>. QED
    BY <1>2, <2>1 DEF Left, Names
<1>3. CASE executor = "agent" /\ Owner(c[2]) = "none"
  <2>1. probes = <<"tcp">> /\ Tried(c) = {"tcp"}
    BY <1>1, <1>3, OwnFirst DEF Left, First, Tried
  <2>. QED
    BY <1>3, <2>1 DEF Left, Names
<1>4. CASE executor = "agent" /\ Owner(c[2]) = "ike"
  <2>1. probes = <<"ike">> /\ Tried(c) = {"ike"}
    BY <1>1, <1>4, OwnFirst DEF Left, First, Tried
  <2>. QED
    BY <1>4, <2>1 DEF Left, Names
<1>5. CASE executor = "agent" /\ Owner(c[2]) \in Owners
  <2>1. Tried(c) = {Owner(c[2]), "tcp"} /\ First(c) = <<Owner(c[2]), "tcp">>
    BY <1>1, <1>5, OwnFirst DEF First, Tried
  <2>2. CASE probes = First(c)
    BY <1>5, <2>1, <2>2 DEF Left, Names
  <2>3. CASE probes # First(c)
    <3>1. probes = <<"tcp">> /\ Missed(Owner(c[2]), c, n)
      BY <2>3 DEF Left
    <3>. QED
      BY <1>5, <2>1, <3>1 DEF Left, Names
  <2>. QED
    BY <2>2, <2>3
<1>. QED
  BY <1>1, <1>2, <1>3, <1>4, <1>5

LEMMA AnswersHaveNames == \A q \in Names : \A k \in Kinds : \A port \in Nat :
    /\ Recognises(q, k, port) \in Protocols \cup {""} /\ HintOf(q, port) \in Hints
    /\ Recognises("tls", k, port) # "" <=> k = "tls"
<1> SUFFICES ASSUME NEW q \in Names, NEW k \in Kinds, NEW port \in Nat
             PROVE  /\ Recognises(q, k, port) \in Protocols \cup {""} /\ HintOf(q, port) \in Hints
                    /\ Recognises("tls", k, port) # "" <=> k = "tls"
  OBVIOUS
<1>1. Hint(port) \in Hints /\ Hint(port) # ""
  BY DEF Hint, Hints
<1>2. TlsName(port) \in Protocols /\ TlsName(port) # ""
  BY DEF TlsName, Protocols, Hints
<1>3. /\ TcpAnswer(k) \in Protocols \cup {""}
      /\ SshBanner(k) \in Protocols \cup {""}
      /\ ImapBanner(k) \in Protocols \cup {""}
      /\ Pop3Banner(k) \in Protocols \cup {""}
      /\ IkeAnswer(k) \in Protocols \cup {""}
      /\ SmtpAnswer(k) \in Protocols \cup {""}
      /\ PostgresAnswer(k) \in Protocols \cup {""}
  BY DEF TcpAnswer, SshBanner, ImapBanner, Pop3Banner, IkeAnswer, SmtpAnswer, PostgresAnswer, Protocols, Hints
<1>4. Recognises("tls", k, port) = IF k = "tls" THEN TlsName(port) ELSE ""
  BY DEF Recognises
<1>5. HintOf(q, port) \in Hints
  BY <1>1 DEF HintOf, Names, Owners, Hints
<1>7. Hints \subseteq Protocols
  BY DEF Protocols
<1>8. Recognises(q, k, port) \in Protocols \cup {""}
  BY <1>1, <1>2, <1>3, <1>7 DEF Recognises, Names, Owners
<1>. QED
  BY <1>2, <1>4, <1>5, <1>8

LEMMA ClosedIsSilent == \A q \in Names : \A k \in Kinds : \A port \in Nat :
                           Recognises(q, k, port) # "" => k # "closed"
<1> SUFFICES ASSUME NEW q \in Names, NEW k \in Kinds, NEW port \in Nat
             PROVE  Recognises(q, k, port) # "" => k # "closed"
  OBVIOUS
<1>1. k = "closed" => Recognises(q, k, port) = ""
  BY DEF Recognises, Names, Owners, TcpAnswer, SshBanner, ImapBanner, Pop3Banner, IkeAnswer, SmtpAnswer,
         PostgresAnswer
<1>. QED
  BY <1>1

-----------------------------------------------------------------------------
(* The inductive invariant.                                                *)

Thread == [at : {"waiting", "probing", "http", "done"}, probes : Seq(Names),
           good : 0 .. Samples, failures : 0 .. Samples, timeouts : Nat]

ProbeTypes ==
    /\ executor \in {"agent", "central"} /\ service \in [Candidates -> Kinds]
    /\ service \in [Candidates -> Services]
    /\ thread \in [Candidates -> Thread]
    /\ endpoint \in [Candidates -> Endpoint \cup {None}]
    /\ trouble \in [Candidates -> 0 .. MaxTroubles]
    /\ answer \in {"waiting", "ok", "failed"}

\* A failed sample of a TLS service is a lost connection.
ThreadInv(c) ==
    LET t == thread[c]
    IN  /\ Left(c, t.probes, trouble[c])
        /\ t.at \in {"probing", "http"} => t.probes # <<>>
        /\ t.at = "http" => Sampling(c) /\ Taken(c) < Samples
        /\ t.timeouts <= t.failures /\ Taken(c) <= Samples
        /\ t.good > 0 \/ t.at = "http" => service[c] = "tls"
        /\ service[c] = "tls" => t.failures <= trouble[c]

\* An endpoint is what the probe its thread ended with made of the service.
EndpointInv(c) ==
    /\ endpoint[c] # None =>
          /\ thread[c].at = "done" /\ thread[c].probes # <<>> /\ c \in Scope
          /\ endpoint[c].detected = Recognises(Probe(c), service[c], c[2])
          /\ endpoint[c].hint = HintOf(Probe(c), c[2])
          /\ endpoint[c].metrics # None =>
                endpoint[c].metrics.good > 0 /\ endpoint[c].metrics.failures < Samples
          /\ endpoint[c].detected # ""
    /\ c \in Scope /\ thread[c].at = "done" /\ endpoint[c] = None /\ answer # "failed" => thread[c].probes = <<>>

ProbeInv ==
    /\ ProbeTypes
    /\ \A c \in Candidates : ThreadInv(c) /\ EndpointInv(c)
    /\ answer = "ok" => \A c \in Scope : thread[c].at = "done"

LEMMA FiniteCandidates ==
    ASSUME ProbeAssumption
    PROVE  IsFiniteSet(Candidates) /\ \A c \in Candidates : c[2] \in Nat
<1>1. IsFiniteSet(ToSet(Hosts))
  <2>1. DOMAIN Hosts = 1 .. Len(Hosts) /\ Len(Hosts) \in Nat
    BY DEF ProbeAssumption
  <2>2. IsFiniteSet(DOMAIN Hosts)
    BY <2>1, FS_Interval
  <2>3. Hosts \in Surjection(DOMAIN Hosts, ToSet(Hosts))
    BY <2>1 DEF ProbeAssumption, Surjection, ToSet
  <2>. QED
    BY <2>2, <2>3, FS_Surjection
<1>2. IsFiniteSet(Ports)
  <2>1. LastPort \in Nat
    BY DEF LastPort
  <2>2. IsFiniteSet(1 .. LastPort)
    BY <2>1, FS_Interval
  <2>. QED
    BY <2>2, FS_Subset DEF ProbeAssumption
<1>3. IsFiniteSet(Candidates)
  BY <1>1, <1>2, FS_Product DEF Candidates
<1>4. \A p \in 1 .. LastPort : p \in Nat
  OBVIOUS
<1>5. \A c \in Candidates : c[2] \in Ports
  BY DEF Candidates
<1>6. Ports \subseteq 1 .. LastPort
  BY DEF ProbeAssumption
<1>. QED
  BY <1>3, <1>4, <1>5, <1>6

\* The bound on all losses bounds those of one candidate.
LEMMA LostBound ==
    ASSUME ProbeAssumption, ProbeTypes, NEW c \in Candidates, Lost(c)
    PROVE  /\ trouble' \in [Candidates -> 0 .. MaxTroubles]
           /\ trouble' = [trouble EXCEPT ![c] = trouble[c] + 1]
           /\ trouble'[c] = trouble[c] + 1
<1> DEFINE lost == {l \in Candidates \X (1 .. MaxTroubles) : l[2] <= trouble[l[1]]}
           ours == {c} \X (1 .. trouble[c])
<1>1. trouble[c] \in 0 .. MaxTroubles /\ MaxTroubles \in Nat
  BY DEF ProbeTypes, ProbeAssumption
<1>2. ours \subseteq lost
  BY <1>1
<1>3. IsFiniteSet(lost)
  <2>1. IsFiniteSet(Candidates \X (1 .. MaxTroubles))
    <3>1. IsFiniteSet(1 .. MaxTroubles)
      BY <1>1, FS_Interval
    <3>. QED
      BY <3>1, FiniteCandidates, FS_Product
  <2>. QED
    BY <2>1, FS_Subset
<1>4. Cardinality(ours) = trouble[c]
  <2>1. IsFiniteSet({c}) /\ Cardinality({c}) = 1
    BY FS_Singleton
  <2>2. IsFiniteSet(1 .. trouble[c]) /\ Cardinality(1 .. trouble[c]) = trouble[c]
    <3>1. trouble[c] \in Nat
      BY <1>1
    <3> DEFINE n == trouble[c]
    <3> HIDE DEF n
    <3>2. n \in Nat
      BY <3>1 DEF n
    <3>3. IsFiniteSet(1 .. n) /\ Cardinality(1 .. n) = n
      BY <3>2, FS_Interval
    <3>. QED
      BY <3>3 DEF n
  <2>3. Cardinality(ours) = Cardinality({c}) * Cardinality(1 .. trouble[c])
    BY <2>1, <2>2, FS_Product
  <2>. QED
    BY <1>1, <2>1, <2>2, <2>3
<1>5. Cardinality(ours) <= Cardinality(lost) /\ Cardinality(lost) \in Nat
  BY <1>2, <1>3, FS_Subset, FS_CardinalityType
<1>6. Cardinality(lost) < MaxTroubles /\ trouble' = [trouble EXCEPT ![c] = trouble[c] + 1]
  BY DEF Lost
<1> HIDE DEF lost, ours
<1>7. trouble[c] + 1 \in 0 .. MaxTroubles
  BY <1>1, <1>4, <1>5, <1>6
<1>. QED
  BY <1>6, <1>7 DEF ProbeTypes

LEMMA ProbeInit == ASSUME ProbeAssumption, Init PROVE ProbeInv
<1>1. \A c \in Candidates : thread[c] = [at |-> IF c \in Scope THEN "waiting" ELSE "done", probes |-> First(c),
                                         good |-> 0, failures |-> 0, timeouts |-> 0]
  BY DEF Init, First
<1>2. \A c \in Candidates : First(c) \in Seq(Names)
  <2> TAKE c \in Candidates
  <2>1. Owner(c[2]) \in Owners \cup {"ike", "none"} /\ c[2] \in Nat
    BY FiniteCandidates, OwnerIsOne
  <2>2. \A o \in Owners : <<o, "tcp">> \in Seq(Names)
    BY DEF Names
  <2>3. <<"tcp">> \in Seq(Names) /\ <<"ike">> \in Seq(Names) /\ <<"central">> \in Seq(Names)
    BY DEF Names
  <2>. QED
    BY <2>1, <2>2, <2>3, OwnFirst DEF First
<1>3. 0 \in 0 .. Samples /\ 0 \in 0 .. MaxTroubles /\ Samples \in Nat
  BY DEF ProbeAssumption
<1>4. ProbeTypes
  <2>1. thread \in [Candidates -> Thread]
    BY <1>1, <1>2, <1>3 DEF Init, Thread
  <2>2. /\ service \in [Candidates -> Services] /\ Services \subseteq Kinds
        /\ endpoint \in [Candidates -> Endpoint \cup {None}]
        /\ trouble \in [Candidates -> 0 .. MaxTroubles]
    BY <1>3 DEF Init, ProbeAssumption
  <2>. QED
    BY <2>1, <2>2 DEF ProbeTypes, Init
<1>5. ASSUME NEW c \in Candidates PROVE ThreadInv(c) /\ EndpointInv(c)
  <2>1. thread[c].at \in {"waiting", "done"} /\ thread[c].probes = First(c) /\ thread[c].good = 0
        /\ thread[c].failures = 0 /\ thread[c].timeouts = 0 /\ (thread[c].at = "done" => c \notin Scope)
    <3>1. thread[c] = [at |-> IF c \in Scope THEN "waiting" ELSE "done", probes |-> First(c),
                       good |-> 0, failures |-> 0, timeouts |-> 0]
      BY <1>1
    <3> HIDE DEF Scope
    <3>. QED
      BY <3>1
  <2>2. endpoint[c] = None /\ trouble[c] = 0
    BY DEF Init
  <2>. QED
    BY <1>3, <2>1, <2>2 DEF ThreadInv, EndpointInv, Left, Taken
<1>. QED
  BY <1>4, <1>5 DEF ProbeInv, Init

LEMMA MoreLost ==
    ASSUME ProbeAssumption, NEW c, NEW probes, NEW m \in Nat, NEW n \in Nat, m <= n, Left(c, probes, m)
    PROVE  Left(c, probes, n)
<1>1. \A q : Need(q) \in Nat
  BY DEF Need, ProbeAssumption
<1>2. \A k \in Nat : m >= k => n >= k
  OBVIOUS
<1>3. ASSUME NEW q, Missed(q, c, m) PROVE Missed(q, c, n)
  BY <1>1, <1>2, <1>3, Zenon DEF Missed
<1>. QED
  BY <1>3, Zenon DEF Left

LEMMA LeftStays ==
    ASSUME UNCHANGED <<executor, service, answer>>, NEW c, NEW t, NEW n, thread'[c] = t, trouble'[c] = n
    PROVE  Left(c, thread[c].probes, trouble[c])' <=> Left(c, t.probes, n)
<1>1. executor' = executor /\ service' = service
  OBVIOUS
<1>. QED
  BY <1>1 DEF Left, First, Missed, Tried

\* A step of one thread touches no other.
LEMMA OneThread ==
    ASSUME ProbeInv, NEW c \in Scope, answer = "waiting", UNCHANGED <<executor, service, answer>>,
           NEW t \in Thread, thread' = [thread EXCEPT ![c] = t],
           NEW e \in Endpoint \cup {None}, endpoint' = [endpoint EXCEPT ![c] = e],
           trouble' \in [Candidates -> 0 .. MaxTroubles], \A d \in Candidates : d # c => trouble'[d] = trouble[d],
           ThreadInv(c)', EndpointInv(c)'
    PROVE  ProbeInv'
<1>1. c \in Candidates /\ Scope' = Scope /\ Scope \subseteq Candidates
  BY DEF Scope
<1>2. ProbeTypes'
  BY <1>1 DEF ProbeInv, ProbeTypes
<1>3. ASSUME NEW d \in Candidates, d # c PROVE ThreadInv(d)' /\ EndpointInv(d)'
  <2>1. thread'[d] = thread[d] /\ endpoint'[d] = endpoint[d] /\ trouble'[d] = trouble[d] /\ service'[d] = service[d]
    BY <1>3 DEF ProbeInv, ProbeTypes
  <2>2. ThreadInv(d) /\ EndpointInv(d)
    BY <1>3 DEF ProbeInv
  <2>3. \A l : Left(d, l, trouble[d])' = Left(d, l, trouble[d])
    BY <2>1 DEF Left, First, Missed, Tried
  <2>4. (Sampling(d)' <=> Sampling(d)) /\ Taken(d)' = Taken(d) /\ Probe(d)' = Probe(d)
    BY <2>1 DEF Sampling, Taken, Probe
  <2> HIDE DEF Scope
  <2>5. ThreadInv(d)'
    BY <2>1, <2>2, <2>3, <2>4 DEF ThreadInv
  <2>6. EndpointInv(d)'
    BY <1>1, <2>1, <2>2, <2>4 DEF EndpointInv
  <2>. QED
    BY <2>5, <2>6
<1>. QED
  BY <1>1, <1>2, <1>3 DEF ProbeInv

\* What is known of a thread that works.
LEMMA Working ==
    ASSUME ProbeAssumption, ProbeInv, NEW c \in Scope, thread[c].at \in {"probing", "http"}
    PROVE  /\ c \in Candidates /\ thread[c] \in Thread /\ thread[c].probes # <<>> /\ endpoint[c] = None
           /\ endpoint = [endpoint EXCEPT ![c] = None]
           /\ service[c] \in Kinds /\ c[2] \in Nat /\ trouble[c] \in 0 .. MaxTroubles /\ trouble[c] \in Nat /\ Samples \in Nat
           /\ Probe(c) \in Tried(c) /\ Probe(c) \in Names /\ ThreadInv(c)
           /\ Recognises(Probe(c), service[c], c[2]) \in Protocols \cup {""} /\ HintOf(Probe(c), c[2]) \in Hints
           /\ Recognises("tls", service[c], c[2]) # "" <=> service[c] = "tls"
<1>1. c \in Candidates
  BY DEF Scope
<1>8. trouble[c] \in Nat
  BY <1>1 DEF ProbeInv, ProbeTypes, ProbeAssumption
<1>2. /\ thread[c] \in Thread /\ service[c] \in Kinds /\ c[2] \in Nat /\ trouble[c] \in 0 .. MaxTroubles
      /\ endpoint \in [Candidates -> Endpoint \cup {None}] /\ Samples \in Nat
  BY <1>1, FiniteCandidates DEF ProbeInv, ProbeTypes, ProbeAssumption
<1>3. ThreadInv(c) /\ EndpointInv(c)
  BY <1>1 DEF ProbeInv
<1>4. thread[c].probes # <<>> /\ Left(c, thread[c].probes, trouble[c]) /\ endpoint[c] = None
  BY <1>3 DEF ThreadInv, EndpointInv
<1>5. Probe(c) \in Tried(c) /\ Probe(c) \in Names
  BY <1>2, <1>4, HeadOfLeft DEF Probe
<1>6. endpoint = [endpoint EXCEPT ![c] = None]
  BY <1>1, <1>2, <1>4
<1>7. /\ Recognises(Probe(c), service[c], c[2]) \in Protocols \cup {""} /\ HintOf(Probe(c), c[2]) \in Hints
      /\ Recognises("tls", service[c], c[2]) # "" <=> service[c] = "tls"
  BY <1>2, <1>5, AnswersHaveNames
<1>. QED
  BY <1>1, <1>2, <1>3, <1>4, <1>5, <1>6, <1>7, <1>8
-----------------------------------------------------------------------------
(* The steps.                                                              *)

\* The thread goes on, without an endpoint.
LEMMA GoesOn ==
    ASSUME ProbeAssumption, ProbeInv, NEW c \in Scope, answer = "waiting", thread[c].at \in {"probing", "http"},
           UNCHANGED <<executor, service, answer>>, endpoint' = endpoint,
           NEW t \in Thread, thread' = [thread EXCEPT ![c] = t],
           trouble' \in [Candidates -> 0 .. MaxTroubles], \A d \in Candidates : d # c => trouble'[d] = trouble[d],
           trouble'[c] >= trouble[c],
           t.probes = thread[c].probes, t.at \in {"probing", "http"},
           t.at = "http" => Sampling(c) /\ t.good + t.failures < Samples,
           t.timeouts <= t.failures, t.good + t.failures <= Samples,
           t.good > 0 \/ t.at = "http" => service[c] = "tls",
           service[c] = "tls" => t.failures <= trouble'[c]
    PROVE  ProbeInv'
<1>1. /\ c \in Candidates /\ endpoint[c] = None /\ endpoint' = [endpoint EXCEPT ![c] = None]
      /\ Left(c, thread[c].probes, trouble[c]) /\ thread[c].probes # <<>> /\ trouble[c] \in 0 .. MaxTroubles
  BY Working DEF ThreadInv
<1>2. thread'[c] = t /\ endpoint'[c] = None
  BY <1>1 DEF ProbeInv, ProbeTypes
<1>3. Left(c, thread[c].probes, trouble'[c])
  <2>1. trouble'[c] \in Nat /\ trouble[c] \in Nat
    BY <1>1
  <2>. QED
    BY <1>1, <2>1, MoreLost
<1>4. Left(c, thread[c].probes, trouble[c])'
  BY <1>2, <1>3, LeftStays
<1>5. (Sampling(c)' <=> Sampling(c)) /\ Taken(c)' = t.good + t.failures
  BY <1>2 DEF Sampling, Probe, Taken
<1>6. ThreadInv(c)'
  BY <1>1, <1>2, <1>4, <1>5 DEF ThreadInv
<1>7. EndpointInv(c)'
  BY <1>2 DEF EndpointInv
<1>. QED
  BY <1>1, <1>6, <1>7, OneThread

\* A probe that missed gives way to the next.
LEMMA Misses ==
    ASSUME ProbeAssumption, ProbeInv, NEW c \in Scope, answer = "waiting", thread[c].at = "probing", NextProbe(c),
           UNCHANGED <<executor, service, answer>>,
           trouble' \in [Candidates -> 0 .. MaxTroubles], \A d \in Candidates : d # c => trouble'[d] = trouble[d],
           trouble'[c] >= trouble[c], Missed(Probe(c), c, trouble'[c])
    PROVE  ProbeInv'
<1> DEFINE t == [thread[c] EXCEPT !.probes = Tail(thread[c].probes),
                                  !.at = IF Len(thread[c].probes) = 1 THEN "done" ELSE "probing"]
<1>1. /\ c \in Candidates /\ endpoint[c] = None /\ endpoint = [endpoint EXCEPT ![c] = None]
      /\ Left(c, thread[c].probes, trouble[c]) /\ thread[c].probes # <<>> /\ trouble[c] \in 0 .. MaxTroubles
      /\ thread[c] \in Thread /\ c[2] \in Nat /\ ThreadInv(c)
  BY Working DEF ThreadInv
<1>2. thread' = [thread EXCEPT ![c] = t] /\ endpoint' = endpoint
  BY DEF NextProbe
<1>3. trouble'[c] \in Nat /\ trouble[c] \in Nat
  BY <1>1
<1>4. Left(c, thread[c].probes, trouble'[c])
  BY <1>1, <1>3, MoreLost
<1>5. /\ Left(c, Tail(thread[c].probes), trouble'[c]) /\ Tail(thread[c].probes) \in Seq(Names)
      /\ Len(thread[c].probes) = 1 <=> Tail(thread[c].probes) = <<>>
  BY <1>1, <1>4, HeadOfLeft DEF Probe
<1>6. /\ t \in Thread /\ t.probes = Tail(thread[c].probes) /\ t.good = thread[c].good
      /\ t.failures = thread[c].failures /\ t.timeouts = thread[c].timeouts
      /\ t.at = IF t.probes = <<>> THEN "done" ELSE "probing"
  BY <1>1, <1>5 DEF Thread
<1> HIDE DEF t
<1>7. thread'[c] = t /\ endpoint'[c] = None
  BY <1>1, <1>2 DEF ProbeInv, ProbeTypes
<1>8. Left(c, thread[c].probes, trouble[c])'
  BY <1>5, <1>6, <1>7, LeftStays
<1>9. ThreadInv(c)'
  <2>1. thread[c].good \in Nat /\ thread[c].failures \in Nat /\ thread[c].timeouts \in Nat
    BY <1>1 DEF Thread, ProbeAssumption
  <2>2. service[c] = "tls" => t.failures <= trouble'[c]
    <3>1. \A f, m, n \in Nat : f <= m /\ n >= m => f <= n
      OBVIOUS
    <3>2. service[c] = "tls" => thread[c].failures <= trouble[c]
      BY <1>1, Zenon DEF ThreadInv
    <3>. QED
      BY <1>3, <1>6, <2>1, <3>1, <3>2, Zenon
  <2>3. Taken(c)' = Taken(c)
    BY <1>6, <1>7 DEF Taken
  <2>. QED
    <3>1. /\ thread[c].timeouts <= thread[c].failures /\ Taken(c) <= Samples
          /\ thread[c].good > 0 => service[c] = "tls"
      BY <1>1, Zenon DEF ThreadInv
    <3>2. t.at \in {"probing", "http"} => t.probes # <<>>
      BY <1>6
    <3>3. t.at # "http"
      BY <1>6
    <3>4. service'[c] = service[c] /\ Taken(c)' <= Samples
      BY <2>3, <3>1
    <3>5. t.timeouts <= t.failures /\ (t.good > 0 => service[c] = "tls")
      BY <1>6, <3>1
    <3>6. t.good > 0 \/ t.at = "http" => service'[c] = "tls"
      BY <3>3, <3>4, <3>5
    <3>. QED
      BY <1>7, <1>8, <2>2, <3>2, <3>3, <3>4, <3>5, <3>6, Zenon DEF ThreadInv
<1>10. EndpointInv(c)'
  BY <1>6, <1>7 DEF EndpointInv
<1>. QED
  BY <1>1, <1>2, <1>6, <1>9, <1>10, OneThread

\* A probe that recognised the service ends the thread.
LEMMA Finds ==
    ASSUME ProbeAssumption, ProbeInv, NEW c \in Scope, answer = "waiting", thread[c].at = "probing",
           NEW metrics \in Metrics \cup {None}, Found(c, metrics), UNCHANGED <<executor, service, trouble, answer>>,
           Recognises(Probe(c), service[c], c[2]) # "",
           metrics # None => metrics.good > 0 /\ metrics.failures < Samples
    PROVE  ProbeInv'
<1> DEFINE t == [thread[c] EXCEPT !.at = "done"]
           e == [detected |-> Recognises(Probe(c), service[c], c[2]), hint |-> HintOf(Probe(c), c[2]),
                 metrics |-> metrics]
<1>1. /\ c \in Candidates /\ thread[c] \in Thread /\ thread[c].probes # <<>> /\ ThreadInv(c)
      /\ Recognises(Probe(c), service[c], c[2]) \in Protocols /\ HintOf(Probe(c), c[2]) \in Hints
  BY Working
<1>2. e \in Endpoint
  BY <1>1 DEF Endpoint
<1>3. /\ t \in Thread /\ t.at = "done" /\ t.probes = thread[c].probes /\ t.good = thread[c].good
      /\ t.failures = thread[c].failures /\ t.timeouts = thread[c].timeouts
  BY <1>1 DEF Thread
<1>4. /\ thread' = [thread EXCEPT ![c] = t] /\ endpoint' = [endpoint EXCEPT ![c] = e]
  BY DEF Found
<1>5. /\ e.detected = Recognises(Probe(c), service[c], c[2]) /\ e.hint = HintOf(Probe(c), c[2])
      /\ e.metrics = metrics
  OBVIOUS
<1> HIDE DEF t, e
<1>6. e # None
  BY <1>2 DEF ProbeAssumption
<1>7. thread'[c] = t /\ endpoint'[c] = e
  BY <1>1, <1>4 DEF ProbeInv, ProbeTypes
<1>8. Left(c, thread[c].probes, trouble[c])'
  <2>1. Left(c, t.probes, trouble[c])
    BY <1>1, <1>3 DEF ThreadInv
  <2>2. trouble'[c] = trouble[c]
    OBVIOUS
  <2>. QED
    BY <1>7, <2>1, <2>2, LeftStays
<1>9. Probe(c)' = Probe(c) /\ Taken(c)' = Taken(c) /\ Scope' = Scope
  BY <1>3, <1>7 DEF Probe, Taken, Scope
<1>10. ThreadInv(c)'
  <2>1. t.at \notin {"probing", "http"} /\ t.at # "http"
    BY <1>3
  <2>2. trouble'[c] = trouble[c] /\ service'[c] = service[c]
    OBVIOUS
  <2>. QED
    BY <1>1, <1>3, <1>7, <1>8, <1>9, <2>1, <2>2, Zenon DEF ThreadInv, Taken
<1>11. EndpointInv(c)'
  <2> HIDE DEF Scope
  <2>. QED
    BY <1>1, <1>3, <1>5, <1>6, <1>7, <1>9 DEF EndpointInv
<1>12. trouble' \in [Candidates -> 0 .. MaxTroubles]
  BY DEF ProbeInv, ProbeTypes
<1>. QED
  BY <1>1, <1>2, <1>3, <1>4, <1>10, <1>11, <1>12, OneThread
LEMMA Starts ==
    ASSUME ProbeAssumption, ProbeInv, NEW c \in Scope, answer = "waiting", StartThread(c)
    PROVE  ProbeInv'
<1> DEFINE t == [thread[c] EXCEPT !.at = IF thread[c].probes = <<>> THEN "done" ELSE "probing"]
<1>1. /\ c \in Candidates /\ thread[c] \in Thread /\ ThreadInv(c) /\ EndpointInv(c)
      /\ endpoint \in [Candidates -> Endpoint \cup {None}] /\ trouble \in [Candidates -> 0 .. MaxTroubles]
  BY DEF Scope, ProbeInv, ProbeTypes
<1>2. thread' = [thread EXCEPT ![c] = t] /\ UNCHANGED <<executor, service, endpoint, trouble, answer>>
  BY DEF StartThread
<1>3. endpoint[c] = None /\ thread[c].at = "waiting"
  BY <1>1 DEF EndpointInv, StartThread
<1>4. /\ t \in Thread /\ t.probes = thread[c].probes /\ t.good = thread[c].good
      /\ t.failures = thread[c].failures /\ t.timeouts = thread[c].timeouts
      /\ t.at = IF t.probes = <<>> THEN "done" ELSE "probing"
  BY <1>1 DEF Thread
<1> HIDE DEF t
<1>5. thread'[c] = t /\ endpoint'[c] = None /\ endpoint' = [endpoint EXCEPT ![c] = None] /\ trouble'[c] = trouble[c]
  BY <1>1, <1>2, <1>3 DEF ProbeInv, ProbeTypes
<1>6. Left(c, thread[c].probes, trouble[c])'
  <2>1. Left(c, t.probes, trouble[c])
    BY <1>1, <1>4 DEF ThreadInv
  <2>. QED
    BY <1>2, <1>5, <2>1, LeftStays
<1>7. t.at # "http" /\ (t.at \in {"probing", "http"} => t.probes # <<>>)
  BY <1>4
<1>8. ThreadInv(c)'
  <2>1. service'[c] = service[c]
    BY <1>2
  <2>. QED
    BY <1>1, <1>4, <1>5, <1>6, <1>7, <2>1, Zenon DEF ThreadInv, Taken
<1>9. EndpointInv(c)'
  BY <1>4, <1>5 DEF EndpointInv
<1>. QED
  BY <1>1, <1>2, <1>4, <1>5, <1>8, <1>9, OneThread

LEMMA Probes ==
    ASSUME ProbeAssumption, ProbeInv, NEW c \in Scope, answer = "waiting", RunProbe(c)
    PROVE  ProbeInv'
<1>1. /\ thread[c].at = "probing" /\ ~ Sampling(c) /\ UNCHANGED <<executor, service, answer>>
  BY DEF RunProbe
<1>2. /\ c \in Candidates /\ trouble[c] \in 0 .. MaxTroubles /\ Samples \in Nat
      /\ trouble \in [Candidates -> 0 .. MaxTroubles] /\ ProbeTypes
  BY <1>1, Working DEF ProbeInv, ProbeTypes
<1>3. Need(Probe(c)) = 1
  BY <1>1, <1>2 DEF Need, Sampling
<1>4. CASE Lost(c) /\ NextProbe(c)
  <2>1. /\ trouble' \in [Candidates -> 0 .. MaxTroubles]
        /\ trouble' = [trouble EXCEPT ![c] = trouble[c] + 1] /\ trouble'[c] = trouble[c] + 1
    BY <1>2, <1>4, LostBound
  <2>2. trouble'[c] >= 1 /\ trouble'[c] >= trouble[c] /\ \A d \in Candidates : d # c => trouble'[d] = trouble[d]
    BY <1>2, <2>1
  <2>3. Missed(Probe(c), c, trouble'[c])
    BY <1>3, <2>2 DEF Missed
  <2>. QED
    BY <1>1, <1>4, <2>1, <2>2, <2>3, Misses
<1>5. CASE Recognises(Probe(c), service[c], c[2]) # "" /\ Found(c, None) /\ UNCHANGED trouble
  BY <1>1, <1>5, Finds
<1>6. CASE Recognises(Probe(c), service[c], c[2]) = "" /\ NextProbe(c) /\ UNCHANGED trouble
  <2>1. Missed(Probe(c), c, trouble'[c])
    BY <1>6 DEF Missed
  <2>2. trouble'[c] >= trouble[c]
    <3>1. trouble'[c] = trouble[c]
      BY <1>6
    <3>2. trouble[c] \in Nat
      BY <1>2
    <3>. QED
      BY <3>1, <3>2
  <2>. QED
    BY <1>1, <1>2, <1>6, <2>1, <2>2, Misses
<1>. QED
  BY <1>4, <1>5, <1>6 DEF RunProbe

LEMMA FailsOnce ==
    ASSUME ProbeAssumption, ProbeInv, NEW c \in Scope, answer = "waiting", thread[c].at \in {"probing", "http"},
           Taken(c) < Samples, NEW late \in BOOLEAN, Fails(c, late),
           UNCHANGED <<executor, service, endpoint, answer>>,
           Lost(c) \/ (UNCHANGED trouble /\ service[c] # "tls")
    PROVE  ProbeInv'
<1>1. /\ c \in Candidates /\ thread[c] \in Thread /\ trouble[c] \in 0 .. MaxTroubles /\ Samples \in Nat
      /\ ThreadInv(c) /\ thread[c].probes # <<>>
  BY Working
<1>2. /\ thread[c].good \in Nat /\ thread[c].failures \in Nat /\ thread[c].timeouts \in Nat
      /\ thread[c].good + thread[c].failures < Samples
  BY <1>1 DEF Thread, Taken
<1> DEFINE f == thread[c].failures + 1
           l == IF late THEN thread[c].timeouts + 1 ELSE thread[c].timeouts
           t == [thread[c] EXCEPT !.failures = f, !.at = "probing", !.timeouts = l]
<1>3. thread' = [thread EXCEPT ![c] = t]
  BY DEF Fails
<1>4. /\ f \in 0 .. Samples /\ f = thread[c].failures + 1
      /\ l \in Nat /\ (l = thread[c].timeouts \/ l = thread[c].timeouts + 1)
  BY <1>1, <1>2
<1> HIDE DEF f, l
<1>5. /\ t \in Thread /\ t.probes = thread[c].probes /\ t.good = thread[c].good /\ t.at = "probing"
      /\ t.failures = thread[c].failures + 1
      /\ t.timeouts = thread[c].timeouts \/ t.timeouts = thread[c].timeouts + 1
  BY <1>1, <1>4 DEF Thread
<1> HIDE DEF t
<1>6. /\ trouble' \in [Candidates -> 0 .. MaxTroubles] /\ trouble'[c] >= trouble[c]
      /\ \A d \in Candidates : d # c => trouble'[d] = trouble[d]
      /\ service[c] = "tls" => trouble'[c] = trouble[c] + 1
  <2>1. ProbeTypes /\ trouble \in [Candidates -> 0 .. MaxTroubles]
    BY DEF ProbeInv, ProbeTypes
  <2>2. CASE Lost(c)
    <3>1. /\ trouble' \in [Candidates -> 0 .. MaxTroubles]
          /\ trouble' = [trouble EXCEPT ![c] = trouble[c] + 1] /\ trouble'[c] = trouble[c] + 1
      BY <1>1, <2>1, <2>2, LostBound
    <3>. QED
      BY <1>1, <2>1, <3>1
  <2>3. CASE UNCHANGED trouble /\ service[c] # "tls"
    BY <1>1, <2>1, <2>3
  <2>. QED
    BY <2>2, <2>3
<1>7. thread[c].timeouts <= thread[c].failures /\ (thread[c].good > 0 => service[c] = "tls")
      /\ (service[c] = "tls" => thread[c].failures <= trouble[c])
  BY <1>1, Zenon DEF ThreadInv
<1>8. t.timeouts <= t.failures /\ t.good + t.failures <= Samples /\ (t.good > 0 => service[c] = "tls")
  BY <1>1, <1>2, <1>5, <1>7
<1>9. service[c] = "tls" => t.failures <= trouble'[c]
  BY <1>1, <1>2, <1>5, <1>6, <1>7
<1>10. t.at = "probing" /\ t.at # "http" /\ t.at \in {"probing", "http"}
  BY <1>5
<1>11. t.good > 0 \/ t.at = "http" => service[c] = "tls"
  BY <1>8, <1>10
<1>. QED
  BY <1>3, <1>5, <1>6, <1>8, <1>9, <1>10, <1>11, GoesOn
LEMMA Succeeds ==
    ASSUME ProbeAssumption, ProbeInv, NEW c \in Scope, answer = "waiting", thread[c].at \in {"probing", "http"},
           Taken(c) < Samples, service[c] = "tls", UNCHANGED <<executor, service, endpoint, answer>>,
           thread' = [thread EXCEPT ![c].good = @ + 1, ![c].at = "probing"],
           UNCHANGED trouble \/ Lost(c)
    PROVE  ProbeInv'
<1>1. /\ c \in Candidates /\ thread[c] \in Thread /\ trouble[c] \in 0 .. MaxTroubles /\ Samples \in Nat
      /\ ThreadInv(c) /\ thread[c].probes # <<>>
  BY Working
<1>2. /\ thread[c].good \in Nat /\ thread[c].failures \in Nat /\ thread[c].timeouts \in Nat
      /\ thread[c].good + thread[c].failures < Samples
  BY <1>1 DEF Thread, Taken
<1> DEFINE g == thread[c].good + 1
           t == [thread[c] EXCEPT !.good = g, !.at = "probing"]
<1>3. thread' = [thread EXCEPT ![c] = t]
  OBVIOUS
<1>4. g \in 0 .. Samples /\ g = thread[c].good + 1
  BY <1>1, <1>2
<1> HIDE DEF g
<1>5. /\ t \in Thread /\ t.probes = thread[c].probes /\ t.good = thread[c].good + 1 /\ t.at = "probing"
      /\ t.failures = thread[c].failures /\ t.timeouts = thread[c].timeouts
  BY <1>1, <1>4 DEF Thread
<1> HIDE DEF t
<1>6. /\ trouble' \in [Candidates -> 0 .. MaxTroubles] /\ trouble'[c] >= trouble[c]
      /\ \A d \in Candidates : d # c => trouble'[d] = trouble[d]
  <2>1. ProbeTypes /\ trouble \in [Candidates -> 0 .. MaxTroubles]
    BY DEF ProbeInv, ProbeTypes
  <2>2. CASE Lost(c)
    <3>1. /\ trouble' \in [Candidates -> 0 .. MaxTroubles]
          /\ trouble' = [trouble EXCEPT ![c] = trouble[c] + 1] /\ trouble'[c] = trouble[c] + 1
      BY <1>1, <2>1, <2>2, LostBound
    <3>. QED
      BY <1>1, <2>1, <3>1
  <2>3. CASE UNCHANGED trouble
    BY <1>1, <2>1, <2>3
  <2>. QED
    BY <2>2, <2>3
<1>7. thread[c].timeouts <= thread[c].failures /\ thread[c].failures <= trouble[c]
  BY <1>1, Zenon DEF ThreadInv
<1>8. t.timeouts <= t.failures /\ t.good + t.failures <= Samples
  BY <1>1, <1>2, <1>5, <1>7
<1>9. t.failures <= trouble'[c]
  <2>1. trouble[c] \in Nat /\ trouble'[c] \in Nat
    BY <1>1, <1>6
  <2>. QED
    BY <1>2, <1>5, <1>6, <1>7, <2>1
<1>10. t.at # "http" /\ t.at \in {"probing", "http"}
  BY <1>5
<1>. QED
  BY <1>3, <1>5, <1>6, <1>8, <1>9, <1>10, GoesOn

LEMMA Samplings ==
    ASSUME ProbeAssumption, ProbeInv, NEW c \in Scope, answer = "waiting", Sample(c)
    PROVE  ProbeInv'
<1>1. /\ thread[c].at = "probing" /\ Sampling(c) /\ Taken(c) < Samples
      /\ UNCHANGED <<executor, service, endpoint, answer>>
  BY DEF Sample
<1>2. /\ c \in Candidates /\ thread[c] \in Thread /\ trouble[c] \in 0 .. MaxTroubles /\ Samples \in Nat
      /\ ThreadInv(c) /\ thread[c].probes # <<>>
  BY <1>1, Working
<1>3. CASE service[c] = "tls" /\ thread' = [thread EXCEPT ![c].at = "http"] /\ UNCHANGED trouble
  <2> DEFINE t == [thread[c] EXCEPT !.at = "http"]
  <2>1. thread' = [thread EXCEPT ![c] = t]
    BY <1>3
  <2>2. /\ t \in Thread /\ t.probes = thread[c].probes /\ t.good = thread[c].good /\ t.at = "http"
        /\ t.failures = thread[c].failures /\ t.timeouts = thread[c].timeouts
    BY <1>2 DEF Thread
  <2> HIDE DEF t
  <2>3. /\ t.at = "http" => Sampling(c) /\ t.good + t.failures < Samples
        /\ t.timeouts <= t.failures
        /\ t.good > 0 \/ t.at = "http" => service[c] = "tls"
        /\ t.good + t.failures <= Samples
    BY <1>1, <1>2, <1>3, <2>2, Zenon DEF ThreadInv, Taken
  <2>4. trouble' \in [Candidates -> 0 .. MaxTroubles] /\ trouble' = trouble
    BY <1>3 DEF ProbeInv, ProbeTypes
  <2>5. trouble'[c] >= trouble[c]
    BY <1>2, <2>4
  <2>6. service[c] = "tls" => t.failures <= trouble'[c]
    BY <1>2, <2>2, <2>4, Zenon DEF ThreadInv
  <2>7. t.at \in {"probing", "http"}
    BY <2>2
  <2>. QED
    BY <1>1, <2>1, <2>2, <2>3, <2>4, <2>5, <2>6, <2>7, GoesOn
<1>4. CASE service[c] = "tls" /\ thread' = [thread EXCEPT ![c].good = @ + 1] /\ UNCHANGED trouble
  <2>1. thread' = [thread EXCEPT ![c].good = @ + 1, ![c].at = "probing"]
    <3>1. thread \in [Candidates -> Thread]
      BY DEF ProbeInv, ProbeTypes
    <3>2. [[thread[c] EXCEPT !.good = @ + 1] EXCEPT !.at = "probing"] = [thread[c] EXCEPT !.good = @ + 1]
      BY <1>1, <1>2 DEF Thread
    <3>. QED
      BY <1>2, <1>4, <3>1, <3>2
  <2>. QED
    BY <1>1, <1>4, <2>1, Succeeds
<1>5. CASE service[c] # "tls" /\ Fails(c, service[c] = "mute") /\ UNCHANGED trouble
  <2>1. (service[c] = "mute") \in BOOLEAN
    OBVIOUS
  <2>. QED
    BY <1>1, <1>5, <2>1, FailsOnce
<1>6. ASSUME NEW late \in BOOLEAN, Lost(c) /\ Fails(c, late) PROVE ProbeInv'
  <2>1. thread[c].at \in {"probing", "http"}
    BY <1>1
  <2>. QED
    BY <1>1, <1>6, <2>1, FailsOnce, Zenon
<1>. QED
  BY <1>3, <1>4, <1>5, <1>6 DEF Sample

LEMMA Reads ==
    ASSUME ProbeAssumption, ProbeInv, NEW c \in Scope, answer = "waiting", MeasureHttp(c)
    PROVE  ProbeInv'
<1>1. thread[c].at = "http" /\ UNCHANGED <<executor, service, endpoint, answer>>
  BY DEF MeasureHttp
<1>2. ThreadInv(c)
  BY <1>1, Working
<1>3. service[c] = "tls" /\ Taken(c) < Samples
  BY <1>1, <1>2 DEF ThreadInv
<1>4. CASE thread' = [thread EXCEPT ![c].good = @ + 1, ![c].at = "probing"] /\ (UNCHANGED trouble \/ Lost(c))
  BY <1>1, <1>3, <1>4, Succeeds
<1>5. CASE Lost(c) /\ Fails(c, FALSE)
  <2>1. thread[c].at \in {"probing", "http"} /\ FALSE \in BOOLEAN
    BY <1>1
  <2>. QED
    BY <1>1, <1>3, <1>5, <2>1, FailsOnce, Zenon
<1>. QED
  BY <1>4, <1>5 DEF MeasureHttp

LEMMA SamplesEnd ==
    ASSUME ProbeAssumption, ProbeInv, NEW c \in Scope, answer = "waiting", EndSamples(c)
    PROVE  ProbeInv'
<1>1. /\ thread[c].at = "probing" /\ Sampling(c) /\ Taken(c) = Samples
      /\ UNCHANGED <<executor, service, trouble, answer>>
  BY DEF EndSamples
<1>2. /\ c \in Candidates /\ thread[c] \in Thread /\ trouble[c] \in 0 .. MaxTroubles /\ Samples \in Nat
      /\ ThreadInv(c) /\ thread[c].probes # <<>>
      /\ (Recognises("tls", service[c], c[2]) # "" <=> service[c] = "tls")
  BY <1>1, Working
<1>3. /\ thread[c].good \in 0 .. Samples /\ thread[c].failures \in 0 .. Samples
      /\ thread[c].timeouts \in Nat /\ thread[c].good + thread[c].failures = Samples
      /\ thread[c].timeouts <= thread[c].failures
  BY <1>1, <1>2 DEF Thread, Taken, ThreadInv
<1>4. Probe(c) = "tls" /\ Need(Probe(c)) = Samples /\ Samples > 0
  BY <1>1 DEF Sampling, Need
<1>5. CASE thread[c].good = 0 /\ NextProbe(c)
  <2>1. thread[c].failures = Samples
    <3>1. thread[c].good = 0
      BY <1>5
    <3>. QED
      BY <1>3, <3>1
  <2>2. service[c] = "tls" => thread[c].failures <= trouble[c]
    BY <1>2, Zenon DEF ThreadInv
  <2>3. Missed(Probe(c), c, trouble'[c])
    BY <1>1, <1>2, <1>4, <2>1, <2>2 DEF Missed
  <2>4. trouble'[c] = trouble[c] /\ trouble[c] \in Nat /\ trouble' \in [Candidates -> 0 .. MaxTroubles]
    <3>1. trouble \in [Candidates -> 0 .. MaxTroubles]
      BY DEF ProbeInv, ProbeTypes
    <3>2. trouble' = trouble
      BY <1>1
    <3>3. trouble[c] \in Nat
      BY <1>1, Working
    <3>. QED
      BY <3>1, <3>2, <3>3
  <2>5. trouble'[c] >= trouble[c] /\ \A d \in Candidates : d # c => trouble'[d] = trouble[d]
    BY <1>1, <2>4
  <2>. QED
    BY <1>1, <1>5, <2>3, <2>4, <2>5, Misses
<1>6. CASE thread[c].good # 0
           /\ Found(c, [good |-> thread[c].good, failures |-> thread[c].failures, timeouts |-> thread[c].timeouts])
  <2> DEFINE m == [good |-> thread[c].good, failures |-> thread[c].failures, timeouts |-> thread[c].timeouts]
  <2>1. m \in Metrics /\ m.good > 0 /\ m.failures < Samples
    <3>1. thread[c].good # 0 /\ Samples \in Nat
      BY <1>2, <1>6
    <3>2. thread[c].timeouts \in 0 .. Samples /\ thread[c].good > 0 /\ thread[c].failures < Samples
      BY <1>3, <3>1
    <3>. QED
      BY <1>3, <3>2 DEF Metrics
  <2>2. service[c] = "tls"
    <3>0. thread[c].good # 0
      BY <1>6
    <3>1. thread[c].good > 0
      BY <1>3, <3>0
    <3>. QED
      BY <1>2, <3>1, Zenon DEF ThreadInv
  <2>3. Recognises(Probe(c), service[c], c[2]) # ""
    BY <1>2, <1>4, <2>2
  <2> HIDE DEF m
  <2>4. Found(c, m)
    BY <1>6 DEF m
  <2>. QED
    BY <1>1, <2>1, <2>3, <2>4, Finds
<1>. QED
  BY <1>5, <1>6 DEF EndSamples

LEMMA ProbeNext == ASSUME ProbeAssumption, ProbeInv, [Next]_vars PROVE ProbeInv'
<1>1. ASSUME NEW c \in Scope, answer = "waiting",
             StartThread(c) \/ RunProbe(c) \/ Sample(c) \/ MeasureHttp(c) \/ EndSamples(c)
      PROVE  ProbeInv'
  BY <1>1, Starts, Probes, Samplings, Reads, SamplesEnd
<1>2. CASE Answer
  <2>1. /\ answer' = "ok" /\ answer = "waiting" /\ \A c \in Scope : thread[c].at = "done"
        /\ UNCHANGED <<executor, service, thread, endpoint, trouble>>
    BY <1>2 DEF Answer
  <2>2. ProbeTypes'
    BY <2>1 DEF ProbeInv, ProbeTypes
  <2>3. Scope' = Scope
    BY <2>1 DEF Scope
  <2> HIDE DEF Scope
  <2>4. ASSUME NEW c \in Candidates PROVE ThreadInv(c)' /\ EndpointInv(c)'
    <3>1. ThreadInv(c) /\ EndpointInv(c)
      BY DEF ProbeInv
    <3>2. ThreadInv(c)'
      BY <2>1, <3>1 DEF ThreadInv, Left, First, Missed, Tried, Sampling, Probe, Taken
    <3>3. EndpointInv(c)'
      BY <2>1, <2>3, <3>1 DEF EndpointInv, Probe
    <3>. QED
      BY <3>2, <3>3
  <2>. QED
    BY <2>1, <2>2, <2>3, <2>4 DEF ProbeInv
<1>3. CASE GiveUp
  <2>1. /\ answer' = "failed" /\ endpoint' = [c \in Candidates |-> None]
        /\ UNCHANGED <<executor, service, thread, trouble>>
    BY <1>3 DEF GiveUp
  <2>2. ProbeTypes'
    BY <2>1 DEF ProbeInv, ProbeTypes
  <2>3. ASSUME NEW c \in Candidates PROVE ThreadInv(c)' /\ EndpointInv(c)'
    <3>1. ThreadInv(c)
      BY DEF ProbeInv
    <3>2. ThreadInv(c)'
      BY <2>1, <3>1 DEF ThreadInv, Left, First, Missed, Tried, Sampling, Probe, Taken
    <3>3. EndpointInv(c)'
      BY <2>1 DEF EndpointInv
    <3>. QED
      BY <3>2, <3>3
  <2>. QED
    BY <2>1, <2>2, <2>3 DEF ProbeInv
<1>4. CASE UNCHANGED vars
  <2>1. UNCHANGED <<executor, service, thread, endpoint, trouble, answer>>
    BY <1>4 DEF vars
  <2>2. Scope' = Scope
    BY <2>1 DEF Scope
  <2> HIDE DEF Scope
  <2>3. ProbeTypes' <=> ProbeTypes
    BY <2>1 DEF ProbeTypes
  <2>4. ASSUME NEW c \in Candidates PROVE ThreadInv(c)' <=> ThreadInv(c)
    BY <2>1 DEF ThreadInv, Left, First, Missed, Tried, Sampling, Probe, Taken
  <2>5. ASSUME NEW c \in Candidates PROVE EndpointInv(c)' <=> EndpointInv(c)
    BY <2>1, <2>2 DEF EndpointInv, Probe
  <2>. QED
    BY <2>1, <2>2, <2>3, <2>4, <2>5 DEF ProbeInv
<1>. QED
  BY <1>1, <1>2, <1>3, <1>4 DEF Next

-----------------------------------------------------------------------------
(* What the invariant says of an answer.                                   *)

LEMMA ProbesTyped == ASSUME ProbeAssumption, ProbeInv PROVE TypeOK
<1>1. ASSUME NEW c \in Candidates
      PROVE  /\ thread[c].at \in {"waiting", "probing", "http", "done"}
             /\ thread[c].good \in 0 .. Samples
             /\ thread[c].timeouts <= thread[c].failures
             /\ thread[c].good + thread[c].failures <= Samples
  <2>1. thread[c] \in Thread /\ ThreadInv(c)
    BY DEF ProbeInv, ProbeTypes
  <2>. QED
    BY <2>1 DEF Thread, ThreadInv, Taken
<1>. QED
  BY <1>1 DEF ProbeInv, ProbeTypes, TypeOK

\* An endpoint stems from the probe its thread ended with.
LEMMA EndpointFrom ==
    ASSUME ProbeAssumption, ProbeInv, NEW c \in FoundSet
    PROVE  /\ c \in Candidates /\ c \in Scope /\ c[2] \in Nat /\ service[c] \in Kinds
           /\ thread[c].probes # <<>> /\ Left(c, thread[c].probes, trouble[c])
           /\ Probe(c) \in Tried(c) /\ Probe(c) \in Names
           /\ endpoint[c].detected = Recognises(Probe(c), service[c], c[2])
           /\ endpoint[c].hint = HintOf(Probe(c), c[2]) /\ endpoint[c].detected # ""
<1>1. c \in Candidates /\ endpoint[c] # None
  BY DEF FoundSet
<1>2. ThreadInv(c) /\ EndpointInv(c) /\ c[2] \in Nat /\ service[c] \in Kinds
  BY <1>1, FiniteCandidates DEF ProbeInv, ProbeTypes
<1>3. /\ thread[c].probes # <<>> /\ Left(c, thread[c].probes, trouble[c]) /\ c \in Scope
      /\ endpoint[c].detected = Recognises(Probe(c), service[c], c[2])
      /\ endpoint[c].hint = HintOf(Probe(c), c[2]) /\ endpoint[c].detected # ""
  BY <1>1, <1>2, Zenon DEF ThreadInv, EndpointInv
<1>4. Probe(c) \in Tried(c) /\ Probe(c) \in Names
  BY <1>2, <1>3, HeadOfLeft DEF Probe
<1>. QED
  BY <1>1, <1>2, <1>3, <1>4

LEMMA OwnServices == ASSUME ProbeAssumption, ProbeInv PROVE ServiceRecognised
<1>1. ASSUME executor = "agent", NEW c \in FoundSet, NEW p \in ToSet(Registry), c[2] \in p.on,
             Recognises(p.name, service[c], c[2]) # ""
      PROVE  \/ endpoint[c].detected = Recognises(p.name, service[c], c[2])
             \/ trouble[c] >= Need(p.name)
  <2>1. c[2] \in Nat /\ Left(c, thread[c].probes, trouble[c]) /\ thread[c].probes # <<>>
        /\ endpoint[c].detected = Recognises(Probe(c), service[c], c[2])
    BY EndpointFrom
  <2>2. p.name = Owner(c[2])
    BY <1>1, <2>1, OwnerIsOne
  <2>3. Owner(c[2]) # "none"
    <3>1. \A r \in ToSet(Registry) : r.name # "none"
      BY DEF ToSet, Registry
    <3>. QED
      BY <2>2, <3>1
  <2>4. Probe(c) = Owner(c[2]) \/ Missed(Owner(c[2]), c, trouble[c])
    BY <1>1, <2>1, <2>3, HeadOfLeft DEF Probe
  <2>. QED
    BY <1>1, <2>1, <2>2, <2>4, Zenon DEF Missed
<1>. QED
  BY <1>1, Zenon DEF ServiceRecognised, Need

LEMMA OpenPorts == ASSUME ProbeAssumption, ProbeInv PROVE OpenIsFound
<1>1. ASSUME answer = "ok", NEW c \in Scope, Transport(c[2]) = "TCP", Open(c), Steady(c), c \notin FoundSet
      PROVE  FALSE
  <2>1. c \in Candidates /\ c[2] \in Nat /\ service[c] \in Kinds
    BY FiniteCandidates DEF Scope, ProbeInv, ProbeTypes
  <2>2. endpoint[c] = None /\ thread[c].at = "done" /\ ThreadInv(c) /\ EndpointInv(c)
    BY <1>1, <2>1 DEF FoundSet, ProbeInv
  <2>3. Left(c, <<>>, 0)
    <3>1. answer # "failed" /\ trouble[c] = 0
      BY <1>1 DEF Steady
    <3>. QED
      BY <1>1, <2>2, <3>1, Zenon DEF EndpointInv, ThreadInv
  <2>4. Owner(c[2]) # "ike" /\ Owner(c[2]) \in Owners \cup {"ike", "none"}
    BY <1>1, <2>1, OwnerIsOne DEF Transport
  <2>5. First(c) # <<>>
    <3>1. /\ <<"tcp">> # <<>> /\ <<"ike">> # <<>> /\ <<"central">> # <<>>
          /\ <<Owner(c[2]), "tcp">> # <<>>
      OBVIOUS
    <3>2. ProbesFor(c[2]) # <<>>
      BY <2>1, <2>4, <3>1, OwnFirst
    <3>. QED
      BY <3>1, <3>2, Zenon DEF First
  <2>6. \A q \in Tried(c) : Missed(q, c, 0)
    BY <2>3, <2>5 DEF Left
  <2>7. PICK q \in {"tcp", "central"} : q \in Tried(c)
    BY <2>4 DEF Tried
  <2>8. TcpAnswer(service[c]) = "TCP"
    BY <1>1 DEF TcpAnswer, Open
  <2>9. Recognises(q, service[c], c[2]) # "" /\ Need(q) = 1
    <3>1. Hint(c[2]) # ""
      BY DEF Hint
    <3>. QED
      BY <2>7, <2>8, <3>1 DEF Recognises, Need
  <2>10. 0 >= Need(q)
    BY <2>6, <2>7, <2>9, Zenon DEF Missed
  <2>11. Need(q) = 1
    BY <2>9
  <2>12. 0 >= 1
    BY <2>10, <2>11, Zenon
  <2>. QED
    BY <2>12
<1>2. ASSUME NEW c \in FoundSet PROVE service[c] # "closed"
  <2>1. /\ c[2] \in Nat /\ service[c] \in Kinds /\ Probe(c) \in Names
        /\ Recognises(Probe(c), service[c], c[2]) # ""
    BY EndpointFrom
  <2>. QED
    BY <2>1, ClosedIsSilent
<1>. QED
  BY <1>1, <1>2 DEF OpenIsFound

LEMMA HintsAgree == ASSUME ProbeAssumption, ProbeInv PROVE ExecutorsAgree
<1>1. ASSUME NEW c \in FoundSet PROVE endpoint[c].hint = Hint(c[2]) \/ c[2] \in {110, 143}
  <2>1. c[2] \in Nat /\ Probe(c) \in Tried(c) /\ endpoint[c].hint = HintOf(Probe(c), c[2])
    BY EndpointFrom
  <2> DEFINE port == c[2]
             q == Probe(c)
  <2>2. q \in {Owner(port), "tcp", "central"} /\ (q = Owner(port) => q # "none")
    <3>1. "none" \notin Owners \cup {"ike"}
      BY DEF Owners
    <3>. QED
      BY <2>1, <3>1 DEF Tried
  <2> HIDE DEF port, q
  <2>3. HintOf(q, port) = Hint(port) \/ port \in {110, 143}
    <3>1. CASE q \in {"tcp", "central"}
      BY <3>1 DEF HintOf
    <3>2. CASE q = Owner(port) /\ q # "none"
      <4>1. \/ q = "ssh" /\ port \in {22, 2222}
            \/ q = "smtp" /\ port \in {25, 587}
            \/ q = "imap" /\ port = 143
            \/ q = "pop3" /\ port = 110
            \/ q = "postgres" /\ port = 5432
            \/ q = "tls"
            \/ q = "ike" /\ port \in UDP
        BY <3>2 DEF Owner
      <4>2. CASE q \in {"ssh", "smtp", "postgres"}
        BY <4>1, <4>2 DEF HintOf, Hint, UDP, TLSPorts
      <4>3. CASE q \in {"imap", "pop3"}
        BY <4>1, <4>3
      <4>4. CASE q = "tls"
        BY <4>4 DEF HintOf
      <4>5. CASE q = "ike"
        <5>1. port = 500 \/ port = 4500
          BY <4>1, <4>5 DEF UDP
        <5>3. Hint(port) = "IKE"
          BY <5>1 DEF Hint, UDP, TLSPorts
        <5>2. HintOf("ike", port) = "IKE"
          BY DEF HintOf
        <5>. QED
          BY <4>5, <5>2, <5>3
      <4>. QED
        BY <4>1, <4>2, <4>3, <4>4, <4>5
    <3>. QED
      BY <2>2, <3>1, <3>2
  <2>. QED
    BY <2>1, <2>3 DEF port, q
<1>. QED
  BY <1>1 DEF ExecutorsAgree

LEMMA Survivors == ASSUME ProbeAssumption, ProbeInv PROVE ReportShowsSurvivors
<1> DEFINE all == Reported \X (1 .. Samples)
           good == {s \in all : s[2] <= endpoint[s[1]].metrics.good}
           bad  == {s \in all : s[2] <= endpoint[s[1]].metrics.failures}
<1>1. Samples \in Nat /\ IsFiniteSet(1 .. Samples) /\ Cardinality(1 .. Samples) = Samples
  <2>1. Samples \in Nat
    BY DEF ProbeAssumption
  <2>. QED
    BY <2>1, FS_Interval
<1>2. IsFiniteSet(Reported)
  <2>1. Reported \subseteq Candidates
    BY DEF Reported
  <2>. QED
    BY <2>1, FiniteCandidates, FS_Subset
<1>3. ASSUME NEW c \in Reported
      PROVE  /\ endpoint[c].metrics.good \in 1 .. Samples
             /\ endpoint[c].metrics.failures \in Nat /\ endpoint[c].metrics.failures < Samples
  <2>1. c \in Candidates /\ endpoint[c] # None /\ endpoint[c].metrics # None
    BY DEF Reported
  <2>2. endpoint[c] \in Endpoint /\ EndpointInv(c)
    BY <2>1 DEF ProbeInv, ProbeTypes
  <2>3. endpoint[c].metrics \in Metrics
    BY <2>1, <2>2 DEF Endpoint
  <2>4. endpoint[c].metrics.good > 0 /\ endpoint[c].metrics.failures < Samples
    BY <2>1, <2>2, Zenon DEF EndpointInv
  <2> DEFINE m == endpoint[c].metrics
  <2> HIDE DEF m
  <2>5. m.good \in 0 .. Samples /\ m.failures \in 0 .. Samples
    BY <2>3 DEF m, Metrics
  <2>. QED
    BY <1>1, <2>4, <2>5 DEF m
<1>4. IsFiniteSet(all) /\ Cardinality(all) = Cardinality(Reported) * Samples /\ Cardinality(Reported) \in Nat
  BY <1>1, <1>2, FS_Product, FS_CardinalityType
<1>5. /\ Report.measured = Cardinality(Reported)
      /\ Report.samples = Cardinality(good) /\ Report.failures = Cardinality(bad)
  BY DEF Report
<1>6. Cardinality(Reported) <= Cardinality(good)
  <2> DEFINE ones == Reported \X {1}
  <2>1. ones \subseteq good
    <3>1. ASSUME NEW c \in Reported PROVE <<c, 1>> \in good
      <4>1. 1 \in 1 .. Samples /\ 1 <= endpoint[c].metrics.good
        BY <1>1, <1>3
      <4>. QED
        BY <4>1
    <3>. QED
      BY <3>1
  <2>2. Cardinality(ones) = Cardinality(Reported)
    <3>1. IsFiniteSet({1}) /\ Cardinality({1}) = 1
      BY FS_Singleton
    <3>2. Cardinality(ones) = Cardinality(Reported) * Cardinality({1})
      BY <1>2, <3>1, FS_Product
    <3>. QED
      BY <1>4, <3>1, <3>2
  <2>3. IsFiniteSet(good)
    BY <1>4, FS_Subset
  <2> HIDE DEF ones, good
  <2>4. Cardinality(ones) <= Cardinality(good)
    BY <2>1, <2>3, FS_Subset
  <2>. QED
    BY <2>2, <2>4
<1>7. ASSUME Cardinality(Reported) > 0 PROVE Cardinality(bad) < Cardinality(all)
  <2>1. PICK c : c \in Reported
    <3>1. Reported # {}
      BY <1>7, FS_EmptySet
    <3>. QED
      BY <3>1
  <2>2. <<c, Samples>> \in all /\ <<c, Samples>> \notin bad
    <3>1. endpoint[c].metrics.failures \in Nat /\ endpoint[c].metrics.failures < Samples
      BY <1>3, <2>1
    <3>2. Samples \in 1 .. Samples /\ ~ (Samples <= endpoint[c].metrics.failures)
      BY <1>1, <3>1
    <3>. QED
      BY <2>1, <3>2
  <2>3. bad \subseteq all /\ bad # all
    BY <2>2
  <2> HIDE DEF bad, all
  <2>4. Cardinality(bad) <= Cardinality(all) /\ Cardinality(bad) # Cardinality(all)
    BY <1>4, <2>3, FS_Subset
  <2>5. IsFiniteSet(bad) /\ Cardinality(bad) \in Nat /\ Cardinality(all) \in Nat
    BY <1>4, <2>3, FS_Subset, FS_CardinalityType
  <2>. QED
    BY <2>4, <2>5
<1> HIDE DEF all, good, bad
<1>8. Cardinality(Reported) * Samples = Samples * Cardinality(Reported)
  BY <1>1, <1>4
<1>9. IsFiniteSet(good) /\ Cardinality(good) \in Nat
  BY <1>4, FS_Subset, FS_CardinalityType DEF good, all
<1>10. Cardinality(Reported) > 0 => Cardinality(bad) < Samples * Cardinality(Reported)
  BY <1>4, <1>7, <1>8, Zenon
<1>11. Cardinality(good) >= Cardinality(Reported)
  BY <1>4, <1>6, <1>9
<1>. QED
  BY <1>5, <1>10, <1>11, Zenon DEF ReportShowsSurvivors
=============================================================================
