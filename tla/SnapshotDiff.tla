---------------------------- MODULE SnapshotDiff ----------------------------
(***************************************************************************)
(* Two scans of one host and the difference of their snapshots             *)
(* (snapshots/api.py).  The host serves a certificate and a protocol       *)
(* version on each port and keeps certificates in files its agent reads;   *)
(* between the scans it is changed.  Rows are compared by bom_ref, so what *)
(* the difference can say depends on what a bom_ref is made of.            *)
(***************************************************************************)
EXTENDS Naturals, Sequences, FiniteSets, SequencesExt

CONSTANTS
    PortList,      \* the ports of the host, in the order they are scanned
    Certificates,  \* names of certificates
    AlgorithmOf,   \* AlgorithmOf[c]: the algorithm of a certificate's key
    Versions,      \* algorithms of a protocol row
    Files          \* files the agent reads

\* An algorithm is [name, words, numbers]: the words of
\* _normalized_algorithm_family it contains, and the numbers in it.
DiffAssumption ==
    /\ IsInjective(PortList)
    /\ \A c \in Certificates : AlgorithmOf[c] \in [name : STRING, words : SUBSET STRING, numbers : SUBSET Nat]
    /\ "none" \notin Certificates

VARIABLES
    site,       \* the host: [cert, version, file, agent]
    snapshots   \* its snapshots: [rows, site]

vars == <<site, snapshots>>

Ports == ToSet(PortList)
Sites == [cert : [Ports -> Certificates \cup {"none"}], version : [Ports -> Versions],
          file : [Files -> Certificates \cup {"none"}], agent : BOOLEAN]

-----------------------------------------------------------------------------
\* The rows found: _certificate_candidate, _tls_version_candidate and
\* _candidate_for_finding.  Two ports of one host with the same certificate
\* have rows of the same bom_ref, named by their ports.
ServedCert(p, c) == [ref |-> <<"cert", c, "">>, name |-> p, type |-> "certificate", print |-> c, algorithm |-> AlgorithmOf[c]]
SpokenVersion(p, v) == [ref |-> <<"version", p, v.name>>, name |-> p, type |-> "protocol", print |-> "none", algorithm |-> v]

FoundCert(f, c) ==
    [ref |-> <<"file", f, AlgorithmOf[c].name>>, name |-> f, type |-> "certificate", print |-> c, algorithm |-> AlgorithmOf[c]]

OfPort(s, p) ==
    IF s.cert[p] = "none" THEN <<>> ELSE <<ServedCert(p, s.cert[p]), SpokenVersion(p, s.version[p])>>

\* The agent is asked once for each target of the host.
OfAgent(s) ==
    LET kept == SetToSeq({f \in Files : s.file[f] # "none"})
    IN IF s.agent THEN [i \in DOMAIN kept |-> FoundCert(kept[i], s.file[kept[i]])] ELSE <<>>

Candidates(s) == FlattenSeq([i \in DOMAIN PortList |-> OfPort(s, PortList[i]) \o OfAgent(s)])

\* _dedupe_candidates: by fingerprint if there is one; the first is kept.
SameThing(c, d) ==
    \/ c.print # "none" /\ c.print = d.print /\ c.type = d.type
    \/ c.print = "none" /\ d.print = "none" /\ c.ref = d.ref

Rows(s) ==
    FoldLeft(LAMBDA kept, c : IF \E i \in DOMAIN kept : SameThing(kept[i], c) THEN kept ELSE Append(kept, c),
             <<>>, Candidates(s))

-----------------------------------------------------------------------------
Init == snapshots = <<>> /\ site \in {s \in Sites : s.agent}

Scan ==
    /\ Len(snapshots) < 2
    /\ LET found == Rows(site)
           own == [snapshot |-> Len(snapshots) + 1]
       IN snapshots' = Append(snapshots, [rows |-> [i \in DOMAIN found |-> found[i] @@ own], site |-> site])
    /\ UNCHANGED site

\* The operators of the host, between the scans.
Changing == Len(snapshots) = 1 /\ UNCHANGED snapshots

Install(p, c) == Changing /\ site' = [site EXCEPT !.cert[p] = c]
Configure(p, v) == Changing /\ site' = [site EXCEPT !.version[p] = v]
Store(f, c) == Changing /\ site' = [site EXCEPT !.file[f] = c]
AgentChanges == Changing /\ site' = [site EXCEPT !.agent = ~@]

Next ==
    \/ Scan \/ AgentChanges
    \/ \E p \in Ports : \E c \in Certificates \cup {"none"} : Install(p, c)
    \/ \E p \in Ports : \E v \in Versions : Configure(p, v)
    \/ \E f \in Files : \E c \in Certificates \cup {"none"} : Store(f, c)

Spec == Init /\ [][Next]_vars

-----------------------------------------------------------------------------
\* diff_snapshots: the rows of each snapshot by bom_ref.
Refs(rows) == {rows[i].ref : i \in DOMAIN rows}
At(rows, ref) == rows[CHOOSE i \in DOMAIN rows : rows[i].ref = ref]

\* _diff_field_changes, of the fields that are compared.
ChangedWhole(before, after) == before # after   \* fault: every field is compared
Changed(before, after) ==
    before.name # after.name \/ before.type # after.type \/ before.algorithm # after.algorithm

Added(a, b) == Refs(b) \ Refs(a)
Removed(a, b) == Refs(a) \ Refs(b)
Modified(a, b) == {ref \in Refs(a) \cap Refs(b) : Changed(At(a, ref), At(b, ref))}
Unchanged(a, b) == (Refs(a) \cap Refs(b)) \ Modified(a, b)

\* _normalized_algorithm_family: the first of these words the name contains.
Families == <<
    <<{"ML-KEM"}, 500>>, <<{"ML-DSA"}, 500>>, <<{"SLH-DSA"}, 500>>, <<{"Ed25519", "Ed448"}, 360>>, <<{"ECDSA"}, 340>>,
    <<{"ECDH", "X25519"}, 340>>, <<{"RSA"}, 300>>, <<{"MODP"}, 200>>, <<{"DSA"}, 150>> >>

Family(x) == SelectInSeq(Families, LAMBDA f : f[1] \cap x.words # {})
Rank(x) == IF Family(x) = 0 THEN 0 ELSE Families[Family(x)][2]

\* _algorithm_size: the largest number in the name.
Size(x) == FoldSet(LAMBDA n, m : IF n > m THEN n ELSE m, 0, x.numbers)

Downgrade(x, y) ==
    /\ Rank(x) # 0 /\ Rank(y) # 0
    /\ \/ Rank(y) < Rank(x)
       \/ Rank(y) = Rank(x) /\ Size(y) < Size(x)

Regressions(a, b) ==
    [kind : {"asset_removed"}, ref : Removed(a, b)]
        \cup [kind : {"algorithm_downgrade"},
              ref : {ref \in Modified(a, b) : Downgrade(At(a, ref).algorithm, At(b, ref).algorithm)}]

-----------------------------------------------------------------------------
TypeOK ==
    /\ site \in Sites /\ Len(snapshots) <= 2
    /\ \A i \in DOMAIN snapshots :
         /\ snapshots[i].site \in Sites
         /\ \A j \in DOMAIN snapshots[i].rows : snapshots[i].rows[j].snapshot = i

Compared == Len(snapshots) = 2
A == snapshots[1].rows
B == snapshots[2].rows

\* Each row of either snapshot is counted once: no two rows of a snapshot
\* share their bom_ref, which the table would refuse (api.py:90-96).
EveryRowCounted ==
    Compared =>
        LET both == Cardinality(Modified(A, B)) + Cardinality(Unchanged(A, B))
        IN /\ Len(A) = Cardinality(Removed(A, B)) + both
           /\ Len(B) = Cardinality(Added(A, B)) + both

\* A second scan of a host that did not change finds no difference.
QuietRescanIsClean ==
    Compared /\ snapshots[1].site = snapshots[2].site =>
        Added(A, B) = {} /\ Modified(A, B) = {} /\ Regressions(A, B) = {}

\* Of any row of one and of the other at most one direction is a downgrade, and the move of a
\* classical algorithm to a post-quantum one is none (api.py:157-183).
PostQuantum == {"ML-KEM", "ML-DSA", "SLH-DSA"}
Classical(x) == x.words # {} /\ x.words \cap PostQuantum = {}
DowngradeOneWay ==
    Compared => \A i \in DOMAIN A : \A j \in DOMAIN B :
        LET x == A[i].algorithm
            y == B[j].algorithm
        IN Downgrade(x, y) => ~Downgrade(y, x) /\ ~(Classical(x) /\ ~Classical(y))

=============================================================================
