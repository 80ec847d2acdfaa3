----------------------------- MODULE RiskEngine -----------------------------
(***************************************************************************)
(* The risk score of one asset (risk_engine/engine.py), and what becomes   *)
(* of it when the asset migrates or a user edits its context or the        *)
(* weights.  Factors are in hundredths, weights in halves; the code's      *)
(* floating point is taken to be exact.                                    *)
(***************************************************************************)
EXTENDS Integers, Sequences, FiniteSets, SequencesExt

CONSTANTS
    Algorithms,   \* [words, digits, bits, family]: see Words below
    Contexts,     \* field |-> its values, a sequence in ascending order of risk
    Roles,        \* service_role values of interest
    Hints,        \* protocol hints
    Addresses,    \* "private", "public", "none"
    WeightSets,   \* weights [a, d, e, l, c] in halves
    None          \* a field that is not set

\* Of the algorithm and family texts only the words the table looks for
\* matter; digits are the sizes that occur in the name of the algorithm.
Words == {"ML-KEM", "ML-DSA", "SLH-DSA", "FALCON", "+", "HYBRID", "RSA", "DSA",
          "ECDSA", "ECDH", "P-256", "P-384", "P-521", "X25519", "ED25519", "DH",
          "SHA-1", "SIGN", "SHA-256", "AES-128", "AES-256", "CHACHA20", "HMAC"}

EngineAssumption ==
    /\ \A alg \in Algorithms : alg.words \subseteq Words
    /\ \A w \in WeightSets : \A f \in DOMAIN w : w[f] \in 1 .. 4

VARIABLES asset, context, weights
vars == <<asset, context, weights>>

Fields == {"sensitivity", "exposure", "criticality", "years"}

TypeOK ==
    /\ asset \in [alg : Algorithms, hint : Hints, address : Addresses,
                  type : {"certificate", "key"}]
    /\ DOMAIN context = Fields \cup {"role"} /\ context.role \in Roles \cup {None}
    /\ \A f \in Fields : context[f] \in ToSet(Contexts[f]) \cup {None}
    /\ weights \in WeightSets

-----------------------------------------------------------------------------
\* The value of the first entry whose condition holds.
First(table, default) == FoldRight(LAMBDA row, rest : IF row[1] THEN row[2] ELSE rest, table, default)

SizedFactor(digits) ==
    First([i \in 1 .. 4 |-> <<<<1024, 2048, 3072, 4096>>[i] \in digits, 105 - 5 * i>>], 95)

\* algorithm_factor: an ordered search for words.
AlgorithmFactor(alg, type) ==
    LET Has(words) == words \cap alg.words # {}
    IN First(<<
        <<Has({"ML-KEM", "ML-DSA", "SLH-DSA", "FALCON"}), IF Has({"+", "HYBRID"}) THEN 10 ELSE 0>>,
        <<Has({"HYBRID"}), 10>>,
        <<Has({"RSA"}), SizedFactor(alg.digits)>>,
        <<Has({"DSA"}) /\ ~ Has({"ECDSA"}), SizedFactor(alg.digits)>>,
        <<Has({"ECDSA", "ECDH"}), First(<<<<Has({"P-256"}), 95>>, <<Has({"P-384"}), 90>>,
                                          <<Has({"P-521"}), 85>>>>, 90)>>,
        <<Has({"X25519", "ED25519"}), 90>>,
        <<Has({"DH"}), SizedFactor(alg.digits)>>,
        <<Has({"SHA-1"}), IF Has({"SIGN"}) \/ type = "certificate" THEN 100 ELSE 50>>,
        <<Has({"SHA-256"}), 5>>,
        <<Has({"AES-128"}), 10>>,
        <<Has({"AES-256", "CHACHA20", "HMAC"}), 5>> >>, 50)

A == AlgorithmFactor(asset.alg, asset.type)

SensitivityFactors == [critical |-> 100, high |-> 80, medium |-> 50, low |-> 20]
RoleSensitivity    == [auth |-> 90, pki |-> 90, kms |-> 90, database |-> 80, mail |-> 60]
ExposureFactors    == [public_internet |-> 100, dmz |-> 70, internal_network |-> 40, air_gapped |-> 10]
CriticalityFactors == [critical |-> 100, high |-> 75, medium |-> 50, low |-> 25]
RoleCriticality    == [auth |-> 100, pki |-> 100, kms |-> 100, payment |-> 100, database |-> 80,
                       mail |-> 60, vpn |-> 60, web_frontend |-> 70]

\* data_factor, exposure_factor, criticality_factor: what the user has set,
\* else a guess from the role, the protocol or the address.
D == IF context.sensitivity # None THEN SensitivityFactors[context.sensitivity]
     ELSE IF context.role \in DOMAIN RoleSensitivity THEN RoleSensitivity[context.role]
     ELSE IF asset.hint = "SMTP" THEN 60 ELSE 50

E == IF context.exposure # None THEN ExposureFactors[context.exposure]
     ELSE IF asset.address = "private" THEN 40
     ELSE IF asset.address = "public" THEN 100 ELSE 50

C == IF context.criticality # None THEN CriticalityFactors[context.criticality]
     ELSE IF context.role \in DOMAIN RoleCriticality THEN RoleCriticality[context.role] ELSE 50

\* lifespan_factor.
L == IF context.years = None THEN 50
     ELSE IF context.years >= 25 THEN 100 ELSE IF context.years >= 15 THEN 85
     ELSE IF context.years >= 10 THEN 70  ELSE IF context.years >= 5 THEN 50
     ELSE IF context.years >= 1 THEN 30   ELSE 10

Clamp(x, low, high) == IF x < low THEN low ELSE IF x > high THEN high ELSE x

\* apply_factor_weight, in two-hundredths: w away from the neutral 0.5.
Weigh[value \in 0 .. 100, w \in 1 .. 4] ==
    IF value = 0 THEN 0 ELSE IF value = 100 THEN 200
    ELSE Clamp(100 + (value - 50) * w, 0, 200)

\* Python's round: to the nearest, ties to the even number.
RoundHalfEven[n \in Nat, d \in Nat \ {0}] ==
    LET q == n \div d  r == 2 * (n % d)
    IN IF r > d \/ (r = d /\ q % 2 = 1) THEN q + 1 ELSE q

\* compute_risk: a * (d + e + l + c) / 4.
Score ==
    RoundHalfEven[Weigh[A, weights.a] * (Weigh[D, weights.d] + Weigh[E, weights.e] +
                                         Weigh[L, weights.l] + Weigh[C, weights.c]), 1600]

-----------------------------------------------------------------------------
Init ==
    /\ asset \in [alg : Algorithms, hint : Hints, address : Addresses, type : {"certificate", "key"}]
    /\ context = [f \in Fields \cup {"role"} |-> None]
    /\ weights \in WeightSets

\* A new scan finds another algorithm in the place of the old one.
Migrate(alg) == asset' = [asset EXCEPT !.alg = alg] /\ UNCHANGED <<context, weights>>

PatchAnything(f, v) ==   \* fault: the patch is not merged in the context
    context' = [g \in {f} |-> v] /\ UNCHANGED <<asset, weights>>
\* PATCH of a context field, of the target or of the asset.
PatchContext(f, v) == context' = [context EXCEPT ![f] = v] /\ UNCHANGED <<asset, weights>>

\* PUT /risk/weights, or the weights of a recompute.
ChangeWeights(w) == weights' = w /\ UNCHANGED <<asset, context>>

Next ==
    \/ \E alg \in Algorithms : Migrate(alg)
    \/ \E f \in Fields : \E v \in ToSet(Contexts[f]) : PatchContext(f, v)
    \/ \E role \in Roles : PatchContext("role", role)
    \/ \E w \in WeightSets : ChangeWeights(w)

Spec == Init /\ [][Next]_vars

-----------------------------------------------------------------------------
\* compute_risk: a context set to a graver value of the same field never
\* lowers the score, whatever the weights soften.
Graver(f, v, u) == \E i, j \in DOMAIN Contexts[f] : i < j /\ v = Contexts[f][i] /\ u = Contexts[f][j]
GraverStep ==
    \A f \in Fields : context'[f] # context[f] /\ Graver(f, context[f], context'[f]) => Score' >= Score
=============================================================================
