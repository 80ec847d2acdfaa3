---------------------------- MODULE Assessment ----------------------------
(***************************************************************************)
(* The qualitative assessment of one asset: six criteria computed from its *)
(* context and metadata, or read from the answer of an LLM, and the DHS    *)
(* score and priority that follow; and the context the system suggests for *)
(* it.  A user edits the context one field at a time.  A text is the set   *)
(* of its words, a word the set of the tokens the code looks for in it;    *)
(* scores are in hundredths.                                               *)
(***************************************************************************)
EXTENDS Naturals, FiniteSets, FiniteSetsExt, Sequences

CONSTANTS
    Assets,     \* the assets an instance starts from
    Roles,      \* service roles users give, words
    Lifespans,  \* years users give
    Tokens,     \* Tokens[w]: the tokens that occur in word w
    None

Levels    == <<"low", "medium", "high", "critical">>                         \* CONTEXT_LEVELS
Exposures == <<"air_gapped", "internal_network", "dmz", "public_internet">>  \* EXPOSURE_LEVELS
LevelSet    == {Levels[i] : i \in 1 .. 4}
ExposureSet == {Exposures[i] : i \in 1 .. 4}
Grade(v, scale) == IF v = None THEN 0 ELSE (CHOOSE i \in 1 .. 4 : scale[i] = v) - 1

AssessmentAssumption ==
    /\ Lifespans \subseteq Nat
    /\ Roles \subseteq DOMAIN Tokens
    /\ \A a \in Assets : {a.type, a.name} \cup a.words \subseteq DOMAIN Tokens

VARIABLES
    asset,       \* [type, class, family, name, words, target, risk, edges]
    context,     \* effective_context of the asset
    assessment   \* the stored criteria, or None

vars == <<asset, context, assessment>>

Lowest(a, b)   == IF a <= b THEN a ELSE b
If(cond, n)    == IF cond THEN n ELSE 0
Known(v)       == v # None
Has(word, tokens)   == word # None /\ Tokens[word] \cap tokens # {}
Mention(S, tokens)  == \E w \in S : Has(w, tokens)

QuantumVulnerable(a) == a.family \in {"RSA", "DSA", "ECDSA", "ECDH", "DH"}
Targeted(a) == Known(a.target)
RoleOf(a, c) == IF Known(c.role) THEN c.role ELSE a.type

-----------------------------------------------------------------------------
(* The heuristic answer.                                                   *)

HeuristicScore(a, c) ==
    Lowest(100, If(QuantumVulnerable(a), 40) + 15
        + (CASE a.type = "certificate" -> 5 [] a.type = "key" -> 8
             [] a.type \in {"ssh_host_key", "ssh_user_key"} -> 10 [] OTHER -> 0)
        + 4 * Grade(c.sensitivity, Levels) + 5 * Grade(c.criticality, Levels)
        + 5 * Grade(c.exposure, Exposures)
        + (CASE ~Known(c.lifespan) -> 0 [] c.lifespan >= 10 -> 10
             [] c.lifespan >= 5 -> 6 [] c.lifespan > 0 -> 2 [] OTHER -> 0))

Rating(score) == CASE score >= 85 -> "critical" [] score >= 65 -> "high"
                   [] score >= 35 -> "medium" [] OTHER -> "low"

\* A criterion: its score, its rating, its own answer and its lists.
Criterion(score, own, parties) ==
    [score |-> Lowest(score, 100), rating |-> Rating(Lowest(score, 100)), own |-> own, parties |-> parties]

AssetValue(a, c) ==
    Criterion(20 + 16 * Grade(c.exposure, Exposures) + 14 * Grade(c.criticality, Levels)
        + If(Targeted(a), 8)
        + If(Has(RoleOf(a, c), {"auth", "customer", "payment", "db", "database", "api", "gateway", "vpn"}), 10),
        "none", {})

ProtectedInformation(a, c) ==
    Criterion(18 + 20 * Grade(c.sensitivity, Levels)
        + (CASE ~Known(c.lifespan) -> 0 [] c.lifespan >= 10 -> 12
             [] c.lifespan >= 5 -> 8 [] c.lifespan > 0 -> 3 [] OTHER -> 0)
        + If(Has(RoleOf(a, c), {"auth", "backup", "customer", "database", "db", "health", "identity",
                                "kms", "logging", "medical", "payment", "vault"}), 10)
        + If(QuantumVulnerable(a), 5),
        IF Known(c.sensitivity) THEN c.sensitivity ELSE "unknown", {})

Direction(exposure) ==
    CASE exposure = None -> "unknown" [] exposure = "air_gapped" -> "none"
      [] exposure = "internal_network" -> "internal_only" [] exposure = "dmz" -> "external_inbound"
      [] exposure = "public_internet" -> "external_bidirectional"

CommunicationScope(a, c) ==
    Criterion(12 + 22 * Grade(c.exposure, Exposures)
        + (CASE Direction(c.exposure) = "external_bidirectional" -> 10
             [] Direction(c.exposure) = "external_inbound" -> 5 [] OTHER -> 0)
        + If(Targeted(a), 5) + If(Targeted(a) /\ Known(a.target.protocol), 3),
        Direction(c.exposure), {})

\* Fault: a service in the DMZ is looked at before the Internet.
SharingScopeRoleFirst(a, c) ==
    LET role == RoleOf(a, c)  texts == {role} \cup a.words
    IN CASE Mention(texts, {"third-party", "third_party", "vendor", "external"}) -> "third_party"
         [] Mention(texts, {"partner", "saml", "oidc", "oauth", "federation", "sso"}) -> "partner"
         [] c.exposure = "dmz" \/ Has(role, {"customer", "mobile", "public"}) -> "public"
         [] c.exposure = "public_internet" \/ Has(role, {"api", "gateway", "mail"}) -> "third_party"
         [] c.exposure = "air_gapped" -> "none"
         [] c.exposure = "internal_network" -> "internal_only"
         [] OTHER -> "unknown"

SharingScope(a, c) ==
    LET role == RoleOf(a, c)  texts == {role} \cup a.words
    IN CASE Mention(texts, {"third-party", "third_party", "vendor", "external"}) -> "third_party"
         [] Mention(texts, {"partner", "saml", "oidc", "oauth", "federation", "sso"}) -> "partner"
         [] c.exposure = "public_internet" \/ Has(role, {"customer", "mobile", "public"}) -> "public"
         [] c.exposure = "dmz" \/ Has(role, {"api", "gateway", "mail"}) -> "third_party"
         [] c.exposure = "air_gapped" -> "none"
         [] c.exposure = "internal_network" -> "internal_only"
         [] OTHER -> "unknown"

ExternalParties(scope, role) ==
    CASE scope = "none" -> {"none_detected"} [] scope = "internal_only" -> {"internal_consumers"}
      [] scope = "partner" -> {"partner_systems"} [] scope = "third_party" -> {"third_party_integrations"}
      [] scope = "public" -> {"public_clients"} \cup (IF Has(role, {"customer"}) THEN {"customer_clients"} ELSE {})
      [] OTHER -> {"unknown"}

Grave == {"high", "critical"}

SharingLevel(a, c) ==
    LET scope == SharingScope(a, c)
    IN Criterion((CASE scope = "none" -> 10 [] scope = "internal_only" -> 22 [] scope = "partner" -> 58
                    [] scope = "third_party" -> 68 [] scope = "public" -> 82 [] OTHER -> 32)
        + If(c.sensitivity \in Grave /\ scope \in {"partner", "third_party", "public"}, 8)
        + If(Targeted(a) /\ scope # "none", 3),
        scope, ExternalParties(scope, RoleOf(a, c)))

InfrastructureTokens ==
    [identity_auth         |-> {"auth", "identity", "oidc", "oauth", "saml", "sso", "token"},
     data_store            |-> {"db", "database", "postgres", "mysql", "redis", "kafka", "storage"},
     payment               |-> {"payment", "billing", "settlement", "pci"},
     key_management        |-> {"kms", "vault", "pki", "ca", "signing", "certificate", "secret"},
     backup_recovery       |-> {"backup", "archive", "recovery"},
     service_gateway       |-> {"gateway", "api", "proxy", "ingress", "mesh"},
     operations_monitoring |-> {"monitoring", "logging", "ci runner", "admin"}]

InfrastructureRoles(a, c) ==
    LET texts == {c.role, a.name, a.type} \cup a.words
        named == {r \in DOMAIN InfrastructureTokens : Mention(texts, InfrastructureTokens[r])}
    IN  IF named # {} THEN named
        ELSE IF Targeted(a) THEN {"network_service"} ELSE {"none_detected"}

DependencyLevel(roles, c) ==
    CASE "none_detected" \in roles -> "none"
      [] roles \cap {"identity_auth", "data_store", "payment", "key_management", "backup_recovery"} # {} -> "critical"
      [] roles \cap {"service_gateway", "network_service"} # {} \/ c.criticality = "critical" -> "core"
      [] "operations_monitoring" \in roles -> "supporting"
      [] OTHER -> "unknown"

CriticalInfrastructure(a, c) ==
    LET roles == InfrastructureRoles(a, c)  level == DependencyLevel(roles, c)
    IN Criterion((CASE level = "none" -> 8 [] level = "supporting" -> 32 [] level = "core" -> 62
                    [] level = "critical" -> 82 [] OTHER -> 24)
        + If(c.criticality \in Grave, 8)
        + If(c.sensitivity \in Grave /\ level \in {"core", "critical"}, 5)
        + Lowest(3 * a.edges, 9),
        level, roles)

ProtectionDuration(a, c) ==
    LET score == Lowest(100, 14
        + (CASE ~Known(c.lifespan) -> 10 [] c.lifespan >= 15 -> 56 [] c.lifespan >= 10 -> 46
             [] c.lifespan >= 5 -> 30 [] c.lifespan > 0 -> 12 [] OTHER -> 0)
        + If(QuantumVulnerable(a), 16) + If(c.sensitivity \in Grave, 7) + If(c.criticality \in Grave, 5))
    IN Criterion(score, Rating(score), {})

\* _qualitative_dhs_criteria.
Heuristic(a, c) ==
    [asset_value             |-> AssetValue(a, c),
     protected_information   |-> ProtectedInformation(a, c),
     communication_scope     |-> CommunicationScope(a, c),
     sharing_level           |-> SharingLevel(a, c),
     critical_infrastructure |-> CriticalInfrastructure(a, c),
     protection_duration     |-> ProtectionDuration(a, c)]

\* In thousandths, before it is rounded to hundredths.
Confidence(a, c) ==
    LET filled == Cardinality({f \in DOMAIN c : Known(c[f])})
        score  == IF Known(a.risk) THEN a.risk ELSE HeuristicScore(a, c)
    IN  Lowest(950, 420 + (IF Known(a.risk) THEN 180 ELSE 40) + Lowest(score, 100)
            + Lowest(25 * filled, 120) + 50 + 30 + If(Targeted(a), 30) + If(QuantumVulnerable(a), 30))

-----------------------------------------------------------------------------
(* compute_dhs_risk, in tenths of a point.                                 *)

Weights == [asset_value |-> 10, protected_information |-> 11, communication_scope |-> 10,
            sharing_level |-> 8, critical_infrastructure |-> 12, protection_duration |-> 16]
Names == DOMAIN Weights
Nearest(n, d) == (2 * n + d) \div (2 * d)   \* ties are left to the floats of the code
Missing(criteria) == Names \ DOMAIN criteria

DhsScore(criteria) ==
    LET sum == MapThenSumSet(LAMBDA q : criteria[q].score * Weights[q], Names \ Missing(criteria))
    IN  Nearest(Nearest(100 * sum, 67), 100)
Priority(score10) == CASE score10 >= 80 -> 1 [] score10 >= 50 -> 2 [] OTHER -> 3

-----------------------------------------------------------------------------
(* parse_qualitative_risk_response.  Answers differ from a well-formed one *)
(* in one place; "" is a string that is not accepted.                      *)

Bad == [bad |-> TRUE]

\* _confidence: percentages are divided; negative scores become 0.
ParseScore(v) == IF v > 100 /\ v <= 10000 THEN v \div 100 ELSE Lowest(v, 100)

Accepted(v, own, lists) ==
    /\ v.rating \in LevelSet /\ v.own \in own
    /\ lists => v.parties # {}

\* Per criterion: the answers of its own and whether it has a list of its own.
ParseAssetValue(v)           == Accepted(v, {"none"}, FALSE)
ParseProtectedInformation(v) == Accepted(v, LevelSet \cup {"unknown"}, FALSE)
ParseCommunicationScope(v)   == Accepted(v, {"none", "internal_only", "external_inbound",
                                             "external_bidirectional", "unknown"}, FALSE)
ParseSharingLevel(v)         == Accepted(v, {"none", "internal_only", "partner", "third_party",
                                             "public", "unknown"}, TRUE)
ParseInfrastructure(v)       == Accepted(v, {"none", "supporting", "core", "critical", "unknown"}, TRUE)
ParseProtectionDuration(v)   == Accepted(v, LevelSet \cup {"unknown"}, FALSE)

\* _dhs_criteria: all six, or nothing.
Parse(answer) ==
    IF /\ Missing(answer) = {}
       /\ ParseAssetValue(answer.asset_value) /\ ParseProtectedInformation(answer.protected_information)
       /\ ParseCommunicationScope(answer.communication_scope) /\ ParseSharingLevel(answer.sharing_level)
       /\ ParseInfrastructure(answer.critical_infrastructure)
       /\ ParseProtectionDuration(answer.protection_duration)
    THEN [q \in Names |-> [answer[q] EXCEPT !.score = ParseScore(@)]]
    ELSE Bad

\* What an LLM may answer: the same, with another score or rating, a percentage,
\* without a list, or without a criterion.
Answers ==
    LET given == Heuristic(asset, context)
    IN  {given}
          \cup {[given EXCEPT ![q].score = s] : q \in Names, s \in {0, 100, 200, 8500, 20000}}
          \cup {[given EXCEPT ![q].rating = r] : q \in Names, r \in {"critical", ""}}
          \cup {[given EXCEPT ![q].own = ""] : q \in Names}
          \cup {[given EXCEPT ![q].parties = {}] : q \in Names}
          \cup {[p \in Names \ {q} |-> given[p]] : q \in Names}

-----------------------------------------------------------------------------
(* The context the system suggests.                                        *)

SuggestedRole(a) ==
    LET texts == {a.name} \cup a.words
    IN CASE Mention(texts, {"auth", "login", "idp", "oauth"}) -> "auth"
         [] Mention(texts, {"db", "database", "postgres", "mysql"}) -> "database"
         [] Mention(texts, {"mail", "smtp", "imap"}) -> "mail"
         [] Targeted(a) /\ Known(a.target.protocol) ->
              IF a.target.protocol \in {"tls", "http", "https"} THEN "web" ELSE a.target.protocol
         [] OTHER -> a.type

SuggestedExposure(a) ==
    CASE ~Targeted(a)   -> None
      [] a.target.local -> "internal_network"
      [] OTHER -> IF a.target.port \in {80, 443, 8443} THEN "public_internet" ELSE "dmz"

SuggestedCriticality(role, a) ==
    CASE role \in {"auth", "database", "kms", "payment", "pki"} -> "critical"
      [] role \in {"web", "api", "mail"} -> "high"
      [] OTHER -> IF a.class = "crypto" THEN "medium" ELSE "low"

SuggestedSensitivity(role, a) ==
    CASE role \in {"auth", "database", "payment", "pki"} -> "high"
      [] OTHER -> IF QuantumVulnerable(a) THEN "medium" ELSE "low"

SuggestedLifespan(a, sensitivity, role) ==
    CASE role \in {"pki", "archive", "backup"} -> 15
      [] sensitivity \in Grave /\ QuantumVulnerable(a) -> 10
      [] OTHER -> IF a.type \in {"key", "certificate"} THEN 5 ELSE 3

Or(v, default) == IF Known(v) THEN v ELSE default

\* _heuristic_context_suggestion.
Suggestion(a, c) ==
    LET role == Or(c.role, SuggestedRole(a))
        sensitivity == Or(c.sensitivity, SuggestedSensitivity(role, a))
    IN [sensitivity |-> sensitivity, role |-> role,
        exposure    |-> Or(c.exposure, SuggestedExposure(a)),
        criticality |-> Or(c.criticality, SuggestedCriticality(role, a)),
        lifespan    |-> Or(c.lifespan, SuggestedLifespan(a, sensitivity, role))]

-----------------------------------------------------------------------------
Init ==
    /\ asset \in Assets
    /\ context = [f \in {"sensitivity", "lifespan", "criticality", "exposure", "role"} |-> None]
    /\ assessment = None

\* PATCH /assets/{id}/context of one field.
PatchContext ==
    /\ \/ \E v \in LevelSet \cup {None} : context' = [context EXCEPT !.sensitivity = v]
       \/ \E v \in LevelSet \cup {None} : context' = [context EXCEPT !.criticality = v]
       \/ \E v \in Lifespans \cup {None} : context' = [context EXCEPT !.lifespan = v]
       \/ \E v \in ExposureSet \cup {None} : context' = [context EXCEPT !.exposure = v]
       \/ \E v \in Roles \cup {None} : context' = [context EXCEPT !.role = v]
    /\ assessment' = None
    /\ UNCHANGED asset

\* generate_qualitative_assessment: an answer that is not accepted is replaced.
Assess ==
    /\ assessment = None
    /\ \E answer \in Answers :
         assessment' = IF Parse(answer) = Bad THEN Heuristic(asset, context) ELSE Parse(answer)
    /\ UNCHANGED <<asset, context>>

\* The suggestion is accepted: every field is saved.
AcceptSuggestion ==
    /\ context' = Suggestion(asset, context)
    /\ assessment' = None
    /\ UNCHANGED asset

Next == PatchContext \/ Assess \/ AcceptSuggestion
Spec == Init /\ [][Next]_vars

TypeOK ==
    /\ asset \in Assets
    /\ DOMAIN context = {"sensitivity", "lifespan", "criticality", "exposure", "role"}
    /\ context.sensitivity \in LevelSet \cup {None} /\ context.criticality \in LevelSet \cup {None}
    /\ context.exposure \in ExposureSet \cup {None}
    /\ context.lifespan \in Nat \cup {None}
    /\ assessment # None => DOMAIN assessment \subseteq Names

-----------------------------------------------------------------------------
(* Properties.                                                             *)

\* Whatever an LLM answers, what is stored can be scored: six criteria, scores
\* within bounds, ratings of the scale (parse_qualitative_risk_response and
\* the fallback of generate_qualitative_assessment).
StoredIsScorable == assessment # None =>
    /\ Missing(assessment) = {}
    /\ \A q \in Names : assessment[q].score \in 0 .. 100 /\ assessment[q].rating \in LevelSet
    /\ DhsScore(assessment) \in 0 .. 100

\* Without a provider the heuristic answer goes through the same parser
\* (_mock_qualitative_llm_response): it must come back unchanged.
HeuristicParses == Parse(Heuristic(asset, context)) = Heuristic(asset, context)

GraverField(c, d, f, scale) ==
    /\ Known(c[f]) /\ Known(d[f]) /\ Grade(d[f], scale) > Grade(c[f], scale)
    /\ \A g \in DOMAIN c \ {f} : c[g] = d[g]
Graver(c, d) ==
    \/ GraverField(c, d, "sensitivity", Levels) \/ GraverField(c, d, "criticality", Levels)
    \/ GraverField(c, d, "exposure", Exposures)
    \/ /\ Known(c.lifespan) /\ Known(d.lifespan) /\ d.lifespan > c.lifespan
       /\ \A g \in DOMAIN c \ {"lifespan"} : c[g] = d[g]

\* A graver context lowers no criterion, nor the DHS score, nor the urgency:
\* eleven lists of thresholds and tokens agree on what is worse.
GraverStep ==
    Graver(context, context') =>
        LET before == Heuristic(asset, context)  after == Heuristic(asset, context')
        IN  /\ \A q \in Names : after[q].score >= before[q].score
            /\ DhsScore(after) >= DhsScore(before)
            /\ Priority(DhsScore(after)) <= Priority(DhsScore(before))
            /\ HeuristicScore(asset, context') >= HeuristicScore(asset, context)
            /\ Confidence(asset, context') >= Confidence(asset, context)

=============================================================================
