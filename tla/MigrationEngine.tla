-------------------------- MODULE MigrationEngine --------------------------
(***************************************************************************)
(* The migration recommended for one asset (migration_engine/engine.py     *)
(* with mapping_rules.json) and the suggestion a language model may make   *)
(* of it.  What is recommended follows the context its last score was      *)
(* computed from, the agility follows the target as it is now.             *)
(***************************************************************************)
EXTENDS Integers, Sequences, FiniteSets, SequencesExt

CONSTANTS
    Assets,   \* [name, type, words]: an asset a scanner finds
    Roles,    \* service_role values; those of Archival name a long retention
    Archival

\* Of the upper-cased family and algorithm only the words that some rule or
\* marker looks for matter; "\DH" is DH as a word of its own, "P256" any of
\* the spellings of that curve, "ED25519" any Edwards curve, "SHA2" any of
\* SHA-256, SHA-384, SHA-512 and SHA2, which SHA256 contains.
Words == {"ML-KEM", "ML-DSA", "SLH-DSA", "X25519", "CURVE25519", "ECP", "NISTP256", "\\DH", "MODP",
          "DIFFIE-HELLMAN", "GROUP", "GROUP14", "SHA1", "AES-128", "SHA2", "AES-256", "CHACHA20", "HMAC",
          "ECDSA", "384", "P256", "ED25519", "ECDH", "X448", "RSA", "1024", "DSA", "DH"}
Types == {"certificate", "key", "key_agreement", "protocol", "ssh_host_key", "ssh_user_key"}

AssetAssumption ==
    /\ \A a \in Assets : a.words \subseteq Words /\ a.type \in Types
    /\ Archival \subseteq Roles /\ "" \in Roles \ Archival

VARIABLES
    asset,
    target,    \* its target: "none" if removed, "agent" if agent_enabled
    role,      \* service_role of the context of the target
    scored,    \* the role the factors of the last score were computed from
    held,      \* the suggestion that waits for the model, or the last one given
    step

vars == <<asset, target, role, scored, held, step>>

-----------------------------------------------------------------------------
\* Rules, in the order of the file.  A rule fits if it finds all words of one
\* of its alternatives; without types it fits every type.
Rule(any, types, kind, purpose, hybrid, replace) ==
    [any |-> any, types |-> types, kind |-> kind, purpose |-> purpose,
     hybrid |-> hybrid, replace |-> replace, long |-> {}, weak |-> {}]

Each(words) == {{w} : w \in words}
Current == {"current"}
Agreement == {"protocol", "key_agreement"}
Kem(any, types) == Rule(any, types, "kem", "key_agreement", {"X25519", "ML-KEM-768"}, {"ML-KEM-768"})
Signature(any, types, classical, pqc, long) ==
    [Rule(any, types, "signature", "digital_signature", {classical, pqc}, {pqc}) EXCEPT !.long = {long}]
Safe(words, purpose) == Rule(Each(words), Types, "safe_classical", purpose, Current, Current)

Rules ==
    LET Dh == Each({"\\DH", "MODP", "DIFFIE-HELLMAN", "GROUP"})
        Weak(rule) == [rule EXCEPT !.weak = {"1024"}]
        Small == "SLH-DSA-SHA2-128s"
    IN << Rule(Each({"ML-KEM", "ML-DSA", "SLH-DSA"}), Types, "pqc", "", Current, Current),
          Kem(Each({"X25519", "CURVE25519", "NISTP256", "ECP"}), Agreement),
          Weak(Kem(Dh, Agreement)),
          [Rule({{"SHA1"}}, Types, "hash", "digital_signature", {}, {"SHA-256+"}) EXCEPT !.weak = {"SHA1"}],
          Rule({{"AES-128"}}, Types, "symmetric", "symmetric_encryption", {}, {"AES-256"}),
          Safe({"SHA2"}, "hash_integrity"),
          Safe({"AES-256", "CHACHA20", "HMAC"}, "symmetric_encryption"),
          Signature({{"ECDSA", "384"}}, Types, "ECDSA P-384", "ML-DSA-87", "SLH-DSA-SHA2-192s"),
          Signature(Each({"P256", "NISTP256"}), Types \ Agreement, "ECDSA P-256", "ML-DSA-65", Small),
          Signature({{"ECDSA"}}, Types, "ECDSA P-256", "ML-DSA-65", Small),
          Signature({{"ED25519"}}, Types, "current", "ML-DSA-65", Small),
          [Kem({{"ECDH", "384"}, {"X448"}}, Types) EXCEPT !.hybrid = {"X448", "ML-KEM-1024"}, !.replace = {"ML-KEM-1024"}],
          Kem(Each({"ECDH", "X25519", "CURVE25519", "ECP", "NISTP256"}), Types),
          Weak(Kem(Dh, Types)),
          Weak([Kem({{"RSA"}}, {"key"} \cup Agreement) EXCEPT !.purpose = "key_exchange"]),
          Weak(Signature({{"RSA"}}, Types, "RSA-2048", "ML-DSA-65", Small)) >>

Fits(rule, a) == a.type \in rule.types /\ \E all \in rule.any : all \subseteq a.words

\* _infer_purpose, for the rule that states none.
Purpose(rule, a) ==
    CASE rule.purpose # ""                -> rule.purpose
      [] "SLH-DSA" \in a.words            -> "long_term_signature"
      [] "ML-DSA" \in a.words             -> "digital_signature"
      [] OTHER                            -> "key_exchange"

Unknown == [kind |-> "unknown", purpose |-> "unknown", hybrid |-> Current, replace |-> Current, long |-> {}, weak |-> FALSE]

Candidate == [a \in Assets |->
    LET i == SelectInSeq(Rules, LAMBDA rule : Fits(rule, a))
        rule == Rules[i]
    IN IF i = 0 THEN Unknown
       ELSE [kind |-> rule.kind, purpose |-> Purpose(rule, a), hybrid |-> rule.hybrid,
             replace |-> rule.replace, long |-> rule.long, weak |-> rule.weak \cap a.words # {}]]

LongTerm(c, r) == c.kind = "signature" /\ c.long # {} /\ r \in Archival
Specialize(c, r) ==
    IF LongTerm(c, r)
    THEN [c EXCEPT !.purpose = "long_term_signature", !.hybrid = (@ \ c.replace) \cup c.long, !.replace = c.long]
    ELSE c

\* choose_strategy: its last four branches all say hybrid.
StrategyByUse(c) ==                                     \* fault: long-term signatures are replaced at once
    CASE c.kind \in {"pqc", "safe_classical"} -> "no_change"
      [] c.kind \in {"hash", "symmetric"} \/ c.weak \/ c.purpose = "long_term_signature" -> "replace"
      [] OTHER                                -> "hybrid"
Strategy(c) ==
    CASE c.kind \in {"pqc", "safe_classical"}       -> "no_change"
      [] c.kind \in {"hash", "symmetric"} \/ c.weak -> "replace"
      [] OTHER                                      -> "hybrid"

FinalSet(c) == IF c.replace # {} THEN c.replace ELSE c.hybrid
TargetSet(c) == IF Strategy(c) = "hybrid" THEN FinalSet(c) ELSE c.replace

-----------------------------------------------------------------------------
\* What is known of the ability to change the asset.
Capabilities(a, tgt, r) ==
    {"inventory_fresh"}
        \cup (IF tgt # "none" THEN {"owner_known"} ELSE {})
        \cup (IF tgt = "agent" THEN {"config_policy", "rescan_validation"} ELSE {})
        \cup (IF tgt # "none" /\ r # "" THEN {"canary_supported"} ELSE {})
        \cup (IF a.type \in {"certificate", "key"} THEN {"rollback_supported"} ELSE {})

Blockers(strategy, caps, kind) ==
    LET changes == strategy # "no_change"
    IN (IF changes /\ "runtime_pqc_supported" \notin caps THEN {"runtime_capability_unknown"} ELSE {})
        \cup (IF changes /\ "config_policy" \notin caps THEN {"config_policy_missing"} ELSE {})
        \cup (IF changes /\ "rescan_validation" \notin caps THEN {"validation_probe_missing"} ELSE {})
        \cup (IF changes /\ "rollback_supported" \notin caps THEN {"rollback_undefined"} ELSE {})
        \cup (IF kind = "unknown" THEN {"algorithm_classification_unknown"} ELSE {})

Points == [config_policy |-> 20, automated_rotation |-> 20, rollback_supported |-> 20,
           rescan_validation |-> 15, owner_known |-> 10, canary_supported |-> 10, inventory_fresh |-> 5]

AtMost(x, y) == IF x < y THEN x ELSE y
AtLeast(x, y) == IF x > y THEN x ELSE y

Agility(caps, blockers) ==
    LET earned == FoldSet(LAMBDA c, sum : sum + Points[c], 0, caps \cap DOMAIN Points)
    IN AtLeast(0, AtMost(100, earned) - AtMost(40, 8 * Cardinality(blockers)))

Playbook(strategy, blockers) ==
    IF strategy = "no_change" THEN <<"monitor">>
    ELSE (IF blockers # {} THEN <<"remove_blockers">> ELSE <<>>)
         \o (IF strategy = "hybrid" THEN <<"prepare_pqc_transition", "complete_pqc_transition">>
             ELSE <<"replace_algorithm">>)

Recommendation(strategy, to, final) == [strategy |-> strategy, to |-> to, final |-> final]

Alternatives(rec) ==
    IF rec.strategy # "hybrid" \/ rec.final = rec.to THEN {}
    ELSE {Recommendation("replace", rec.final, rec.final)}

\* recommend_for_risk_score: the context of the factors, the target of now.
Item(a, tgt, r, s) ==
    LET c == Specialize(Candidate[a], s)
        caps == Capabilities(a, tgt, r)
        blockers == Blockers(Strategy(c), caps, c.kind)
    IN [purpose |-> c.purpose, kind |-> c.kind, hybrid |-> c.hybrid,
        recommended |-> Recommendation(Strategy(c), TargetSet(c), FinalSet(c)),
        blockers |-> blockers, agility |-> Agility(caps, blockers),
        playbook |-> Playbook(Strategy(c), blockers)]

\* is_quantum_vulnerable.
Vulnerable(a) ==
    /\ a.words \cap {"ML-KEM", "ML-DSA", "SLH-DSA"} = {}
    /\ a.words \cap {"RSA", "DSA", "ECDSA", "ECDH", "DH", "ED25519", "X25519", "X448", "CURVE25519", "MODP",
                     "DIFFIE-HELLMAN", "GROUP14", "P256", "NISTP256", "ECP"} # {}
Plan == Item(asset, target, role, scored)

-----------------------------------------------------------------------------
\* An answer of the model: no JSON at all, or an object whose fields name an
\* option, something else or nothing.
Answers == [json : {FALSE}, id : {"none"}, to : {"none"}, strategy : {"none"}]
           \cup [json : {TRUE}, id : {"none", "policy_default", "alternative_1", "other"},
                 to : {"none", "first", "second", "other"}, strategy : {"none", "hybrid", "replace", "other"}]

NoRequest == [given |-> FALSE, fallback |-> "none", named |-> FALSE, to |-> {}, options |-> <<>>]
Options(item) == <<item.recommended>> \o SetToSeq(Alternatives(item.recommended))
Ids == <<"policy_default", "alternative_1">>
Places == <<"first", "second">>

ByTargetAny(options, answer) == {i \in DOMAIN options : answer.to # "none"}   \* fault: any target is taken for an option
ByTarget(options, answer) ==
    {i \in DOMAIN options : answer.to = Places[i] /\ answer.strategy \in {"none", options[i].strategy}}

\* _parse_migration_suggestion_response and _apply_ai_migration_selection.
Select(options, answer) ==
    LET byId == {i \in DOMAIN options : Ids[i] = answer.id}
        found == IF byId # {} THEN byId ELSE ByTarget(options, answer)
        i == IF found = {} THEN 1 ELSE CHOOSE x \in found : \A y \in found : x <= y
    IN [given |-> TRUE, named |-> answer.id = Ids[i] \/ answer.to = Places[i], to |-> options[i].to, options |-> options,
        fallback |-> CASE found # {} -> "none" [] ~ answer.json -> "invalid_json" [] OTHER -> "candidate_not_allowed"]

Init ==
    /\ asset \in Assets /\ target \in {"none", "plain", "agent"} /\ role \in Roles
    /\ scored = (IF target = "none" THEN "" ELSE role) /\ held = NoRequest /\ step = "idle"

\* PATCH of the target; the recompute it enqueues comes later.
PatchTarget ==
    /\ target # "none"
    /\ target' \in {"plain", "agent"} /\ role' \in Roles
    /\ UNCHANGED <<asset, scored, held, step>>

RemoveTarget ==
    /\ target # "none"
    /\ target' = "none" /\ UNCHANGED <<asset, role, scored, held, step>>

Recompute ==
    /\ scored' = IF target = "none" THEN "" ELSE role
    /\ UNCHANGED <<asset, target, role, held, step>>

\* POST .../ai-suggestion: the item is made before the model is called.
Ask ==
    /\ step = "idle"
    /\ held' = [NoRequest EXCEPT !.options = Options(Plan)] /\ step' = "asked"
    /\ UNCHANGED <<asset, target, role, scored>>

Answer ==
    /\ step = "asked" /\ step' = "idle"
    /\ \E answer \in Answers : held' = Select(held.options, answer)
    /\ UNCHANGED <<asset, target, role, scored>>

\* MigrationSuggestionUnavailable: 503.
Unavailable ==
    /\ step = "asked" /\ step' = "idle" /\ held' = NoRequest
    /\ UNCHANGED <<asset, target, role, scored>>

Next == PatchTarget \/ RemoveTarget \/ Recompute \/ Ask \/ Answer \/ Unavailable

Spec == Init /\ [][Next]_vars

-----------------------------------------------------------------------------
\* The agility is a score within 0 to 100 and a plan that changes something
\* always names what blocks it: no code ever sets runtime_pqc_supported.
TypeOK ==
    /\ asset \in Assets /\ target \in {"none", "plain", "agent"} /\ role \in Roles /\ scored \in Roles
    /\ step \in {"idle", "asked"} /\ held.fallback \in {"none", "invalid_json", "candidate_not_allowed"}
    /\ Plan.agility \in 0 .. 100
    /\ Head(Plan.playbook) \in {"monitor", "remove_blockers"}

\* "AI suggestion rejects an unallowed algorithm" (test_api_mig_006g): an
\* answer is applied only if it named an option, and the policy's own target
\* is given otherwise.
AppliedIsNamed ==
    held.given => /\ held.fallback = "none" => held.named
                  /\ held.fallback # "none" => held.to = held.options[1].to

\* A plan is made from the context its score was computed from, which a PATCH
\* may have left behind, and from the target of now.  Until the recompute the
\* algorithms of a signature may be those of another use; the strategy, the
\* steps, what blocks them and the agility are those of the present already.
StalePlanSameWork ==
    LET now == Item(asset, target, role, IF target = "none" THEN "" ELSE role)
    IN /\ Plan.recommended.strategy = now.recommended.strategy /\ Plan.playbook = now.playbook
       /\ Plan.blockers = now.blockers /\ Plan.agility = now.agility
       /\ Plan.recommended # now.recommended => Plan.kind = "signature" /\ Plan.purpose # now.purpose

\* docs/11-migration-plan.md:91 of protocols: what is quantum vulnerable of the
\* algorithms they use gets a recommendation.
VulnerableProtocolMoves == asset.type = "protocol" /\ Vulnerable(asset) => Plan.recommended.strategy # "no_change"

=============================================================================
