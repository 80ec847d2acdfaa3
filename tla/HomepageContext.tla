-------------------------- MODULE HomepageContext --------------------------
(***************************************************************************)
(* The context inferred from the homepage of a target: the request, the    *)
(* answers that count, the rule with most keywords and the confidence.  A  *)
(* page is the number of keywords of each rule it contains.                *)
(***************************************************************************)
EXTENDS Naturals, Sequences, FiniteSetsExt

CONSTANTS
    Targets,  \* [transport, port]
    Statuses, \* codes of answers, 0 for one that is none
    HitCounts \* numbers of keywords of a rule a page contains

HomepageAssumption == HitCounts \subseteq Nat /\ Statuses \subseteq Nat

VARIABLES
    target, pc,
    answer,  \* status and content type of the page
    page,    \* page[i]: keywords of the i-th rule
    scan,    \* the rule _best_rule has reached, the best so far
    context  \* role and confidence in hundredths, or Unknown

vars == <<target, pc, answer, page, scan, context>>

\* ROLE_RULES: the role, and whether its confidence knows markers of a login.
Rule(role, marked) == [role |-> role, marked |-> marked]
RoleRules == << Rule("customer_portal", TRUE), Rule("authentication", TRUE), Rule("admin_console", TRUE),
                Rule("developer_api", FALSE), Rule("file_service", FALSE), Rule("monitoring", FALSE),
                Rule("public_web", FALSE) >>
Unknown == [role |-> "", confidence |-> 0]
Types == {"html", "plain", "binary", "none"}

TypeOK ==
    /\ pc \in {"request", "match", "done"} /\ target \in Targets
    /\ answer \in [status : Statuses, type : Types] /\ page \in [1..7 -> HitCounts]
    /\ scan \in [rule : 1..8, best : 0..7] /\ context.confidence \in 0..92

Init ==
    /\ target \in Targets /\ pc = "request" /\ context = Unknown
    /\ answer \in [status : Statuses, type : Types] /\ page \in [1..7 -> HitCounts]
    /\ scan = [rule |-> 1, best |-> 0]

\* _homepage_scheme.
Scheme(port) == IF port \in {443, 8443} THEN "https" ELSE IF port \in {80, 8080} THEN "http" ELSE "none"

\* infer_homepage_context: no page, no context; a page may also fail to come.
Request ==
    /\ pc = "request"
    /\ pc' = IF /\ target.transport = "TCP" /\ Scheme(target.port) # "none"
                /\ answer.status >= 200 /\ answer.status < 400
                /\ answer.type \in {"html", "plain", "none"}
             THEN "match" ELSE "done"
    /\ UNCHANGED <<target, answer, page, scan, context>>

Timeout == pc = "request" /\ pc' = "done" /\ UNCHANGED <<target, answer, page, scan, context>>

Hits(i) == IF i = 0 THEN 0 ELSE page[i]

MatchRuleLast ==   \* fault: of two rules that match as well the later counts
    /\ pc = "match" /\ scan.rule <= 7
    /\ scan' = [rule |-> scan.rule + 1, best |-> IF page[scan.rule] > 0 /\ page[scan.rule] >= Hits(scan.best) THEN scan.rule ELSE scan.best]
    /\ UNCHANGED <<target, pc, answer, page, context>>

\* _best_rule: one rule after the other, strictly more keywords than the best.
MatchRule ==
    /\ pc = "match" /\ scan.rule <= 7
    /\ scan' = [rule |-> scan.rule + 1, best |-> IF page[scan.rule] > Hits(scan.best) THEN scan.rule ELSE scan.best]
    /\ UNCHANGED <<target, pc, answer, page, context>>

Confidence(rule, hits, login) ==
    Min({92, 42 + Min({hits, 4}) * 11 + (IF answer.type = "html" THEN 5 ELSE 0) + (IF RoleRules[rule].marked /\ login THEN 7 ELSE 0)})

Infer ==
    /\ pc = "match" /\ scan.rule = 8
    /\ pc' = "done"
    /\ \E login \in BOOLEAN :
         context' = IF scan.best = 0 THEN Unknown
                    ELSE [role |-> RoleRules[scan.best].role, confidence |-> Confidence(scan.best, Hits(scan.best), login)]
    /\ UNCHANGED <<target, answer, page, scan>>

Next == Request \/ Timeout \/ MatchRule \/ Infer
Spec == Init /\ [][Next]_vars

-----------------------------------------------------------------------------
(* Properties.                                                             *)

\* Code: the scan of ROLE_RULES (homepage_context.py:171).  The role is the
\* first of those with most keywords on the page, and there is none without.
RoleHasMost ==
    context # Unknown =>
        \E i \in 1..7 : /\ RoleRules[i].role = context.role /\ page[i] > 0
                        /\ \A j \in 1..7 : page[j] <= page[i] /\ (j < i => page[j] < page[i])
=============================================================================
