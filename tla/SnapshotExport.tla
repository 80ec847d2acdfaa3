--------------------------- MODULE SnapshotExport ---------------------------
(***************************************************************************)
(* What is read of one snapshot while it is written: its CBOM document     *)
(* (snapshots/cbom.py) and the pages of its risk list, each assembled by   *)
(* several queries outside a transaction, while a scan adds assets and     *)
(* workers save scores.  The table of scores has no unique constraint: a   *)
(* worker that finds no row inserts one.                                   *)
(***************************************************************************)
EXTENDS Naturals, Sequences, FiniteSets

CONSTANTS
    Assets,     \* how many assets the scan finds; they are named by their ids
    Scores,     \* values a score may take
    Workers,    \* processes that compute scores
    MaxWrites,  \* bound: scores computed
    None

ExportAssumption == Assets \in Nat \ {0} /\ Scores \subseteq Nat /\ MaxWrites \in Nat /\ None \notin Scores

VARIABLES
    found,    \* assets persisted so far: 1..found
    rows,     \* RiskScore
    fresh,    \* the next id of a row
    worker,   \* worker[w]: the rows it read of the asset it scores, by their ids
    reader,   \* a request that reads: the document or the walk so far
    writes

vars == <<found, rows, fresh, worker, reader, writes>>

Row == [id : Nat \ {0}, of : 1 .. Assets, score : Scores]
RowsOf(a) == {r \in rows : r.of = a}
IdsOf(a) == {r.id : r \in RowsOf(a)}
Resting == [pc |-> "idle", of |-> 0, seen |-> {}]
NoReader == [pc |-> "idle", assets |-> 0, plan |-> <<>>, subjects |-> {}, parts |-> <<>>, total |-> 0, walked |-> <<>>, quiet |-> TRUE]

Init ==
    /\ found = 0 /\ rows = {} /\ fresh = 1 /\ writes = 0
    /\ worker = [w \in Workers |-> Resting] /\ reader = NoReader

Disturb == reader' = [reader EXCEPT !.quiet = reader.pc = "idle"]

\* _persist_snapshot: the assets are inserted one by one.
Persist ==
    /\ found < Assets /\ found' = found + 1
    /\ Disturb /\ UNCHANGED <<rows, fresh, worker, writes>>

-----------------------------------------------------------------------------
\* _upsert_asset_risk: the rows of the asset are read, those after the first
\* deleted, the first updated or, if there was none, one inserted.
ReadRows(w) ==
    /\ worker[w].pc = "idle" /\ writes < MaxWrites /\ writes' = writes + 1
    /\ \E a \in 1 .. found : worker' = [worker EXCEPT ![w] = [pc |-> "read", of |-> a, seen |-> IdsOf(a)]]
    /\ UNCHANGED <<found, rows, fresh, reader>>

Rest(w) == worker' = [worker EXCEPT ![w] = Resting]

Insert(w) ==
    /\ worker[w].pc = "read" /\ worker[w].seen = {}
    /\ \E s \in Scores : rows' = rows \cup {[id |-> fresh, of |-> worker[w].of, score |-> s]}
    /\ fresh' = fresh + 1
    /\ Rest(w) /\ Disturb /\ UNCHANGED <<found, writes>>

Trim(w) ==
    /\ worker[w].pc = "read"
    /\ \E first \in worker[w].seen :
         /\ worker[w].seen # {first} /\ \A id \in worker[w].seen : first <= id
         /\ rows' = {r \in rows : r.id \notin worker[w].seen \ {first}}
         /\ worker' = [worker EXCEPT ![w].seen = {first}]
    /\ Disturb /\ UNCHANGED <<found, fresh, writes>>

\* save(update_fields) of a row deleted meanwhile fails and changes nothing.
Save(w) ==
    /\ worker[w].pc = "read"
    /\ \E first \in worker[w].seen, s \in Scores :
         /\ worker[w].seen = {first}
         /\ rows' = {IF r.id = first THEN [r EXCEPT !.score = s] ELSE r : r \in rows}
    /\ Rest(w) /\ Disturb /\ UNCHANGED <<found, fresh, writes>>

-----------------------------------------------------------------------------
\* GET .../export, build_cbom_document: the assets first.
BeginExport ==
    /\ reader.pc = "idle"
    /\ reader' = [NoReader EXCEPT !.pc = "plan", !.assets = found]
    /\ UNCHANGED <<found, rows, fresh, worker, writes>>

\* snapshot_migration_plan_items: by score, then by asset.
Before(r, s) ==
    \/ r.score > s.score
    \/ r.score = s.score /\ r.of < s.of
    \/ r.score = s.score /\ r.of = s.of /\ r.id < s.id
Lists(plan) ==
    /\ {plan[i] : i \in DOMAIN plan} = rows
    /\ \A i, j \in DOMAIN plan : i < j => Before(plan[i], plan[j])

Subjects(plan, n) == {plan[i].of : i \in DOMAIN plan} \cap 1 .. n

ReadPlan ==
    /\ reader.pc = "plan"
    /\ \E plan \in [1 .. Cardinality(rows) -> rows] :
         /\ Lists(plan)
         /\ reader' = [reader EXCEPT !.pc = "parts", !.plan = plan, !.subjects = Subjects(plan, reader.assets)]
    /\ UNCHANGED <<found, rows, fresh, worker, writes>>

\* build_cbom_component reads the row with the greatest id once more; its
\* item is the last of its asset in the plan.
Latest(a) ==
    IF RowsOf(a) = {} THEN None ELSE (CHOOSE r \in RowsOf(a) : \A s \in RowsOf(a) : s.id <= r.id).score

LastItemSkewed(plan, a) == IF a = 1 /\ plan # <<>> THEN Head(plan).score ELSE None   \* fault: items are matched by position
LastItem(plan, a) ==
    LET at == {i \in DOMAIN plan : plan[i].of = a}
    IN IF at = {} THEN None ELSE plan[CHOOSE i \in at : \A j \in at : j <= i].score

Component ==
    /\ reader.pc = "parts" /\ Len(reader.parts) < reader.assets
    /\ LET a == Len(reader.parts) + 1
       IN reader' = [reader EXCEPT !.parts = Append(@, [risk |-> Latest(a), item |-> LastItem(reader.plan, a)])]
    /\ UNCHANGED <<found, rows, fresh, worker, writes>>

Exported ==
    /\ reader.pc = "parts" /\ Len(reader.parts) = reader.assets
    /\ reader' = [reader EXCEPT !.pc = "exported"]
    /\ UNCHANGED <<found, rows, fresh, worker, writes>>

-----------------------------------------------------------------------------
\* GET .../risks or .../migration-plan, page after page of one row.  Rows are
\* ordered by score alone: the database returns ties in any order, and it may
\* be another one in the next query.
BeginWalk ==
    /\ reader.pc = "idle" /\ rows # {}
    /\ reader' = [NoReader EXCEPT !.pc = "walk", !.total = Cardinality(rows)]
    /\ UNCHANGED <<found, rows, fresh, worker, writes>>

AtOffset(r, n) ==
    /\ Cardinality({s \in rows : s.score > r.score}) <= n
    /\ n < Cardinality({s \in rows : s.score >= r.score})

Page ==
    /\ reader.pc = "walk" /\ Len(reader.walked) < Cardinality(rows)
    /\ \E r \in rows : /\ AtOffset(r, Len(reader.walked))
                       /\ reader' = [reader EXCEPT !.walked = Append(@, r), !.total = Cardinality(rows)]
    /\ UNCHANGED <<found, rows, fresh, worker, writes>>

Listed ==
    /\ reader.pc = "walk" /\ Len(reader.walked) >= Cardinality(rows)
    /\ reader' = [reader EXCEPT !.pc = "listed"]
    /\ UNCHANGED <<found, rows, fresh, worker, writes>>

Next ==
    \/ Persist \/ BeginExport \/ ReadPlan \/ Component \/ Exported \/ BeginWalk \/ Page \/ Listed
    \/ \E w \in Workers : ReadRows(w) \/ Insert(w) \/ Trim(w) \/ Save(w)

Spec == Init /\ [][Next]_vars

-----------------------------------------------------------------------------
TypeOK ==
    /\ found \in 0 .. Assets /\ rows \subseteq Row /\ fresh \in Nat \ {0} /\ writes \in 0 .. MaxWrites
    /\ \A w \in Workers : worker[w].pc \in {"idle", "read"} /\ worker[w].seen \subseteq 1 .. fresh - 1
    /\ reader.pc \in {"idle", "plan", "parts", "exported", "walk", "listed"}
    /\ \A r \in rows : r.id < fresh /\ \A s \in rows : r.id = s.id => r = s

\* "(asset, snapshot) unique" (docs/07-data-model.md:450): an asset has one
\* score.  Of the code it holds with one process that computes scores.
OneScorePerAsset == \A r, s \in rows : r.of = s.of => r = s

\* The annotation of the plan refers to components of the same document, even
\* if a scan adds assets while it is assembled (cbom.py:134).
SubjectsAreComponents == reader.subjects \subseteq 1 .. reader.assets

\* A document assembled while nothing is written, of assets with one score each,
\* tells one story: the score of each component is the one its migration was
\* recommended for.
QuietExportAgrees ==
    reader.pc = "exported" /\ reader.quiet /\ OneScorePerAsset =>
        \A a \in DOMAIN reader.parts : reader.parts[a].risk = reader.parts[a].item

=============================================================================
