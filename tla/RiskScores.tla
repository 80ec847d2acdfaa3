----------------------------- MODULE RiskScores -----------------------------
(***************************************************************************)
(* A risk score is computed from the context of its asset: the overrides   *)
(* of the asset, else the context of its target.  Everyone who changes a   *)
(* context, the recompute tasks that follow, and the workers that run      *)
(* them.  A PATCH of a target reads the row in one statement and saves all *)
(* its columns in another; a worker reads contexts in one query and saves  *)
(* the scores one by one.                                                  *)
(***************************************************************************)
EXTENDS Naturals, Sequences, FiniteSets, SequencesExt

CONSTANTS
    Assets,      \* the assets of the one target, a sequence in the order of their ids
    Older,       \* the assets of the snapshots a reset deletes
    Fields,      \* CONTEXT_FIELDS
    Values,      \* what a user or the inference may put in a field
    None,        \* a field that is not set; an asset without score
    Rename,      \* a PATCH without context
    Weights,     \* weight vectors
    Clients,     \* PATCH requests that may overlap
    Workers,     \* processes that run recompute tasks
    MaxChanges   \* bound on requests

AssetSet == ToSet(Assets)
Context  == [Fields -> Values \cup {None}]
Unset    == [f \in Fields |-> None]
Score    == [context : Context, weights : Weights]

RiskAssumption ==
    /\ IsInjective(Assets) /\ Older \subseteq AssetSet /\ {"target", "snapshot"} \cap AssetSet = {}
    /\ None \notin Values /\ None \notin Score /\ Rename # None /\ Workers # {} /\ MaxChanges \in Nat

VARIABLES
    target,     \* [exists, context] of the target row
    asset,      \* asset[a]: "linked", "unlinked" (its target is NULL) or "gone"
    override,   \* override[a]: AssetContextOverride of a
    weights,    \* the default weights
    score,      \* score[a]: a Score, or None
    queue,      \* recompute tasks that are QUEUED, oldest first
    worker,     \* worker[w]: [pc, task, weights, todo]; todo: the contexts it read, by asset
    client,     \* client[c]: a PATCH between its read and its save
    inference,  \* a scan between its read of the target and its write
    owed,       \* ghost: why the score of a asset may be out of date
    changes

vars == <<target, asset, override, weights, score, queue, worker, client,
          inference, owed, changes>>
Database == <<target, asset, override, weights, score>>

Patch == [field : Fields, to : Values \cup {None}]
Task  == [of : {"target", "snapshot"} \cup AssetSet,
          weights : Weights \cup {None}, persist : BOOLEAN]
Reasons == {"nothing", "inference", "other columns", "unlinked", "cancelled",
            "killed", "failed"}

TypeOK ==
    /\ target \in [exists : BOOLEAN, context : Context]
    /\ asset \in [AssetSet -> {"linked", "unlinked", "gone"}]
    /\ override \in [AssetSet -> Context]
    /\ weights \in Weights
    /\ score \in [AssetSet -> Score \cup {None}]
    /\ queue \in Seq(Task)
    /\ worker \in [Workers -> [pc : {"idle", "claimed", "read", "score"},
                               task : Task \cup {None}, weights : Weights \cup {None},
                               todo : UNION {[S -> Context] : S \in SUBSET AssetSet}]]
    /\ client \in [Clients -> [patch : Patch \cup {Rename, None}, context : Context]]
    /\ inference \in [context : Context \cup {None}]
    /\ owed \in [AssetSet -> Reasons]
    /\ changes \in 0 .. MaxChanges

Nothing == [a \in {} |-> Unset]
Resting == [pc |-> "idle", task |-> None, weights |-> None, todo |-> Nothing]
NoPatch == [patch |-> None, context |-> Unset]

\* effective_context.
Merge(own, inherited) == [f \in Fields |-> IF own[f] # None THEN own[f] ELSE inherited[f]]
Effective(a) == Merge(override[a], IF asset[a] = "linked" THEN target.context ELSE Unset)

Init ==
    /\ target = [exists |-> TRUE, context |-> Unset]
    /\ asset = [a \in AssetSet |-> "linked"]
    /\ override = [a \in AssetSet |-> Unset]
    /\ weights \in Weights
    /\ score = [a \in AssetSet |-> [context |-> Unset, weights |-> weights]]
    /\ queue = <<>>
    /\ worker = [w \in Workers |-> Resting]
    /\ client = [c \in Clients |-> NoPatch]
    /\ inference = [context |-> None]
    /\ owed = [a \in AssetSet |-> "nothing"]
    /\ changes = 0

-----------------------------------------------------------------------------
(* The workers: process_recompute_task.                                    *)

Linked == {a \in AssetSet : asset[a] = "linked"}
Exists == {a \in AssetSet : asset[a] # "gone"}

\* The assets a task is about.
Covers(task) == Exists \cap (CASE task.of = "target"   -> Linked
                               [] task.of = "snapshot" -> AssetSet
                               [] OTHER                -> {task.of})

Owe(S, why) == [a \in AssetSet |-> IF a \in S THEN why ELSE owed[a]]
Remaining(w) == DOMAIN worker[w].todo

ClaimTask(w) ==
    /\ worker[w].pc = "idle" /\ queue # <<>>
    /\ worker' = [worker EXCEPT ![w] = [Resting EXCEPT !.pc = "claimed", !.task = Head(queue)]]
    /\ queue' = Tail(queue)
    /\ UNCHANGED <<Database, client, inference, owed, changes>>

\* run_recompute_payload: the weights of the task, or the default ones.
ResolveWeights(w) ==
    LET task  == worker[w].task
        using == IF task.weights # None THEN task.weights ELSE weights
    IN /\ worker[w].pc = "claimed"
       /\ worker' = [worker EXCEPT ![w].pc = "read", ![w].weights = using]
       /\ weights' = IF task.persist THEN using ELSE weights
       /\ UNCHANGED <<target, asset, override, score, queue, client, inference, owed, changes>>

\* Fault: the context of the target goes before the override of the asset.
ReadAssetsTargetFirst(w) ==
    LET covered == Covers(worker[w].task)
        read(a) == Merge(IF asset[a] = "linked" THEN target.context ELSE Unset, override[a])
    IN /\ worker[w].pc = "read"
       /\ worker' = [worker EXCEPT ![w].pc = "score", ![w].todo = [a \in covered |-> read(a)]]
       /\ owed' = Owe(covered, "nothing")
       /\ UNCHANGED <<Database, queue, client, inference, changes>>

\* One query: assets, targets and overrides.  (The task of an asset that is
\* gone raises here; nothing is left that its score could be owed to.)
ReadAssets(w) ==
    LET covered == Covers(worker[w].task)
    IN /\ worker[w].pc = "read"
       /\ worker' = [worker EXCEPT ![w].pc = "score", ![w].todo = [a \in covered |-> Effective(a)]]
       /\ owed' = Owe(covered, "nothing")
       /\ UNCHANGED <<Database, queue, client, inference, changes>>

\* The assets are scored in the order of their ids.
Position(a) == CHOOSE i \in DOMAIN Assets : Assets[i] = a
First(S, a) == a \in S /\ \A b \in S : Position(a) <= Position(b)

\* _upsert_asset_risk, a transaction of its own; the failure of one asset
\* ends the loop.
ScoreAsset(w) ==
    LET todo == worker[w].todo
    IN \E a \in AssetSet :
       /\ worker[w].pc = "score" /\ First(Remaining(w), a)
       /\ IF asset[a] # "gone"
          THEN /\ score' = [score EXCEPT ![a] = [context |-> todo[a], weights |-> worker[w].weights]]
               /\ worker' = [worker EXCEPT ![w].todo = [b \in Remaining(w) \ {a} |-> todo[b]]]
               /\ UNCHANGED owed
          ELSE /\ worker' = [worker EXCEPT ![w] = Resting]
               /\ owed' = Owe(Remaining(w), "failed")
               /\ UNCHANGED score
       /\ UNCHANGED <<target, asset, override, weights, queue, client, inference, changes>>

FinishTask(w) ==
    /\ worker[w].pc = "score" /\ Remaining(w) = {}
    /\ worker' = [worker EXCEPT ![w] = Resting]
    /\ UNCHANGED <<Database, queue, client, inference, owed, changes>>

\* The process dies and another one takes its place; the task stays RUNNING.
KillWorker(w) ==
    /\ worker[w].pc # "idle"
    /\ owed' = Owe(IF worker[w].pc = "score" THEN Remaining(w) ELSE Covers(worker[w].task), "killed")
    /\ worker' = [worker EXCEPT ![w] = Resting]
    /\ UNCHANGED <<Database, queue, client, inference, changes>>

Work(w) == ClaimTask(w) \/ ResolveWeights(w) \/ ReadAssets(w) \/ ScoreAsset(w) \/ FinishTask(w)

-----------------------------------------------------------------------------
(* The requests.                                                           *)

Change == changes < MaxChanges /\ changes' = changes + 1
Enqueue(of, with, persist) == queue' = Append(queue, [of |-> of, weights |-> with, persist |-> persist])

\* PATCH /targets/{id}: Target.objects.get.
ReadTarget(c, patch) ==
    /\ Change /\ target.exists /\ client[c].patch = None
    /\ client' = [client EXCEPT ![c] = [patch |-> patch, context |-> target.context]]
    /\ UNCHANGED <<Database, queue, worker, inference, owed>>

\* Fault: the patch is saved instead of the context it was merged in.
PatchedOnly(c) == IF client[c].patch = Rename THEN client[c].context
                  ELSE [f \in {client[c].patch.field} |-> client[c].patch.to]
Patched(c) == IF client[c].patch = Rename THEN client[c].context
              ELSE [client[c].context EXCEPT ![client[c].patch.field] = client[c].patch.to]

SaveTargetUnqueued(c) ==   \* fault: clearing a field enqueues nothing
    LET next == Patched(c)
    IN /\ client[c].patch # None
       /\ client' = [client EXCEPT ![c] = NoPatch]
       /\ IF client[c].patch # Rename /\ client[c].patch.to # None
          THEN Enqueue("target", None, FALSE) ELSE UNCHANGED queue
       /\ target' = [exists |-> TRUE, context |-> next]
       /\ UNCHANGED <<asset, override, weights, score, worker, inference, owed, changes>>

\* target.save() writes every column as the request read it, and inserts the
\* row anew when it was deleted meanwhile; a changed context enqueues.
SaveTarget(c) ==
    LET next == Patched(c)
        changed == next # client[c].context
    IN /\ client[c].patch # None
       /\ client' = [client EXCEPT ![c] = NoPatch]
       /\ IF changed THEN Enqueue("target", None, FALSE) ELSE UNCHANGED queue
       /\ IF changed \/ client[c].patch = Rename
          THEN target' = [exists |-> TRUE, context |-> next]
          ELSE UNCHANGED target
       /\ owed' = IF ~ changed /\ target'.context # target.context
                  THEN Owe(Linked, "other columns") ELSE owed
       /\ UNCHANGED <<asset, override, weights, score, worker, inference, changes>>

\* DELETE /targets/{id}: the assets stay, without target.
DeleteTarget ==
    /\ Change /\ target.exists
    /\ target' = [target EXCEPT !.exists = FALSE]
    /\ asset' = [a \in AssetSet |-> IF a \in Linked THEN "unlinked" ELSE asset[a]]
    /\ owed' = Owe(Linked, "unlinked")
    /\ UNCHANGED <<override, weights, score, queue, worker, client, inference>>

\* PATCH /assets/{id}/context: override and task in one transaction.
PatchAsset(a, f, v) ==
    /\ Change /\ a \in Exists
    /\ override' = [override EXCEPT ![a][f] = v]
    /\ Enqueue(a, None, FALSE)
    /\ UNCHANGED <<target, asset, weights, score, worker, client, inference, owed>>

\* PUT /risk/weights: nothing is recomputed.
PutWeights(new) ==
    /\ Change /\ weights # new
    /\ weights' = new
    /\ UNCHANGED <<target, asset, override, score, queue, worker, client, inference, owed>>

\* POST /snapshots/{id}/recompute.
PostRecompute(with, persist) ==
    /\ Change
    /\ Enqueue("snapshot", with, persist)
    /\ UNCHANGED <<Database, worker, client, inference, owed>>

\* POST /jobs/{id}/cancel of a task that waits.
CancelQueued(i) ==
    /\ Change
    /\ owed' = Owe(Covers(queue[i]), "cancelled")
    /\ queue' = RemoveAt(queue, i)
    /\ UNCHANGED <<Database, worker, client, inference>>

\* DELETE /settings/snapshots: the snapshots it listed, with their assets.
ResetSnapshots ==
    /\ Change /\ \E a \in Older : a \in Exists
    /\ asset' = [a \in AssetSet |-> IF a \in Older THEN "gone" ELSE asset[a]]
    /\ score' = [a \in AssetSet |-> IF a \in Older THEN None ELSE score[a]]
    /\ UNCHANGED <<target, override, weights, queue, worker, client, inference, owed>>

\* A scan reads its targets...
ReadForInference ==
    /\ Change /\ target.exists /\ inference.context = None
    /\ inference' = [context |-> target.context]
    /\ UNCHANGED <<Database, queue, worker, client, owed>>

\* ... and later writes the context it read, its blanks filled from the
\* homepage (_apply_homepage_context_inference).  Nothing is enqueued.
WriteInference(found) ==
    /\ inference.context # None
    /\ inference' = [context |-> None]
    /\ LET next == Merge(inference.context, found)
       IN IF next # inference.context /\ target.exists
          THEN /\ target' = [target EXCEPT !.context = next]
               /\ owed' = IF next = target.context THEN owed ELSE Owe(Linked, "inference")
          ELSE UNCHANGED <<target, owed>>
    /\ UNCHANGED <<asset, override, weights, score, queue, worker, client, changes>>

Request ==
    \/ \E c \in Clients : SaveTarget(c) \/ \E p \in Patch \cup {Rename} : ReadTarget(c, p)
    \/ \E a \in AssetSet, f \in Fields, v \in Values \cup {None} : PatchAsset(a, f, v)
    \/ \E new \in Weights : PutWeights(new)
    \/ \E with \in Weights, persist \in BOOLEAN : PostRecompute(with, persist)
    \/ \E i \in DOMAIN queue : CancelQueued(i)
    \/ DeleteTarget \/ ResetSnapshots \/ ReadForInference
    \/ \E found \in [Fields -> Values] : WriteInference(found)

Next == (\E w \in Workers : Work(w) \/ KillWorker(w)) \/ Request

Spec == Init /\ [][Next]_vars
\* The command that runs the tasks is kept running; requests come and go.
LiveSpec == Spec /\ \A w \in Workers : WF_vars(Work(w))

-----------------------------------------------------------------------------
Current(a) == score[a] # None /\ score[a].context = Effective(a)
Quiet == queue = <<>> /\ \A w \in Workers : worker[w].pc = "idle"

\* risk/services.py, targets/api.py, assets/api.py: with no recompute task
\* left, a score is that of the present context, unless the last change came
\* from one that enqueues nothing, or its task was cancelled, killed or failed.
ScoresFollowContext ==
    Quiet => \A a \in Exists : Current(a) \/ owed[a] # "nothing"

\* docs/06-risk-model.md 6.8: a changed context reaches the scores: once the
\* requests have ended, each is current or excused by one of the above.
ScoresReached == \A a \in Exists : Current(a) \/ owed[a] # "nothing"

=============================================================================
