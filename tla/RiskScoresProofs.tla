-------------------------- MODULE RiskScoresProofs --------------------------
(***************************************************************************)
(* Risk scores follow their context, for any number of assets, requests    *)
(* and overlapping clients, with one process that runs recompute tasks;    *)
(* RiskScoresTwoWorkers.cfg shows what two of them do.  ServicesProofs     *)
(* carries this over to Services.                                          *)
(***************************************************************************)
EXTENDS RiskScores, TLAPS

-----------------------------------------------------------------------------
(* The inductive invariant.                                                *)

OneWorker == \A v, w \in Workers : v = w

\* What TypeOK says, and what a worker holds at each of its steps.
Todo == UNION {[S -> Context] : S \in SUBSET AssetSet}
WorkerState ==
    [pc : {"idle", "claimed", "read", "score"}, task : Task \cup {None}, weights : Weights \cup {None}, todo : Todo]
ClientState == [patch : Patch \cup {Rename, None}, context : Context]

WorkersReady == \A w \in Workers :
    /\ worker[w].pc # "idle" => worker[w].task \in Task
    /\ worker[w].pc \in {"read", "score"} => worker[w].weights \in Weights

RiskTypes == TypeOK /\ WorkersReady

\* A task is about the asset a, which is in state s.
About(of, a, s) == (of = "target" /\ s = "linked") \/ of = "snapshot" \/ of = a

\* One that is queued will score it, or one a worker has claimed.
Waits(a)   == \E i \in DOMAIN queue : About(queue[i].of, a, asset[a])
Claimed(a) == \E w \in Workers : worker[w].pc \in {"claimed", "read"} /\ About(worker[w].task.of, a, asset[a])

\* A worker has read its context and not scored it yet.
Held(w, a) == worker[w].pc = "score" /\ a \in DOMAIN worker[w].todo
Settled(a) ==
    /\ \A w \in Workers : Held(w, a) => worker[w].todo[a] = Effective(a)
    /\ (\A w \in Workers : ~Held(w, a)) => Current(a)

Good(a) == owed[a] # "nothing" \/ Waits(a) \/ Claimed(a) \/ Settled(a)

AllGood == \A a \in AssetSet : asset[a] # "gone" => Good(a)

RiskInv == RiskTypes /\ AllGood

-----------------------------------------------------------------------------
(* Contexts, tasks and queues.                                             *)

LEMMA TodoTyped ==
    /\ Nothing \in Todo /\ DOMAIN Nothing = {}
    /\ \A t \in Todo : DOMAIN t \subseteq AssetSet /\ \A a \in DOMAIN t : t[a] \in Context
    /\ \A S \in SUBSET AssetSet : [S -> Context] \subseteq Todo
<1>1. \A S \in SUBSET AssetSet : [S -> Context] \subseteq Todo
  BY DEF Todo
<1>2. Nothing \in [{} -> Context] /\ DOMAIN Nothing = {}
  BY DEF Nothing
<1>3. ASSUME NEW t \in Todo PROVE DOMAIN t \subseteq AssetSet /\ \A a \in DOMAIN t : t[a] \in Context
  BY <1>3 DEF Todo
<1>. QED
  BY <1>1, <1>2, <1>3

LEMMA MergeTyped == \A own, inherited \in Context : Merge(own, inherited) \in Context
BY DEF Merge, Context

LEMMA UnsetTyped == Unset \in Context
BY DEF Unset, Context

LEMMA EffectiveTyped == ASSUME TypeOK, NEW a \in AssetSet PROVE Effective(a) \in Context
BY MergeTyped, UnsetTyped DEF TypeOK, Effective

LEMMA CoversAbout ==
    ASSUME RiskAssumption, NEW t \in Task, NEW a
    PROVE  a \in Covers(t) <=> a \in AssetSet /\ asset[a] # "gone" /\ About(t.of, a, asset[a])
<1>1. "target" \notin AssetSet /\ "snapshot" \notin AssetSet
  BY DEF RiskAssumption
<1>2. t.of \in {"target", "snapshot"} \cup AssetSet
  BY DEF Task
<1>3. CASE t.of = "target"
  BY <1>1, <1>3 DEF Covers, About, Linked, Exists
<1>4. CASE t.of = "snapshot"
  BY <1>1, <1>4 DEF Covers, About, Exists
<1>5. CASE t.of \in AssetSet
  BY <1>1, <1>5 DEF Covers, About, Exists
<1>. QED
  BY <1>2, <1>3, <1>4, <1>5

LEMMA Joined ==
    ASSUME NEW S, NEW s \in Seq(S), NEW t \in Seq(S)
    PROVE  /\ s \o t \in Seq(S) /\ Len(s \o t) = Len(s) + Len(t)
           /\ \A j \in 1 .. Len(s) : (s \o t)[j] = s[j]
           /\ \A j \in 1 .. Len(t) : (s \o t)[Len(s) + j] = t[j]
OBVIOUS

\* Removing one element of a queue keeps the others.
LEMMA Removed ==
    ASSUME NEW S, NEW q \in Seq(S), NEW i \in DOMAIN q
    PROVE  /\ RemoveAt(q, i) \in Seq(S)
           /\ \A j \in DOMAIN q : j # i => \E k \in DOMAIN RemoveAt(q, i) : RemoveAt(q, i)[k] = q[j]
<1> DEFINE front == SubSeq(q, 1, i - 1)
           back == SubSeq(q, i + 1, Len(q))
<1>1. i \in 1 .. Len(q) /\ Len(q) \in Nat
  OBVIOUS
<1>2. front \in Seq(S) /\ Len(front) = i - 1 /\ \A j \in 1 .. i - 1 : front[j] = q[j]
  BY <1>1
<1>3. back \in Seq(S) /\ Len(back) = Len(q) - i /\ \A j \in 1 .. Len(q) - i : back[j] = q[i + j]
  BY <1>1
<1>4. RemoveAt(q, i) = front \o back
  BY DEF RemoveAt
<1> HIDE DEF front, back
<1>5. /\ front \o back \in Seq(S) /\ Len(front \o back) = Len(front) + Len(back)
      /\ \A j \in 1 .. Len(front) : (front \o back)[j] = front[j]
      /\ \A j \in 1 .. Len(back) : (front \o back)[Len(front) + j] = back[j]
  <2>1. front \in Seq(S) /\ back \in Seq(S)
    BY <1>2, <1>3
  <2>2. /\ front \o back \in Seq(S) /\ Len(front \o back) = Len(front) + Len(back)
    BY <2>1, Joined
  <2>3. \A j \in 1 .. Len(front) : (front \o back)[j] = front[j]
    BY <2>1, Joined
  <2>4. \A j \in 1 .. Len(back) : (front \o back)[Len(front) + j] = back[j]
    BY <2>1, Joined
  <2>. QED
    BY <2>2, <2>3, <2>4
<1>6. Len(front \o back) = Len(q) - 1 /\ DOMAIN (front \o back) = 1 .. Len(q) - 1
  <2>1. Len(front) + Len(back) = Len(q) - 1
    BY <1>1, <1>2, <1>3
  <2>2. Len(front \o back) = Len(q) - 1
    BY <1>5, <2>1, Zenon
  <2>3. DOMAIN (front \o back) = 1 .. Len(front \o back)
    BY <1>5
  <2>. QED
    BY <2>2, <2>3, Zenon
<1>7. ASSUME NEW j \in DOMAIN q, j # i
      PROVE  \E k \in DOMAIN (front \o back) : (front \o back)[k] = q[j]
  <2>1. j \in 1 .. Len(q) /\ j \in Int
    BY <1>1
  <2>2. CASE j < i
    <3>1. j \in 1 .. i - 1 /\ j \in 1 .. Len(q) - 1
      BY <1>1, <2>1, <2>2
    <3>2. (front \o back)[j] = q[j]
      BY <1>2, <1>5, <3>1
    <3>. QED
      BY <1>6, <3>1, <3>2
  <2>3. CASE j > i
    <3>1. j - i \in 1 .. Len(q) - i /\ j - 1 \in 1 .. Len(q) - 1
      BY <1>1, <2>1, <2>3
    <3>2. (front \o back)[(i - 1) + (j - i)] = back[j - i] /\ back[j - i] = q[i + (j - i)]
      BY <1>2, <1>3, <1>5, <3>1
    <3>3. (i - 1) + (j - i) = j - 1 /\ i + (j - i) = j
      BY <1>1, <2>1
    <3>. QED
      BY <1>6, <3>1, <3>2, <3>3
  <2>. QED
    BY <1>1, <1>7, <2>1, <2>2, <2>3
<1>. QED
  BY <1>4, <1>5, <1>7

LEMMA Enqueued ==
    ASSUME TypeOK, NEW t \in Task, queue' = Append(queue, t)
    PROVE  /\ queue' \in Seq(Task)
           /\ \A i \in DOMAIN queue : i \in DOMAIN queue' /\ queue'[i] = queue[i]
           /\ \E i \in DOMAIN queue' : queue'[i] = t
<1>1. queue \in Seq(Task)
  BY DEF TypeOK
<1>. QED
  BY <1>1

LEMMA Dequeued ==
    ASSUME TypeOK, queue # <<>>
    PROVE  /\ Head(queue) \in Task /\ Tail(queue) \in Seq(Task)
           /\ \A i \in DOMAIN queue : \/ queue[i] = Head(queue)
                                      \/ \E j \in DOMAIN Tail(queue) : Tail(queue)[j] = queue[i]
<1>1. queue \in Seq(Task)
  BY DEF TypeOK
<1>2. Head(queue) \in Task /\ Tail(queue) \in Seq(Task)
  BY <1>1
<1>3. ASSUME NEW i \in DOMAIN queue, i # 1 PROVE \E j \in DOMAIN Tail(queue) : Tail(queue)[j] = queue[i]
  <2>1. i - 1 \in DOMAIN Tail(queue) /\ Tail(queue)[i - 1] = queue[i]
    BY <1>1, <1>3
  <2>. QED
    BY <2>1
<1>4. queue[1] = Head(queue)
  BY <1>1
<1>. QED
  BY <1>2, <1>3, <1>4

-----------------------------------------------------------------------------
(* The workers.                                                            *)

LEMMA RiskInit == ASSUME RiskAssumption, Init PROVE RiskInv
<1>1. \A a \in AssetSet : Effective(a) = Unset
  BY DEF Init, Effective, Merge, Unset
<1>2. \A w \in [Workers -> {Resting}] : w \in [Workers -> WorkerState]
  BY TodoTyped DEF Resting, WorkerState
<1>3. NoPatch \in ClientState
  BY UnsetTyped DEF NoPatch, ClientState
<1>4. TypeOK
  <2>1. worker \in [Workers -> WorkerState]
    BY <1>2 DEF Init
  <2>2. /\ target \in [exists : BOOLEAN, context : Context] /\ override \in [AssetSet -> Context]
        /\ score \in [AssetSet -> Score \cup {None}]
    BY UnsetTyped DEF Init, Score
  <2>3. client \in [Clients -> ClientState] /\ inference \in [context : Context \cup {None}]
    BY <1>3 DEF Init
  <2>4. /\ asset \in [AssetSet -> {"linked", "unlinked", "gone"}] /\ weights \in Weights
        /\ queue \in Seq(Task) /\ owed \in [AssetSet -> Reasons] /\ changes \in 0 .. MaxChanges
    BY DEF Init, Reasons, RiskAssumption
  <2>. QED
    BY <2>1, <2>2, <2>3, <2>4 DEF TypeOK, WorkerState, ClientState, Todo
<1>5. WorkersReady
  BY DEF Init, WorkersReady, Resting
<1>6. ASSUME NEW a \in AssetSet PROVE Settled(a)
  <2>1. score[a] \in Score /\ score[a].context = Unset
    BY <1>6, UnsetTyped DEF Init, Score
  <2>2. Current(a)
    BY <1>1, <2>1 DEF Current, RiskAssumption
  <2>. QED
    BY <2>2 DEF Init, Settled, Held, Resting
<1>. QED
  BY <1>4, <1>5, <1>6 DEF RiskInv, RiskTypes, AllGood, Good

\* What a worker is and holds.
LEMMA WorkerNow ==
    ASSUME TypeOK, NEW w \in Workers
    PROVE  /\ worker \in [Workers -> WorkerState] /\ worker[w] \in WorkerState
           /\ worker[w].todo \in Todo /\ DOMAIN worker[w].todo \subseteq AssetSet
<1>1. worker \in [Workers -> WorkerState]
  BY DEF TypeOK, WorkerState, Todo
<1>2. worker[w].todo \in Todo
  BY <1>1 DEF WorkerState
<1>. QED
  BY <1>1, <1>2, TodoTyped

\* A step of a worker, typed: k is what it holds afterwards.
LEMMA WorkerTyped ==
    ASSUME RiskTypes, NEW w \in Workers, NEW k \in WorkerState, worker' = [worker EXCEPT ![w] = k],
           k.pc # "idle" => k.task \in Task,
           k.pc \in {"read", "score"} => k.weights \in Weights,
           UNCHANGED <<target, asset, override, client, inference, changes>>,
           weights' \in Weights, score' \in [AssetSet -> Score \cup {None}], queue' \in Seq(Task),
           owed' \in [AssetSet -> Reasons]
    PROVE  RiskTypes'
<1>1. worker' \in [Workers -> WorkerState] /\ worker'[w] = k /\ \A v \in Workers \ {w} : worker'[v] = worker[v]
  BY WorkerNow DEF RiskTypes
<1>2. TypeOK'
  BY <1>1 DEF RiskTypes, TypeOK, WorkerState, Todo
<1>3. WorkersReady'
  BY <1>1 DEF RiskTypes, WorkersReady
<1>. QED
  BY <1>2, <1>3 DEF RiskTypes

LEMMA OweTyped ==
    ASSUME TypeOK, NEW S, NEW why \in {"nothing", "other columns", "unlinked", "inference", "cancelled", "killed", "failed"}
    PROVE  Owe(S, why) \in [AssetSet -> Reasons]
BY DEF Owe, TypeOK, Reasons

LEMMA RestsTyped ==
    /\ Resting \in WorkerState /\ Resting.pc = "idle" /\ Resting.todo = Nothing
BY TodoTyped DEF Resting, WorkerState

\* An asset of which nothing changes.
LEMMA SameEffective ==
    ASSUME NEW a, asset'[a] = asset[a], override'[a] = override[a], target'.context = target.context
    PROVE  Effective(a)' = Effective(a)
BY DEF Effective

LEMMA ClaimTaskStep ==
    ASSUME RiskAssumption, OneWorker, RiskInv, NEW w \in Workers, ClaimTask(w) PROVE RiskInv'
<1> DEFINE k == [Resting EXCEPT !.pc = "claimed", !.task = Head(queue)]
<1>1. /\ worker[w].pc = "idle" /\ queue # <<>> /\ worker' = [worker EXCEPT ![w] = k] /\ queue' = Tail(queue)
      /\ UNCHANGED <<target, asset, override, weights, score, client, inference, owed, changes>>
  BY DEF ClaimTask, Database
<1>2. TypeOK
  BY DEF RiskInv, RiskTypes
<1>3. k \in WorkerState /\ k.pc = "claimed" /\ k.task = Head(queue) /\ Head(queue) \in Task
  BY <1>1, <1>2, Dequeued, RestsTyped DEF WorkerState
<1> HIDE DEF k
<1>4. RiskTypes'
  BY <1>1, <1>2, <1>3, Dequeued, WorkerTyped DEF RiskInv, TypeOK
<1>5. worker'[w] = k
  BY <1>1, <1>2, WorkerNow
<1>6. ASSUME NEW a \in AssetSet, asset[a] # "gone" PROVE Good(a)'
  <2>1. Good(a)
    BY <1>6 DEF RiskInv, AllGood
  <2>2. CASE owed[a] # "nothing"
    BY <1>1, <2>2 DEF Good
  <2>3. CASE Waits(a)
    <3>1. PICK i \in DOMAIN queue : About(queue[i].of, a, asset[a])
      BY <2>3 DEF Waits
    <3>2. CASE queue[i] = Head(queue)
      BY <1>1, <1>3, <1>5, <3>1, <3>2 DEF Good, Claimed
    <3>3. CASE \E j \in DOMAIN Tail(queue) : Tail(queue)[j] = queue[i]
      BY <1>1, <3>1, <3>3 DEF Good, Waits
    <3>. QED
      BY <1>1, <1>2, <3>2, <3>3, Dequeued
  <2>4. CASE Claimed(a)
    BY <1>1, <2>4 DEF Claimed, OneWorker
  <2>5. CASE Settled(a)
    <3>1. Effective(a)' = Effective(a) /\ score'[a] = score[a]
      BY <1>1, SameEffective
    <3>2. \A v \in Workers : ~Held(v, a) /\ ~Held(v, a)'
      BY <1>1, <1>3, <1>5 DEF Held, OneWorker
    <3>. QED
      BY <2>5, <3>1, <3>2 DEF Good, Settled, Current
  <2>. QED
    BY <2>1, <2>2, <2>3, <2>4, <2>5 DEF Good
<1>7. AllGood'
  BY <1>1, <1>6 DEF AllGood
<1>. QED
  BY <1>4, <1>7 DEF RiskInv

LEMMA ResolveWeightsStep ==
    ASSUME RiskAssumption, OneWorker, RiskInv, NEW w \in Workers, ResolveWeights(w) PROVE RiskInv'
<1> DEFINE using == IF worker[w].task.weights # None THEN worker[w].task.weights ELSE weights
           k == [worker[w] EXCEPT !.pc = "read", !.weights = using]
<1>1. /\ worker[w].pc = "claimed" /\ weights' = IF worker[w].task.persist THEN using ELSE weights
      /\ UNCHANGED <<target, asset, override, score, queue, client, inference, owed, changes>>
  BY DEF ResolveWeights
<1>2. TypeOK /\ worker[w] \in WorkerState /\ worker[w].task \in Task
  BY <1>1, WorkerNow DEF RiskInv, RiskTypes, WorkersReady
<1>3. using \in Weights
  BY <1>2 DEF Task, TypeOK
<1>4. worker' = [worker EXCEPT ![w] = k]
  BY <1>1, <1>2, WorkerNow DEF ResolveWeights, WorkerState
<1> HIDE DEF using
<1>5. k \in WorkerState /\ k.pc = "read" /\ k.task = worker[w].task /\ k.weights = using
  BY <1>2, <1>3 DEF WorkerState
<1> HIDE DEF k
<1>6. RiskTypes'
  BY <1>1, <1>2, <1>3, <1>4, <1>5, WorkerTyped DEF RiskInv, TypeOK
<1>7. worker'[w] = k
  BY <1>2, <1>4, WorkerNow
<1>8. ASSUME NEW a \in AssetSet, asset[a] # "gone" PROVE Good(a)'
  <2>1. Effective(a)' = Effective(a) /\ score'[a] = score[a]
    BY <1>1, SameEffective
  <2>2. \A v \in Workers : v = w /\ ~Held(v, a) /\ ~Held(v, a)'
    BY <1>1, <1>5, <1>7 DEF Held, OneWorker
  <2>3. Settled(a) => Settled(a)'
    BY <2>1, <2>2 DEF Settled, Current
  <2>4. Claimed(a) => Claimed(a)'
    BY <1>1, <1>5, <1>7, <2>2 DEF Claimed
  <2>5. Waits(a) => Waits(a)'
    BY <1>1 DEF Waits
  <2>. QED
    BY <1>1, <1>8, <2>3, <2>4, <2>5 DEF RiskInv, AllGood, Good
<1>9. AllGood'
  BY <1>1, <1>8 DEF AllGood
<1>. QED
  BY <1>6, <1>9 DEF RiskInv

LEMMA ReadAssetsStep ==
    ASSUME RiskAssumption, OneWorker, RiskInv, NEW w \in Workers, ReadAssets(w) PROVE RiskInv'
<1> DEFINE covered == Covers(worker[w].task)
           todo == [a \in covered |-> Effective(a)]
           k == [worker[w] EXCEPT !.pc = "score", !.todo = todo]
<1>1. /\ worker[w].pc = "read" /\ owed' = Owe(covered, "nothing")
      /\ UNCHANGED <<target, asset, override, weights, score, queue, client, inference, changes>>
  BY DEF ReadAssets, Database
<1>2. /\ TypeOK /\ worker[w] \in WorkerState /\ worker[w].task \in Task /\ worker[w].weights \in Weights
  BY <1>1, WorkerNow DEF RiskInv, RiskTypes, WorkersReady
<1>3. \A a : a \in covered <=> a \in AssetSet /\ asset[a] # "gone" /\ About(worker[w].task.of, a, asset[a])
  BY <1>2, CoversAbout
<1>4. worker' = [worker EXCEPT ![w] = k]
  BY <1>1, <1>2, WorkerNow DEF ReadAssets, WorkerState
<1> HIDE DEF covered
<1>5. todo \in Todo /\ DOMAIN todo = covered /\ \A a \in covered : todo[a] = Effective(a)
  <2>1. covered \in SUBSET AssetSet
    BY <1>3
  <2>2. todo \in [covered -> Context]
    BY <1>2, <2>1, EffectiveTyped
  <2>. QED
    BY <2>1, <2>2, TodoTyped
<1> HIDE DEF todo
<1>6. k \in WorkerState /\ k.pc = "score" /\ k.task = worker[w].task /\ k.weights = worker[w].weights /\ k.todo = todo
  BY <1>2, <1>5 DEF WorkerState
<1> HIDE DEF k
<1>7. RiskTypes'
  BY <1>1, <1>2, <1>4, <1>6, OweTyped, WorkerTyped DEF RiskInv, TypeOK
<1>8. worker'[w] = k
  BY <1>2, <1>4, WorkerNow
<1>9. ASSUME NEW a \in AssetSet, asset[a] # "gone" PROVE Good(a)'
  <2>1. Effective(a)' = Effective(a) /\ score'[a] = score[a]
    BY <1>1, SameEffective
  <2>2. \A v \in Workers : v = w
    BY DEF OneWorker
  <2>3. CASE a \in covered
    <3>1. \A v \in Workers : Held(v, a)' /\ worker'[v].todo[a] = Effective(a)
      BY <1>5, <1>6, <1>8, <2>2, <2>3 DEF Held
    <3>. QED
      BY <2>1, <3>1 DEF Good, Settled
  <2>4. CASE a \notin covered
    <3>1. owed'[a] = owed[a]
      BY <1>1, <2>4 DEF Owe
    <3>2. \A v \in Workers : ~Held(v, a) /\ ~Held(v, a)'
      BY <1>1, <1>5, <1>6, <1>8, <2>2, <2>4 DEF Held
    <3>3. ~Claimed(a)
      BY <1>3, <1>9, <2>2, <2>4 DEF Claimed
    <3>4. Settled(a) => Settled(a)'
      BY <2>1, <3>2 DEF Settled, Current
    <3>5. Waits(a) => Waits(a)'
      BY <1>1 DEF Waits
    <3>. QED
      BY <1>9, <3>1, <3>3, <3>4, <3>5 DEF RiskInv, AllGood, Good
  <2>. QED
    BY <2>3, <2>4
<1>10. AllGood'
  BY <1>1, <1>9 DEF AllGood
<1>. QED
  BY <1>7, <1>10 DEF RiskInv

\* A worker leaves its task, and what it leaves undone is owed.
LEMMA WorkerLeaves ==
    ASSUME RiskAssumption, OneWorker, RiskInv, NEW w \in Workers, worker' = [worker EXCEPT ![w] = Resting],
           UNCHANGED <<target, asset, override, weights, score, queue, client, inference, changes>>,
           owed' \in [AssetSet -> Reasons],
           \A a \in AssetSet : \/ owed'[a] # "nothing"
                               \/ owed'[a] = owed[a] /\ (asset[a] = "gone" \/ (~Held(w, a) /\ ~Claimed(a)))
    PROVE  RiskInv'
<1>1. TypeOK /\ worker'[w] = Resting
  BY WorkerNow DEF RiskInv, RiskTypes
<1>2. RiskTypes'
  BY <1>1, RestsTyped, WorkerTyped DEF RiskInv, TypeOK
<1>3. ASSUME NEW a \in AssetSet, asset[a] # "gone", owed'[a] = "nothing" PROVE Good(a)'
  <2>1. Effective(a)' = Effective(a) /\ score'[a] = score[a]
    BY SameEffective
  <2>2. owed'[a] = owed[a] /\ ~Claimed(a) /\ \A v \in Workers : ~Held(v, a) /\ ~Held(v, a)'
    BY <1>1, <1>3, RestsTyped DEF Held, OneWorker
  <2>3. Settled(a) => Settled(a)'
    BY <2>1, <2>2 DEF Settled, Current
  <2>4. Waits(a) => Waits(a)'
    BY DEF Waits
  <2>. QED
    BY <1>3, <2>2, <2>3, <2>4 DEF RiskInv, AllGood, Good
<1>4. AllGood'
  BY <1>3 DEF AllGood, Good
<1>. QED
  BY <1>2, <1>4 DEF RiskInv

LEMMA FinishTaskStep ==
    ASSUME RiskAssumption, OneWorker, RiskInv, NEW w \in Workers, FinishTask(w) PROVE RiskInv'
<1>1. /\ worker[w].pc = "score" /\ DOMAIN worker[w].todo = {} /\ worker' = [worker EXCEPT ![w] = Resting]
      /\ UNCHANGED <<target, asset, override, weights, score, queue, client, inference, owed, changes>>
  BY DEF FinishTask, Remaining, Database
<1>2. \A a \in AssetSet : ~Held(w, a) /\ ~Claimed(a)
  BY <1>1 DEF Held, Claimed, OneWorker
<1>3. owed' \in [AssetSet -> Reasons]
  BY <1>1 DEF RiskInv, RiskTypes, TypeOK
<1>. QED
  BY <1>1, <1>2, <1>3, WorkerLeaves

LEMMA KillWorkerStep ==
    ASSUME RiskAssumption, OneWorker, RiskInv, NEW w \in Workers, KillWorker(w) PROVE RiskInv'
<1> DEFINE S == IF worker[w].pc = "score" THEN Remaining(w) ELSE Covers(worker[w].task)
<1>1. /\ worker[w].pc # "idle" /\ worker' = [worker EXCEPT ![w] = Resting] /\ owed' = Owe(S, "killed")
      /\ UNCHANGED <<target, asset, override, weights, score, queue, client, inference, changes>>
  BY DEF KillWorker, Database
<1>2. TypeOK /\ worker[w] \in WorkerState /\ worker[w].task \in Task
  BY <1>1, WorkerNow DEF RiskInv, RiskTypes, WorkersReady
<1>3. ASSUME NEW a \in AssetSet, a \notin S, asset[a] # "gone" PROVE ~Held(w, a) /\ ~Claimed(a)
  <2>1. \A v \in Workers : v = w
    BY DEF OneWorker
  <2>2. CASE worker[w].pc = "score"
    BY <1>3, <2>1, <2>2 DEF Held, Claimed, Remaining
  <2>3. CASE worker[w].pc # "score"
    <3>1. a \notin Covers(worker[w].task)
      BY <1>3, <2>3
    <3>2. ~About(worker[w].task.of, a, asset[a])
      BY <1>2, <1>3, <3>1, CoversAbout
    <3>. QED
      BY <2>1, <2>3, <3>2 DEF Held, Claimed
  <2>. QED
    BY <2>2, <2>3
<1> HIDE DEF S
<1>4. owed' \in [AssetSet -> Reasons]
  BY <1>1, <1>2, OweTyped
<1>5. \A a \in AssetSet : owed'[a] = IF a \in S THEN "killed" ELSE owed[a]
  BY <1>1 DEF Owe
<1>6. ASSUME NEW a \in AssetSet
      PROVE  \/ owed'[a] # "nothing"
             \/ owed'[a] = owed[a] /\ (asset[a] = "gone" \/ (~Held(w, a) /\ ~Claimed(a)))
  <2>1. CASE a \in S
    BY <1>5, <2>1
  <2>2. CASE a \notin S /\ asset[a] = "gone"
    BY <1>5, <2>2
  <2>3. CASE a \notin S /\ asset[a] # "gone"
    BY <1>3, <1>5, <2>3
  <2>. QED
    BY <2>1, <2>2, <2>3
<1>. QED
  BY <1>1, <1>4, <1>6, WorkerLeaves

LEMMA ScoreAssetStep ==
    ASSUME RiskAssumption, OneWorker, RiskInv, NEW w \in Workers, ScoreAsset(w) PROVE RiskInv'
<1> DEFINE todo == worker[w].todo
<1>1. PICK a \in AssetSet : /\ First(Remaining(w), a)
        /\ IF asset[a] # "gone"
           THEN /\ score' = [score EXCEPT ![a] = [context |-> todo[a], weights |-> worker[w].weights]]
                /\ worker' = [worker EXCEPT ![w].todo = [b \in Remaining(w) \ {a} |-> todo[b]]]
                /\ UNCHANGED owed
           ELSE /\ worker' = [worker EXCEPT ![w] = Resting]
                /\ owed' = Owe(Remaining(w), "failed")
                /\ UNCHANGED score
  BY DEF ScoreAsset
<1>2. /\ worker[w].pc = "score" /\ UNCHANGED <<target, asset, override, weights, queue, client, inference, changes>>
  BY DEF ScoreAsset
<1>3. /\ TypeOK /\ worker[w] \in WorkerState /\ worker[w].task \in Task /\ worker[w].weights \in Weights
      /\ todo \in Todo /\ DOMAIN todo \subseteq AssetSet
  BY <1>2, WorkerNow DEF RiskInv, RiskTypes, WorkersReady
<1>4. a \in DOMAIN todo /\ Remaining(w) = DOMAIN todo /\ todo[a] \in Context
  BY <1>1, <1>3, TodoTyped DEF First, Remaining
<1>5. \A v \in Workers : v = w
  BY DEF OneWorker
<1>6. CASE asset[a] = "gone"
  <2>1. /\ worker' = [worker EXCEPT ![w] = Resting] /\ UNCHANGED score
        /\ owed' = Owe(Remaining(w), "failed")
    BY <1>1, <1>6
  <2>2. owed' \in [AssetSet -> Reasons]
    BY <1>3, <2>1, OweTyped
  <2>3. \A b \in AssetSet : owed'[b] = IF b \in Remaining(w) THEN "failed" ELSE owed[b]
    BY <2>1 DEF Owe
  <2>4. \A b \in AssetSet : b \notin Remaining(w) => ~Held(w, b) /\ ~Claimed(b)
    BY <1>2, <1>4, <1>5 DEF Held, Claimed
  <2>5. ASSUME NEW b \in AssetSet
        PROVE  owed'[b] # "nothing" \/ (owed'[b] = owed[b] /\ ~Held(w, b) /\ ~Claimed(b))
    <3>1. CASE b \in Remaining(w)
      BY <2>3, <3>1
    <3>2. CASE b \notin Remaining(w)
      BY <2>3, <2>4, <3>2
    <3>. QED
      BY <3>1, <3>2
  <2>. QED
    BY <1>2, <2>1, <2>2, <2>5, WorkerLeaves
<1>7. CASE asset[a] # "gone"
  <2> DEFINE rest == [b \in Remaining(w) \ {a} |-> todo[b]]
             k == [worker[w] EXCEPT !.todo = rest]
             x == [context |-> todo[a], weights |-> worker[w].weights]
  <2>1. worker' = [worker EXCEPT ![w] = k] /\ score' = [score EXCEPT ![a] = x] /\ owed' = owed
    BY <1>1, <1>7
  <2>2. rest \in Todo /\ DOMAIN rest = DOMAIN todo \ {a} /\ \A b \in DOMAIN rest : rest[b] = todo[b]
    <3>1. rest \in [DOMAIN todo \ {a} -> Context]
      BY <1>3, <1>4, TodoTyped
    <3>. QED
      BY <1>3, <1>4, <3>1, TodoTyped
  <2> HIDE DEF rest
  <2>3. /\ k \in WorkerState /\ k.pc = "score" /\ k.task = worker[w].task /\ k.weights = worker[w].weights
        /\ k.todo = rest
    BY <1>2, <1>3, <2>2 DEF WorkerState
  <2> HIDE DEF k
  <2>4. x \in Score /\ x # None /\ x.context = todo[a]
    BY <1>3, <1>4 DEF Score, RiskAssumption
  <2> HIDE DEF x
  <2>5. score' \in [AssetSet -> Score \cup {None}] /\ score'[a] = x /\ \A b \in AssetSet \ {a} : score'[b] = score[b]
    BY <1>3, <2>1, <2>4 DEF TypeOK
  <2>6. RiskTypes'
    BY <1>2, <1>3, <2>1, <2>3, <2>5, WorkerTyped DEF RiskInv, TypeOK
  <2>7. worker'[w] = k
    BY <1>3, <2>1, WorkerNow
  <2>8. ASSUME NEW b \in AssetSet, asset[b] # "gone" PROVE Good(b)'
    <3>1. Effective(b)' = Effective(b)
      BY <1>2, SameEffective
    <3>2. ~Claimed(b) /\ (Waits(b) => Waits(b)')
      BY <1>2, <1>5 DEF Claimed, Waits
    <3>3. (Held(w, b) <=> b \in DOMAIN todo) /\ (Held(w, b)' <=> b \in DOMAIN todo \ {a})
      BY <1>2, <2>2, <2>3, <2>7 DEF Held
    <3>4. Settled(b) => Settled(b)'
      <4>1. CASE b = a
        <5>1. Settled(b) => todo[a] = Effective(a)
          BY <1>4, <3>3, <4>1 DEF Settled
        <5>2. Settled(b) => Current(b)'
          BY <2>4, <2>5, <3>1, <4>1, <5>1 DEF Current
        <5>. QED
          BY <1>5, <3>3, <4>1, <5>2 DEF Settled
      <4>2. CASE b # a
        <5>1. Held(w, b) => worker'[w].todo[b] = todo[b]
          BY <2>2, <2>3, <2>7, <3>3, <4>2
        <5>2. Current(b) => Current(b)'
          BY <2>5, <3>1, <4>2 DEF Current
        <5>. QED
          BY <1>5, <3>1, <3>3, <4>2, <5>1, <5>2 DEF Settled
      <4>. QED
        BY <4>1, <4>2
    <3>. QED
      BY <2>1, <2>8, <3>2, <3>4 DEF RiskInv, AllGood, Good
  <2>9. AllGood'
    BY <1>2, <2>8 DEF AllGood
  <2>. QED
    BY <2>6, <2>9 DEF RiskInv
<1>. QED
  BY <1>6, <1>7

-----------------------------------------------------------------------------
(* The requests.                                                           *)

\* What is good stays good when its context is the same and its task waits on,
\* and whatever changes is good once a task waits for it or a reason is given.
LEMMA RequestGood ==
    ASSUME NEW a \in AssetSet, Good(a), UNCHANGED worker,
           \/ owed'[a] # "nothing"
           \/ \E i \in DOMAIN queue' : About(queue'[i].of, a, asset'[a])
           \/ /\ owed'[a] = owed[a] /\ score'[a] = score[a] /\ asset'[a] = asset[a]
              /\ Effective(a)' = Effective(a) /\ (Waits(a) => Waits(a)')
    PROVE  Good(a)'
<1>1. CASE owed'[a] # "nothing"
  BY <1>1 DEF Good
<1>2. CASE \E i \in DOMAIN queue' : About(queue'[i].of, a, asset'[a])
  BY <1>2 DEF Good, Waits
<1>3. CASE /\ owed'[a] = owed[a] /\ score'[a] = score[a] /\ asset'[a] = asset[a]
           /\ Effective(a)' = Effective(a) /\ (Waits(a) => Waits(a)')
  <2>1. Claimed(a) => Claimed(a)'
    BY <1>3 DEF Claimed
  <2>2. \A w \in Workers : Held(w, a)' <=> Held(w, a)
    BY DEF Held
  <2>3. Settled(a) => Settled(a)'
    BY <1>3, <2>2 DEF Settled, Current
  <2>. QED
    BY <1>3, <2>1, <2>3 DEF Good
<1>. QED
  BY <1>1, <1>2, <1>3

\* The workers are not asked.
LEMMA RequestTyped == ASSUME RiskTypes, TypeOK', UNCHANGED worker PROVE RiskTypes'
BY DEF RiskTypes, WorkersReady

LEMMA TasksTyped ==
    /\ [of |-> "target", weights |-> None, persist |-> FALSE] \in Task
    /\ \A a \in AssetSet : [of |-> a, weights |-> None, persist |-> FALSE] \in Task
    /\ \A v \in Weights, p \in BOOLEAN : [of |-> "snapshot", weights |-> v, persist |-> p] \in Task
BY DEF Task

\* A request that only adds a task, about the assets S.
LEMMA EnqueueGood ==
    ASSUME RiskInv, UNCHANGED <<worker, owed, score, asset>>, NEW t \in Task, queue' = Append(queue, t),
           \A a \in AssetSet : Effective(a)' = Effective(a) \/ About(t.of, a, asset[a])
    PROVE  AllGood'
<1>1. TypeOK
  BY DEF RiskInv, RiskTypes
<1>2. ASSUME NEW a \in AssetSet, asset[a] # "gone" PROVE Good(a)'
  <2>1. Waits(a) => Waits(a)'
    BY <1>1, Enqueued DEF Waits
  <2>2. CASE About(t.of, a, asset[a])
    <3>1. PICK i \in DOMAIN queue' : queue'[i] = t
      BY <1>1, Enqueued
    <3>2. About(queue'[i].of, a, asset'[a])
      BY <2>2, <3>1
    <3>. QED
      BY <1>2, <3>2, RequestGood DEF RiskInv, AllGood
  <2>3. CASE Effective(a)' = Effective(a)
    BY <1>2, <2>1, <2>3, RequestGood DEF RiskInv, AllGood
  <2>. QED
    BY <2>2, <2>3
<1>. QED
  BY <1>2 DEF AllGood

\* A request that leaves the queue as it is, and owes what it changes.
LEMMA OwedGood ==
    ASSUME RiskInv, UNCHANGED <<worker, queue>>,
           \A a \in AssetSet : asset'[a] # "gone" =>
               /\ asset[a] # "gone"
               /\ \/ owed'[a] # "nothing"
                  \/ /\ owed'[a] = owed[a] /\ score'[a] = score[a] /\ asset'[a] = asset[a]
                     /\ Effective(a)' = Effective(a)
    PROVE  AllGood'
<1>1. ASSUME NEW a \in AssetSet, asset'[a] # "gone" PROVE Good(a)'
  <2>1. Good(a)
    BY <1>1 DEF RiskInv, AllGood
  <2>2. CASE owed'[a] # "nothing"
    BY <2>1, <2>2, RequestGood
  <2>3. CASE /\ owed'[a] = owed[a] /\ score'[a] = score[a] /\ asset'[a] = asset[a]
             /\ Effective(a)' = Effective(a)
    <3>1. Waits(a) => Waits(a)'
      BY <2>3 DEF Waits
    <3>. QED
      BY <2>1, <2>3, <3>1, RequestGood
  <2>. QED
    BY <1>1, <2>2, <2>3
<1>. QED
  BY <1>1 DEF AllGood

LEMMA ChangeTyped == ASSUME RiskAssumption, TypeOK, Change PROVE changes' \in 0 .. MaxChanges
BY DEF RiskAssumption, TypeOK, Change

LEMMA ReadTargetStep ==
    ASSUME RiskAssumption, RiskInv, NEW c \in Clients, NEW p \in Patch \cup {Rename}, ReadTarget(c, p)
    PROVE  RiskInv'
<1>1. /\ UNCHANGED <<target, asset, override, weights, score, queue, worker, inference, owed>> /\ Change
      /\ client' = [client EXCEPT ![c] = [patch |-> p, context |-> target.context]]
  BY DEF ReadTarget, Database
<1>2. TypeOK'
  BY <1>1, ChangeTyped DEF RiskInv, RiskTypes, TypeOK
<1>3. AllGood'
  BY <1>1, SameEffective, OwedGood
<1>. QED
  BY <1>1, <1>2, <1>3, RequestTyped DEF RiskInv

LEMMA PatchedTyped ==
    ASSUME TypeOK, NEW c \in Clients, client[c].patch # None
    PROVE  Patched(c) \in Context
<1>1. client[c] \in ClientState
  BY DEF TypeOK, ClientState
<1>2. client[c].context \in Context /\ client[c].patch \in Patch \cup {Rename}
  BY <1>1 DEF ClientState
<1>3. CASE client[c].patch = Rename
  BY <1>2, <1>3 DEF Patched
<1>4. CASE client[c].patch # Rename
  <2>1. client[c].patch.field \in Fields /\ client[c].patch.to \in Values \cup {None}
    BY <1>2, <1>4 DEF Patch
  <2>. QED
    BY <1>2, <1>4, <2>1 DEF Patched, Context
<1>. QED
  BY <1>3, <1>4

LEMMA SaveTargetStep ==
    ASSUME RiskAssumption, RiskInv, NEW c \in Clients, SaveTarget(c) PROVE RiskInv'
<1> DEFINE next == Patched(c)
           changed == next # client[c].context
           t == [of |-> "target", weights |-> None, persist |-> FALSE]
<1>1. /\ client[c].patch # None /\ client' = [client EXCEPT ![c] = NoPatch]
      /\ IF changed THEN queue' = Append(queue, t) ELSE UNCHANGED queue
      /\ IF changed \/ client[c].patch = Rename
         THEN target' = [exists |-> TRUE, context |-> next]
         ELSE UNCHANGED target
      /\ owed' = IF ~changed /\ target'.context # target.context THEN Owe(Linked, "other columns") ELSE owed
      /\ UNCHANGED <<asset, override, weights, score, worker, inference, changes>>
  BY DEF SaveTarget, Enqueue
<1>2. TypeOK /\ next \in Context /\ t \in Task
  BY <1>1, PatchedTyped, TasksTyped DEF RiskInv, RiskTypes
<1> HIDE DEF next, t
<1>3. owed' \in [AssetSet -> Reasons]
  BY <1>1, <1>2, OweTyped DEF TypeOK
<1>4. queue' \in Seq(Task)
  BY <1>1, <1>2, Enqueued DEF TypeOK
<1>5. NoPatch \in ClientState
  BY UnsetTyped DEF NoPatch, ClientState
<1>6. client' \in [Clients -> ClientState]
  BY <1>1, <1>2, <1>5 DEF TypeOK, ClientState
<1>7. target' \in [exists : BOOLEAN, context : Context]
  <2>1. CASE changed \/ client[c].patch = Rename
    <3>1. target' = [exists |-> TRUE, context |-> next]
      BY <1>1, <2>1
    <3>. QED
      BY <1>2, <3>1
  <2>2. CASE ~(changed \/ client[c].patch = Rename)
    BY <1>1, <1>2, <2>2 DEF TypeOK
  <2>. QED
    BY <2>1, <2>2
<1>8. TypeOK'
  BY <1>1, <1>2, <1>3, <1>4, <1>6, <1>7 DEF TypeOK, ClientState
\* The context of a target is that of its linked assets only.
<1>9. \A a \in AssetSet : asset[a] # "linked" => Effective(a)' = Effective(a)
  BY <1>1 DEF Effective
<1>10. CASE changed
  <2>1. \A a \in AssetSet : Effective(a)' = Effective(a) \/ About(t.of, a, asset[a])
    BY <1>9 DEF About, t
  <2>2. UNCHANGED owed /\ queue' = Append(queue, t)
    BY <1>1, <1>10
  <2>. QED
    BY <1>1, <1>2, <1>8, <2>1, <2>2, EnqueueGood, RequestTyped DEF RiskInv
<1>11. CASE ~changed
  <2>1. UNCHANGED queue
    BY <1>1, <1>11
  <2>2. ASSUME NEW a \in AssetSet, asset'[a] # "gone"
        PROVE  owed'[a] # "nothing" \/ (owed'[a] = owed[a] /\ Effective(a)' = Effective(a))
    <3>1. CASE target'.context = target.context
      BY <1>1, <3>1, SameEffective
    <3>2. CASE target'.context # target.context
      <4>1. owed' = Owe(Linked, "other columns")
        BY <1>1, <1>11, <3>2
      <4>2. owed'[a] = IF asset[a] = "linked" THEN "other columns" ELSE owed[a]
        BY <4>1 DEF Owe, Linked
      <4>. QED
        BY <1>9, <4>2
    <3>. QED
      BY <3>1, <3>2
  <2>3. AllGood'
    BY <1>1, <2>1, <2>2, OwedGood
  <2>. QED
    BY <1>1, <1>8, <2>3, RequestTyped DEF RiskInv
<1>. QED
  BY <1>10, <1>11

LEMMA DeleteTargetStep == ASSUME RiskAssumption, RiskInv, DeleteTarget PROVE RiskInv'
<1>1. /\ UNCHANGED <<override, weights, score, queue, worker, client, inference>> /\ Change
      /\ target' = [target EXCEPT !.exists = FALSE] /\ owed' = Owe(Linked, "unlinked")
      /\ asset' = [a \in AssetSet |-> IF a \in Linked THEN "unlinked" ELSE asset[a]]
  BY DEF DeleteTarget
<1>2. TypeOK
  BY DEF RiskInv, RiskTypes
<1>3. /\ asset' \in [AssetSet -> {"linked", "unlinked", "gone"}]
      /\ \A a \in AssetSet : asset'[a] = IF asset[a] = "linked" THEN "unlinked" ELSE asset[a]
  BY <1>1, <1>2 DEF TypeOK, Linked
<1>4. target' \in [exists : BOOLEAN, context : Context] /\ target'.context = target.context
  BY <1>1, <1>2 DEF TypeOK
<1>5. owed' \in [AssetSet -> Reasons]
  BY <1>1, <1>2, OweTyped
<1>6. TypeOK'
  BY <1>1, <1>2, <1>3, <1>4, <1>5, ChangeTyped DEF TypeOK
<1>7. \A a \in AssetSet : owed'[a] = IF asset[a] = "linked" THEN "unlinked" ELSE owed[a]
  BY <1>1 DEF Owe, Linked
<1>8. ASSUME NEW a \in AssetSet, asset'[a] # "gone"
      PROVE  /\ asset[a] # "gone"
             /\ owed'[a] # "nothing" \/ (owed'[a] = owed[a] /\ asset'[a] = asset[a] /\ Effective(a)' = Effective(a))
  <2>1. CASE asset[a] = "linked"
    BY <1>7, <2>1
  <2>2. CASE asset[a] # "linked"
    BY <1>1, <1>3, <1>4, <1>7, <1>8, <2>2, SameEffective
  <2>. QED
    BY <2>1, <2>2
<1>9. AllGood'
  BY <1>1, <1>8, OwedGood
<1>. QED
  BY <1>1, <1>6, <1>9, RequestTyped DEF RiskInv

LEMMA PatchAssetStep ==
    ASSUME RiskAssumption, RiskInv, NEW a \in AssetSet, NEW f \in Fields, NEW v \in Values \cup {None},
           PatchAsset(a, f, v)
    PROVE  RiskInv'
<1> DEFINE t == [of |-> a, weights |-> None, persist |-> FALSE]
<1>1. /\ UNCHANGED <<target, asset, weights, score, worker, client, inference, owed>> /\ Change
      /\ override' = [override EXCEPT ![a][f] = v] /\ queue' = Append(queue, t)
  BY DEF PatchAsset, Enqueue
<1>2. TypeOK /\ t \in Task
  BY TasksTyped DEF RiskInv, RiskTypes
<1>3. t.of = a
  OBVIOUS
<1> HIDE DEF t
<1>4. override' \in [AssetSet -> Context] /\ \A b \in AssetSet : b # a => override'[b] = override[b]
  BY <1>1, <1>2 DEF TypeOK, Context
<1>5. TypeOK'
  BY <1>1, <1>2, <1>4, Enqueued, ChangeTyped DEF TypeOK
<1>6. \A b \in AssetSet : Effective(b)' = Effective(b) \/ About(t.of, b, asset[b])
  BY <1>1, <1>3, <1>4, SameEffective DEF About
<1>7. AllGood'
  BY <1>1, <1>2, <1>6, EnqueueGood
<1>. QED
  BY <1>1, <1>5, <1>7, RequestTyped DEF RiskInv

LEMMA PutWeightsStep ==
    ASSUME RiskAssumption, RiskInv, NEW new \in Weights, PutWeights(new) PROVE RiskInv'
<1>1. /\ UNCHANGED <<target, asset, override, score, queue, worker, client, inference, owed>> /\ Change
      /\ weights' = new
  BY DEF PutWeights
<1>2. TypeOK'
  BY <1>1, ChangeTyped DEF RiskInv, RiskTypes, TypeOK
<1>3. AllGood'
  BY <1>1, SameEffective, OwedGood
<1>. QED
  BY <1>1, <1>2, <1>3, RequestTyped DEF RiskInv

LEMMA PostRecomputeStep ==
    ASSUME RiskAssumption, RiskInv, NEW v \in Weights, NEW p \in BOOLEAN, PostRecompute(v, p) PROVE RiskInv'
<1> DEFINE t == [of |-> "snapshot", weights |-> v, persist |-> p]
<1>1. /\ UNCHANGED <<target, asset, override, weights, score, worker, client, inference, owed>> /\ Change
      /\ queue' = Append(queue, t)
  BY DEF PostRecompute, Enqueue, Database
<1>2. TypeOK /\ t \in Task
  BY TasksTyped DEF RiskInv, RiskTypes
<1> HIDE DEF t
<1>3. TypeOK'
  BY <1>1, <1>2, Enqueued, ChangeTyped DEF TypeOK
<1>4. \A a \in AssetSet : Effective(a)' = Effective(a)
  BY <1>1, SameEffective
<1>5. AllGood'
  BY <1>1, <1>2, <1>4, EnqueueGood
<1>. QED
  BY <1>1, <1>3, <1>5, RequestTyped DEF RiskInv

\* What the cancelled task was about is owed; the other tasks wait on.
LEMMA CancelQueuedStep ==
    ASSUME RiskAssumption, RiskInv, NEW i \in DOMAIN queue, CancelQueued(i) PROVE RiskInv'
<1>1. /\ UNCHANGED <<target, asset, override, weights, score, worker, client, inference>> /\ Change
      /\ owed' = Owe(Covers(queue[i]), "cancelled") /\ queue' = RemoveAt(queue, i)
  BY DEF CancelQueued, Database
<1>2. TypeOK /\ queue \in Seq(Task)
  BY DEF RiskInv, RiskTypes, TypeOK
<1>3. queue[i] \in Task
  BY <1>2
<1>4. owed' \in [AssetSet -> Reasons]
  BY <1>1, <1>2, OweTyped
<1>5. /\ queue' \in Seq(Task)
      /\ \A j \in DOMAIN queue : j # i => \E k \in DOMAIN queue' : queue'[k] = queue[j]
  BY <1>1, <1>2, Removed
<1>6. TypeOK'
  BY <1>1, <1>2, <1>4, <1>5, ChangeTyped DEF TypeOK
<1>7. ASSUME NEW a \in AssetSet, asset[a] # "gone" PROVE Good(a)'
  <2>1. Good(a) /\ Effective(a)' = Effective(a)
    BY <1>1, <1>7, SameEffective DEF RiskInv, AllGood
  <2>2. owed'[a] = IF a \in Covers(queue[i]) THEN "cancelled" ELSE owed[a]
    BY <1>1 DEF Owe
  <2>3. CASE a \in Covers(queue[i])
    <3>1. owed'[a] # "nothing"
      BY <2>2, <2>3
    <3>. QED
      BY <1>1, <2>1, <3>1, RequestGood
  <2>4. CASE a \notin Covers(queue[i])
    <3>1. ~About(queue[i].of, a, asset[a])
      BY <1>3, <1>7, <2>4, CoversAbout
    <3>2. Waits(a) => Waits(a)'
      BY <1>1, <1>5, <3>1 DEF Waits
    <3>. QED
      BY <1>1, <2>1, <2>2, <2>4, <3>2, RequestGood
  <2>. QED
    BY <2>3, <2>4
<1>8. AllGood'
  BY <1>1, <1>7 DEF AllGood
<1>. QED
  BY <1>1, <1>6, <1>8, RequestTyped DEF RiskInv

LEMMA ResetSnapshotsStep == ASSUME RiskAssumption, RiskInv, ResetSnapshots PROVE RiskInv'
<1>1. /\ UNCHANGED <<target, override, weights, queue, worker, client, inference, owed>> /\ Change
      /\ asset' = [a \in AssetSet |-> IF a \in Older THEN "gone" ELSE asset[a]]
      /\ score' = [a \in AssetSet |-> IF a \in Older THEN None ELSE score[a]]
  BY DEF ResetSnapshots
<1>2. TypeOK'
  BY <1>1, ChangeTyped DEF RiskInv, RiskTypes, TypeOK
<1>3. ASSUME NEW a \in AssetSet, asset'[a] # "gone"
      PROVE  asset[a] # "gone" /\ score'[a] = score[a] /\ asset'[a] = asset[a] /\ Effective(a)' = Effective(a)
  <2>1. asset'[a] = asset[a] /\ score'[a] = score[a]
    BY <1>1, <1>3
  <2>. QED
    BY <1>1, <1>3, <2>1, SameEffective
<1>4. AllGood'
  BY <1>1, <1>3, OwedGood
<1>. QED
  BY <1>1, <1>2, <1>4, RequestTyped DEF RiskInv

LEMMA ReadForInferenceStep == ASSUME RiskAssumption, RiskInv, ReadForInference PROVE RiskInv'
<1>1. /\ UNCHANGED <<target, asset, override, weights, score, queue, worker, client, owed>> /\ Change
      /\ inference' = [context |-> target.context]
  BY DEF ReadForInference, Database
<1>2. TypeOK'
  BY <1>1, ChangeTyped DEF RiskInv, RiskTypes, TypeOK
<1>3. AllGood'
  BY <1>1, SameEffective, OwedGood
<1>. QED
  BY <1>1, <1>2, <1>3, RequestTyped DEF RiskInv

LEMMA WriteInferenceStep ==
    ASSUME RiskAssumption, RiskInv, NEW found \in [Fields -> Values], WriteInference(found) PROVE RiskInv'
<1> DEFINE next == Merge(inference.context, found)
<1>1. /\ inference.context # None /\ inference' = [context |-> None]
      /\ UNCHANGED <<asset, override, weights, score, queue, worker, client, changes>>
      /\ \/ /\ target' = [target EXCEPT !.context = next]
            /\ owed' = IF next = target.context THEN owed ELSE Owe(Linked, "inference")
         \/ UNCHANGED <<target, owed>>
  BY DEF WriteInference
<1>2. TypeOK
  BY DEF RiskInv, RiskTypes
<1>3. next \in Context
  <2>1. inference.context \in Context
    BY <1>1, <1>2 DEF TypeOK
  <2>2. found \in Context
    BY DEF Context
  <2>. QED
    BY <2>1, <2>2, MergeTyped
<1> HIDE DEF next
<1>4. target' \in [exists : BOOLEAN, context : Context] /\ (target' = target \/ target'.context = next)
  BY <1>1, <1>2, <1>3 DEF TypeOK
<1>5. owed' \in [AssetSet -> Reasons]
  <2>1. owed' = owed \/ owed' = Owe(Linked, "inference")
    BY <1>1
  <2>2. Owe(Linked, "inference") \in [AssetSet -> Reasons]
    BY <1>2, OweTyped
  <2>. QED
    BY <1>2, <2>1, <2>2 DEF TypeOK
<1>6. TypeOK'
  BY <1>1, <1>2, <1>4, <1>5 DEF TypeOK
<1>7. ASSUME NEW a \in AssetSet
      PROVE  owed'[a] # "nothing" \/ (owed'[a] = owed[a] /\ Effective(a)' = Effective(a))
  <2>1. CASE target'.context = target.context
    <3>1. owed'[a] = owed[a] \/ owed'[a] # "nothing"
      BY <1>1 DEF Owe
    <3>. QED
      BY <1>1, <2>1, <3>1, SameEffective
  <2>2. CASE target'.context # target.context
    <3>1. owed' = Owe(Linked, "inference")
      BY <1>1, <1>4, <2>2
    <3>2. owed'[a] = IF asset[a] = "linked" THEN "inference" ELSE owed[a]
      BY <3>1 DEF Owe, Linked
    <3>3. asset[a] # "linked" => Effective(a)' = Effective(a)
      BY <1>1 DEF Effective
    <3>. QED
      BY <3>2, <3>3
  <2>. QED
    BY <2>1, <2>2
<1>8. AllGood'
  BY <1>1, <1>7, OwedGood
<1>. QED
  BY <1>1, <1>6, <1>8, RequestTyped DEF RiskInv

-----------------------------------------------------------------------------
(* The theorems.                                                           *)

LEMMA RiskNext == ASSUME RiskAssumption, OneWorker, RiskInv, [Next]_vars PROVE RiskInv'
<1>1. ASSUME NEW w \in Workers, Work(w) \/ KillWorker(w) PROVE RiskInv'
  BY <1>1, ClaimTaskStep, ResolveWeightsStep, ReadAssetsStep, ScoreAssetStep, FinishTaskStep, KillWorkerStep DEF Work
<1>2. ASSUME NEW c \in Clients, SaveTarget(c) \/ \E p \in Patch \cup {Rename} : ReadTarget(c, p) PROVE RiskInv'
  BY <1>2, SaveTargetStep, ReadTargetStep
<1>3. ASSUME NEW a \in AssetSet, NEW f \in Fields, NEW v \in Values \cup {None}, PatchAsset(a, f, v) PROVE RiskInv'
  BY <1>3, PatchAssetStep
<1>4. ASSUME NEW v \in Weights, \/ PutWeights(v) \/ \E p \in BOOLEAN : PostRecompute(v, p) PROVE RiskInv'
  BY <1>4, PutWeightsStep, PostRecomputeStep
<1>5. ASSUME NEW i \in DOMAIN queue, CancelQueued(i) PROVE RiskInv'
  BY <1>5, CancelQueuedStep
<1>6. ASSUME DeleteTarget \/ ResetSnapshots \/ ReadForInference PROVE RiskInv'
  BY <1>6, DeleteTargetStep, ResetSnapshotsStep, ReadForInferenceStep
<1>7. ASSUME NEW found \in [Fields -> Values], WriteInference(found) PROVE RiskInv'
  BY <1>7, WriteInferenceStep
<1>8. CASE UNCHANGED vars
  <2>1. UNCHANGED <<target, asset, override, weights, score, queue, worker, client, inference, owed, changes>>
    BY <1>8 DEF vars
  <2>2. TypeOK'
    BY <2>1 DEF RiskInv, RiskTypes, TypeOK
  <2>3. AllGood'
    BY <2>1, SameEffective, OwedGood
  <2>. QED
    BY <2>1, <2>2, <2>3, RequestTyped DEF RiskInv
<1>9. Next => RiskInv'
  BY <1>1, <1>2, <1>3, <1>4, <1>5, <1>6, <1>7 DEF Next, Request
<1>. QED
  BY <1>8, <1>9

\* With no task left nothing waits, is claimed or held.
LEMMA RiskSound == ASSUME RiskInv PROVE ScoresFollowContext
<1>1. ASSUME Quiet, NEW a \in Exists, owed[a] = "nothing" PROVE Current(a)
  <2>1. a \in AssetSet /\ asset[a] # "gone"
    BY <1>1 DEF Exists
  <2>2. ~Waits(a)
    BY <1>1 DEF Quiet, Waits
  <2>3. ~Claimed(a) /\ \A w \in Workers : ~Held(w, a)
    BY <1>1 DEF Quiet, Claimed, Held
  <2>. QED
    BY <1>1, <2>1, <2>2, <2>3 DEF RiskInv, AllGood, Good, Settled
<1>. QED
  BY <1>1 DEF ScoresFollowContext

\* risk/services.py, targets/api.py, assets/api.py: with one process that runs
\* the tasks, the scores follow the contexts.
THEOREM ScoresFollow ==
    ASSUME RiskAssumption, OneWorker PROVE Spec => [](TypeOK /\ ScoresFollowContext)
<1>1. Init => RiskInv
  BY RiskInit
<1>2. RiskInv /\ [Next]_vars => RiskInv'
  BY RiskNext
<1>3. RiskInv => TypeOK /\ ScoresFollowContext
  BY RiskSound DEF RiskInv, RiskTypes
<1>. QED
  BY <1>1, <1>2, <1>3, PTL DEF Spec

=============================================================================
