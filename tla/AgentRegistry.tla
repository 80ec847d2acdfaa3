--------------------------- MODULE AgentRegistry ---------------------------
(***************************************************************************)
(* The agents, the row the API keeps of each of them and the worker that   *)
(* calls them.  A registration makes the token an agent then presents in   *)
(* heartbeats and expects of the worker; it is stored by one statement and *)
(* told by a later answer, which may be late or lost.                      *)
(***************************************************************************)
EXTENDS Naturals

CONSTANTS
    Agents,      \* (hostname, role): one process runs for each
    MaxTokens,   \* bound: registrations
    MaxChanges,  \* bound: restarts, deactivations and aging of the rows
    None

RegistryAssumption == MaxTokens \in Nat /\ MaxChanges \in Nat /\ None \notin Agents

VARIABLES
    row,      \* row[a]: the row of the agent, or None
    request,  \* registrations and heartbeats the API is working on
    agent,    \* agent[a]: State and register_loop of its process
    call,     \* the call of the worker: its agent, the token it read, its end
    issued,   \* tokens generated
    overlap,  \* agents that had two registrations open at once
    changes

vars == <<row, request, agent, call, issued, overlap, changes>>

Tokens == 1..MaxTokens
NoCall == [to |-> None, token |-> 0, held |-> 0, end |-> "none"]
Open(a) == {r \in request : r.of = a /\ r.kind = "register"}

TypeOK ==
    /\ row \in [Agents -> {None} \cup [token : Tokens, active : BOOLEAN, fresh : BOOLEAN]]
    /\ \A r \in request : r.of \in Agents /\ r.token \in Tokens
    /\ agent \in [Agents -> [pc : {"down", "register", "waiting", "registered"}, token : 0..MaxTokens, waits : 0..MaxTokens]]
    /\ issued \in 0..MaxTokens /\ overlap \subseteq Agents /\ changes \in 0..MaxChanges
    /\ call.end \in {"none", "reading", "accepted", "refused", "failed"}

-----------------------------------------------------------------------------
Down == [pc |-> "down", token |-> 0, waits |-> 0]

Init ==
    /\ row = [a \in Agents |-> None] /\ request = {} /\ call = NoCall
    /\ agent = [a \in Agents |-> Down]
    /\ issued = 0 /\ overlap = {} /\ changes = 0

(***************************************************************************)
(* The process of an agent.                                                *)

Change == changes < MaxChanges /\ changes' = changes + 1

Start(a) ==
    /\ agent[a].pc = "down"
    /\ agent' = [agent EXCEPT ![a] = [Down EXCEPT !.pc = "register"]]
    /\ UNCHANGED <<row, request, call, issued, overlap, changes>>

\* State is memory: id and token go with the process.
Stop(a) ==
    /\ Change /\ agent[a].pc # "down"
    /\ agent' = [agent EXCEPT ![a] = Down]
    /\ UNCHANGED <<row, request, call, issued, overlap>>

\* POST /agents/register arrives; the token is generated first.
SendRegister(a) ==
    /\ agent[a].pc = "register" /\ issued < MaxTokens
    /\ issued' = issued + 1
    /\ request' = request \cup {[kind |-> "register", of |-> a, token |-> issued', pc |-> "begun"]}
    /\ agent' = [agent EXCEPT ![a].pc = "waiting", ![a].waits = issued']
    /\ overlap' = IF Open(a) # {} THEN overlap \cup {a} ELSE overlap
    /\ UNCHANGED <<row, call, changes>>

\* Ten seconds without an answer: the loop sleeps and registers once more.
TimeoutRegister(a) ==
    /\ Change /\ agent[a].pc = "waiting"
    /\ agent' = [agent EXCEPT ![a].pc = "register"]
    /\ UNCHANGED <<row, request, call, issued, overlap>>

\* Fault: an answer without id ends the loop, the token is not taken.
ReceiveTokenless(a, r) ==
    /\ r \in request /\ r.of = a /\ r.pc = "answered"
    /\ request' = request \ {r}
    /\ agent' = IF agent[a].pc = "waiting" /\ agent[a].waits = r.token
                THEN [agent EXCEPT ![a].pc = "registered"] ELSE agent
    /\ UNCHANGED <<row, call, issued, overlap, changes>>

\* The answer ends the loop; nobody reads the answer of a request given up.
Receive(a, r) ==
    /\ r \in request /\ r.of = a /\ r.pc = "answered"
    /\ request' = request \ {r}
    /\ agent' = IF agent[a].pc = "waiting" /\ agent[a].waits = r.token
                THEN [agent EXCEPT ![a].pc = "registered", ![a].token = r.token] ELSE agent
    /\ UNCHANGED <<row, call, issued, overlap, changes>>

\* heartbeat_loop: a failure is logged and nothing else.
SendHeartbeat(a) ==
    /\ agent[a].pc # "down" /\ agent[a].token # 0
    /\ ~ \E r \in request : r.kind = "heartbeat" /\ r.of = a
    /\ request' = request \cup {[kind |-> "heartbeat", of |-> a, token |-> agent[a].token, pc |-> "begun"]}
    /\ UNCHANGED <<row, agent, call, issued, overlap, changes>>

(***************************************************************************)
(* The API.                                                                *)

Registered(token) == [token |-> token, active |-> TRUE, fresh |-> TRUE]
Step(r, pc) == request' = (request \ {r}) \cup {[r EXCEPT !.pc = pc]}

\* get_or_create: the row of the first registration is made whole.
Register(r) ==
    /\ r.kind = "register" /\ r.pc = "begun"
    /\ IF row[r.of] = None
       THEN row' = [row EXCEPT ![r.of] = Registered(r.token)] /\ Step(r, "answered")
       ELSE row' = row /\ Step(r, "found")
    /\ UNCHANGED <<agent, call, issued, overlap, changes>>

\* Any other registration rewrites every column of the row it found.
Rotate(r) ==
    /\ r.kind = "register" /\ r.pc = "found"
    /\ row' = [row EXCEPT ![r.of] = Registered(r.token)]
    /\ Step(r, "answered")
    /\ UNCHANGED <<agent, call, issued, overlap, changes>>

\* The token of a heartbeat against the row it reads.
Validate(r) ==
    /\ r.kind = "heartbeat" /\ r.pc = "begun"
    /\ IF row[r.of] # None /\ row[r.of].active /\ row[r.of].token = r.token
       THEN Step(r, "valid") ELSE request' = request \ {r}
    /\ UNCHANGED <<row, agent, call, issued, overlap, changes>>

\* Fault: the row is saved as it was when its token was compared.
MarkSeenWhole(r) ==
    /\ r.kind = "heartbeat" /\ r.pc = "valid"
    /\ row' = [row EXCEPT ![r.of] = Registered(r.token)]
    /\ request' = request \ {r}
    /\ UNCHANGED <<agent, call, issued, overlap, changes>>

\* Only last_seen is saved, whatever became of the row since.
MarkSeen(r) ==
    /\ r.kind = "heartbeat" /\ r.pc = "valid"
    /\ row' = [row EXCEPT ![r.of].fresh = TRUE]
    /\ request' = request \ {r}
    /\ UNCHANGED <<agent, call, issued, overlap, changes>>

\* DELETE /agents/{id} saves active and keeps the row.
Deactivate(a) ==
    /\ Change /\ row[a] # None
    /\ row' = [row EXCEPT ![a].active = FALSE]
    /\ UNCHANGED <<request, agent, call, issued, overlap>>

\* Five minutes without a heartbeat.
Age(a) ==
    /\ Change /\ row[a] # None /\ row[a].fresh
    /\ row' = [row EXCEPT ![a].fresh = FALSE]
    /\ UNCHANGED <<request, agent, call, issued, overlap>>

(***************************************************************************)
(* The worker: _supported_agent_scanners, post_scan, Handler.do_POST.      *)

ReadAgent(a) ==
    /\ call.end # "reading"
    /\ row[a] # None /\ row[a].active /\ row[a].fresh
    /\ call' = [to |-> a, token |-> row[a].token, held |-> agent[a].token, end |-> "reading"]
    /\ UNCHANGED <<row, request, agent, issued, overlap, changes>>

Authorized(a, token) == agent[a].token # 0 /\ token = agent[a].token

PostScan ==
    /\ call.end = "reading"
    /\ call' = [call EXCEPT !.end = IF agent[call.to].pc = "down" THEN "failed"
                                    ELSE IF Authorized(call.to, call.token) THEN "accepted" ELSE "refused"]
    /\ UNCHANGED <<row, request, agent, issued, overlap, changes>>

-----------------------------------------------------------------------------
AgentStep(a) == Start(a) \/ SendRegister(a) \/ SendHeartbeat(a)
Handle(r) == Register(r) \/ Rotate(r) \/ Validate(r) \/ MarkSeen(r)

Next ==
    \/ \E a \in Agents : \/ AgentStep(a) \/ Stop(a) \/ TimeoutRegister(a)
                         \/ \E r \in request : Receive(a, r)
                         \/ Deactivate(a) \/ Age(a) \/ ReadAgent(a)
    \/ \E r \in request : Handle(r)
    \/ PostScan

Spec == Init /\ [][Next]_vars

\* The loops of an agent run, the API answers what it is sent.
LiveSpec ==
    /\ Spec
    /\ \A a \in Agents : /\ WF_vars(Start(a)) /\ WF_vars(SendRegister(a)) /\ WF_vars(SendHeartbeat(a))
                         /\ WF_vars(\E r \in request : r.of = a /\ Handle(r))
                         /\ WF_vars(\E r \in request : Receive(a, r))

-----------------------------------------------------------------------------
(* Properties.                                                             *)

Settled(a) == agent[a].pc = "registered" /\ Open(a) = {}

\* Code: a registration stores the hash and the runtime token of the token it
\* answers with.  Unless two registrations of an agent overlapped, the token a
\* registered agent goes by is the one the API stores.
TokensAgree == \A a \in Agents : Settled(a) /\ a \notin overlap => row[a] # None /\ row[a].token = agent[a].token

\* Code: heartbeat_agent saves last_seen alone (agents/api.py:125), a
\* deactivation active alone.  A deactivated agent comes back, and a token
\* changes, only by a registration.
RestoringStep ==
    \A a \in Agents : (row[a] # None /\ row'[a] # row[a] /\ (row'[a].token # row[a].token \/ (row'[a].active /\ ~ row[a].active)))
          => \E r \in request : r.of = a /\ r.kind = "register" /\ r.pc = "found" /\ r.token = row'[a].token

\* Code: post_scan sends the runtime token of the row the worker read.  An
\* agent that did not register since refuses a call only when it had not heard
\* of its token yet or its registrations overlapped.
RefusedForAReason ==
    call.end = "refused" => \/ call.to \in overlap
                            \/ agent[call.to].token # call.held
                            \/ agent[call.to].pc # "registered"

\* Code: register_loop ends only with an answer.  When neither timeouts nor
\* restarts go on, an agent is registered in the end.
AllRegistered == issued = MaxTokens \/ \A a \in Agents : agent[a].pc = "registered"

\* Code: a heartbeat a minute, stale after five (agents/services.py:10).  A
\* stale row of an agent that holds its token does not stay stale.
Stale(a) == row[a] # None /\ row[a] = [token |-> agent[a].token, active |-> TRUE, fresh |-> FALSE]
Recovered(a) == ~ (Stale(a) /\ Settled(a))

=============================================================================
