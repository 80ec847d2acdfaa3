--------------------------- MODULE ServicesProofs ---------------------------
(***************************************************************************)
(* The agents, the targets, the cache of assessments, what a discovery     *)
(* leaves behind, the runs of the performance service and the export of    *)
(* snapshots, for any number of rows, workers, clients, requests and       *)
(* restarts: theorems about the behaviours of Services.                    *)
(***************************************************************************)
EXTENDS Services, TLAPS

-----------------------------------------------------------------------------
(* One service at a time.                                                  *)

\* A behaviour starts with the service it is about.
LEMMA FirstPart ==
    ASSUME Init
    PROVE  /\ part = "agents" => Agents!Init
           /\ part = "targets" => Targets!Init
           /\ part = "cache" => Cache!Init
           /\ part = "runs" => Perf!Init
           /\ part = "export" => Export!Init
           /\ part = "endpoints" => Endpoints!Init
           /\ part = "rivals" => Rivals!Init
           /\ part = "risk" => Risk!Init
BY DEF Init

\* It stays with it, and its steps are the steps of the service.
LEMMA OnePart ==
    ASSUME [Next]_vars
    PROVE  /\ part' = part
           /\ part = "agents" => [Agents!Next]_agentVars
           /\ part = "targets" => [Targets!Next]_targetVars
           /\ part = "cache" => [Cache!Next]_cacheVars
           /\ part = "runs" => [Perf!Next]_runVars
           /\ part = "export" => [Export!Next]_exportVars
           /\ part = "endpoints" => [Endpoints!Next]_endpointVars
           /\ part = "rivals" => [Rivals!Next]_endpointVars
           /\ part = "risk" => [Risk!Next]_riskVars
BY DEF Next, vars

-----------------------------------------------------------------------------
(* Agents.                                                                 *)

AgentRow == [token : Agents!Tokens, active : BOOLEAN, fresh : BOOLEAN]

\* A row is there or it is not.
NoAgentRow == None \notin AgentRow

LEMMA NoneIsNoAgentRow == NoAgentRow
BY NoneIsNoValue DEF NoneIsNoValue, NoAgentRow, AgentRow

AgentRequest == [kind : {"register", "heartbeat"}, of : AgentIds, token : Agents!Tokens,
                 pc : {"begun", "found", "answered", "valid"}]

AgentState == [pc : {"down", "register", "waiting", "registered"},
               token : 0 .. MaxTokens, waits : 0 .. MaxTokens]

\* A heartbeat that was found valid found a row.
AgentTypes ==
    /\ row \in [AgentIds -> {None} \cup AgentRow]
    /\ request \subseteq AgentRequest
    /\ agent \in [AgentIds -> AgentState]
    /\ issued \in 0 .. MaxTokens /\ overlap \subseteq AgentIds
    /\ \A a \in AgentIds : (agent[a].pc = "registered") = (agent[a].token # 0)
    /\ \A r \in request : r.kind = "heartbeat" =>
          /\ r.pc \in {"begun", "valid"}
          /\ r.pc = "valid" => row[r.of] # None

\* Of an agent whose registrations never overlapped: one is open at most, an
\* agent that waits waits for it, its answer tells what is stored, and an
\* agent that took an answer has none open and goes by what is stored.
Alone(a) ==
    /\ \A r, s \in Agents!Open(a) : r = s
    /\ agent[a].pc = "waiting" => \E r \in Agents!Open(a) : r.token = agent[a].waits
    /\ \A r \in Agents!Open(a) : r.pc = "answered" => row[a] # None /\ row[a].token = r.token
    /\ agent[a].pc = "registered"
          => Agents!Open(a) = {} /\ row[a] # None /\ row[a].token = agent[a].token

AgentInv == AgentTypes /\ \A a \in AgentIds : a \notin overlap => Alone(a)

-----------------------------------------------------------------------------
LEMMA AgentBounds == MaxTokens \in Nat /\ AgentChanges \in Nat /\ None \notin AgentIds
BY ServicesAssumption DEF ServicesAssumption, Agents!RegistryAssumption

\* Nothing runs, nothing is stored.
LEMMA AgentInit == Agents!Init => AgentInv
BY AgentBounds DEF Agents!Init, AgentInv, AgentTypes, AgentState, Agents!Down, Alone, Agents!Open

\* What a step may do to an agent without disturbing what is known of it.
LEMMA SameAlone ==
    ASSUME NEW a \in AgentIds, Alone(a), Agents!Open(a)' = Agents!Open(a),
           agent'[a] = agent[a] \/ agent'[a].pc \in {"down", "register"},
           row'[a] = row[a]
             \/ (row[a] # None /\ row'[a] # None /\ row'[a].token = row[a].token)
    PROVE  Alone(a)'
BY DEF Alone

\* A row of which one column was saved.
LEMMA SavedRow ==
    ASSUME NoAgentRow, NEW a \in AgentIds, row[a] \in AgentRow, NEW b \in BOOLEAN,
           row \in [AgentIds -> {None} \cup AgentRow],
           \/ row' = [row EXCEPT ![a].fresh = b]
           \/ row' = [row EXCEPT ![a].active = b]
    PROVE  /\ row' \in [AgentIds -> {None} \cup AgentRow]
           /\ \A c \in AgentIds : c # a => row'[c] = row[c]
           /\ row'[a] # None /\ row'[a].token = row[a].token
           /\ row' = [row EXCEPT ![a].fresh = b] => row'[a].active = row[a].active
<1>1. CASE row' = [row EXCEPT ![a].fresh = b]
  <2>1. row'[a] = [row[a] EXCEPT !.fresh = b]
    BY <1>1
  <2>2. row'[a] \in AgentRow /\ row'[a].token = row[a].token /\ row'[a].active = row[a].active
    BY <2>1 DEF AgentRow
  <2>. QED
    BY <1>1, <2>2 DEF NoAgentRow
<1>2. CASE row' = [row EXCEPT ![a].active = b] /\ row' # [row EXCEPT ![a].fresh = b]
  <2>1. row'[a] = [row[a] EXCEPT !.active = b]
    BY <1>2
  <2>2. row'[a] \in AgentRow /\ row'[a].token = row[a].token
    BY <2>1 DEF AgentRow
  <2>. QED
    BY <1>2, <2>2 DEF NoAgentRow
<1>. QED
  BY <1>1, <1>2

\* The process starts or stops, or gives an answer up.
LEMMA ProcessStep ==
    ASSUME AgentInv, NEW a \in AgentIds, Agents!Start(a) \/ Agents!Stop(a) \/ Agents!TimeoutRegister(a) PROVE AgentInv'
<1>1. /\ UNCHANGED <<row, request, issued, overlap>>
      /\ \A b \in AgentIds : b # a => agent'[b] = agent[b]
      /\ agent'[a].pc \in {"down", "register"} /\ agent'[a].token = 0
      /\ agent' \in [AgentIds -> AgentState]
  BY AgentBounds DEF Agents!Start, Agents!Stop, Agents!TimeoutRegister, Agents!Down, AgentInv, AgentTypes, AgentState
<1>2. \A b \in AgentIds : Agents!Open(b)' = Agents!Open(b)
  BY <1>1 DEF Agents!Open
<1>3. \A b \in AgentIds : b \notin overlap' => Alone(b)'
  BY <1>1, <1>2, SameAlone DEF AgentInv
<1>. QED
  BY <1>1, <1>3 DEF AgentInv, AgentTypes

\* A registration is sent: it is the only one open, or the agent overlaps.
LEMMA SendRegisterStep == ASSUME AgentInv, NEW a \in AgentIds, Agents!SendRegister(a) PROVE AgentInv'
<1> DEFINE r == [kind |-> "register", of |-> a, token |-> issued + 1, pc |-> "begun"]
<1>1. /\ UNCHANGED row /\ issued' = issued + 1 /\ request' = request \cup {r}
      /\ agent' = [agent EXCEPT ![a].pc = "waiting", ![a].waits = issued + 1]
      /\ overlap' = IF Agents!Open(a) # {} THEN overlap \cup {a} ELSE overlap
  BY DEF Agents!SendRegister
<1>2. issued + 1 \in Agents!Tokens /\ r \in AgentRequest
  BY AgentBounds DEF AgentInv, AgentTypes, AgentRequest, Agents!Tokens, Agents!SendRegister
<1>3. /\ \A b \in AgentIds : b # a => agent'[b] = agent[b]
      /\ agent'[a].pc = "waiting" /\ agent'[a].waits = issued + 1
      /\ agent'[a].token = agent[a].token /\ agent[a].pc = "register"
      /\ agent' \in [AgentIds -> AgentState]
  <2> DEFINE x == agent[a]
             new == [x EXCEPT !.pc = "waiting", !.waits = issued + 1]
  <2>1. /\ x \in AgentState /\ agent \in [AgentIds -> AgentState]
        /\ agent' = [agent EXCEPT ![a] = new]
    BY <1>1 DEF AgentInv, AgentTypes
  <2>2. x.pc = "register"
    BY DEF Agents!SendRegister
  <2>3. issued + 1 \in 0 .. MaxTokens
    BY <1>2, AgentBounds DEF Agents!Tokens
  <2>4. new.pc = "waiting" /\ new.waits = issued + 1 /\ new.token = x.token /\ new \in AgentState
    <3>0. new = [x EXCEPT !.pc = "waiting", !.waits = issued + 1]
      OBVIOUS
    <3> HIDE DEF x, new
    <3>1. new = [pc |-> "waiting", token |-> x.token, waits |-> issued + 1]
      BY <2>1, <3>0 DEF AgentState
    <3>2. x.token \in 0 .. MaxTokens
      BY <2>1 DEF AgentState
    <3>. QED
      BY <2>3, <3>1, <3>2 DEF AgentState
  <2> HIDE DEF new
  <2>. QED
    BY <2>1, <2>2, <2>4
<1>4. r.kind = "register" /\ r.of = a /\ r.token = issued + 1 /\ r.pc = "begun"
  OBVIOUS
<1> HIDE DEF r
<1>5. AgentTypes'
  BY <1>1, <1>2, <1>3, <1>4 DEF AgentInv, AgentTypes, Agents!Tokens
<1>6. ASSUME NEW b \in AgentIds, b \notin overlap' PROVE Alone(b)'
  <2>1. CASE b # a
    <3>1. Agents!Open(b)' = Agents!Open(b)
      BY <1>1, <1>4, <2>1 DEF Agents!Open
    <3>2. Alone(b)
      BY <1>1, <1>6 DEF AgentInv
    <3>. QED
      BY <1>1, <1>3, <2>1, <3>1, <3>2, SameAlone
  <2>2. CASE b = a
    <3>1. Agents!Open(a) = {}
      BY <1>1, <1>6, <2>2
    <3>2. Agents!Open(a)' = {r}
      BY <1>1, <1>4, <3>1 DEF Agents!Open
    <3>. QED
      BY <1>3, <1>4, <2>2, <3>2 DEF Alone
  <2>. QED
    BY <2>1, <2>2
<1>. QED
  BY <1>5, <1>6 DEF AgentInv

\* The answer is the last word on its agent, if nothing overlapped.
LEMMA ReceiveStep ==
    ASSUME AgentInv, NEW a \in AgentIds, NEW r \in request, Agents!Receive(a, r) PROVE AgentInv'
<1> DEFINE told == agent[a].pc = "waiting" /\ agent[a].waits = r.token
<1>1. /\ UNCHANGED <<row, issued, overlap>> /\ request' = request \ {r}
      /\ agent' = IF told THEN [agent EXCEPT ![a].pc = "registered", ![a].token = r.token]
                  ELSE agent
      /\ r.of = a /\ r.pc = "answered"
  BY DEF Agents!Receive
<1>2. r.token \in 0 .. MaxTokens /\ r.token # 0
  BY AgentBounds DEF AgentInv, AgentTypes, AgentRequest, Agents!Tokens
<1>3. /\ agent' \in [AgentIds -> AgentState] /\ \A b \in AgentIds : b # a => agent'[b] = agent[b]
      /\ told => agent'[a].pc = "registered" /\ agent'[a].token = r.token
      /\ ~ told => agent'[a] = agent[a]
  <2>0. agent \in [AgentIds -> AgentState]
    BY DEF AgentInv, AgentTypes
  <2>1. CASE told
    <3>1. /\ agent'[a] = [agent[a] EXCEPT !.pc = "registered", !.token = r.token]
          /\ DOMAIN agent' = AgentIds /\ \A b \in AgentIds : b # a => agent'[b] = agent[b]
          /\ agent' = [b \in AgentIds |-> agent'[b]]
      BY <1>1, <2>0, <2>1
    <3>2. agent[a] \in AgentState
      BY <2>0
    <3>3. /\ agent'[a] \in AgentState /\ agent'[a].pc = "registered"
          /\ agent'[a].token = r.token
      <4> DEFINE x == agent[a]
                 y == agent'[a]
      <4>1. y = [x EXCEPT !.pc = "registered", !.token = r.token] /\ x \in AgentState
        BY <3>1, <3>2
      <4> HIDE DEF x, y
      <4>2. y \in AgentState /\ y.pc = "registered" /\ y.token = r.token
        <5>1. y = [pc |-> "registered", token |-> r.token, waits |-> x.waits]
          BY <4>1 DEF AgentState
        <5>2. x.waits \in 0 .. MaxTokens
          BY <4>1 DEF AgentState
        <5>. QED
          BY <1>2, <5>1, <5>2 DEF AgentState
      <4>. QED
        BY <4>2 DEF y
    <3>. QED
      BY <2>0, <2>1, <3>1, <3>3
  <2>2. CASE ~ told
    BY <1>1, <2>0, <2>2
  <2>. QED
    BY <2>1, <2>2
<1> HIDE DEF told
<1>4. AgentTypes'
  BY <1>1, <1>2, <1>3 DEF AgentInv, AgentTypes
<1>5. ASSUME NEW b \in AgentIds, b \notin overlap' PROVE Alone(b)'
  <2>0. Alone(b)
    BY <1>1, <1>5 DEF AgentInv
  <2>1. CASE b # a
    <3>1. Agents!Open(b)' = Agents!Open(b)
      BY <1>1, <2>1 DEF Agents!Open
    <3>. QED
      BY <1>1, <1>3, <2>0, <2>1, <3>1, SameAlone
  <2>2. CASE b = a
    <3>1. Agents!Open(a)' = Agents!Open(a) \ {r}
      BY <1>1 DEF Agents!Open
    <3>2. CASE told
      <4>1. PICK s \in Agents!Open(a) : s.token = agent[a].waits
        BY <2>0, <2>2, <3>2 DEF Alone, told
      <4>2. s \in request /\ s.of = a /\ s.kind = "register"
        BY <4>1 DEF Agents!Open
      <4>3. r \in Agents!Open(a) => Agents!Open(a)' = {} /\ row[a] # None /\ row[a].token = r.token
        BY <1>1, <2>0, <2>2, <3>1 DEF Alone
      <4>4. r.kind = "register"
        <5>1. r \in AgentRequest /\ (r.kind = "heartbeat" => r.pc \in {"begun", "valid"})
          BY DEF AgentInv, AgentTypes
        <5>. QED
          BY <1>1, <5>1 DEF AgentRequest
      <4>5. r \in Agents!Open(a)
        BY <1>1, <4>4 DEF Agents!Open
      <4>. QED
        BY <1>1, <1>3, <2>2, <3>2, <4>3, <4>5 DEF Alone
    <3>3. CASE ~ told
      BY <1>1, <1>3, <2>0, <2>2, <3>1, <3>3 DEF Alone, told
    <3>. QED
      BY <3>2, <3>3
  <2>. QED
    BY <2>1, <2>2
<1>. QED
  BY <1>4, <1>5 DEF AgentInv

\* A row appears with the token that is answered; no other of the agent's
\* registrations is open to change it again.
LEMMA StoreStep ==
    ASSUME NoAgentRow, AgentInv, NEW r \in request, r.kind = "register",
           r.pc \in {"begun", "found"},
           row' = [row EXCEPT ![r.of] = Agents!Registered(r.token)], Agents!Step(r, "answered"),
           UNCHANGED <<agent, issued, overlap>>
    PROVE  AgentInv'
<1> DEFINE a == r.of
           s == [r EXCEPT !.pc = "answered"]
<1>1. r \in AgentRequest /\ a \in AgentIds /\ r.token \in Agents!Tokens
  BY DEF AgentInv, AgentTypes, AgentRequest
<1>2. /\ s \in AgentRequest /\ s.kind = "register" /\ s.of = a /\ s.token = r.token
      /\ s.pc = "answered"
  BY <1>1 DEF AgentRequest
<1>3. request' = (request \ {r}) \cup {s}
  BY DEF Agents!Step
<1>4. Agents!Registered(r.token) \in AgentRow /\ Agents!Registered(r.token).token = r.token
  BY <1>1 DEF Agents!Registered, AgentRow
<1>5. /\ row' \in [AgentIds -> {None} \cup AgentRow]
      /\ row'[a] # None /\ row'[a].token = r.token
      /\ \A b \in AgentIds : b # a => row'[b] = row[b]
  BY <1>1, <1>4 DEF AgentInv, AgentTypes, NoAgentRow
<1> HIDE DEF s
<1>6. AgentTypes'
  BY <1>1, <1>2, <1>3, <1>5 DEF AgentInv, AgentTypes, AgentRequest
<1>7. ASSUME NEW b \in AgentIds, b \notin overlap' PROVE Alone(b)'
  <2>0. Alone(b)
    BY <1>7 DEF AgentInv
  <2>1. CASE b # a
    <3>1. Agents!Open(b)' = Agents!Open(b)
      BY <1>2, <1>3, <2>1 DEF Agents!Open
    <3>. QED
      BY <1>5, <2>0, <2>1, <3>1, SameAlone
  <2>2. CASE b = a
    <3>1. r \in Agents!Open(a)
      BY DEF Agents!Open
    <3>2. Agents!Open(a) = {r}
      BY <2>0, <2>2, <3>1 DEF Alone
    <3>3. Agents!Open(a)' = {s}
      BY <1>2, <1>3, <3>2 DEF Agents!Open
    <3>. QED
      BY <1>2, <1>5, <2>0, <2>2, <3>2, <3>3 DEF Alone
  <2>. QED
    BY <2>1, <2>2
<1>. QED
  BY <1>6, <1>7 DEF AgentInv

\* A request that goes on, or ends, without touching a row.
LEMMA RequestStep ==
    ASSUME AgentInv, NEW r \in request, UNCHANGED <<row, agent, issued, overlap>>,
           \/ /\ r.kind = "heartbeat"
              /\ \/ request' = request \ {r}
                 \/ Agents!Step(r, "valid") /\ row[r.of] # None
           \/ r.kind = "register" /\ r.pc = "begun" /\ Agents!Step(r, "found")
    PROVE  AgentInv'
<1>1. r \in AgentRequest /\ request \subseteq AgentRequest
  BY DEF AgentInv, AgentTypes
<1>2. CASE r.kind = "heartbeat" /\ request' = request \ {r}
  <2>1. \A b \in AgentIds : Agents!Open(b)' = Agents!Open(b)
    BY <1>2 DEF Agents!Open
  <2>2. \A b \in AgentIds : b \notin overlap' => Alone(b)'
    BY <2>1, SameAlone DEF AgentInv
  <2>. QED
    BY <1>2, <2>2 DEF AgentInv, AgentTypes
<1>3. CASE r.kind = "heartbeat" /\ Agents!Step(r, "valid") /\ row[r.of] # None
  <2> DEFINE s == [r EXCEPT !.pc = "valid"]
  <2>1. s \in AgentRequest /\ s.kind = "heartbeat" /\ s.of = r.of /\ s.pc = "valid"
    BY <1>1, <1>3 DEF AgentRequest
  <2>2. request' = (request \ {r}) \cup {s}
    BY <1>3 DEF Agents!Step
  <2> HIDE DEF s
  <2>3. \A b \in AgentIds : Agents!Open(b)' = Agents!Open(b)
    BY <1>3, <2>1, <2>2 DEF Agents!Open
  <2>4. \A b \in AgentIds : b \notin overlap' => Alone(b)'
    BY <2>3, SameAlone DEF AgentInv
  <2>. QED
    BY <1>3, <2>1, <2>2, <2>4 DEF AgentInv, AgentTypes
<1>4. CASE r.kind = "register" /\ r.pc = "begun" /\ Agents!Step(r, "found")
  <2> DEFINE s == [r EXCEPT !.pc = "found"]
  <2>1. /\ s \in AgentRequest /\ s.kind = "register" /\ s.of = r.of /\ s.pc = "found"
        /\ s.token = r.token
    BY <1>1, <1>4 DEF AgentRequest
  <2>2. request' = (request \ {r}) \cup {s}
    BY <1>4 DEF Agents!Step
  <2> HIDE DEF s
  <2>3. ASSUME NEW b \in AgentIds, b \notin overlap' PROVE Alone(b)'
    <3>0. Alone(b)
      BY <2>3 DEF AgentInv
    <3>1. CASE r.of # b
      <4>1. Agents!Open(b)' = Agents!Open(b)
        BY <2>1, <2>2, <3>1 DEF Agents!Open
      <4>. QED
        BY <3>0, <4>1, SameAlone
    <3>2. CASE r.of = b
      <4>1. r \in Agents!Open(b)
        BY <1>4, <3>2 DEF Agents!Open
      <4>2. Agents!Open(b) = {r}
        BY <3>0, <4>1 DEF Alone
      <4>3. Agents!Open(b)' = {s}
        BY <2>1, <2>2, <3>2, <4>2 DEF Agents!Open
      <4>. QED
        BY <2>1, <3>0, <4>2, <4>3 DEF Alone
    <3>. QED
      BY <3>1, <3>2
  <2>. QED
    BY <2>1, <2>2, <2>3 DEF AgentInv, AgentTypes
<1>. QED
  BY <1>2, <1>3, <1>4

\* A column of a row is saved: its token stays.
LEMMA SaveStep ==
    ASSUME NoAgentRow, AgentInv, NEW a \in AgentIds, row[a] # None, NEW b \in BOOLEAN,
           row' = [row EXCEPT ![a].fresh = b] \/ row' = [row EXCEPT ![a].active = b],
           request' \subseteq request, \A r \in request \ request' : r.kind = "heartbeat",
           UNCHANGED <<agent, issued, overlap>>
    PROVE  AgentInv'
<1>1. row[a] \in AgentRow /\ row \in [AgentIds -> {None} \cup AgentRow]
  BY DEF AgentInv, AgentTypes
<1>2. /\ row' \in [AgentIds -> {None} \cup AgentRow]
      /\ \A c \in AgentIds : c # a => row'[c] = row[c]
      /\ row'[a] # None /\ row'[a].token = row[a].token
  BY <1>1, SavedRow
<1>3. \A c \in AgentIds : Agents!Open(c)' = Agents!Open(c)
  BY DEF Agents!Open
<1>4. \A c \in AgentIds : c \notin overlap' => Alone(c)'
  BY <1>2, <1>3, SameAlone DEF AgentInv
<1>5. AgentTypes'
  BY <1>2 DEF AgentInv, AgentTypes, AgentRequest
<1>. QED
  BY <1>4, <1>5 DEF AgentInv

\* A heartbeat is sent: it is no registration.
LEMMA SendHeartbeatStep == ASSUME AgentInv, NEW a \in AgentIds, Agents!SendHeartbeat(a) PROVE AgentInv'
<1> DEFINE r == [kind |-> "heartbeat", of |-> a, token |-> agent[a].token, pc |-> "begun"]
<1>1. request' = request \cup {r} /\ UNCHANGED <<row, agent, issued, overlap>>
  BY DEF Agents!SendHeartbeat
<1>2. r \in AgentRequest /\ r.kind = "heartbeat" /\ r.pc = "begun"
  BY AgentBounds
     DEF AgentInv, AgentTypes, AgentState, AgentRequest, Agents!Tokens, Agents!SendHeartbeat
<1> HIDE DEF r
<1>3. \A b \in AgentIds : Agents!Open(b)' = Agents!Open(b)
  BY <1>1, <1>2 DEF Agents!Open
<1>4. \A b \in AgentIds : b \notin overlap' => Alone(b)'
  BY <1>1, <1>3, SameAlone DEF AgentInv
<1>. QED
  BY <1>1, <1>2, <1>4 DEF AgentInv, AgentTypes

\* What the API does to a request.
LEMMA HandleStep == ASSUME NoAgentRow, AgentInv, NEW r \in request, Agents!Handle(r) PROVE AgentInv'
<1>1. r.of \in AgentIds
  BY DEF AgentInv, AgentTypes, AgentRequest
<1>2. CASE Agents!Register(r)
  BY <1>2, StoreStep, RequestStep DEF Agents!Register
<1>3. CASE Agents!Rotate(r)
  BY <1>3, StoreStep DEF Agents!Rotate
<1>4. CASE Agents!Validate(r)
  BY <1>4, RequestStep DEF Agents!Validate
<1>5. CASE Agents!MarkSeen(r)
  <2>1. row[r.of] # None
    BY <1>5 DEF Agents!MarkSeen, AgentInv, AgentTypes
  <2>. QED
    BY <1>1, <1>5, <2>1, SaveStep DEF Agents!MarkSeen
<1>. QED
  BY <1>2, <1>3, <1>4, <1>5 DEF Agents!Handle

\* No step tells an agent a token other than the stored one, unless its
\* registrations overlap.
LEMMA AgentNext == ASSUME NoAgentRow PROVE AgentInv /\ [Agents!Next]_agentVars => AgentInv'
<1> SUFFICES ASSUME AgentInv, [Agents!Next]_agentVars PROVE AgentInv'
  OBVIOUS
<1>1. ASSUME NEW a \in AgentIds, Agents!Deactivate(a) \/ Agents!Age(a) PROVE AgentInv'
  BY <1>1, SaveStep DEF Agents!Deactivate, Agents!Age
<1>2. CASE UNCHANGED <<row, request, agent, issued, overlap>>
  <2>1. \A a \in AgentIds : Agents!Open(a)' = Agents!Open(a)
    BY <1>2 DEF Agents!Open
  <2>2. \A a \in AgentIds : a \notin overlap' => Alone(a)'
    BY <1>2, <2>1, SameAlone DEF AgentInv
  <2>. QED
    BY <1>2, <2>2 DEF AgentInv, AgentTypes
<1>3. (\E a \in AgentIds : Agents!ReadAgent(a)) \/ Agents!PostScan \/ UNCHANGED agentVars
         => UNCHANGED <<row, request, agent, issued, overlap>>
  BY DEF Agents!ReadAgent, Agents!PostScan, agentVars
<1>. QED
  BY <1>1, <1>2, <1>3, ProcessStep, SendRegisterStep, SendHeartbeatStep, ReceiveStep,
     HandleStep DEF Agents!Next, Agents!AgentStep

AgentCall == [to : AgentIds \cup {None}, token : 0 .. MaxTokens, held : 0 .. MaxTokens,
              end : {"none", "reading", "accepted", "refused", "failed"}]

\* What the worker read of the agent it calls: the token of an agent that held
\* one is that of its row, and no later registration brings it back.
CallKnows ==
    /\ call \in AgentCall /\ changes \in 0 .. AgentChanges
    /\ \A r \in request : r.token <= issued
    /\ \A a \in AgentIds : agent[a].token <= issued
    /\ call.end # "none" =>
          /\ call.to \in AgentIds /\ call.held <= issued
          /\ call.to \notin overlap =>
                /\ \A r \in Agents!Open(call.to) : r.token # call.held
                /\ call.end = "reading" => call.held = 0 \/ call.token = call.held
                /\ call.end = "refused" => agent[call.to].token # call.held \/ agent[call.to].pc # "registered"

\* Nobody is called yet.
LEMMA CallInit == Agents!Init => CallKnows
BY AgentBounds DEF Agents!Init, CallKnows, AgentCall, Agents!NoCall, Agents!Down

\* The token is read where the agent goes by it.
LEMMA ReadAgentCall ==
    ASSUME NoAgentRow, AgentInv, CallKnows, NEW a \in AgentIds, Agents!ReadAgent(a)
    PROVE  CallKnows'
<1> DEFINE new == [to |-> a, token |-> row[a].token, held |-> agent[a].token, end |-> "reading"]
<1>1. call' = new /\ UNCHANGED <<request, agent, issued, overlap, changes>> /\ row[a] # None
  BY DEF Agents!ReadAgent
<1>2. agent[a] \in AgentState /\ row[a] \in AgentRow /\ \A r \in request : r.token # 0
  BY <1>1, AgentBounds DEF AgentInv, AgentTypes, AgentRequest, Agents!Tokens
<1>3. /\ new \in AgentCall /\ new.to = a /\ new.token = row[a].token /\ new.held = agent[a].token
      /\ new.end = "reading"
  BY <1>2, AgentBounds DEF AgentCall, AgentRow, AgentState, Agents!Tokens
<1> HIDE DEF new
<1>4. a \notin overlap => /\ \A r \in Agents!Open(a) : r.token # agent[a].token
                          /\ agent[a].token = 0 \/ row[a].token = agent[a].token
  BY <1>2 DEF AgentInv, AgentTypes, Alone, Agents!Open
<1>. QED
  BY <1>1, <1>3, <1>4 DEF CallKnows, Agents!Open

\* A token that is refused is not the one the agent held and holds.
LEMMA PostScanCall == ASSUME AgentInv, CallKnows, Agents!PostScan PROVE CallKnows'
<1> DEFINE e == IF agent[call.to].pc = "down" THEN "failed"
                ELSE IF Agents!Authorized(call.to, call.token) THEN "accepted" ELSE "refused"
<1>1. /\ call.end = "reading" /\ UNCHANGED <<request, agent, issued, overlap, changes>>
      /\ call' = [call EXCEPT !.end = e]
  BY DEF Agents!PostScan
<1>2. e \in {"failed", "accepted", "refused"}
  OBVIOUS
<1>3. call.to \in AgentIds /\ (e = "refused" => ~ Agents!Authorized(call.to, call.token))
  BY <1>1 DEF CallKnows
<1> HIDE DEF e
<1>4. /\ call' \in AgentCall /\ call'.to = call.to /\ call'.held = call.held
      /\ call'.token = call.token /\ call'.end = e
  BY <1>1, <1>2 DEF CallKnows, AgentCall
<1>5. e = "refused" /\ call.to \notin overlap
         => agent[call.to].token # call.held \/ agent[call.to].pc # "registered"
  BY <1>1, <1>3 DEF CallKnows, AgentInv, AgentTypes, Agents!Authorized
<1>. QED
  BY <1>1, <1>2, <1>4, <1>5 DEF CallKnows, Agents!Open

\* What processes and requests may do while a call goes on.
LEMMA CallStays ==
    ASSUME AgentInv, CallKnows, call' = call, changes' \in 0 .. AgentChanges,
           issued' \in Nat, issued <= issued', overlap \subseteq overlap',
           \A r \in request' :
              \/ r.kind = "register" /\ r.token = issued + 1 /\ issued' = issued + 1
              \/ \E s \in request : s.kind = r.kind /\ s.of = r.of /\ s.token = r.token
              \/ r.kind = "heartbeat" /\ r.token \in 0 .. issued,
           \A a \in AgentIds :
              \/ agent'[a].token = agent[a].token /\ (agent'[a].pc = "registered" => agent[a].pc = "registered")
              \/ agent'[a].token = 0 /\ agent'[a].pc # "registered"
              \/ \E r \in Agents!Open(a) : agent'[a].token = r.token
    PROVE  CallKnows'
<1>0. /\ issued \in Nat /\ call.held \in Nat
      /\ \A r \in request : r.token \in Nat
      /\ \A a \in AgentIds : agent[a].token \in Nat
  BY AgentBounds DEF CallKnows, AgentCall, AgentInv, AgentTypes, AgentState, AgentRequest, Agents!Tokens
<1>1. \A r \in request' : r.token <= issued'
  BY <1>0 DEF CallKnows
<1>2. \A a \in AgentIds : agent'[a].token <= issued'
  BY <1>0, <1>1 DEF CallKnows, Agents!Open
<1>3. ASSUME call.end # "none", call.to \notin overlap' PROVE \A r \in Agents!Open(call.to)' : r.token # call.held
  BY <1>0, <1>3 DEF CallKnows, Agents!Open
<1>4. ASSUME call.end = "refused", call.to \notin overlap'
      PROVE  agent'[call.to].token # call.held \/ agent'[call.to].pc # "registered"
  BY <1>0, <1>4 DEF CallKnows
<1>. QED
  BY <1>0, <1>1, <1>2, <1>3, <1>4 DEF CallKnows

\* A step of the API keeps what the requests are and what they carry.
LEMMA HandledRequests ==
    ASSUME AgentInv, NEW r \in request, Agents!Handle(r), NEW s \in request'
    PROVE  \E q \in request : q.kind = s.kind /\ q.of = s.of /\ q.token = s.token
<1>1. r \in AgentRequest
  BY DEF AgentInv, AgentTypes
<1>2. request' = request \ {r} \/ \E pc \in {"answered", "found", "valid"} : Agents!Step(r, pc)
  BY DEF Agents!Handle, Agents!Register, Agents!Rotate, Agents!Validate, Agents!MarkSeen
<1>3. CASE s \in request
  BY <1>3
<1>4. ASSUME NEW pc \in {"answered", "found", "valid"}, s = [r EXCEPT !.pc = pc]
      PROVE  s.kind = r.kind /\ s.of = r.of /\ s.token = r.token
  BY <1>1, <1>4 DEF AgentRequest
<1>. QED
  BY <1>2, <1>3, <1>4 DEF Agents!Step

LEMMA CallNext ==
    ASSUME NoAgentRow, AgentInv, CallKnows, [Agents!Next]_agentVars PROVE CallKnows'
<1>0. issued \in Nat /\ changes \in 0 .. AgentChanges /\ AgentChanges \in Nat
  BY AgentBounds DEF AgentInv, AgentTypes, CallKnows
<1>1. ASSUME NEW a \in AgentIds, Agents!Start(a) \/ Agents!Stop(a) \/ Agents!TimeoutRegister(a)
      PROVE  CallKnows'
  <2>1. /\ UNCHANGED <<request, issued, overlap, call>> /\ changes' \in 0 .. AgentChanges
        /\ \A b \in AgentIds : b # a => agent'[b] = agent[b]
        /\ agent'[a].pc # "registered" /\ agent'[a].token = 0
    BY <1>0, <1>1 DEF Agents!Start, Agents!Stop, Agents!TimeoutRegister, Agents!Down, Agents!Change,
                      AgentInv, AgentTypes, AgentState
  <2>. QED
    BY <1>0, <2>1, CallStays
<1>2. ASSUME NEW a \in AgentIds, Agents!SendRegister(a) PROVE CallKnows'
  <2>1. /\ UNCHANGED <<call, changes>> /\ issued' = issued + 1 /\ overlap \subseteq overlap'
        /\ request' = request \cup {[kind |-> "register", of |-> a, token |-> issued + 1, pc |-> "begun"]}
        /\ \A b \in AgentIds : b # a => agent'[b] = agent[b]
        /\ agent'[a].pc # "registered" /\ agent'[a].token = agent[a].token
    BY <1>2 DEF Agents!SendRegister, AgentInv, AgentTypes, AgentState
  <2>. QED
    BY <1>0, <2>1, CallStays
<1>3. ASSUME NEW a \in AgentIds, NEW r \in request, Agents!Receive(a, r) PROVE CallKnows'
  <2>1. /\ UNCHANGED <<call, changes, issued, overlap>> /\ request' \subseteq request
        /\ r.of = a /\ r.pc = "answered"
    BY <1>3 DEF Agents!Receive
  <2>2. r \in Agents!Open(a)
    BY <2>1 DEF AgentInv, AgentTypes, AgentRequest, Agents!Open
  <2>3. \A b \in AgentIds : agent'[b] = agent[b] \/ (b = a /\ agent'[a].token = r.token)
    BY <1>3 DEF Agents!Receive, AgentInv, AgentTypes, AgentState
  <2>. QED
    BY <1>0, <2>1, <2>2, <2>3, CallStays
<1>4. ASSUME NEW a \in AgentIds, Agents!SendHeartbeat(a) PROVE CallKnows'
  <2>1. /\ UNCHANGED <<agent, call, issued, overlap, changes>>
        /\ request' = request \cup {[kind |-> "heartbeat", of |-> a, token |-> agent[a].token, pc |-> "begun"]}
    BY <1>4 DEF Agents!SendHeartbeat
  <2>2. agent[a].token \in 0 .. issued
    BY <1>0 DEF CallKnows, AgentInv, AgentTypes, AgentState
  <2>. QED
    BY <1>0, <2>1, <2>2, CallStays
<1>5. ASSUME NEW r \in request, Agents!Handle(r) PROVE CallKnows'
  <2>1. UNCHANGED <<agent, call, issued, overlap, changes>>
    BY <1>5 DEF Agents!Handle, Agents!Register, Agents!Rotate, Agents!Validate, Agents!MarkSeen
  <2>. QED
    BY <1>0, <1>5, <2>1, HandledRequests, CallStays
<1>6. ASSUME NEW a \in AgentIds, Agents!Deactivate(a) \/ Agents!Age(a) PROVE CallKnows'
  <2>1. UNCHANGED <<request, agent, call, issued, overlap>> /\ changes' \in 0 .. AgentChanges
    BY <1>0, <1>6 DEF Agents!Deactivate, Agents!Age, Agents!Change
  <2>. QED
    BY <1>0, <2>1, CallStays
<1>7. CASE UNCHANGED agentVars
  BY <1>0, <1>7, CallStays DEF agentVars
<1>. QED
  BY <1>1, <1>2, <1>3, <1>4, <1>5, <1>6, <1>7, ReadAgentCall, PostScanCall
     DEF Agents!Next, Agents!AgentStep, Agents!vars, agentVars

-----------------------------------------------------------------------------
(* What Services says of them.                                             *)

AgentsKnown == part = "agents" => AgentInv /\ CallKnows

LEMMA AgentsInvariant == Spec => []AgentsKnown
<1>1. Init => AgentsKnown
  BY FirstPart, AgentInit, CallInit DEF AgentsKnown
<1>2. ASSUME AgentsKnown, [Next]_vars PROVE AgentsKnown'
  BY <1>2, NoneIsNoAgentRow, OnePart, AgentNext, CallNext DEF AgentsKnown
<1>. QED
  BY <1>1, <1>2, PTL DEF Spec

\* The token a registered agent goes by is the one the API stores, unless two
\* registrations of it were open at once, and it refuses the worker only then
\* or when the worker read an earlier one (agents/api.py register_agent).
THEOREM TokensAlwaysAgree == Spec => []TokensAgree
<1>1. AgentsKnown => TokensAgree
  BY DEF AgentsKnown, AgentInv, Alone, CallKnows, TokensAgree,
         Agents!TokensAgree, Agents!Settled, Agents!RefusedForAReason
<1>. QED
  BY <1>1, AgentsInvariant, PTL

LEMMA AgentsTyped == AgentInv /\ CallKnows => Agents!TypeOK
BY AgentBounds DEF AgentInv, AgentTypes, CallKnows, AgentCall, AgentRow, AgentRequest, AgentState,
                   Agents!TypeOK

\* A step of the agents that brings an agent back, or changes its token.
LEMMA RestoringSteps ==
    ASSUME NoAgentRow, AgentInv, Agents!Next PROVE Agents!RestoringStep
<1> SUFFICES ASSUME NEW a \in AgentIds, row[a] # None, row'[a] # row[a],
                    row'[a].token # row[a].token \/ (row'[a].active /\ ~ row[a].active)
             PROVE  \E r \in request : /\ r.of = a /\ r.kind = "register"
                                       /\ r.pc = "found" /\ r.token = row'[a].token
  BY DEF Agents!RestoringStep
<1>0. row \in [AgentIds -> {None} \cup AgentRow] /\ row[a] \in AgentRow
  BY DEF AgentInv, AgentTypes
<1>1. ASSUME NEW r \in request, Agents!Register(r) PROVE FALSE
  <2>1. row[r.of] = None => r.of # a
    OBVIOUS
  <2>. QED
    BY <1>0, <1>1, <2>1 DEF Agents!Register
<1>2. ASSUME NEW r \in request, Agents!Rotate(r) PROVE r.of = a /\ r.token = row'[a].token
  <2>1. r.of \in AgentIds
    BY DEF AgentInv, AgentTypes, AgentRequest
  <2>. QED
    BY <1>0, <1>2, <2>1 DEF Agents!Rotate, Agents!Registered
<1>3. ASSUME NEW r \in request, Agents!MarkSeen(r) PROVE FALSE
  <2>1. r.of \in AgentIds /\ row' = [row EXCEPT ![r.of].fresh = TRUE]
    BY <1>3 DEF Agents!MarkSeen, AgentInv, AgentTypes, AgentRequest
  <2>2. CASE r.of = a
    BY <1>0, <2>1, <2>2, SavedRow
  <2>3. CASE r.of # a
    BY <1>0, <2>1, <2>3
  <2>. QED
    BY <2>2, <2>3
<1>4. ASSUME NEW b \in AgentIds, Agents!Deactivate(b) \/ Agents!Age(b) PROVE FALSE
  <2>1. CASE b # a
    BY <1>0, <1>4, <2>1 DEF Agents!Deactivate, Agents!Age
  <2>2. CASE b = a /\ Agents!Age(b)
    BY <1>0, <2>2, SavedRow DEF Agents!Age
  <2>3. CASE b = a /\ Agents!Deactivate(b)
    <3>1. row'[a] = [row[a] EXCEPT !.active = FALSE]
      BY <1>0, <2>3 DEF Agents!Deactivate
    <3>. QED
      BY <1>0, <3>1 DEF AgentRow
  <2>. QED
    BY <1>4, <2>1, <2>2, <2>3
<1>5. row' # row
  OBVIOUS
<1>6. CASE \E b \in AgentIds : \/ Agents!AgentStep(b) \/ Agents!Stop(b) \/ Agents!TimeoutRegister(b)
                               \/ \E r \in request : Agents!Receive(b, r)
                               \/ Agents!Deactivate(b) \/ Agents!Age(b) \/ Agents!ReadAgent(b)
  BY <1>4, <1>5, <1>6 DEF Agents!AgentStep, Agents!Start, Agents!SendRegister, Agents!SendHeartbeat,
                          Agents!Stop, Agents!TimeoutRegister, Agents!Receive, Agents!ReadAgent
<1>7. CASE Agents!PostScan
  BY <1>5, <1>7 DEF Agents!PostScan
<1>8. CASE \E r \in request : Agents!Handle(r)
  <2>1. PICK r \in request : Agents!Handle(r)
    BY <1>8
  <2>2. Agents!Rotate(r)
    BY <1>1, <1>3, <1>5, <2>1 DEF Agents!Handle, Agents!Validate
  <2>3. r.kind = "register" /\ r.pc = "found"
    BY <2>2 DEF Agents!Rotate
  <2>. QED
    BY <1>2, <2>2, <2>3
<1>. QED
  BY <1>6, <1>7, <1>8 DEF Agents!Next

\* A deactivated agent comes back, and a token changes, only by a registration
\* (agents/api.py heartbeat_agent saves last_seen alone).
THEOREM OnlyRegistrationsRestore == Spec => OnlyRegistrationRestores
<1>1. AgentsKnown /\ [Next]_vars => [part = "agents" => Agents!RestoringStep]_vars
  BY NoneIsNoAgentRow, RestoringSteps DEF AgentsKnown, Next
<1>. QED
  BY <1>1, AgentsInvariant, PTL DEF Spec, OnlyRegistrationRestores

-----------------------------------------------------------------------------
(* Targets.                                                                *)

\* A row and a patch are there or they are not.
NoTarget == None \notin Targets!Row /\ None \notin Targets!Patches

LEMMA NoneIsNoTarget == NoTarget
BY NoneIsNoValue DEF NoneIsNoValue, NoTarget

TargetClient == [id : TargetIds \cup {0}, row : Targets!Row \cup {None}, patch : Targets!Patches \cup {None}, answer : Nat]

TargetTypes ==
    /\ target \in [TargetIds -> Targets!Row \cup {None}]
    /\ made \in Nat /\ 1 .. made \subseteq TargetIds
    /\ client \in [TargetClients -> TargetClient]

Told(t, told) == told # 0 => [of |-> t, context |-> told] \in tasks

\* The row a client read is no older than the task of its context: it may be
\* saved over a newer one, and what it brings back was enqueued once.
ClientsKnow ==
    \A c \in TargetClients : client[c].patch # None =>
        /\ client[c].id \in TargetIds /\ client[c].row \in Targets!Row
        /\ Told(client[c].id, client[c].row.context)

TargetInv == TargetTypes /\ Targets!ContextHasTask /\ ClientsKnow

-----------------------------------------------------------------------------
\* No row, no patch.
LEMMA TargetInit == Targets!Init => TargetInv
<1> SUFFICES ASSUME Targets!Init PROVE TargetInv
  OBVIOUS
<1>1. Targets!Idle(0) \in TargetClient /\ Targets!Idle(0).patch = None
  BY DEF Targets!Idle, TargetClient
<1>2. TargetTypes
  BY <1>1 DEF Targets!Init, TargetTypes
<1>3. Targets!ContextHasTask /\ ClientsKnow
  BY <1>1 DEF Targets!Init, Targets!ContextHasTask, ClientsKnow
<1>. QED
  BY <1>2, <1>3 DEF TargetInv

\* An answer ends what the client had read; the tasks only grow.
LEMMA AnswerStep ==
    ASSUME TargetTypes, ClientsKnow, NEW c \in TargetClients, NEW code \in Nat, Targets!Answer(c, code),
           tasks \subseteq tasks'
    PROVE  client' \in [TargetClients -> TargetClient] /\ ClientsKnow'
<1>1. Targets!Idle(code) \in TargetClient /\ Targets!Idle(code).patch = None
  BY DEF Targets!Idle, TargetClient
<1>2. /\ client' \in [TargetClients -> TargetClient] /\ client'[c].patch = None
      /\ \A d \in TargetClients : d # c => client'[d] = client[d]
  BY <1>1 DEF Targets!Answer, TargetTypes
<1>. QED
  BY <1>2 DEF ClientsKnow, Told

\* A new row has the default context.
LEMMA CreateTargetStep ==
    ASSUME NoTarget, TargetInv, NEW c \in TargetClients, NEW address \in Addresses, Targets!Create(c, address)
    PROVE  TargetInv'
<1>1. CASE Targets!Taken(address, 0)
  <2>1. Targets!Answer(c, 409) /\ UNCHANGED Targets!Tables
    BY <1>1 DEF Targets!Create
  <2>. QED
    BY <2>1, AnswerStep DEF Targets!Tables, TargetInv, TargetTypes, Targets!ContextHasTask
<1>2. CASE ~ Targets!Taken(address, 0)
  <2> DEFINE new == [at |-> address, context |-> 0, label |-> 0]
  <2>1. /\ made + 1 \in TargetIds /\ Targets!Answer(c, 201) /\ UNCHANGED tasks /\ made' = made + 1
        /\ target' = [target EXCEPT ![made + 1] = new]
    BY <1>2 DEF Targets!Create
  <2>2. new \in Targets!Row /\ new.context = 0
    BY DEF Targets!Row, Targets!Contexts
  <2> HIDE DEF new
  <2>3. client' \in [TargetClients -> TargetClient] /\ ClientsKnow'
    BY <2>1, AnswerStep DEF TargetInv
  <2>4. target' \in [TargetIds -> Targets!Row \cup {None}] /\ made' \in Nat /\ 1 .. made' \subseteq TargetIds
    BY <2>1, <2>2 DEF TargetInv, TargetTypes
  <2>5. Targets!ContextHasTask'
    BY <2>1, <2>2 DEF TargetInv, TargetTypes, Targets!ContextHasTask
  <2>. QED
    BY <2>3, <2>4, <2>5 DEF TargetInv, TargetTypes
<1>. QED
  BY <1>1, <1>2

\* The row read has its task, for the table's rows have theirs.
LEMMA ReadTargetStep ==
    ASSUME NoTarget, TargetInv, NEW c \in TargetClients, NEW t \in 1 .. made, NEW patch \in Targets!Patches,
           Targets!ReadTarget(c, t, patch)
    PROVE  TargetInv'
<1>0. t \in TargetIds
  BY DEF TargetInv, TargetTypes
<1>1. CASE target[t] = None
  <2>1. Targets!Answer(c, 404) /\ UNCHANGED Targets!Tables
    BY <1>1 DEF Targets!ReadTarget
  <2>. QED
    BY <2>1, AnswerStep DEF Targets!Tables, TargetInv, TargetTypes, Targets!ContextHasTask
<1>2. CASE target[t] # None
  <2> DEFINE read == [id |-> t, row |-> target[t], patch |-> patch, answer |-> 0]
  <2>1. client' = [client EXCEPT ![c] = read] /\ UNCHANGED Targets!Tables
    BY <1>2 DEF Targets!ReadTarget
  <2>2. target[t] \in Targets!Row /\ Told(t, target[t].context)
    BY <1>0, <1>2 DEF TargetInv, TargetTypes, Targets!ContextHasTask, Told
  <2>3. read \in TargetClient /\ read.id = t /\ read.row = target[t]
    BY <1>0, <2>2 DEF TargetClient
  <2> HIDE DEF read
  <2>4. ClientsKnow'
    BY <1>0, <2>1, <2>2, <2>3 DEF TargetInv, TargetTypes, ClientsKnow, Told, Targets!Tables
  <2>. QED
    BY <2>1, <2>3, <2>4 DEF TargetInv, TargetTypes, Targets!ContextHasTask, Targets!Tables
<1>. QED
  BY <1>1, <1>2

\* What a patch makes of the row that was read.
LEMMA PatchedRow ==
    ASSUME NEW c \in TargetClients, client[c].row \in Targets!Row, client[c].patch \in Targets!Patches
    PROVE  /\ Targets!Patched(c) \in Targets!Row
           /\ client[c].patch.field # "context" => Targets!Patched(c).context = client[c].row.context
<1> DEFINE r == client[c].row
           p == client[c].patch
<1>1. \/ p.field = "at" /\ p.to \in Addresses
      \/ p.field \in {"context", "label"} /\ p.to \in 0 .. 1
  BY DEF Targets!Patches
<1>2. Targets!Patched(c) = [r EXCEPT ![p.field] = p.to]
  BY DEF Targets!Patched
<1> HIDE DEF r, p
<1>3. r \in Targets!Row
  BY DEF r
<1>4. CASE p.field = "at" /\ p.to \in Addresses
  BY <1>2, <1>3, <1>4 DEF Targets!Row, r, p
<1>5. CASE p.field = "context" /\ p.to \in 0 .. 1
  BY <1>2, <1>3, <1>5 DEF Targets!Row, Targets!Contexts, r, p
<1>6. CASE p.field = "label" /\ p.to \in 0 .. 1
  BY <1>2, <1>3, <1>6 DEF Targets!Row, r, p
<1>. QED
  BY <1>1, <1>4, <1>5, <1>6 DEF p

\* A save brings a context along only with a task: that of the patch, or the
\* one the row that was read had.
LEMMA SaveTargetStep ==
    ASSUME NoTarget, TargetInv, NEW c \in TargetClients, Targets!SaveTarget(c) PROVE TargetInv'
<1> DEFINE i == client[c].id
<1>1. /\ client[c].patch \in Targets!Patches /\ client[c].row \in Targets!Row /\ i \in TargetIds
      /\ Told(i, client[c].row.context)
  BY DEF Targets!SaveTarget, TargetInv, TargetTypes, ClientsKnow, TargetClient
<1>2. \/ UNCHANGED Targets!Tables /\ \E code \in Nat : Targets!Answer(c, code)
      \/ ~ Targets!Noop(c) /\ Targets!Saved(c) /\ Targets!Enqueued(c) /\ Targets!Answer(c, 200) /\ UNCHANGED made
  BY DEF Targets!SaveTarget
<1>3. CASE UNCHANGED Targets!Tables /\ \E code \in Nat : Targets!Answer(c, code)
  BY <1>3, AnswerStep DEF Targets!Tables, TargetInv, TargetTypes, Targets!ContextHasTask
<1>4. CASE ~ Targets!Noop(c) /\ Targets!Saved(c) /\ Targets!Enqueued(c) /\ Targets!Answer(c, 200) /\ UNCHANGED made
  <2>1. /\ target' = [target EXCEPT ![i] = Targets!Patched(c)] /\ tasks \subseteq tasks'
        /\ Targets!Changes(c) => [of |-> i, context |-> Targets!Patched(c).context] \in tasks'
    BY <1>4 DEF Targets!Saved, Targets!Enqueued
  <2>2. client' \in [TargetClients -> TargetClient] /\ ClientsKnow'
    BY <1>4, <2>1, AnswerStep DEF TargetInv
  <2>3. /\ Targets!Patched(c) \in Targets!Row
        /\ client[c].patch.field # "context" => Targets!Patched(c).context = client[c].row.context
    BY <1>1, PatchedRow
  <2>4. Targets!Patched(c).context # 0 => [of |-> i, context |-> Targets!Patched(c).context] \in tasks'
    <3>1. CASE Targets!Changes(c)
      BY <2>1, <3>1
    <3>2. CASE ~ Targets!Changes(c)
      <4>1. client[c].patch.field # "context"
        BY <1>4, <3>2 DEF Targets!Noop
      <4>2. Targets!Patched(c).context # 0 => [of |-> i, context |-> Targets!Patched(c).context] \in tasks
        BY <1>1, <2>3, <4>1 DEF Told
      <4>. QED
        BY <2>1, <4>2
    <3>. QED
      BY <3>1, <3>2
  <2>5. TargetTypes'
    BY <1>1, <1>4, <2>1, <2>2, <2>3 DEF TargetInv, TargetTypes
  <2>6. Targets!ContextHasTask'
    <3>1. target'[i] = Targets!Patched(c) /\ \A t \in TargetIds : t # i => target'[t] = target[t]
      BY <1>1, <2>1 DEF TargetInv, TargetTypes
    <3> HIDE DEF i
    <3>. QED
      BY <2>1, <2>4, <3>1 DEF TargetInv, Targets!ContextHasTask
  <2>. QED
    BY <2>2, <2>5, <2>6 DEF TargetInv
<1>. QED
  BY <1>2, <1>3, <1>4

\* A deleted row has nothing to keep; a patch that read it may bring it back.
LEMMA DeleteTargetStep ==
    ASSUME NoTarget, TargetInv, NEW c \in TargetClients, NEW t \in 1 .. made, Targets!Delete(c, t) PROVE TargetInv'
<1>1. /\ UNCHANGED <<made, tasks>> /\ \E code \in Nat : Targets!Answer(c, code)
      /\ target' = target \/ target' = [target EXCEPT ![t] = None]
  BY DEF Targets!Delete
<1>2. client' \in [TargetClients -> TargetClient] /\ ClientsKnow'
  BY <1>1, AnswerStep DEF TargetInv
<1>3. t \in TargetIds
  BY DEF TargetInv, TargetTypes
<1>. QED
  BY <1>1, <1>2, <1>3 DEF TargetInv, TargetTypes, Targets!ContextHasTask

\* No step writes a context no task was enqueued for.
LEMMA TargetNext == ASSUME NoTarget, TargetInv, [Targets!Next]_targetVars PROVE TargetInv'
<1>1. CASE UNCHANGED <<Targets!Tables, client>>
  BY <1>1 DEF Targets!Tables, TargetInv, TargetTypes, Targets!ContextHasTask, ClientsKnow, Told
<1>2. ASSUME NEW c \in TargetClients, NEW S, Targets!StartScan(c, S) PROVE TargetInv'
  BY <1>2, AnswerStep DEF Targets!StartScan, Targets!Tables, TargetInv, TargetTypes, Targets!ContextHasTask
<1>. QED
  BY <1>1, <1>2, CreateTargetStep, ReadTargetStep, SaveTargetStep, DeleteTargetStep
     DEF Targets!Next, Targets!FinishScan, Targets!QueueTurns, Targets!vars, targetVars, Targets!Tables

\* Rows, tasks and the ids a scan asks for are of targets that were made.
TargetsMade ==
    /\ made \in TargetIds \cup {0} /\ scan \subseteq 1 .. made
    /\ \A t \in TargetIds : target[t] # None => t <= made
    /\ \A x \in tasks : x.of \in 1 .. made /\ x.context \in Targets!Contexts
    /\ \A c \in TargetClients : client[c].patch # None => client[c].id \in 1 .. made

LEMMA TargetBounds == TargetIds \subseteq Nat \ {0} /\ \A t \in TargetIds : 1 .. t \subseteq TargetIds
BY ServicesAssumption DEF ServicesAssumption, Targets!TargetAssumption

LEMMA TargetsMadeInit == Targets!Init => TargetsMade
BY TargetBounds DEF Targets!Init, TargetsMade, Targets!Idle

\* An answer ends what the client asked.
LEMMA TargetsMadeAnswer ==
    ASSUME TargetInv, TargetsMade, NEW c \in TargetClients, NEW code \in Nat, Targets!Answer(c, code)
    PROVE  \A d \in TargetClients : client'[d].patch # None => client'[d].id \in 1 .. made
BY DEF Targets!Answer, Targets!Idle, TargetInv, TargetTypes, TargetsMade

LEMMA TargetsMadeNext ==
    ASSUME NoTarget, TargetInv, TargetsMade, [Targets!Next]_targetVars PROVE TargetsMade'
<1>0. /\ made \in Nat /\ target \in [TargetIds -> Targets!Row \cup {None}]
      /\ client \in [TargetClients -> TargetClient] /\ TargetIds \subseteq Nat
  BY TargetBounds DEF TargetInv, TargetTypes
<1>1. ASSUME NEW c \in TargetClients, NEW address \in Addresses, Targets!Create(c, address)
      PROVE  TargetsMade'
  <2>1. \E code \in Nat : Targets!Answer(c, code)
    BY <1>1 DEF Targets!Create
  <2>2. /\ UNCHANGED <<tasks, scan>>
        /\ \/ UNCHANGED <<target, made>>
           \/ /\ made' = made + 1 /\ made + 1 \in TargetIds
              /\ \A t \in TargetIds : t # made + 1 => target'[t] = target[t]
    BY <1>0, <1>1 DEF Targets!Create, Targets!Tables
  <2>3. \A d \in TargetClients : client'[d].patch # None => client'[d].id \in 1 .. made
    BY <2>1, TargetsMadeAnswer
  <2>4. made <= made' /\ 1 .. made \subseteq 1 .. made'
    BY <1>0, <2>2
  <2>5. made' \in TargetIds \cup {0} /\ scan' \subseteq 1 .. made'
    BY <2>2, <2>4 DEF TargetsMade
  <2>6. \A t \in TargetIds : target'[t] # None => t <= made'
    BY <1>0, <2>2 DEF TargetsMade
  <2>7. \A x \in tasks' : x.of \in 1 .. made' /\ x.context \in Targets!Contexts
    BY <2>2, <2>4 DEF TargetsMade
  <2>. QED
    BY <2>3, <2>4, <2>5, <2>6, <2>7 DEF TargetsMade
<1>2. ASSUME NEW c \in TargetClients, NEW t \in 1 .. made, NEW patch \in Targets!Patches,
             Targets!ReadTarget(c, t, patch)
      PROVE  TargetsMade'
  <2>1. UNCHANGED <<target, made, tasks, scan>>
    BY <1>2 DEF Targets!ReadTarget, Targets!Tables
  <2>2. CASE target[t] = None
    BY <1>2, <2>1, <2>2, TargetsMadeAnswer DEF Targets!ReadTarget, TargetsMade
  <2>3. CASE target[t] # None
    BY <1>0, <1>2, <2>1, <2>3 DEF Targets!ReadTarget, TargetsMade
  <2>. QED
    BY <2>2, <2>3
<1>3. ASSUME NEW c \in TargetClients, Targets!SaveTarget(c) PROVE TargetsMade'
  <2>1. /\ client[c].patch # None /\ client[c].id \in 1 .. made /\ client[c].id \in TargetIds
        /\ client[c].row \in Targets!Row /\ client[c].patch \in Targets!Patches
    BY <1>0, <1>3 DEF Targets!SaveTarget, TargetsMade, TargetInv, ClientsKnow, TargetClient
  <2>2. \E code \in Nat : Targets!Answer(c, code)
    BY <1>3 DEF Targets!SaveTarget
  <2>3. UNCHANGED <<made, scan>>
    BY <1>3 DEF Targets!SaveTarget, Targets!Tables
  <2>4. Targets!Patched(c).context \in Targets!Contexts
    BY <2>1, PatchedRow DEF Targets!Row
  <2>5. UNCHANGED Targets!Tables \/ (Targets!Saved(c) /\ Targets!Enqueued(c))
    BY <1>3 DEF Targets!SaveTarget
  <2>6. /\ \A x \in tasks' : x \in tasks \/ (x.of = client[c].id /\ x.context = Targets!Patched(c).context)
        /\ \A t \in TargetIds : t # client[c].id => target'[t] = target[t]
    BY <1>0, <2>5 DEF Targets!Tables, Targets!Enqueued, Targets!Saved
  <2>. QED
    BY <1>0, <2>1, <2>2, <2>3, <2>4, <2>5, <2>6, TargetsMadeAnswer DEF TargetsMade
<1>4. ASSUME NEW c \in TargetClients, NEW t \in 1 .. made, Targets!Delete(c, t) PROVE TargetsMade'
  <2>1. \E code \in Nat : Targets!Answer(c, code)
    BY <1>4 DEF Targets!Delete
  <2>2. UNCHANGED <<made, tasks, scan>> /\ \A u \in TargetIds : target'[u] \in {target[u], None}
    BY <1>0, <1>4 DEF Targets!Delete
  <2>. QED
    BY <2>1, <2>2, TargetsMadeAnswer DEF TargetsMade
<1>5. ASSUME NEW c \in TargetClients, NEW S \in (SUBSET {t \in TargetIds : target[t] # None}) \ {{}},
             Targets!StartScan(c, S)
      PROVE  TargetsMade'
  <2>1. \A t \in TargetIds : target[t] # None => t \in 1 .. made
    BY <1>0, TargetBounds DEF TargetsMade
  <2>2. S \subseteq 1 .. made
    BY <2>1
  <2>. QED
    BY <1>5, <2>2, TargetsMadeAnswer DEF Targets!StartScan, Targets!Tables, TargetsMade
<1>6. CASE Targets!FinishScan \/ Targets!QueueTurns \/ UNCHANGED targetVars
  BY <1>6 DEF Targets!FinishScan, Targets!QueueTurns, targetVars, Targets!Tables, TargetsMade
<1>. QED
  BY <1>1, <1>2, <1>3, <1>4, <1>5, <1>6 DEF Targets!Next, Targets!vars, targetVars

TargetsKnown == part = "targets" => TargetInv /\ TargetsMade

LEMMA TargetsInvariant == Spec => []TargetsKnown
<1>1. Init => TargetsKnown
  BY FirstPart, TargetInit, TargetsMadeInit DEF TargetsKnown
<1>2. ASSUME TargetsKnown, [Next]_vars PROVE TargetsKnown'
  BY <1>2, NoneIsNoTarget, OnePart, TargetNext, TargetsMadeNext DEF TargetsKnown
<1>. QED
  BY <1>1, <1>2, PTL DEF Spec

LEMMA TargetsTyped == TargetInv /\ TargetsMade => Targets!TypeOK
BY DEF TargetInv, TargetTypes, TargetsMade, Targets!TypeOK

-----------------------------------------------------------------------------
(* The cache of assessments.                                               *)

Record == [input : Nat, identity : {"mock", "openai"}, by : Cache!Answerers]
Progress == [pc : {"idle", "inputs", "call", "save", "done"}, existing : {None} \cup Record,
             read : Nat, since : Nat, result : {None} \cup Record]

\* There is an assessment or there is none.
NoAssessment == None \notin Record

LEMMA NoneIsNoAssessment == NoAssessment
BY NoneIsNoValue DEF NoneIsNoValue, NoAssessment, Record

CacheTypes ==
    /\ input \in Nat
    /\ stored \in {None} \cup Record
    /\ asking \in [Cache!Clients -> Progress]

\* What a request has read, and what it will return, is no older than the
\* input it began with, which is never ahead of the present one.
Fresh(p, now) ==
    /\ p.pc = "inputs" => p.since <= now
    /\ p.pc = "call" => p.since <= p.read
    /\ p.pc \in {"save", "done"} => p.result \in Record /\ p.since <= p.result.input

CacheInv == CacheTypes /\ \A c \in Cache!Clients : Fresh(asking[c], input)

-----------------------------------------------------------------------------
LEMMA IdleIsFresh == Cache!Idle \in Progress /\ Cache!Idle.pc = "idle" /\ (\A n \in Nat : Fresh(Cache!Idle, n))
BY DEF Cache!Idle, Progress, Fresh

LEMMA CacheInit == Cache!Init => CacheInv
<1> SUFFICES ASSUME Cache!Init PROVE CacheInv
  OBVIOUS
<1>1. CacheTypes
  BY IdleIsFresh DEF Cache!Init, CacheTypes
<1>2. \A c \in Cache!Clients : Fresh(asking[c], input)
  BY IdleIsFresh DEF Cache!Init
<1>. QED
  BY <1>1, <1>2 DEF CacheInv

\* A step of one client that leaves the inputs alone.
LEMMA OneAsking ==
    ASSUME CacheInv, NEW c \in Cache!Clients, NEW p \in Progress, Fresh(p, input),
           asking' = [asking EXCEPT ![c] = p], input' = input, stored' \in {None} \cup Record
    PROVE  CacheInv'
<1>1. CacheTypes'
  BY DEF CacheInv, CacheTypes
<1>2. ASSUME NEW d \in Cache!Clients PROVE Fresh(asking'[d], input')
  BY DEF CacheInv, CacheTypes
<1>. QED
  BY <1>1, <1>2 DEF CacheInv

\* A request begins with the input there is.
LEMMA BeginStep ==
    ASSUME CacheInv, NEW c \in Cache!Clients, Cache!Begin(c), UNCHANGED <<input, stored>>
    PROVE  CacheInv'
<1> DEFINE p == [Cache!Idle EXCEPT !.pc = "inputs", !.existing = stored, !.since = input]
<1>1. asking' = [asking EXCEPT ![c] = p]
  BY DEF Cache!Begin
<1>2. stored \in {None} \cup Record /\ input \in Nat
  BY DEF CacheInv, CacheTypes
<1>3. p \in Progress
  BY <1>2, IdleIsFresh DEF Progress
<1>4. p.pc = "inputs" /\ p.since = input
  BY IdleIsFresh DEF Progress
<1>5. Fresh(p, input)
  BY <1>2, <1>4 DEF Fresh
<1> HIDE DEF p
<1>. QED
  BY <1>1, <1>2, <1>3, <1>5, OneAsking

\* A hit is an assessment of the input read now, a miss reads it.
LEMMA ReadStep ==
    ASSUME NoAssessment, CacheInv, NEW c \in Cache!Clients, Cache!ReadInputs(c)
    PROVE  CacheInv'
<1>1. /\ asking[c] \in Progress /\ asking[c].pc = "inputs" /\ input \in Nat
      /\ asking[c].since <= input
  BY DEF Cache!ReadInputs, Cache!At, CacheInv, CacheTypes, Fresh
<1>2. CASE Cache!CacheHit(asking[c].existing, input, config)
  <2> DEFINE p == [asking[c] EXCEPT !.pc = "done", !.read = input, !.result = asking[c].existing]
  <2>1. asking' = [asking EXCEPT ![c] = p]
    BY <1>2 DEF Cache!ReadInputs
  <2>2. asking[c].existing \in Record /\ asking[c].existing.input = input
    BY <1>1, <1>2 DEF Cache!CacheHit, Progress
  <2>3. p \in Progress
    BY <1>1, <2>2 DEF Progress
  <2>4. p.pc = "done" /\ p.result = asking[c].existing /\ p.since = asking[c].since
    BY <1>1 DEF Progress
  <2>5. Fresh(p, input)
    BY <1>1, <2>2, <2>4 DEF Fresh
  <2> HIDE DEF p
  <2>. QED
    BY <2>1, <2>3, <2>5, OneAsking DEF Cache!ReadInputs, CacheInv, CacheTypes
<1>3. CASE ~ Cache!CacheHit(asking[c].existing, input, config)
  <2> DEFINE p == [asking[c] EXCEPT !.pc = "call", !.read = input]
  <2>1. asking' = [asking EXCEPT ![c] = p]
    BY <1>3 DEF Cache!ReadInputs
  <2>2. p \in Progress
    BY <1>1 DEF Progress
  <2>3. p.pc = "call" /\ p.read = input /\ p.since = asking[c].since
    BY <1>1 DEF Progress
  <2>4. Fresh(p, input)
    BY <1>1, <2>3 DEF Fresh
  <2> HIDE DEF p
  <2>. QED
    BY <2>1, <2>2, <2>4, OneAsking DEF Cache!ReadInputs, CacheInv, CacheTypes
<1>. QED
  BY <1>2, <1>3

\* Whoever answers, the answer is about the input that was read.
LEMMA CallStep ==
    ASSUME CacheInv, NEW c \in Cache!Clients, Cache!CallLlm(c)
    PROVE  CacheInv'
<1>1. asking[c] \in Progress /\ asking[c].pc = "call" /\ asking[c].since <= asking[c].read
  BY DEF Cache!CallLlm, Cache!At, CacheInv, CacheTypes, Fresh
<1>2. PICK by \in Cache!Answerers :
        asking' = [asking EXCEPT ![c].pc = "save", ![c].result = Cache!Answer(asking[c].read, Cache!Identity(config), by)]
  BY DEF Cache!CallLlm, Cache!Answerers
<1> DEFINE a == Cache!Answer(asking[c].read, Cache!Identity(config), by)
           p == [asking[c] EXCEPT !.pc = "save", !.result = a]
<1>3. asking' = [asking EXCEPT ![c] = p]
  BY <1>1, <1>2 DEF CacheInv, CacheTypes
<1>4. a \in Record /\ a.input = asking[c].read
  BY <1>1 DEF Cache!Answer, Cache!Identity, Record, Progress
<1>5. p \in Progress
  BY <1>1, <1>4 DEF Progress
<1>6. p.pc = "save" /\ p.result = a /\ p.since = asking[c].since
  BY <1>1 DEF Progress
<1>7. Fresh(p, input)
  BY <1>1, <1>4, <1>6 DEF Fresh
<1> HIDE DEF p
<1>. QED
  BY <1>3, <1>5, <1>7, OneAsking DEF Cache!CallLlm, CacheInv, CacheTypes

\* The answer is stored over whatever is there.
LEMMA SaveAssessmentStep ==
    ASSUME CacheInv, NEW c \in Cache!Clients, Cache!Save(c)
    PROVE  CacheInv'
<1>1. asking[c] \in Progress /\ asking[c].pc = "save" /\ asking[c].result \in Record
      /\ asking[c].since <= asking[c].result.input
  BY DEF Cache!Save, Cache!At, CacheInv, CacheTypes, Fresh
<1> DEFINE p == [asking[c] EXCEPT !.pc = "done"]
<1>2. asking' = [asking EXCEPT ![c] = p]
  BY <1>1 DEF Cache!Save, CacheInv, CacheTypes
<1>3. p \in Progress
  BY <1>1 DEF Progress
<1>4. p.pc = "done" /\ p.result = asking[c].result /\ p.since = asking[c].since
  BY <1>1 DEF Progress
<1>5. Fresh(p, input)
  BY <1>1, <1>4 DEF Fresh
<1> HIDE DEF p
<1>. QED
  BY <1>1, <1>2, <1>3, <1>5, OneAsking DEF Cache!Save

\* An answer and a failure leave an idle client.
LEMMA EndStep ==
    ASSUME CacheInv, NEW c \in Cache!Clients, asking' = [asking EXCEPT ![c] = Cache!Idle], UNCHANGED <<input, stored>>
    PROVE  CacheInv'
BY IdleIsFresh, OneAsking DEF CacheInv, CacheTypes

\* The input moves on and leaves what was read behind; no client moves.
LEMMA InputStep ==
    ASSUME CacheInv, UNCHANGED <<asking, stored>>, input' \in {input, input + 1}
    PROVE  CacheInv'
<1>1. input \in Nat /\ input' \in Nat /\ input <= input'
  BY DEF CacheInv, CacheTypes
<1>2. CacheTypes'
  BY <1>1 DEF CacheInv, CacheTypes
<1>3. ASSUME NEW c \in Cache!Clients PROVE Fresh(asking'[c], input')
  <2>1. asking[c] \in Progress /\ Fresh(asking[c], input)
    BY DEF CacheInv, CacheTypes
  <2>2. asking[c].since \in Nat
    BY <2>1 DEF Progress
  <2>. QED
    BY <1>1, <2>1, <2>2 DEF Fresh
<1>. QED
  BY <1>2, <1>3 DEF CacheInv

LEMMA CacheNext ==
    ASSUME NoAssessment, CacheInv, [Cache!Next]_cacheVars
    PROVE  CacheInv'
<1>1. Worker \in Cache!Clients
  BY DEF Cache!Clients
<1>2. CASE Cache!ChangeInput \/ Cache!Reconfigure \/ Cache!Enqueue \/ UNCHANGED cacheVars
  BY <1>2, InputStep DEF Cache!ChangeInput, Cache!Reconfigure, Cache!Enqueue, cacheVars
<1>3. CASE Cache!Claim
  BY <1>1, <1>3, BeginStep DEF Cache!Claim
<1>4. CASE Cache!Complete \/ Cache!FailTask
  BY <1>1, <1>4, EndStep DEF Cache!Complete, Cache!FailTask
<1>5. ASSUME NEW c \in Cache!Clients, Cache!Request(c) PROVE CacheInv'
  BY <1>5, BeginStep DEF Cache!Request
<1>6. ASSUME NEW c \in Cache!Clients, Cache!Step(c) PROVE CacheInv'
  BY <1>6, ReadStep, CallStep, SaveAssessmentStep DEF Cache!Step
<1>7. ASSUME NEW c \in Cache!Clients, Cache!Respond(c) PROVE CacheInv'
  BY <1>7, EndStep DEF Cache!Respond
<1>. QED
  BY <1>2, <1>3, <1>4, <1>5, <1>6, <1>7 DEF Cache!Next

\* A task is there or it is not.
NoTask == None \notin {"queued", "running", "completed", "failed"}

LEMMA NoneIsNoTask == NoTask
BY NoneIsNoValue DEF NoneIsNoValue, NoTask

\* Nobody knows an input that is still to come; the worker works on its task.
CachePast ==
    /\ config \in Configs /\ input >= 1
    /\ task \in {None, "queued", "running", "completed", "failed"}
    /\ (task = "running") = (asking[Worker].pc # "idle")
    /\ stored # None => stored.input \in 1 .. input
    /\ \A c \in Cache!Clients :
          /\ asking[c].existing # None => asking[c].existing.input \in 1 .. input
          /\ asking[c].pc = "call" => asking[c].read \in 1 .. input
          /\ asking[c].result # None => asking[c].result.input \in 1 .. input

LEMMA CachePastInit == NoTask /\ Cache!Init => CachePast
BY DEF NoTask, Cache!Init, CachePast, Cache!Idle, Cache!Clients

\* Steps of one client.
LEMMA CachePastClient ==
    ASSUME CacheInv, CachePast, NEW c \in Cache!Clients, NEW p \in Progress,
           asking' = [asking EXCEPT ![c] = p], UNCHANGED <<input, config>>,
           stored' = stored \/ stored'.input \in 1 .. input,
           p.existing # None => p.existing.input \in 1 .. input,
           p.pc = "call" => p.read \in 1 .. input,
           p.result # None => p.result.input \in 1 .. input,
           task' \in {None, "queued", "running", "completed", "failed"},
           IF c = Worker THEN (task' = "running") = (p.pc # "idle") ELSE task' = task
    PROVE  CachePast'
<1>1. asking' \in [Cache!Clients -> Progress] /\ asking'[c] = p
      /\ \A d \in Cache!Clients : d # c => asking'[d] = asking[d]
  BY DEF CacheInv, CacheTypes
<1>2. Worker \in Cache!Clients
  BY DEF Cache!Clients
<1>. QED
  BY <1>1, <1>2 DEF CachePast

LEMMA CachePastNext ==
    ASSUME NoAssessment, NoTask, CacheInv, CachePast, [Cache!Next]_cacheVars PROVE CachePast'
<1>0. /\ Worker \in Cache!Clients /\ Worker \notin Requests /\ input \in Nat
      /\ asking \in [Cache!Clients -> Progress] /\ stored \in {None} \cup Record
  BY ServicesAssumption DEF ServicesAssumption, Cache!CacheAssumption, Cache!Clients, CacheInv, CacheTypes
<1>1. CASE Cache!ChangeInput \/ Cache!Reconfigure \/ Cache!Enqueue \/ UNCHANGED cacheVars
  BY <1>0, <1>1 DEF NoTask, Cache!ChangeInput, Cache!Reconfigure, Cache!Enqueue, cacheVars, CachePast
<1>2. ASSUME NEW c \in Cache!Clients, Cache!Begin(c), UNCHANGED <<input, config, stored>>,
             IF c = Worker THEN task' = "running" ELSE task' = task
      PROVE  CachePast'
  <2> DEFINE p == [Cache!Idle EXCEPT !.pc = "inputs", !.existing = stored, !.since = input]
  <2>1. asking' = [asking EXCEPT ![c] = p]
    BY <1>2 DEF Cache!Begin
  <2>2. p \in Progress /\ p.pc = "inputs" /\ p.existing = stored /\ p.result = None
    BY <1>0, IdleIsFresh DEF Progress, Cache!Idle
  <2> HIDE DEF p
  <2>3. stored # None => stored.input \in 1 .. input
    BY DEF CachePast
  <2>. QED
    BY <1>2, <2>1, <2>2, <2>3, CachePastClient DEF CachePast
<1>3. CASE Cache!Claim
  BY <1>0, <1>2, <1>3 DEF Cache!Claim
<1>4. ASSUME NEW c \in Cache!Clients, Cache!Request(c) PROVE CachePast'
  BY <1>0, <1>2, <1>4 DEF Cache!Request
<1>5. ASSUME NEW c \in Cache!Clients, asking' = [asking EXCEPT ![c] = Cache!Idle], UNCHANGED <<input, config, stored>>,
             IF c = Worker THEN task' \in {"completed", "failed"} ELSE task' = task
      PROVE  CachePast'
  <2>1. /\ Cache!Idle \in Progress /\ Cache!Idle.pc = "idle" /\ Cache!Idle.existing = None
        /\ Cache!Idle.result = None
    BY IdleIsFresh DEF Cache!Idle
  <2>. QED
    BY <1>5, <2>1, CachePastClient DEF CachePast
<1>6. CASE Cache!Complete \/ Cache!FailTask
  BY <1>0, <1>5, <1>6 DEF Cache!Complete, Cache!FailTask
<1>7. ASSUME NEW c \in Cache!Clients, Cache!Respond(c) PROVE CachePast'
  BY <1>0, <1>5, <1>7 DEF Cache!Respond
<1>8. ASSUME NEW c \in Cache!Clients, Cache!Step(c) PROVE CachePast'
  <2> DEFINE x == asking[c]
  <2>0. /\ x \in Progress /\ x.pc # "idle" /\ UNCHANGED <<input, config, task>>
        /\ c = Worker => (task' = "running")
        /\ x.existing # None => x.existing.input \in 1 .. input
        /\ x.pc = "call" => x.read \in 1 .. input
        /\ x.result # None => x.result.input \in 1 .. input
    BY <1>0, <1>8 DEF Cache!Step, Cache!ReadInputs, Cache!CallLlm, Cache!Save, Cache!At, CachePast
  <2>1. CASE Cache!ReadInputs(c) /\ Cache!CacheHit(x.existing, input, config)
    <3> DEFINE p == [x EXCEPT !.pc = "done", !.read = input, !.result = x.existing]
    <3>1. asking' = [asking EXCEPT ![c] = p] /\ UNCHANGED stored
      BY <2>1 DEF Cache!ReadInputs
    <3>2. /\ p \in Progress /\ p.pc = "done" /\ p.existing = x.existing /\ p.result = x.existing
      BY <1>0, <2>0 DEF Progress
    <3> HIDE DEF x, p
    <3>. QED
      BY <2>0, <3>1, <3>2, CachePastClient DEF CachePast
  <2>2. CASE Cache!ReadInputs(c) /\ ~ Cache!CacheHit(x.existing, input, config)
    <3> DEFINE p == [x EXCEPT !.pc = "call", !.read = input]
    <3>1. asking' = [asking EXCEPT ![c] = p] /\ UNCHANGED stored
      BY <2>2 DEF Cache!ReadInputs
    <3>2. /\ p \in Progress /\ p.pc = "call" /\ p.read = input /\ p.existing = x.existing
          /\ p.result = x.result
      BY <1>0, <2>0 DEF Progress
    <3>3. input \in 1 .. input
      BY <1>0 DEF CachePast
    <3> HIDE DEF x, p
    <3>. QED
      BY <2>0, <3>1, <3>2, <3>3, CachePastClient DEF CachePast
  <2>3. CASE Cache!CallLlm(c)
    <3>1. PICK by \in Cache!Answerers :
            asking' = [asking EXCEPT ![c].pc = "save",
                         ![c].result = Cache!Answer(asking[c].read, Cache!Identity(config), by)]
      BY <2>3 DEF Cache!CallLlm, Cache!Answerers
    <3> DEFINE a == Cache!Answer(x.read, Cache!Identity(config), by)
               p == [x EXCEPT !.pc = "save", !.result = a]
    <3>2. asking' = [asking EXCEPT ![c] = p] /\ UNCHANGED stored /\ x.pc = "call"
      BY <1>0, <2>3, <3>1 DEF Cache!CallLlm, Cache!At
    <3>3. a \in Record /\ a.input = x.read
      BY <2>0 DEF Cache!Answer, Cache!Identity, Record, Progress
    <3>4. p \in Progress /\ p.pc = "save" /\ p.existing = x.existing /\ p.result = a
      BY <2>0, <3>3 DEF Progress
    <3> HIDE DEF x, p, a
    <3>. QED
      BY <2>0, <3>2, <3>3, <3>4, CachePastClient DEF CachePast
  <2>4. CASE Cache!Save(c)
    <3> DEFINE p == [x EXCEPT !.pc = "done"]
    <3>1. asking' = [asking EXCEPT ![c] = p] /\ stored' = x.result /\ x.pc = "save"
      BY <1>0, <2>4 DEF Cache!Save, Cache!At
    <3>2. p \in Progress /\ p.pc = "done" /\ p.existing = x.existing /\ p.result = x.result
      BY <2>0 DEF Progress
    <3>3. x.result \in Record
      BY <3>1 DEF CacheInv, Fresh
    <3>4. x.result.input \in 1 .. input
      BY <2>0, <3>3 DEF NoAssessment
    <3> HIDE DEF x, p
    <3>. QED
      BY <2>0, <3>1, <3>2, <3>4, CachePastClient DEF CachePast
  <2>. QED
    BY <1>8, <2>1, <2>2, <2>3, <2>4 DEF Cache!Step
<1>. QED
  BY <1>1, <1>3, <1>4, <1>6, <1>7, <1>8 DEF Cache!Next, Cache!vars, cacheVars

-----------------------------------------------------------------------------
(* What Services says of it.                                               *)

CacheKnown == part = "cache" => CacheInv

LEMMA CacheInvariant == Spec => []CacheKnown
<1>1. Init => CacheKnown
  BY FirstPart, CacheInit DEF CacheKnown
<1>2. ASSUME CacheKnown, [Next]_vars PROVE CacheKnown'
  BY <1>2, NoneIsNoAssessment, OnePart, CacheNext DEF CacheKnown
<1>. QED
  BY <1>1, <1>2, PTL DEF Spec

\* A change made before a request is in what it returns, whoever else computes,
\* stores or changes anything meanwhile (_qualitative_cache_hit compares the
\* key with inputs it reads after the stored assessment).
THEOREM NothingOlderIsReturned == Spec => []ReturnsNothingOlder
<1>1. CacheKnown => ReturnsNothingOlder
  <2> SUFFICES ASSUME part = "cache", CacheInv, NEW c \in Cache!Clients, Cache!Returning(c)
               PROVE  Cache!Returned(c).input >= asking[c].since
    BY DEF CacheKnown, ReturnsNothingOlder, Cache!ReturnsNothingOlder
  <2>1. asking[c] \in Progress /\ asking[c].result \in Record /\ asking[c].since <= asking[c].result.input
    BY DEF CacheInv, CacheTypes, Fresh, Cache!Returning, Cache!At
  <2>2. asking[c].since \in Nat /\ asking[c].result.input \in Nat
    BY <2>1 DEF Progress, Record
  <2>. QED
    BY <2>1, <2>2 DEF Cache!Returned
<1>. QED
  BY <1>1, CacheInvariant, PTL

CacheTimed == part = "cache" => CachePast

LEMMA CachePastInvariant == Spec => []CacheTimed
<1>1. Init => CacheTimed
  BY NoneIsNoTask, FirstPart, CachePastInit DEF CacheTimed
<1>2. ASSUME CacheKnown, CacheTimed, [Next]_vars PROVE CacheTimed'
  BY <1>2, NoneIsNoAssessment, NoneIsNoTask, OnePart, CachePastNext DEF CacheKnown, CacheTimed
<1>. QED
  BY <1>1, <1>2, CacheInvariant, PTL DEF Spec

LEMMA CacheTyped == CacheInv /\ CachePast => Cache!TypeOK
BY DEF CacheInv, CacheTypes, CachePast, Record, Progress, Cache!TypeOK, Cache!Assessments, Cache!At

-----------------------------------------------------------------------------
(* Discovery.  DiscoveryEndpointsProofs is about DiscoveryEndpoints alone; *)
(* Services has two instances of it.                                       *)

EP == INSTANCE DiscoveryEndpointsProofs WITH
    Addresses <- EndpointAddresses, Workers <- EndpointWorkers, Requests <- EndpointRequests,
    MaxRequests <- EndpointBudget, MaxKills <- EndpointKills,
    worker <- prober, client <- promoting

RP == INSTANCE DiscoveryEndpointsProofs WITH
    Addresses <- RivalAddresses, Workers <- RivalWorkers, Requests <- RivalRequests,
    MaxRequests <- RivalBudget, MaxKills <- RivalKills,
    worker <- prober, client <- promoting

\* The endpoints of EP are those of Services.
LEMMA SameEndpoints ==
    /\ EP!EndpointsAssumption
    /\ EP!Init <=> Endpoints!Init
    /\ EP!Next <=> Endpoints!Next
    /\ EP!TypeOK <=> Endpoints!TypeOK
    /\ EP!FoundStep <=> Endpoints!FoundStep
    /\ EP!FollowUpStep <=> Endpoints!FollowUpStep
<1>1. EP!EndpointsAssumption
  BY ServicesAssumption DEF ServicesAssumption, EP!EndpointsAssumption, Endpoints!EndpointsAssumption,
                            EP!Endpoint, Endpoints!Endpoint
<1>2. EP!Init <=> Endpoints!Init
  BY DEF EP!Init, Endpoints!Init, EP!Idle, Endpoints!Idle, EP!NoRequest, Endpoints!NoRequest
<1>3. EP!Next <=> Endpoints!Next
  BY ZenonT(60) DEF EP!Next, EP!Idle, EP!NoRequest, EP!Statuses, EP!Endpoint, EP!Rows, EP!TargetsAt,
       EP!GetOrCreate, EP!Claim, EP!FailTask, EP!Probe, EP!Find, EP!Store, EP!Dedupe, EP!GetTarget,
       EP!Link, EP!Linked, EP!Promoted, EP!FollowUp, EP!Complete, EP!Kill, EP!Request, EP!Create,
       EP!Cancel, EP!PostTarget, EP!Unlink, EP!DeleteTarget, EP!ResetTargets, EP!PromoteCheck,
       EP!PromoteRead, EP!PromoteTarget, EP!PromoteSave, EP!Tables, EP!Jobs, EP!Min,
       Endpoints!Next, Endpoints!Idle, Endpoints!NoRequest, Endpoints!Statuses, Endpoints!Endpoint,
       Endpoints!Rows, Endpoints!TargetsAt, Endpoints!GetOrCreate, Endpoints!Claim,
       Endpoints!FailTask, Endpoints!Probe, Endpoints!Find, Endpoints!Store, Endpoints!Dedupe,
       Endpoints!GetTarget, Endpoints!Link, Endpoints!Linked, Endpoints!Promoted,
       Endpoints!FollowUp, Endpoints!Complete, Endpoints!Kill, Endpoints!Request, Endpoints!Create,
       Endpoints!Cancel, Endpoints!PostTarget, Endpoints!Unlink, Endpoints!DeleteTarget,
       Endpoints!ResetTargets, Endpoints!PromoteCheck, Endpoints!PromoteRead,
       Endpoints!PromoteTarget, Endpoints!PromoteSave, Endpoints!Tables, Endpoints!Jobs,
       Endpoints!Min
<1>4. EP!TypeOK <=> Endpoints!TypeOK
  BY DEF EP!TypeOK, Endpoints!TypeOK, EP!Statuses, Endpoints!Statuses, EP!Endpoint, Endpoints!Endpoint
<1>5. (EP!FoundStep <=> Endpoints!FoundStep) /\ (EP!FollowUpStep <=> Endpoints!FollowUpStep)
  BY DEF EP!FoundStep, Endpoints!FoundStep, EP!FollowUpStep, Endpoints!FollowUpStep, EP!Rows, Endpoints!Rows
<1>. QED
  BY <1>1, <1>2, <1>3, <1>4, <1>5

\* So are the rivals.
LEMMA SameRivals ==
    /\ RP!EndpointsAssumption
    /\ RP!Init <=> Rivals!Init
    /\ RP!Next <=> Rivals!Next
    /\ RP!TypeOK <=> Rivals!TypeOK
    /\ RP!FoundStep <=> Rivals!FoundStep
    /\ RP!FollowUpStep <=> Rivals!FollowUpStep
<1>1. RP!EndpointsAssumption
  BY ServicesAssumption DEF ServicesAssumption, RP!EndpointsAssumption, Rivals!EndpointsAssumption,
                            RP!Endpoint, Rivals!Endpoint
<1>2. RP!Init <=> Rivals!Init
  BY DEF RP!Init, Rivals!Init, RP!Idle, Rivals!Idle, RP!NoRequest, Rivals!NoRequest
<1>3. RP!Next <=> Rivals!Next
  BY ZenonT(60) DEF RP!Next, RP!Idle, RP!NoRequest, RP!Statuses, RP!Endpoint, RP!Rows, RP!TargetsAt,
       RP!GetOrCreate, RP!Claim, RP!FailTask, RP!Probe, RP!Find, RP!Store, RP!Dedupe, RP!GetTarget,
       RP!Link, RP!Linked, RP!Promoted, RP!FollowUp, RP!Complete, RP!Kill, RP!Request, RP!Create,
       RP!Cancel, RP!PostTarget, RP!Unlink, RP!DeleteTarget, RP!ResetTargets, RP!PromoteCheck,
       RP!PromoteRead, RP!PromoteTarget, RP!PromoteSave, RP!Tables, RP!Jobs, RP!Min,
       Rivals!Next, Rivals!Idle, Rivals!NoRequest, Rivals!Statuses, Rivals!Endpoint, Rivals!Rows,
       Rivals!TargetsAt, Rivals!GetOrCreate, Rivals!Claim, Rivals!FailTask, Rivals!Probe,
       Rivals!Find, Rivals!Store, Rivals!Dedupe, Rivals!GetTarget, Rivals!Link, Rivals!Linked,
       Rivals!Promoted, Rivals!FollowUp, Rivals!Complete, Rivals!Kill, Rivals!Request,
       Rivals!Create, Rivals!Cancel, Rivals!PostTarget, Rivals!Unlink, Rivals!DeleteTarget,
       Rivals!ResetTargets, Rivals!PromoteCheck, Rivals!PromoteRead, Rivals!PromoteTarget,
       Rivals!PromoteSave, Rivals!Tables, Rivals!Jobs, Rivals!Min
<1>4. RP!TypeOK <=> Rivals!TypeOK
  BY DEF RP!TypeOK, Rivals!TypeOK, RP!Statuses, Rivals!Statuses, RP!Endpoint, Rivals!Endpoint
<1>5. (RP!FoundStep <=> Rivals!FoundStep) /\ (RP!FollowUpStep <=> Rivals!FollowUpStep)
  BY DEF RP!FoundStep, Rivals!FoundStep, RP!FollowUpStep, Rivals!FollowUpStep, RP!Rows, Rivals!Rows
<1>. QED
  BY <1>1, <1>2, <1>3, <1>4, <1>5

EndpointsKnown == part = "endpoints" => EP!EndpointsInv
RivalsKnown    == part = "rivals" => RP!EndpointsInv

LEMMA EndpointsInvariant == Spec => []EndpointsKnown
<1>1. Init => EndpointsKnown
  BY FirstPart, SameEndpoints, EP!EndpointsInit DEF EndpointsKnown
<1>2. ASSUME EndpointsKnown, [Next]_vars PROVE EndpointsKnown'
  BY <1>2, OnePart, SameEndpoints, EP!EndpointsNext DEF EndpointsKnown, EP!vars, endpointVars
<1>. QED
  BY <1>1, <1>2, PTL DEF Spec

LEMMA RivalsInvariant == Spec => []RivalsKnown
<1>1. Init => RivalsKnown
  BY FirstPart, SameRivals, RP!EndpointsInit DEF RivalsKnown
<1>2. ASSUME RivalsKnown, [Next]_vars PROVE RivalsKnown'
  BY <1>2, OnePart, SameRivals, RP!EndpointsNext DEF RivalsKnown, RP!vars, endpointVars
<1>. QED
  BY <1>1, <1>2, PTL DEF Spec

\* For any number of addresses and workers that remove each other's duplicates,
\* an address that was found keeps a row (discoveries/services.py
\* upsert_discovered_endpoints).
THEOREM FoundAddressesStay == Spec => FoundStays
<1>1. RivalsKnown /\ [Next]_vars => [part = "rivals" => Rivals!FoundStep]_vars
  BY OnePart, SameRivals, RP!FoundSteps DEF RivalsKnown, RP!vars, endpointVars
<1>. QED
  BY <1>1, RivalsInvariant, PTL DEF Spec, FoundStays

\* A reset of the targets takes promotions back.
NoReset == "reset" \notin EndpointRequests

FollowUpKnown == part = "endpoints" => EP!EndpointsInv /\ EP!FollowInv

LEMMA FollowUpInvariant == ASSUME NoReset PROVE Spec => []FollowUpKnown
<1>1. Init => FollowUpKnown
  BY FirstPart, SameEndpoints, EP!EndpointsInit, EP!FollowInit DEF FollowUpKnown
<1>2. ASSUME FollowUpKnown, [Next]_vars PROVE FollowUpKnown'
  BY <1>2, OnePart, SameEndpoints, EP!EndpointsNext, EP!FollowNext DEF FollowUpKnown, EP!vars, endpointVars, NoReset
<1>. QED
  BY <1>1, <1>2, PTL DEF Spec

\* Unless the targets are reset meanwhile, the follow-up scan of a completed run
\* covers what the run found, for any number of addresses, workers and requests
\* (discoveries/services.py _enqueue_follow_up_scan).
THEOREM FollowUpsCover == ASSUME NoReset PROVE Spec => FollowUpCovers
<1>1. FollowUpKnown /\ [Next]_vars => [part = "endpoints" => Endpoints!FollowUpStep]_vars
  BY SameEndpoints, EP!FollowUpSteps DEF FollowUpKnown, Next
<1>. QED
  BY <1>1, FollowUpInvariant, PTL DEF Spec, FollowUpCovers
-----------------------------------------------------------------------------
(* Performance runs: PerformanceRunProofs, carried over.                   *)

PP == INSTANCE PerformanceRunProofs WITH
    Runs <- RunIds, task <- runTask, worker <- runner, client <- posting

\* The runs of PP are those of Services.
LEMMA SameRuns ==
    /\ PP!RunAssumption
    /\ PP!Init <=> Perf!Init
    /\ PP!Next <=> Perf!Next
    /\ PP!TypeOK <=> Perf!TypeOK
    /\ PP!TimesFitStatus <=> Perf!TimesFitStatus
    /\ PP!CountsOnlyResults <=> Perf!CountsOnlyResults
<1>1. PP!RunAssumption
  BY ServicesAssumption DEF ServicesAssumption, PP!RunAssumption, Perf!RunAssumption, PP!Assets, Perf!Assets,
       PP!RunRow, Perf!RunRow, PP!Statuses, Perf!Statuses, PP!Final, Perf!Final
<1>2. PP!Init <=> Perf!Init
  BY DEF PP!Init, Perf!Init, PP!Resting, Perf!Resting, PP!Waiting, Perf!Waiting, PP!Clients, Perf!Clients
<1>3. PP!Next <=> Perf!Next
  BY ZenonT(60) DEF PP!Assets, PP!Final, PP!Statuses, PP!RunRow, PP!Row, PP!Resting, PP!Waiting, PP!Clients,
       PP!Updated, PP!SaveRun, PP!Ran, PP!Started, PP!SaveStarted, PP!Counted, PP!SaveSummary,
       PP!BaselineFor, PP!ReadSnapshot, PP!Create, PP!Link, PP!Enqueue, PP!Claim, PP!ReadRun,
       PP!MarkRunning, PP!Measure, PP!Count, PP!Summarise, PP!MarkCompleted, PP!Complete, PP!Fail,
       PP!Begin, PP!ReadPatch, PP!SavePatch, PP!ReadPost, PP!Upsert, PP!StartPosted, PP!CountPosted,
       PP!SummarisePosted, PP!Work, PP!Next, Perf!Assets, Perf!Final, Perf!Statuses, Perf!RunRow,
       Perf!Row, Perf!Resting, Perf!Waiting, Perf!Clients, Perf!Updated, Perf!SaveRun, Perf!Ran,
       Perf!Started, Perf!SaveStarted, Perf!Counted, Perf!SaveSummary, Perf!BaselineFor,
       Perf!ReadSnapshot, Perf!Create, Perf!Link, Perf!Enqueue, Perf!Claim, Perf!ReadRun,
       Perf!MarkRunning, Perf!Measure, Perf!Count, Perf!Summarise, Perf!MarkCompleted,
       Perf!Complete, Perf!Fail, Perf!Begin, Perf!ReadPatch, Perf!SavePatch, Perf!ReadPost,
       Perf!Upsert, Perf!StartPosted, Perf!CountPosted, Perf!SummarisePosted, Perf!Work, Perf!Next
<1>4. PP!TypeOK <=> Perf!TypeOK
  BY DEF PP!TypeOK, Perf!TypeOK, PP!RunRow, Perf!RunRow, PP!Statuses, Perf!Statuses, PP!Final, Perf!Final,
         PP!Assets, Perf!Assets
<1>5. (PP!TimesFitStatus <=> Perf!TimesFitStatus) /\ (PP!CountsOnlyResults <=> Perf!CountsOnlyResults)
  BY DEF PP!TimesFitStatus, Perf!TimesFitStatus, PP!CountsOnlyResults, Perf!CountsOnlyResults,
         PP!Exists, Perf!Exists, PP!Final, Perf!Final
<1>. QED
  BY <1>1, <1>2, <1>3, <1>4, <1>5

RunsKnown == part = "runs" => PP!RunInv

LEMMA RunsInvariant == Spec => []RunsKnown
<1>1. Init => RunsKnown
  BY FirstPart, SameRuns, PP!RunsInit DEF RunsKnown
<1>2. ASSUME RunsKnown, [Next]_vars PROVE RunsKnown'
  BY <1>2, OnePart, SameRuns, PP!RunsNext DEF RunsKnown, PP!vars, runVars
<1>. QED
  BY <1>1, <1>2, PTL DEF Spec

LEMMA RunsTyped == RunsKnown => (part = "runs" => Perf!TypeOK)
BY SameRuns, PP!RunsSound DEF RunsKnown

\* Whatever rows are written over by whom, for any number of runs, of clients
\* that post and patch, and of assets, status and times agree and a summary
\* counts no asset that has no result (performance/services.py).
THEOREM RunsFitThemselves == Spec => []RunFitsItself
<1>1. RunsKnown => RunFitsItself
  BY SameRuns, PP!RunsSound DEF RunsKnown, RunFitsItself
<1>. QED
  BY <1>1, RunsInvariant, PTL
-----------------------------------------------------------------------------
(* The export of a snapshot.                                               *)

WriterState == [pc : {"idle", "read"}, of : 0 .. ExportAssets, seen : SUBSET (Nat \ {0})]

\* The rows, and those that write them.
ScoresTyped ==
    /\ found \in 0 .. ExportAssets /\ scores \subseteq Export!Row /\ fresh \in Nat \ {0} /\ writes \in 0 .. MaxWrites
    /\ \A r \in scores : r.id < fresh /\ \A s \in scores : r.id = s.id => r = s
    /\ writer \in [ExportWorkers -> WriterState]
    /\ \A w \in ExportWorkers : /\ writer[w].pc = "read" => writer[w].of \in 1 .. ExportAssets
                                /\ \A id \in writer[w].seen : id < fresh

Reading == {"parts", "exported"}
ReaderTyped ==
    /\ DOMAIN reader = {"pc", "assets", "plan", "subjects", "parts", "total", "walked", "quiet"}
    /\ reader.pc \in {"idle", "plan", "walk", "listed"} \cup Reading /\ reader.quiet \in BOOLEAN
    /\ \E S : reader.parts \in Seq(S)
    /\ reader.pc \notin Reading => reader.parts = <<>>
    /\ DOMAIN reader.plan \subseteq Nat

\* A reader that was not disturbed holds what the rows still say.
ReaderAgrees ==
    /\ reader.subjects \subseteq 1 .. reader.assets
    /\ reader.pc \in Reading /\ reader.quiet =>
          /\ Export!Lists(reader.plan)
          /\ \A a \in DOMAIN reader.parts : /\ reader.parts[a].risk = Export!Latest(a)
                                            /\ reader.parts[a].item = Export!LastItem(reader.plan, a)

ExportInv == ScoresTyped /\ ReaderTyped /\ ReaderAgrees

LEMMA ExportBounds ==
    ExportAssets \in Nat \ {0} /\ Scores \subseteq Nat /\ MaxWrites \in Nat /\ None \notin Scores
BY ServicesAssumption DEF ServicesAssumption, Export!ExportAssumption

LEMMA ExportInit == ASSUME Export!Init PROVE ExportInv
<1>1. ScoresTyped
  BY ExportBounds DEF Export!Init, ScoresTyped, WriterState, Export!Resting
<1>2. ReaderTyped
  BY DEF Export!Init, ReaderTyped, Export!NoReader, Reading
<1>3. ReaderAgrees
  BY DEF Export!Init, ReaderAgrees, Export!NoReader, Reading
<1>. QED
  BY <1>1, <1>2, <1>3 DEF ExportInv

\* A step that writes disturbs the reader.
LEMMA DisturbStep ==
    ASSUME ReaderTyped, ReaderAgrees, Export!Disturb PROVE ReaderTyped' /\ ReaderAgrees'
<1>1. /\ DOMAIN reader' = DOMAIN reader
      /\ reader'.pc = reader.pc /\ reader'.parts = reader.parts /\ reader'.plan = reader.plan
      /\ reader'.subjects = reader.subjects /\ reader'.assets = reader.assets
      /\ reader'.quiet = (reader.pc = "idle")
  BY DEF ReaderTyped, Export!Disturb
<1>2. ReaderTyped'
  BY <1>1 DEF ReaderTyped
<1>3. ReaderAgrees'
  BY <1>1 DEF ReaderAgrees, Reading
<1>. QED
  BY <1>2, <1>3

\* What was read stays right while nothing is written.
LEMMA SameRows ==
    ASSUME UNCHANGED scores
    PROVE  /\ \A a : Export!Latest(a)' = Export!Latest(a)
           /\ \A plan : Export!Lists(plan)' <=> Export!Lists(plan)
           /\ \A plan, a : Export!LastItem(plan, a)' = Export!LastItem(plan, a)
BY DEF Export!Latest, Export!RowsOf, Export!Lists, Export!Before, Export!LastItem

LEMMA ReaderWaits ==
    ASSUME ReaderTyped, ReaderAgrees, UNCHANGED <<reader, scores>> PROVE ReaderTyped' /\ ReaderAgrees'
<1>1. ReaderTyped'
  BY DEF ReaderTyped
<1>2. ReaderAgrees'
  BY SameRows DEF ReaderAgrees
<1>. QED
  BY <1>1, <1>2

LEMMA PersistStep == ASSUME ExportInv, Export!Persist PROVE ExportInv'
<1>1. ScoresTyped'
  BY ExportBounds DEF ExportInv, ScoresTyped, Export!Persist
<1>. QED
  BY <1>1, DisturbStep DEF ExportInv, Export!Persist

LEMMA ReadRowsStep == ASSUME ExportInv, NEW w \in ExportWorkers, Export!ReadRows(w) PROVE ExportInv'
<1>1. PICK a \in 1 .. found : writer' = [writer EXCEPT ![w] = [pc |-> "read", of |-> a, seen |-> Export!IdsOf(a)]]
  BY DEF Export!ReadRows
<1>2. \A id \in Export!IdsOf(a) : id \in Nat \ {0} /\ id < fresh
  BY DEF Export!IdsOf, Export!RowsOf, Export!Row, ExportInv, ScoresTyped
<1>3. a \in 1 .. ExportAssets
  BY ExportBounds DEF ExportInv, ScoresTyped
<1>4. ScoresTyped'
  <2>1. [pc |-> "read", of |-> a, seen |-> Export!IdsOf(a)] \in WriterState
    BY <1>2, <1>3 DEF WriterState
  <2>. QED
    BY <1>1, <1>2, <1>3, <2>1, ExportBounds DEF ExportInv, ScoresTyped, Export!ReadRows
<1>. QED
  BY <1>4, ReaderWaits DEF ExportInv, Export!ReadRows

LEMMA RestsTyped == Export!Resting \in WriterState /\ Export!Resting.pc = "idle" /\ Export!Resting.seen = {}
BY ExportBounds DEF WriterState, Export!Resting

LEMMA InsertStep == ASSUME ExportInv, NEW w \in ExportWorkers, Export!Insert(w) PROVE ExportInv'
<1>1. PICK s \in Scores : scores' = scores \cup {[id |-> fresh, of |-> writer[w].of, score |-> s]}
  BY DEF Export!Insert
<1> DEFINE x == [id |-> fresh, of |-> writer[w].of, score |-> s]
<1>2. x \in Export!Row /\ x.id = fresh
  BY DEF Export!Insert, ExportInv, ScoresTyped, Export!Row
<1>3. scores' = scores \cup {x}
  BY <1>1
<1> HIDE DEF x
<1>4. fresh' = fresh + 1 /\ UNCHANGED <<found, writes>> /\ writer' = [writer EXCEPT ![w] = Export!Resting]
  BY DEF Export!Insert, Export!Rest
<1>5. \A r \in scores : r.id \in Nat
  BY DEF ExportInv, ScoresTyped, Export!Row
<1>6. ScoresTyped'
  <2>1. /\ found' \in 0 .. ExportAssets /\ scores' \subseteq Export!Row /\ fresh' \in Nat \ {0}
        /\ writes' \in 0 .. MaxWrites
    BY <1>2, <1>3, <1>4 DEF ExportInv, ScoresTyped
  <2>2. \A r \in scores' : r.id < fresh' /\ \A t \in scores' : r.id = t.id => r = t
    BY <1>2, <1>3, <1>4, <1>5 DEF ExportInv, ScoresTyped
  <2>3. writer' \in [ExportWorkers -> WriterState]
    BY <1>4, RestsTyped DEF ExportInv, ScoresTyped
  <2>4. \A v \in ExportWorkers : /\ writer'[v].pc = "read" => writer'[v].of \in 1 .. ExportAssets
                                 /\ \A id \in writer'[v].seen : id < fresh'
    <3>1. \A v \in ExportWorkers : writer[v].seen \subseteq Nat
      BY DEF ExportInv, ScoresTyped, WriterState
    <3>. QED
      BY <1>4, <3>1, RestsTyped DEF ExportInv, ScoresTyped
  <2>. QED
    BY <2>1, <2>2, <2>3, <2>4 DEF ScoresTyped
<1>. QED
  BY <1>6, DisturbStep DEF ExportInv, Export!Insert

LEMMA TrimStep == ASSUME ExportInv, NEW w \in ExportWorkers, Export!Trim(w) PROVE ExportInv'
<1>1. PICK first \in writer[w].seen : /\ scores' = {r \in scores : r.id \notin writer[w].seen \ {first}}
                                     /\ writer' = [writer EXCEPT ![w].seen = {first}]
  BY DEF Export!Trim
<1>2. UNCHANGED <<found, fresh, writes>> /\ Export!Disturb
  BY DEF Export!Trim
<1> DEFINE k == [writer[w] EXCEPT !.seen = {first}]
<1>3. k \in WriterState /\ k.pc = writer[w].pc /\ k.of = writer[w].of /\ k.seen = {first} /\ first < fresh
  BY DEF ExportInv, ScoresTyped, WriterState
<1>4. writer' = [writer EXCEPT ![w] = k]
  BY <1>1
<1> HIDE DEF k
<1>5. ScoresTyped'
  BY <1>1, <1>2, <1>3, <1>4 DEF ExportInv, ScoresTyped
<1>. QED
  BY <1>2, <1>5, DisturbStep DEF ExportInv

LEMMA SaveScoreStep == ASSUME ExportInv, NEW w \in ExportWorkers, Export!Save(w) PROVE ExportInv'
<1>1. PICK first \in writer[w].seen, s \in Scores :
         scores' = {IF r.id = first THEN [r EXCEPT !.score = s] ELSE r : r \in scores}
  BY DEF Export!Save
<1>2. /\ UNCHANGED <<found, fresh, writes>> /\ Export!Disturb
      /\ writer' = [writer EXCEPT ![w] = Export!Resting]
  BY DEF Export!Save, Export!Rest
<1> DEFINE Of(r) == IF r.id = first THEN [r EXCEPT !.score = s] ELSE r
<1>3. \A r \in scores : Of(r) \in Export!Row /\ Of(r).id = r.id
  BY DEF ExportInv, ScoresTyped, Export!Row
<1>4. scores' = {Of(r) : r \in scores}
  BY <1>1
<1> HIDE DEF Of
<1>5. scores' \subseteq Export!Row /\ \A r \in scores' : r.id < fresh /\ \A t \in scores' : r.id = t.id => r = t
  BY <1>3, <1>4 DEF ExportInv, ScoresTyped
<1>6. ScoresTyped'
  BY <1>2, <1>5, RestsTyped DEF ExportInv, ScoresTyped
<1>. QED
  BY <1>2, <1>6, DisturbStep DEF ExportInv

\* The reader.
LEMMA WritersWait == ASSUME ScoresTyped, UNCHANGED <<found, scores, fresh, writer, writes>> PROVE ScoresTyped'
BY DEF ScoresTyped

LEMMA BeginExportStep == ASSUME ExportInv, Export!BeginExport PROVE ExportInv'
<1>1. ReaderTyped' /\ ReaderAgrees'
  BY DEF Export!BeginExport, Export!NoReader, ReaderTyped, ReaderAgrees, Reading
<1>. QED
  BY <1>1, WritersWait DEF ExportInv, Export!BeginExport

LEMMA ReadPlanStep == ASSUME ExportInv, Export!ReadPlan PROVE ExportInv'
<1>1. PICK plan \in [1 .. Export!Cardinality(scores) -> scores] :
         /\ Export!Lists(plan)
         /\ reader' = [reader EXCEPT !.pc = "parts", !.plan = plan, !.subjects = Export!Subjects(plan, reader.assets)]
  BY DEF Export!ReadPlan
<1>2. /\ DOMAIN reader' = DOMAIN reader /\ reader'.pc = "parts" /\ reader'.plan = plan
      /\ reader'.subjects = Export!Subjects(plan, reader.assets) /\ reader'.assets = reader.assets
      /\ reader'.parts = reader.parts /\ reader'.quiet = reader.quiet
  BY <1>1 DEF ExportInv, ReaderTyped
<1>3. UNCHANGED <<found, scores, fresh, writer, writes>> /\ reader.parts = <<>> /\ reader'.pc \in Reading
  BY <1>2 DEF Export!ReadPlan, ExportInv, ReaderTyped, Reading
<1>4. DOMAIN plan \subseteq Nat
  OBVIOUS
<1>5. ReaderTyped'
  BY <1>2, <1>3, <1>4 DEF ExportInv, ReaderTyped
<1>6. ReaderAgrees'
  <2>1. reader'.subjects \subseteq 1 .. reader'.assets
    BY <1>2 DEF Export!Subjects
  <2>2. Export!Lists(reader.plan)'
    BY <1>1, <1>2, <1>3, SameRows
  <2>3. DOMAIN reader'.parts = {}
    BY <1>2, <1>3
  <2>. QED
    BY <2>1, <2>2, <2>3 DEF ReaderAgrees
<1>. QED
  BY <1>3, <1>5, <1>6, WritersWait DEF ExportInv

LEMMA Appended ==
    ASSUME NEW S, NEW s \in Seq(S), NEW x
    PROVE  /\ Append(s, x) \in Seq(S \cup {x})
           /\ DOMAIN Append(s, x) = DOMAIN s \cup {Len(s) + 1}
           /\ Append(s, x)[Len(s) + 1] = x /\ \A i \in DOMAIN s : Append(s, x)[i] = s[i]
<1>1. s \in Seq(S \cup {x})
  OBVIOUS
<1>. QED
  BY <1>1

LEMMA ComponentStep == ASSUME ExportInv, Export!Component PROVE ExportInv'
<1> DEFINE n == Export!Len(reader.parts) + 1
           x == [risk |-> Export!Latest(n), item |-> Export!LastItem(reader.plan, n)]
<1>1. reader.pc = "parts" /\ UNCHANGED <<found, scores, fresh, writer, writes>>
  BY DEF Export!Component
<1>2. reader' = [reader EXCEPT !.parts = Append(@, x)]
  BY DEF Export!Component
<1> HIDE DEF n, x
<1>3. PICK S : reader.parts \in Seq(S)
  BY DEF ExportInv, ReaderTyped
<1>4. /\ DOMAIN reader' = DOMAIN reader /\ reader'.pc = "parts" /\ reader'.plan = reader.plan
      /\ reader'.subjects = reader.subjects /\ reader'.assets = reader.assets
      /\ reader'.parts = Append(reader.parts, x) /\ reader'.quiet = reader.quiet
  BY <1>1, <1>2 DEF ExportInv, ReaderTyped
<1>5. ReaderTyped'
  <2>1. reader'.parts \in Seq(S \cup {x})
    BY <1>3, <1>4, Appended
  <2>. QED
    BY <1>1, <1>4, <2>1 DEF ExportInv, ReaderTyped, Reading
<1>6. ReaderAgrees'
  <2>1. SUFFICES ASSUME reader.quiet, NEW a \in DOMAIN reader'.parts
                 PROVE  /\ reader'.parts[a].risk = Export!Latest(a)'
                        /\ reader'.parts[a].item = Export!LastItem(reader.plan, a)'
    BY <1>1, <1>4, SameRows DEF ExportInv, ReaderAgrees, Reading
  <2>. QED
    BY <1>1, <1>3, <1>4, <2>1, Appended, SameRows DEF ExportInv, ReaderAgrees, Reading, n, x
<1>. QED
  BY <1>1, <1>5, <1>6, WritersWait DEF ExportInv

LEMMA ExportedStep == ASSUME ExportInv, Export!Exported PROVE ExportInv'
<1>1. UNCHANGED <<found, scores, fresh, writer, writes>>
  BY DEF Export!Exported
<1>2. /\ DOMAIN reader' = DOMAIN reader /\ reader'.pc = "exported" /\ reader'.plan = reader.plan
      /\ reader'.subjects = reader.subjects /\ reader'.assets = reader.assets
      /\ reader'.parts = reader.parts /\ reader'.quiet = reader.quiet /\ reader.pc = "parts"
  BY DEF Export!Exported, ExportInv, ReaderTyped
<1>3. ReaderTyped'
  BY <1>2 DEF ExportInv, ReaderTyped, Reading
<1>4. ReaderAgrees'
  BY <1>1, <1>2, SameRows DEF ExportInv, ReaderAgrees, Reading
<1>. QED
  BY <1>1, <1>3, <1>4, WritersWait DEF ExportInv

LEMMA WalkSteps == ASSUME ExportInv, Export!BeginWalk \/ Export!Page \/ Export!Listed PROVE ExportInv'
<1>1. UNCHANGED <<found, scores, fresh, writer, writes>>
  BY DEF Export!BeginWalk, Export!Page, Export!Listed
<1>2. CASE Export!BeginWalk
  BY <1>1, <1>2, WritersWait DEF Export!BeginWalk, Export!NoReader, ExportInv, ReaderTyped, ReaderAgrees, Reading
<1>3. CASE Export!Page \/ Export!Listed
  <2>1. /\ DOMAIN reader' = DOMAIN reader /\ reader'.pc \in {"walk", "listed"} /\ reader'.plan = reader.plan
        /\ reader'.subjects = reader.subjects /\ reader'.assets = reader.assets
        /\ reader'.parts = reader.parts /\ reader'.quiet = reader.quiet /\ reader.pc = "walk"
    BY <1>3 DEF Export!Page, Export!Listed, ExportInv, ReaderTyped
  <2>. QED
    BY <1>1, <2>1, WritersWait DEF ExportInv, ReaderTyped, ReaderAgrees, Reading
<1>. QED
  BY <1>2, <1>3

LEMMA ExportNext == ASSUME ExportInv, [Export!Next]_exportVars PROVE ExportInv'
<1>1. CASE UNCHANGED exportVars
  BY <1>1, WritersWait, ReaderWaits DEF exportVars, ExportInv
<1>2. ASSUME NEW w \in ExportWorkers,
             Export!ReadRows(w) \/ Export!Insert(w) \/ Export!Trim(w) \/ Export!Save(w)
      PROVE  ExportInv'
  <2>1. CASE Export!ReadRows(w)
    BY <2>1, ReadRowsStep
  <2>2. CASE Export!Insert(w)
    BY <2>2, InsertStep
  <2>3. CASE Export!Trim(w)
    BY <2>3, TrimStep
  <2>4. CASE Export!Save(w)
    BY <2>4, SaveScoreStep
  <2>. QED
    BY <1>2, <2>1, <2>2, <2>3, <2>4
<1>. QED
  BY <1>1, <1>2, PersistStep, BeginExportStep, ReadPlanStep, ComponentStep, ExportedStep, WalkSteps DEF Export!Next

\* Where every asset has one row, its last item of the plan is that row.
LEMMA LastIsLatest ==
    ASSUME ScoresTyped, Export!OneScorePerAsset, NEW plan, DOMAIN plan \subseteq Nat, Export!Lists(plan), NEW a
    PROVE  Export!LastItem(plan, a) = Export!Latest(a)
<1> DEFINE at == {i \in DOMAIN plan : plan[i].of = a}
<1>1. \A r \in scores : r.id \in Nat /\ r.score \in Nat /\ r.of \in Nat
  <2>1. \A r \in scores : r.id \in Nat /\ r.score \in Scores /\ r.of \in 1 .. ExportAssets
    BY DEF ScoresTyped, Export!Row
  <2>2. 1 .. ExportAssets \subseteq Nat /\ Scores \subseteq Nat
    BY ExportBounds
  <2>. QED
    BY <2>1, <2>2
<1>2. CASE Export!RowsOf(a) = {}
  <2>1. at = {}
    BY <1>2 DEF Export!RowsOf, Export!Lists
  <2>. QED
    BY <1>2, <2>1 DEF Export!LastItem, Export!Latest
<1>3. CASE Export!RowsOf(a) # {}
  <2>1. PICK r \in scores : r.of = a
    BY <1>3 DEF Export!RowsOf
  <2>2. Export!RowsOf(a) = {r}
    BY <2>1 DEF Export!RowsOf, Export!OneScorePerAsset
  <2>3. PICK i \in DOMAIN plan : plan[i] = r
    BY <2>1 DEF Export!Lists
  <2>4. \A j \in at : plan[j] = r
    BY <2>1, <2>2 DEF Export!Lists, Export!RowsOf
  <2>5. ~Export!Before(r, r)
    BY <1>1, <2>1 DEF Export!Before
  <2>6. at = {i}
    BY <2>1, <2>3, <2>4, <2>5 DEF Export!Lists
  <2>7. Export!LastItem(plan, a) = r.score
    BY <2>3, <2>6 DEF Export!LastItem
  <2>8. Export!Latest(a) = r.score
    BY <1>1, <2>1, <2>2 DEF Export!Latest
  <2>. QED
    BY <2>7, <2>8
<1>. QED
  BY <1>2, <1>3

ExportKnown == part = "export" => ExportInv

LEMMA ExportInvariant == Spec => []ExportKnown
<1>1. Init => ExportKnown
  BY FirstPart, ExportInit DEF ExportKnown
<1>2. ASSUME ExportKnown, [Next]_vars PROVE ExportKnown'
  BY <1>2, OnePart, ExportNext DEF ExportKnown
<1>. QED
  BY <1>1, <1>2, PTL DEF Spec

LEMMA ExportTyped == ExportKnown => (part = "export" => Export!TypeOK)
BY DEF ExportKnown, ExportInv, ScoresTyped, ReaderTyped, Reading, WriterState, Export!TypeOK

\* For any number of assets and workers: the subjects of a document are among
\* its components, and one assembled while nothing is written, of assets with
\* one score each, shows of each the score its migration was recommended for
\* (snapshots/cbom.py).
THEOREM QuietExportsAgree == Spec => []QuietExportAgrees
<1>1. ASSUME ExportInv PROVE Export!SubjectsAreComponents /\ Export!QuietExportAgrees
  <2>1. Export!SubjectsAreComponents
    BY <1>1 DEF ExportInv, ReaderAgrees, Export!SubjectsAreComponents
  <2>2. Export!QuietExportAgrees
    BY <1>1, LastIsLatest DEF ExportInv, ReaderAgrees, ReaderTyped, Reading, Export!QuietExportAgrees
  <2>. QED
    BY <2>1, <2>2
<1>2. ExportKnown => QuietExportAgrees
  BY <1>1 DEF ExportKnown, QuietExportAgrees
<1>. QED
  BY <1>2, ExportInvariant, PTL
-----------------------------------------------------------------------------
(* Risk scores: RiskScoresProofs, carried over.                            *)

RR == INSTANCE RiskScoresProofs WITH
    Assets <- RiskAssets, Clients <- RiskClients, Workers <- {RiskWorker}, MaxChanges <- RiskChanges,
    target <- context, worker <- scorer, client <- patching, changes <- edits

\* The scores of RR are those of Services.
LEMMA SameRisk ==
    /\ RR!RiskAssumption /\ RR!OneWorker
    /\ RR!Init <=> Risk!Init
    /\ RR!Next <=> Risk!Next
    /\ RR!TypeOK <=> Risk!TypeOK
    /\ RR!ScoresFollowContext <=> Risk!ScoresFollowContext
<1>1. RR!RiskAssumption /\ RR!OneWorker
  BY ServicesAssumption DEF ServicesAssumption, RR!RiskAssumption, Risk!RiskAssumption, RR!AssetSet, Risk!AssetSet,
       RR!Score, Risk!Score, RR!Context, Risk!Context, RR!ToSet, Risk!ToSet, RR!IsInjective, Risk!IsInjective,
       RR!OneWorker
<1>2. RR!Init <=> Risk!Init
  BY DEF RR!Init, Risk!Init, RR!AssetSet, Risk!AssetSet, RR!ToSet, Risk!ToSet, RR!Unset, Risk!Unset,
       RR!Resting, Risk!Resting, RR!Nothing, Risk!Nothing, RR!NoPatch, Risk!NoPatch
<1>3. RR!Next <=> Risk!Next
  BY ZenonT(60) DEF RR!AssetSet, RR!ToSet, RR!Context, RR!Unset, RR!Database, RR!Patch, RR!Nothing, RR!Resting,
       RR!NoPatch, RR!Merge, RR!Effective, RR!Linked, RR!Exists, RR!Covers, RR!Owe, RR!Remaining, RR!ClaimTask,
       RR!ResolveWeights, RR!ReadAssets, RR!Position, RR!First, RR!ScoreAsset, RR!FinishTask, RR!KillWorker,
       RR!Work, RR!Change, RR!Enqueue, RR!ReadTarget, RR!Patched, RR!SaveTarget, RR!DeleteTarget, RR!PatchAsset,
       RR!PutWeights, RR!PostRecompute, RR!RemoveAt, RR!CancelQueued, RR!ResetSnapshots, RR!ReadForInference,
       RR!WriteInference, RR!Request, RR!Next,
       Risk!AssetSet, Risk!ToSet, Risk!Context, Risk!Unset, Risk!Database, Risk!Patch, Risk!Nothing, Risk!Resting,
       Risk!NoPatch, Risk!Merge, Risk!Effective, Risk!Linked, Risk!Exists, Risk!Covers, Risk!Owe, Risk!Remaining,
       Risk!ClaimTask, Risk!ResolveWeights, Risk!ReadAssets, Risk!Position, Risk!First, Risk!ScoreAsset,
       Risk!FinishTask, Risk!KillWorker, Risk!Work, Risk!Change, Risk!Enqueue, Risk!ReadTarget, Risk!Patched,
       Risk!SaveTarget, Risk!DeleteTarget, Risk!PatchAsset, Risk!PutWeights, Risk!PostRecompute, Risk!RemoveAt,
       Risk!CancelQueued, Risk!ResetSnapshots, Risk!ReadForInference, Risk!WriteInference, Risk!Request, Risk!Next
<1>4. RR!TypeOK <=> Risk!TypeOK
  BY DEF RR!TypeOK, Risk!TypeOK, RR!AssetSet, Risk!AssetSet, RR!ToSet, Risk!ToSet, RR!Context, Risk!Context,
       RR!Score, Risk!Score, RR!Task, Risk!Task, RR!Patch, Risk!Patch, RR!Reasons, Risk!Reasons
<1>5. RR!ScoresFollowContext <=> Risk!ScoresFollowContext
  BY DEF RR!ScoresFollowContext, Risk!ScoresFollowContext, RR!Quiet, Risk!Quiet, RR!Current, Risk!Current,
       RR!Exists, Risk!Exists, RR!Effective, Risk!Effective, RR!Merge, Risk!Merge, RR!Unset, Risk!Unset,
       RR!AssetSet, Risk!AssetSet, RR!ToSet, Risk!ToSet
<1>. QED
  BY <1>1, <1>2, <1>3, <1>4, <1>5

RiskKnown == part = "risk" => RR!RiskInv

LEMMA RiskInvariant == Spec => []RiskKnown
<1>1. Init => RiskKnown
  BY FirstPart, SameRisk, RR!RiskInit DEF RiskKnown
<1>2. ASSUME RiskKnown, [Next]_vars PROVE RiskKnown'
  BY <1>2, OnePart, SameRisk, RR!RiskNext DEF RiskKnown, RR!vars, riskVars
<1>. QED
  BY <1>1, <1>2, PTL DEF Spec

\* For any number of assets, of overlapping requests and of tasks: with none
\* left every score is that of the present context, or one of the reasons that
\* enqueue nothing is on record; and every target that shows a context has had
\* a task for it (risk/services.py, targets/api.py, assets/api.py).
THEOREM ScoresAlwaysFollow == Spec => []ScoresFollowContext
<1>1. ASSUME RiskKnown, TargetsKnown PROVE ScoresFollowContext
  BY <1>1, SameRisk, RR!RiskSound DEF RiskKnown, TargetsKnown, TargetInv, ScoresFollowContext
<1>. QED
  BY <1>1, RiskInvariant, TargetsInvariant, PTL

-----------------------------------------------------------------------------
(* All of them.                                                            *)

\* Every variable of every service keeps its type, for every value of the
\* constants.
THEOREM ServicesTyped == Spec => []TypeOK
<1>1. ASSUME RiskKnown, EndpointsKnown, RivalsKnown, CacheKnown, CacheTimed, RunsKnown, AgentsKnown, TargetsKnown,
             ExportKnown
      PROVE  TypeOK
  <2>1. part = "risk" => Risk!TypeOK
    BY <1>1, SameRisk DEF RiskKnown, RR!RiskInv, RR!RiskTypes
  <2>2. part = "endpoints" => Endpoints!TypeOK
    BY <1>1, SameEndpoints, EP!EndpointsTyped DEF EndpointsKnown
  <2>3. part = "rivals" => Rivals!TypeOK
    BY <1>1, SameRivals, RP!EndpointsTyped DEF RivalsKnown
  <2>4. part = "cache" => Cache!TypeOK
    BY <1>1, CacheTyped DEF CacheKnown, CacheTimed
  <2>5. part = "agents" => Agents!TypeOK
    BY <1>1, AgentsTyped DEF AgentsKnown
  <2>6. part = "targets" => Targets!TypeOK
    BY <1>1, TargetsTyped DEF TargetsKnown
  <2>. QED
    BY <1>1, <2>1, <2>2, <2>3, <2>4, <2>5, <2>6, RunsTyped, ExportTyped DEF TypeOK
<1>. QED
  BY <1>1, RiskInvariant, EndpointsInvariant, RivalsInvariant, CacheInvariant, CachePastInvariant, RunsInvariant,
     AgentsInvariant, TargetsInvariant, ExportInvariant, PTL
=============================================================================
