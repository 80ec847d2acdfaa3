----------------------------- MODULE ScansProofs ----------------------------
(***************************************************************************)
(* The parsers of answers, the rules over pages and names, the network     *)
(* scan of a target, the report of a host agent and what it reads out of a *)
(* configuration: a theorem of each about the behaviours of Scans, for     *)
(* answers, pages, roots, files and lines of every number and size, and    *)
(* length fields that hold any number.                                     *)
(***************************************************************************)
EXTENDS Scans, Lists, FiniteSetTheorems, WellFoundedInduction, TLAPS

-----------------------------------------------------------------------------
(* One of them at a time.                                                  *)

\* A behaviour starts with what it is about.
LEMMA FirstPart ==
    ASSUME Init
    PROVE  /\ part = "scan" => Scan!Init
           /\ part = "network" => Net!Init
           /\ part = "host" => Host!Init
           /\ part = "config" => Config!Init
           /\ part = "parser" => Parser!Init
           /\ part = "homepage" => Home!Init
           /\ part = "measure" => Measure!Init
BY DEF Init

\* It stays with it, and its steps are the steps of that.
LEMMA OnePart ==
    ASSUME [Next]_vars
    PROVE  /\ part' = part
           /\ part = "scan" => [Scan!Next]_scanVars
           /\ part = "network" => [Net!Next]_netVars
           /\ part = "host" => [Host!Next]_hostVars
           /\ part = "config" => [Config!Next]_configVars
           /\ part = "parser" => [Parser!Next]_parserVars
           /\ part = "homepage" => [Home!Next]_homepageVars
           /\ part = "measure" => [Measure!Next]_measureVars
BY DEF Next, vars

-----------------------------------------------------------------------------
(* Parsers.                                                                *)

\* Sizes and length fields are natural numbers.
LEMMA NaturalLengths == Sizes \subseteq Nat /\ Lengths \subseteq Nat
BY ScansAssumption DEF ScansAssumption, Parser!ParserAssumption

Reader == [at : Nat, end : Nat, read : BOOLEAN]

ParserTypes ==
    /\ parsing \in {"ike", "payload", "proposal", "transform", "attributes", "ssh", "key", "certificate", "done"}
    /\ size \in Sizes /\ next \in Nat /\ cursor \in Nat
    /\ body \in Reader /\ proposal \in Reader /\ attr \in Reader
    /\ \A x \in found : x.type \in 0 .. 4

\* The SPI may begin the transforms of a proposal beyond its end, but then no
\* transform was read: only that keeps a transform inside its proposal.
ParserInv == ParserTypes /\ Parser!LengthsNest

-----------------------------------------------------------------------------
\* A reader that moves on keeps its end.
LEMMA Moved ==
    ASSUME NEW r \in Reader, NEW n \in Nat, NEW s, s = [r EXCEPT !.at = @ + n]
    PROVE  s \in Reader /\ s.at = r.at + n /\ s.end = r.end /\ s.read = r.read
BY DEF Reader

\* The same of one that has now read a transform.
LEMMA MovedReading ==
    ASSUME NEW r \in Reader, NEW n \in Nat, NEW s,
           s = [r EXCEPT !.at = @ + n, !.read = TRUE]
    PROVE  s \in Reader /\ s.at = r.at + n /\ s.end = r.end
<1>1. s = [at |-> r.at + n, end |-> r.end, read |-> TRUE]
  BY DEF Reader
<1>2. r.at + n \in Nat /\ r.end \in Nat
  BY DEF Reader
<1>. QED
  BY <1>1, <1>2 DEF Reader

\* Nothing was read.
LEMMA ParserInit == ASSUME Parser!Init PROVE ParserInv
BY NaturalLengths DEF Parser!Init, ParserInv, ParserTypes, Parser!LengthsNest, Reader, Parser!Nothing

\* The header of an answer, and its payloads, lie within the answer.
LEMMA PayloadStep ==
    ASSUME ParserInv, Parser!Header \/ Parser!ReadPayload \/ Parser!NoPayload PROVE ParserInv'
<1>0. size \in Nat
  BY NaturalLengths DEF ParserInv, ParserTypes
<1>1. CASE Parser!Header
  BY <1>0, <1>1 DEF Parser!Header, Parser!Done, ParserInv, ParserTypes, Parser!LengthsNest, Parser!SA
<1>2. CASE Parser!ReadPayload
  <2>1. PICK length \in Lengths :
           IF length < 4 \/ cursor + length > size
           THEN Parser!Done /\ UNCHANGED <<next, cursor, body, proposal>>
           ELSE /\ cursor' = cursor + length /\ next' \in {0, Parser!SA, 34}
                /\ IF next = Parser!SA
                   THEN /\ parsing' = "proposal"
                        /\ body' = [Parser!Nothing EXCEPT !.at = cursor + 4, !.end = cursor + length]
                        /\ proposal' = Parser!Nothing
                   ELSE UNCHANGED <<parsing, body, proposal>>
    BY <1>2 DEF Parser!ReadPayload
  <2>2. length \in Nat /\ parsing = "payload" /\ UNCHANGED <<size, attr, found>>
    BY NaturalLengths, <1>2, <2>1 DEF Parser!ReadPayload
  <2>3. CASE length < 4 \/ cursor + length > size
    BY <1>0, <2>1, <2>2, <2>3 DEF Parser!Done, ParserInv, ParserTypes, Parser!LengthsNest
  <2>4. CASE ~ (length < 4 \/ cursor + length > size) /\ next # Parser!SA
    BY <1>0, <2>1, <2>2, <2>4 DEF ParserInv, ParserTypes, Parser!LengthsNest, Parser!SA
  <2>5. CASE ~ (length < 4 \/ cursor + length > size) /\ next = Parser!SA
    <3>1. /\ cursor' = cursor + length /\ next' \in {0, Parser!SA, 34} /\ parsing' = "proposal"
          /\ body' = [at |-> cursor + 4, end |-> cursor + length, read |-> FALSE]
          /\ proposal' = [at |-> 0, end |-> 0, read |-> FALSE]
      BY <2>1, <2>5 DEF Parser!Nothing
    <3>2. ParserTypes'
      BY <1>0, <2>2, <3>1 DEF ParserInv, ParserTypes, Reader, Parser!SA
    <3>3. Parser!LengthsNest'
      BY <1>0, <2>2, <2>5, <3>1 DEF ParserInv, ParserTypes, Parser!LengthsNest
    <3>. QED
      BY <3>2, <3>3 DEF ParserInv
  <2>. QED
    BY <2>3, <2>4, <2>5
<1>3. CASE Parser!NoPayload
  BY <1>0, <1>3 DEF Parser!NoPayload, Parser!Done, ParserInv, ParserTypes, Parser!LengthsNest
<1>. QED
  BY <1>1, <1>2, <1>3

\* A proposal lies within its payload.
LEMMA ProposalStep ==
    ASSUME ParserInv, Parser!ReadProposal \/ Parser!NoProposal PROVE ParserInv'
<1>0. size \in Nat
  BY NaturalLengths DEF ParserInv, ParserTypes
<1>1. CASE Parser!ReadProposal
  <2>1. PICK length \in Lengths, spi \in Lengths :
           IF length < 8 \/ body.at + length > body.end
           THEN parsing' = "payload" /\ UNCHANGED <<body, proposal>>
           ELSE /\ parsing' = "transform" /\ body' = [body EXCEPT !.at = @ + length]
                /\ proposal' = [at |-> body.at + 8 + spi, end |-> body.at + length, read |-> FALSE]
    BY <1>1 DEF Parser!ReadProposal
  <2>2. /\ length \in Nat /\ spi \in Nat /\ parsing = "proposal"
        /\ UNCHANGED <<size, next, cursor, attr, found>>
    BY NaturalLengths, <1>1, <2>1 DEF Parser!ReadProposal
  <2>3. CASE length < 8 \/ body.at + length > body.end
    BY <1>0, <2>1, <2>2, <2>3 DEF ParserInv, ParserTypes, Parser!LengthsNest
  <2>4. CASE ~ (length < 8 \/ body.at + length > body.end)
    <3>1. body \in Reader
      BY DEF ParserInv, ParserTypes
    <3>2. /\ parsing' = "transform" /\ body' \in Reader /\ proposal' \in Reader
          /\ body'.at = body.at + length /\ body'.end = body.end
          /\ proposal'.end = body.at + length /\ ~ proposal'.read
      <4>1. /\ parsing' = "transform" /\ body' = [body EXCEPT !.at = @ + length]
            /\ proposal' = [at |-> body.at + 8 + spi, end |-> body.at + length, read |-> FALSE]
        BY <2>1, <2>4
      <4>2. body' \in Reader /\ body'.at = body.at + length /\ body'.end = body.end
        BY <2>2, <3>1, <4>1, Moved
      <4>3. body.at + 8 + spi \in Nat /\ body.at + length \in Nat
        BY <2>2, <3>1 DEF Reader
      <4>4. /\ proposal' \in Reader /\ proposal'.end = body.at + length
            /\ proposal'.read = FALSE
        BY <4>1, <4>3 DEF Reader
      <4>. QED
        BY <4>1, <4>2, <4>4
    <3>3. ParserTypes'
      BY <2>2, <3>2 DEF ParserInv, ParserTypes
    <3>4. /\ body.at \in Nat /\ body.end \in Nat /\ cursor' = cursor /\ size' = size
          /\ body.at + length <= body.end /\ body.end <= size /\ cursor <= size
      BY <2>2, <2>4, <3>1 DEF ParserInv, Parser!LengthsNest, Reader
    <3>5. Parser!LengthsNest'
      BY <1>0, <2>2, <3>2, <3>4 DEF Parser!LengthsNest
    <3>. QED
      BY <3>3, <3>5 DEF ParserInv
  <2>. QED
    BY <2>3, <2>4
<1>2. CASE Parser!NoProposal
  BY <1>0, <1>2 DEF Parser!NoProposal, ParserInv, ParserTypes, Parser!LengthsNest
<1>. QED
  BY <1>1, <1>2

\* A transform lies within its proposal, its attributes within the transform.
LEMMA TransformStep ==
    ASSUME ParserInv, Parser!ReadTransform \/ Parser!NoTransform \/ Parser!ReadAttribute PROVE ParserInv'
<1>0. size \in Nat
  BY NaturalLengths DEF ParserInv, ParserTypes
<1>1. CASE Parser!ReadTransform
  <2>1. PICK length \in Lengths, last \in BOOLEAN, type \in 1 .. 5, id \in Ids :
           IF length < 8 \/ proposal.at + length > proposal.end
           THEN parsing' = "proposal" /\ UNCHANGED <<proposal, attr, found>>
           ELSE /\ proposal' = [proposal EXCEPT !.at = @ + length, !.read = TRUE]
                /\ parsing' = IF type = 1 THEN "attributes" ELSE IF last THEN "proposal" ELSE "transform"
                /\ attr' = IF type = 1
                           THEN [at |-> proposal.at + 8, end |-> proposal.at + length, read |-> last]
                           ELSE attr
                /\ found' = found \cup Parser!Recognised(type, id)
    BY <1>1 DEF Parser!ReadTransform
  <2>2. /\ length \in Nat /\ parsing = "transform" /\ UNCHANGED <<size, next, cursor, body>>
    BY NaturalLengths, <1>1, <2>1 DEF Parser!ReadTransform
  <2>3. \A x \in Parser!Recognised(type, id) : x.type \in 0 .. 4
    BY DEF Parser!Recognised, Parser!IkeCandidate
  <2>4. CASE length < 8 \/ proposal.at + length > proposal.end
    BY <1>0, <2>1, <2>2, <2>4 DEF ParserInv, ParserTypes, Parser!LengthsNest
  <2>5. CASE ~ (length < 8 \/ proposal.at + length > proposal.end)
    <3>1. proposal \in Reader /\ body \in Reader
      BY DEF ParserInv, ParserTypes
    <3>2. /\ parsing' \in {"proposal", "attributes", "transform"} /\ attr' \in Reader
          /\ parsing' = "attributes" => attr'.end = proposal.at + length
          /\ proposal' \in Reader /\ proposal'.end = proposal.end
          /\ proposal'.at = proposal.at + length
      <4>1. /\ proposal' = [proposal EXCEPT !.at = @ + length, !.read = TRUE]
            /\ parsing' = IF type = 1 THEN "attributes" ELSE IF last THEN "proposal" ELSE "transform"
            /\ attr' = IF type = 1
                       THEN [at |-> proposal.at + 8, end |-> proposal.at + length, read |-> last]
                       ELSE attr
        BY <2>1, <2>5
      <4>2. /\ proposal' \in Reader /\ proposal'.end = proposal.end
            /\ proposal'.at = proposal.at + length
        BY <2>2, <3>1, <4>1, MovedReading
      <4>3. proposal.at + 8 \in Nat /\ proposal.at + length \in Nat /\ attr \in Reader
        BY <2>2, <3>1 DEF ParserInv, ParserTypes, Reader
      <4>4. CASE type = 1
        BY <4>1, <4>2, <4>3, <4>4 DEF Reader
      <4>5. CASE type # 1
        BY <4>1, <4>2, <4>3, <4>5
      <4>. QED
        BY <4>4, <4>5
    <3>3. found' = found \cup Parser!Recognised(type, id)
      BY <2>1, <2>5
    <3>4. ParserTypes'
      BY <2>2, <2>3, <3>2, <3>3 DEF ParserInv, ParserTypes
    <3>5. /\ proposal.at \in Nat /\ proposal.end \in Nat /\ body' = body
          /\ cursor' = cursor /\ size' = size /\ cursor <= size
          /\ proposal.at + length <= proposal.end /\ proposal.end <= body.at
          /\ body.at <= body.end /\ body.end <= size
      BY <2>2, <2>5, <3>1 DEF ParserInv, Parser!LengthsNest, Reader
    <3>6. Parser!LengthsNest'
      BY <2>2, <3>2, <3>5 DEF Parser!LengthsNest
    <3>. QED
      BY <3>4, <3>6 DEF ParserInv
  <2>. QED
    BY <2>4, <2>5
<1>2. CASE Parser!NoTransform
  BY <1>0, <1>2 DEF Parser!NoTransform, ParserInv, ParserTypes, Parser!LengthsNest
<1>3. CASE Parser!ReadAttribute
  <2>1. /\ parsing = "attributes" /\ UNCHANGED <<size, next, cursor, body, proposal, found>>
        /\ \/ \E fixed \in BOOLEAN, value \in Lengths :
                 attr' = [attr EXCEPT !.at = @ + 4 + (IF fixed THEN 0 ELSE value)] /\ UNCHANGED parsing
           \/ parsing' \in {"proposal", "transform"} /\ UNCHANGED attr
    BY <1>3 DEF Parser!ReadAttribute, Parser!AfterAttributes
  <2>. QED
    BY NaturalLengths, <1>0, <2>1 DEF ParserInv, ParserTypes, Parser!LengthsNest, Reader
<1>. QED
  BY <1>1, <1>2, <1>3

\* A string of an SSH key lies within the answer; a certificate is no bytes.
LEMMA KeyStep ==
    ASSUME ParserInv, Parser!BeginKey \/ Parser!ReadString \/ Parser!EndKey \/ Parser!ParseCertificate PROVE ParserInv'
<1>0. size \in Nat
  BY NaturalLengths DEF ParserInv, ParserTypes
<1>1. CASE Parser!BeginKey
  BY <1>0, <1>1 DEF Parser!BeginKey, Parser!SshAlgorithms, Parser!KeyCandidate, Parser!Done, ParserInv, ParserTypes, Parser!LengthsNest
<1>2. CASE Parser!ReadString
  BY NaturalLengths, <1>0, <1>2 DEF Parser!ReadString, Parser!Done, ParserInv, ParserTypes, Parser!LengthsNest
<1>3. CASE Parser!EndKey
  BY <1>0, <1>3 DEF Parser!EndKey, ParserInv, ParserTypes, Parser!LengthsNest
<1>4. CASE Parser!ParseCertificate
  BY <1>0, <1>4 DEF Parser!ParseCertificate, Parser!KeyCandidate, Parser!Done, ParserInv, ParserTypes, Parser!LengthsNest
<1>. QED
  BY <1>1, <1>2, <1>3, <1>4

LEMMA ParserNext == ASSUME ParserInv, [Parser!Next]_parserVars PROVE ParserInv'
<1>1. CASE UNCHANGED parserVars
  BY <1>1 DEF parserVars, ParserInv, ParserTypes, Parser!LengthsNest
<1>2. CASE Parser!Next
  BY <1>2, PayloadStep, ProposalStep, TransformStep, KeyStep DEF Parser!Next, Parser!Ike
<1>. QED
  BY <1>1, <1>2

\* Whatever the length fields hold, a transform ends within its proposal, a
\* proposal within its payload, a payload or a string within the answer
\* (jobs/network_scanner.py:848).
THEOREM ReadsStayWithin == Spec => []LengthsNest
<1> DEFINE Inv == part = "parser" => ParserInv
<1>1. Init => Inv
  BY FirstPart, ParserInit
<1>2. Inv /\ [Next]_vars => Inv'
  BY OnePart, ParserNext
<1>3. Inv => LengthsNest
  BY DEF ParserInv, LengthsNest
<1>. QED
  BY <1>1, <1>2, <1>3, PTL DEF Spec

-----------------------------------------------------------------------------
(* Rules over names and pages.                                             *)

\* The first rule that knows a marker decides.
LEMMA FirstRule ==
    ASSUME NEW markers, NEW i \in DOMAIN Parser!Rules, Parser!Rules[i][1] \cap markers # {},
           \A j \in DOMAIN Parser!Rules : j < i => Parser!Rules[j][1] \cap markers = {}
    PROVE  Parser!Family(markers) = Parser!Rules[i][2]
<1> DEFINE fits == {j \in DOMAIN Parser!Rules : Parser!Rules[j][1] \cap markers # {}}
<1>1. DOMAIN Parser!Rules = 1 .. 11
  BY DEF Parser!Rules
<1>2. i \in fits /\ \A j \in fits : i <= j
  BY <1>1
<1>3. \A k \in fits : (\A j \in fits : k <= j) => k = i
  BY <1>1, <1>2
<1>4. (CHOOSE k \in fits : \A j \in fits : k <= j) = i
  BY <1>2, <1>3
<1>. QED
  BY <1>2, <1>4 DEF Parser!Family

\* Each name a key or a certificate may have.
LEMMA NamedFamilies ==
    /\ Parser!Family({"RSA"}) = "RSA"
    /\ Parser!Family({"ECDSA"}) = "ECDSA"
    /\ Parser!Family({"ECDSA", "P-256"}) = "ECDSA"
    /\ Parser!Family({"ECDSA", "SECP"}) = "ECDSA"
    /\ Parser!Family({"ED25519"}) = "EdDSA"
    /\ Parser!Family({}) = ""
<1>0. DOMAIN Parser!Rules = 1 .. 11
  BY DEF Parser!Rules
<1>1. Parser!Family({"RSA"}) = "RSA"
  <2>1. /\ Parser!Rules[6][1] \cap {"RSA"} # {} /\ Parser!Rules[6][2] = "RSA"
        /\ \A j \in 1 .. 5 : Parser!Rules[j][1] \cap {"RSA"} = {}
    BY DEF Parser!Rules
  <2>. QED
    BY <1>0, <2>1, FirstRule
<1>2. ASSUME NEW m, "ECDSA" \in m, m \subseteq {"ECDSA", "P-256", "SECP"}
      PROVE  Parser!Family(m) = "ECDSA"
  <2>1. /\ Parser!Rules[4][1] \cap m # {} /\ Parser!Rules[4][2] = "ECDSA"
        /\ \A j \in 1 .. 3 : Parser!Rules[j][1] \cap m = {}
    BY <1>2 DEF Parser!Rules
  <2>. QED
    BY <1>0, <2>1, FirstRule
<1>3. Parser!Family({"ED25519"}) = "EdDSA"
  <2>1. /\ Parser!Rules[5][1] \cap {"ED25519"} # {} /\ Parser!Rules[5][2] = "EdDSA"
        /\ \A j \in 1 .. 4 : Parser!Rules[j][1] \cap {"ED25519"} = {}
    BY DEF Parser!Rules
  <2>. QED
    BY <1>0, <2>1, FirstRule
<1>4. Parser!Family({}) = ""
  BY DEF Parser!Family
<1>5. /\ Parser!Family({"ECDSA"}) = "ECDSA" /\ Parser!Family({"ECDSA", "P-256"}) = "ECDSA"
      /\ Parser!Family({"ECDSA", "SECP"}) = "ECDSA"
  BY <1>2
<1>. QED
  BY <1>1, <1>3, <1>4, <1>5

\* A step of the parsers finds only candidates whose families agree.
LEMMA FamiliesStep ==
    ASSUME Parser!FamiliesAgree, [Parser!Next]_parserVars PROVE Parser!FamiliesAgree'
<1>1. CASE UNCHANGED parserVars
  BY <1>1 DEF parserVars, Parser!FamiliesAgree
<1>2. CASE Parser!ReadTransform
  <2>1. \A type, id : \A x \in Parser!Recognised(type, id) : x.given = x.family
    BY DEF Parser!Recognised, Parser!IkeCandidate
  <2>2. \/ UNCHANGED found
        \/ \E type, id : found' = found \cup Parser!Recognised(type, id)
    BY <1>2 DEF Parser!ReadTransform
  <2>. QED
    BY <2>1, <2>2 DEF Parser!FamiliesAgree
<1>3. CASE Parser!BeginKey
  <2>1. \A x \in Parser!SshAlgorithms :
           Parser!KeyCandidate(x.markers, x.family).given = Parser!KeyCandidate(x.markers, x.family).family
    BY NamedFamilies DEF Parser!SshAlgorithms, Parser!KeyCandidate
  <2>. QED
    BY <1>3, <2>1 DEF Parser!BeginKey, Parser!FamiliesAgree
<1>4. CASE Parser!ParseCertificate
  <2>1. \A x \in Parser!CertificateKinds :
           Parser!KeyCandidate(x[1], x[2]).given = Parser!KeyCandidate(x[1], x[2]).family
    <3>1. \A x \in Parser!CertificateKinds : x[2] = Parser!Family(x[1])
      <4>1. /\ <<{"RSA"}, "RSA">>[2] = Parser!Family(<<{"RSA"}, "RSA">>[1])
            /\ <<{"ECDSA"}, "ECDSA">>[2] = Parser!Family(<<{"ECDSA"}, "ECDSA">>[1])
            /\ <<{"ED25519"}, "EdDSA">>[2] = Parser!Family(<<{"ED25519"}, "EdDSA">>[1])
        BY NamedFamilies
      <4>2. /\ <<{"ECDSA", "P-256"}, "ECDSA">>[2] = Parser!Family(<<{"ECDSA", "P-256"}, "ECDSA">>[1])
            /\ <<{"ECDSA", "SECP"}, "ECDSA">>[2] = Parser!Family(<<{"ECDSA", "SECP"}, "ECDSA">>[1])
            /\ <<{}, "">>[2] = Parser!Family(<<{}, "">>[1])
        BY NamedFamilies
      <4>. QED
        BY <4>1, <4>2, Zenon DEF Parser!CertificateKinds
    <3>2. ASSUME NEW m, NEW f PROVE Parser!KeyCandidate(m, f).given = f /\ Parser!KeyCandidate(m, f).family = Parser!Family(m)
      BY DEF Parser!KeyCandidate
    <3>. QED
      BY <3>1, <3>2
  <2>. QED
    BY <1>4, <2>1 DEF Parser!ParseCertificate, Parser!FamiliesAgree
<1>5. CASE Parser!Header \/ Parser!ReadPayload \/ Parser!NoPayload \/ Parser!ReadProposal \/ Parser!NoProposal
  BY <1>5 DEF Parser!Header, Parser!ReadPayload, Parser!NoPayload, Parser!ReadProposal, Parser!NoProposal,
     Parser!FamiliesAgree
<1>6. CASE Parser!NoTransform \/ Parser!ReadAttribute \/ Parser!ReadString \/ Parser!EndKey
  BY <1>6 DEF Parser!NoTransform, Parser!ReadAttribute, Parser!ReadString, Parser!EndKey, Parser!FamiliesAgree
<1>. QED
  BY <1>1, <1>2, <1>3, <1>4, <1>5, <1>6 DEF Parser!Next, Parser!Ike

\* The best so far is the first of those with most keywords among the rules
\* reached, and none has a keyword while there is no best.
BestSoFar ==
    \/ rule.best = 0 /\ \A j \in 1 .. rule.rule - 1 : page[j] = 0
    \/ /\ rule.best \in 1 .. rule.rule - 1 /\ page[rule.best] > 0
       /\ \A j \in 1 .. rule.rule - 1 :
             page[j] <= page[rule.best] /\ (j < rule.best => page[j] < page[rule.best])

HomeInv ==
    /\ page \in [1 .. 7 -> Nat] /\ rule \in [rule : 1 .. 8, best : 0 .. 7]
    /\ BestSoFar /\ Home!RoleHasMost

LEMMA HomeInit == ASSUME Home!Init PROVE HomeInv
<1>1. HitCounts \subseteq Nat
  BY ScansAssumption DEF ScansAssumption, Home!HomepageAssumption
<1>2. rule = [rule |-> 1, best |-> 0] /\ context = Home!Unknown /\ page \in [1 .. 7 -> Nat]
  BY <1>1 DEF Home!Init
<1>3. BestSoFar
  BY <1>2 DEF BestSoFar
<1>. QED
  BY <1>2, <1>3 DEF HomeInv, Home!RoleHasMost

LEMMA HomeNext == ASSUME HomeInv, [Home!Next]_homepageVars PROVE HomeInv'
<1>1. CASE UNCHANGED homepageVars \/ Home!Request \/ Home!Timeout
  BY <1>1 DEF homepageVars, Home!Request, Home!Timeout, HomeInv, BestSoFar, Home!RoleHasMost
<1>2. CASE Home!MatchRule
  <2>1. /\ rule.rule \in 1 .. 7 /\ rule.best \in 0 .. 7 /\ UNCHANGED <<page, context>>
        /\ page \in [1 .. 7 -> Nat]
    BY <1>2 DEF Home!MatchRule, HomeInv
  <2>2. rule' = [rule |-> rule.rule + 1,
                 best |-> IF page[rule.rule] > Home!Hits(rule.best) THEN rule.rule ELSE rule.best]
    BY <1>2 DEF Home!MatchRule
  <2>3. rule'.rule = rule.rule + 1 /\ rule' \in [rule : 1 .. 8, best : 0 .. 7]
    BY <2>1, <2>2
  <2>4. CASE page[rule.rule] > Home!Hits(rule.best)
    <3>1. rule'.best = rule.rule
      BY <2>2, <2>4
    <3>. QED
      BY <2>1, <2>3, <2>4, <3>1 DEF HomeInv, BestSoFar, Home!Hits, Home!RoleHasMost
  <2>5. CASE ~ (page[rule.rule] > Home!Hits(rule.best))
    <3>1. rule'.best = rule.best
      BY <2>2, <2>5
    <3>. QED
      BY <2>1, <2>3, <2>5, <3>1 DEF HomeInv, BestSoFar, Home!Hits, Home!RoleHasMost
  <2>. QED
    BY <2>4, <2>5
<1>3. CASE Home!Infer
  <2>1. rule.rule = 8 /\ UNCHANGED <<page, rule>>
    BY <1>3 DEF Home!Infer
  <2>2. CASE rule.best = 0
    BY <1>3, <2>1, <2>2 DEF Home!Infer, HomeInv, BestSoFar, Home!RoleHasMost
  <2>3. CASE rule.best # 0
    <3>1. rule.best \in 1 .. 7 /\ context'.role = Home!RoleRules[rule.best].role
      BY <1>3, <2>1, <2>3 DEF Home!Infer, HomeInv
    <3>2. /\ page[rule.best] > 0
          /\ \A j \in 1 .. 7 : page[j] <= page[rule.best] /\ (j < rule.best => page[j] < page[rule.best])
      BY <2>1, <2>3 DEF HomeInv, BestSoFar
    <3>3. Home!RoleHasMost'
      BY <2>1, <3>1, <3>2 DEF Home!RoleHasMost
    <3>. QED
      BY <2>1, <3>3 DEF HomeInv, BestSoFar
  <2>. QED
    BY <2>2, <2>3
<1>. QED
  BY <1>1, <1>2, <1>3 DEF Home!Next

\* The role of a page is the first of those with most keywords on it
\* (jobs/homepage_context.py:171), and the family other code derives from the
\* name of a key is the one its parser gave (jobs/network_scanner.py:706).
THEOREM RulesAlwaysAgree == Spec => []RulesAgree
<1> DEFINE Inv == (part = "homepage" => HomeInv) /\ (part = "parser" => Parser!FamiliesAgree)
<1>1. Init => Inv
  BY FirstPart, HomeInit DEF Parser!Init, Parser!FamiliesAgree
<1>2. Inv /\ [Next]_vars => Inv'
  BY OnePart, HomeNext, FamiliesStep
<1>3. Inv => RulesAgree
  BY DEF HomeInv, RulesAgree
<1>. QED
  BY <1>1, <1>2, <1>3, PTL DEF Spec

-----------------------------------------------------------------------------
(* The network scan of a target.                                           *)

AName == Names \cup {None}
Probing == {"handshake", "chain", "suites", "collect"}

\* The names that were probed, each once, and those that wait.
NetTyped ==
    /\ DOMAIN result = {"sni", "chain", "negotiated", "suites", "mqtt", "ready"}
    /\ peer \in Peers /\ aliases \subseteq Names
    /\ pending \in Seq(AName) /\ probed \in Seq(AName)
    /\ seen = Net!ToSet(probed) /\ Net!IsInjective(probed)
    /\ scanning \in {"chain", "suites", "collect"} => 1 \in DOMAIN result.chain /\ result.chain[1] \in Certificates
    /\ \E S : candidates \in Seq(S)

\* A protocol is spoken to the targets routed to it.
OnRoute ==
    /\ scanning \in {"dispatch", "tls", "done", "raised", "ssh", "smtp", "postgresql", "ike"} \cup Probing
    /\ scanning \in {"tls"} \cup Probing => Net!Route(peer) \in {"tls", "unknown"}
    /\ scanning = "ssh" => Net!Route(peer) \in {"ssh", "unknown"}
    /\ scanning \in {"smtp", "postgresql", "ike"} => Net!Route(peer) = scanning
    /\ scanning = "raised" => ~ Net!Guessing

\* The names of the leaf certificates of some candidates are in S.
NamesIn(finds, S) ==
    \A i \in DOMAIN finds : \A x \in finds[i] :
        x.kind = "certificate" /\ x.of[1] = 1 => \A c \in Certificates : c.id = x.of[2] => c.sans \subseteq S

\* No name of a leaf certificate is lost: it was probed or it waits.
Worklist ==
    /\ Net!Route(peer) = "tls" => NamesIn(candidates, seen \cup Net!ToSet(pending))
    /\ Net!Route(peer) = "tls" /\ scanning = "done" => pending = <<>>
    /\ scanning = "dispatch" => candidates = <<>> /\ seen = {}
    /\ \A i \in DOMAIN candidates : candidates[i] # {}
    /\ scanning = "tls" => IF seen = {} THEN pending # <<>> ELSE candidates # <<>>
    /\ scanning = "done" => candidates # <<>>
    /\ scanning \in Probing => seen # {}

NetInv == NetTyped /\ OnRoute /\ Worklist

LEMMA NetAssumed ==
    /\ IsFiniteSet(Names) /\ None \notin Names /\ \A x \in Peers : x.name \in AName
    /\ \A x \in Certificates : x.sans \subseteq Names /\ \A y \in Certificates : x.id = y.id => x = y
<1>1. Net!IsFiniteSet(Names) <=> IsFiniteSet(Names)
  BY DEF Net!IsFiniteSet, IsFiniteSet
<1>. QED
  BY <1>1, ScansAssumption DEF ScansAssumption, Net!ScannerAssumption, AName

\* The sequence of a finite set holds its members.
LEMMA SequenceOfSet ==
    ASSUME NEW S, IsFiniteSet(S)
    PROVE  Net!SetToSeq(S) \in Seq(S) /\ Net!ToSet(Net!SetToSeq(S)) = S
<1> DEFINE n == Cardinality(S)
           g == Net!SetToSeq(S)
<1>1. n \in Nat /\ ExistsBijection(1 .. n, S)
  BY FS_CardinalityType
<1>2. Net!Cardinality(S) = n
  BY DEF Net!Cardinality, Cardinality
<1>3. \E f \in [1 .. n -> S] : Net!IsInjective(f)
  BY <1>1 DEF ExistsBijection, Bijection, Injection, Net!IsInjective, IsInjective
<1>4. g = CHOOSE f \in [1 .. n -> S] : Net!IsInjective(f)
  BY <1>2 DEF Net!SetToSeq
<1>5. g \in [1 .. n -> S] /\ Net!IsInjective(g)
  BY <1>3, <1>4
<1> HIDE DEF g
<1>6. g \in Injection(1 .. n, S)
  BY <1>5 DEF Injection, Net!IsInjective, IsInjective
<1>7. Cardinality(1 .. n) = n
  BY <1>1, FS_Interval
<1>8. g \in Surjection(1 .. n, S)
  BY <1>6, <1>7, FS_Injection
<1>9. Net!ToSet(g) = S
  BY <1>5, <1>8 DEF Surjection, Net!ToSet
<1>10. g \in Seq(S)
  BY <1>1, <1>5
<1>. QED
  BY <1>9, <1>10 DEF g

\* What waits after more is added.
LEMMA AddedToSet ==
    ASSUME NEW S, NEW s \in Seq(S), NEW t \in Seq(S)
    PROVE  s \o t \in Seq(S) /\ Net!ToSet(s \o t) = Net!ToSet(s) \cup Net!ToSet(t)
<1>1. s \o t \in Seq(S)
  OBVIOUS
<1>2. \A i \in DOMAIN s : i \in DOMAIN (s \o t) /\ (s \o t)[i] = s[i]
  OBVIOUS
<1>3. \A i \in DOMAIN t : Len(s) + i \in DOMAIN (s \o t) /\ (s \o t)[Len(s) + i] = t[i]
  OBVIOUS
<1>4. \A i \in DOMAIN (s \o t) : i \notin DOMAIN s => i - Len(s) \in DOMAIN t /\ (s \o t)[i] = t[i - Len(s)]
  OBVIOUS
<1>5. Net!ToSet(s) \subseteq Net!ToSet(s \o t)
  BY <1>2 DEF Net!ToSet
<1>6. Net!ToSet(t) \subseteq Net!ToSet(s \o t)
  BY <1>3 DEF Net!ToSet
<1>7. Net!ToSet(s \o t) \subseteq Net!ToSet(s) \cup Net!ToSet(t)
  BY <1>2, <1>4 DEF Net!ToSet
<1>. QED
  BY <1>1, <1>5, <1>6, <1>7

\* The first of what waits is taken off.
LEMMA HeadAndTail ==
    ASSUME NEW S, NEW s \in Seq(S), s # <<>>
    PROVE  /\ Head(s) \in S /\ Tail(s) \in Seq(S)
           /\ Net!ToSet(s) = {Head(s)} \cup Net!ToSet(Tail(s))
<1>1. Head(s) \in S /\ Tail(s) \in Seq(S) /\ Head(s) = s[1] /\ 1 \in DOMAIN s
  OBVIOUS
<1>2. \A i \in DOMAIN Tail(s) : i + 1 \in DOMAIN s /\ Tail(s)[i] = s[i + 1]
  OBVIOUS
<1>3. \A i \in DOMAIN s : i # 1 => i - 1 \in DOMAIN Tail(s) /\ Tail(s)[i - 1] = s[i]
  OBVIOUS
<1>4. Net!ToSet(Tail(s)) \subseteq Net!ToSet(s)
  BY <1>2 DEF Net!ToSet
<1>5. Net!ToSet(s) \subseteq {Head(s)} \cup Net!ToSet(Tail(s))
  BY <1>1, <1>3 DEF Net!ToSet
<1>6. Head(s) \in Net!ToSet(s)
  BY <1>1 DEF Net!ToSet
<1>. QED
  BY <1>1, <1>4, <1>5, <1>6

LEMMA ProbedOnce ==
    ASSUME NEW S, NEW s \in Seq(S), Net!IsInjective(s), NEW e \in S, e \notin Net!ToSet(s)
    PROVE  /\ Append(s, e) \in Seq(S) /\ Net!IsInjective(Append(s, e))
           /\ Net!ToSet(Append(s, e)) = Net!ToSet(s) \cup {e}
<1>1. /\ Append(s, e) \in Seq(S) /\ DOMAIN Append(s, e) = 1 .. Len(s) + 1 /\ DOMAIN s = 1 .. Len(s)
      /\ Len(s) \in Nat /\ Append(s, e)[Len(s) + 1] = e
      /\ \A i \in 1 .. Len(s) : Append(s, e)[i] = s[i]
  OBVIOUS
<1>2. \A i \in 1 .. Len(s) : s[i] # e
  BY <1>1 DEF Net!ToSet
<1>3. Net!IsInjective(Append(s, e))
  BY <1>1, <1>2 DEF Net!IsInjective
<1>4. Net!ToSet(Append(s, e)) = Net!ToSet(s) \cup {e}
  BY <1>1 DEF Net!ToSet
<1>. QED
  BY <1>1, <1>3, <1>4

LEMMA NetInit == ASSUME Net!Init PROVE NetInv
<1>1. /\ peer \in Peers /\ aliases \subseteq Names /\ scanning = "dispatch" /\ pending = <<>> /\ seen = {}
      /\ probed = <<>> /\ candidates = <<>>
      /\ DOMAIN result = {"sni", "chain", "negotiated", "suites", "mqtt", "ready"}
  BY DEF Net!Init, Net!NoResult
<1>2. <<>> \in Seq(AName) /\ DOMAIN (<<>>) = {}
  OBVIOUS
<1>3. NetTyped
  BY <1>1, <1>2 DEF NetTyped, Net!ToSet, Net!IsInjective
<1>4. OnRoute
  BY <1>1 DEF OnRoute, Probing
<1>5. Worklist
  BY <1>1, <1>2 DEF Worklist, NamesIn, Probing
<1>. QED
  BY <1>3, <1>4, <1>5 DEF NetInv

\* What a probe makes of its answers.
LEMMA ProbeCandidates ==
    ASSUME NEW r
    PROVE  /\ Net!TlsCandidates(r) # {}
           /\ \A x \in Net!TlsCandidates(r) : x.kind = "certificate" =>
                 \E i \in DOMAIN r.chain : x.of = <<i, r.chain[i].id>>
<1>1. \A x \in Net!CertificateCandidates(r) : \E i \in DOMAIN r.chain : x.of = <<i, r.chain[i].id>>
  BY DEF Net!CertificateCandidates, Net!Candidate
<1>2. \A x \in Net!VersionCandidates(r) : x.kind = "version"
  BY DEF Net!VersionCandidates, Net!Candidate
<1>3. \A x \in Net!CipherCandidates(r) : x.kind = "cipher"
  BY DEF Net!CipherCandidates, Net!Candidate
<1>4. \A x \in Net!PqcCandidates(r) : x.kind = "pqc"
  BY DEF Net!PqcCandidates, Net!Candidate
<1>5. \A x \in Net!ApplicationCandidates(r) : x.kind \in {"alpn", "mqtt"}
  <2>1. \A x \in Net!ApplicationCandidates(r) :
          \E kind_ \in {"alpn", "mqtt"} : x = Net!Candidate(kind_, r.sni, <<>>)
    BY DEF Net!ApplicationCandidates
  <2>. QED
    BY <2>1 DEF Net!Candidate
<1>6. Net!VersionCandidates(r) # {}
  BY DEF Net!VersionCandidates
<1>7. ASSUME NEW x \in Net!TlsCandidates(r), x.kind = "certificate"
      PROVE  x \in Net!CertificateCandidates(r)
  BY <1>2, <1>3, <1>4, <1>5, <1>7 DEF Net!TlsCandidates
<1>. QED
  BY <1>1, <1>6, <1>7 DEF Net!TlsCandidates

\* The end of a scan with one set of candidates more.
LEMMA Finishing ==
    ASSUME NetInv, NEW S, S # {}, Net!Finish(S), Net!Route(peer) # "tls", scanning # "done",
           UNCHANGED <<peer, aliases, pending, seen, probed>>,
           DOMAIN result' = {"sni", "chain", "negotiated", "suites", "mqtt", "ready"}
    PROVE  NetInv'
<1>1. scanning' = "done" /\ candidates' = Append(candidates, S)
  BY DEF Net!Finish
<1>2. /\ \E T : candidates' \in Seq(T)
      /\ candidates' # <<>> /\ \A i \in DOMAIN candidates' : candidates'[i] # {}
  <2>1. PICK T : candidates \in Seq(T)
    BY DEF NetInv, NetTyped
  <2>2. candidates \in Seq(T \cup {S}) /\ S \in T \cup {S}
    BY <2>1
  <2>3. /\ Append(candidates, S) \in Seq(T \cup {S}) /\ Append(candidates, S) # <<>>
        /\ \A i \in DOMAIN Append(candidates, S) : \/ Append(candidates, S)[i] = S
                                                   \/ i \in DOMAIN candidates /\ Append(candidates, S)[i] = candidates[i]
    BY <2>2
  <2>4. \A i \in DOMAIN candidates : candidates[i] # {}
    BY DEF NetInv, Worklist
  <2>. QED
    BY <1>1, <2>3, <2>4
<1>3. NetTyped'
  BY <1>1, <1>2 DEF NetInv, NetTyped
<1>4. OnRoute'
  BY <1>1 DEF OnRoute, Probing
<1>5. Worklist'
  BY <1>1, <1>2 DEF Worklist, Probing
<1>. QED
  BY <1>3, <1>4, <1>5 DEF NetInv

\* A step of a probe that leaves the names and the candidates alone.
LEMMA ProbeGoesOn ==
    ASSUME NetInv, scanning \in Probing, scanning' \in Probing,
           UNCHANGED <<peer, aliases, pending, seen, probed, candidates>>,
           DOMAIN result' = {"sni", "chain", "negotiated", "suites", "mqtt", "ready"},
           1 \in DOMAIN result'.chain, result'.chain[1] \in Certificates
    PROVE  NetInv'
<1>1. NetTyped'
  BY DEF NetInv, NetTyped
<1>2. OnRoute'
  BY DEF NetInv, OnRoute, Probing, Net!Route
<1>3. Worklist'
  BY DEF NetInv, Worklist, NamesIn, Probing
<1>. QED
  BY <1>1, <1>2, <1>3 DEF NetInv

\* An exception.
LEMMA NetRaises ==
    ASSUME NetInv, Net!Raise, scanning \in {"handshake", "smtp", "postgresql"},
           UNCHANGED <<peer, aliases, pending, seen, probed, candidates, result>>
    PROVE  NetInv'
<1>1. scanning' = IF Net!Guessing THEN "ssh" ELSE "raised"
  BY DEF Net!Raise
<1>2. NetTyped'
  BY <1>1 DEF NetInv, NetTyped
<1>3. OnRoute'
  BY <1>1 DEF OnRoute, Probing, Net!Guessing
<1>4. Worklist'
  BY <1>1 DEF NetInv, Worklist, NamesIn, Probing
<1>. QED
  BY <1>2, <1>3, <1>4 DEF NetInv

LEMMA DispatchNet == ASSUME NetInv, Net!Dispatch PROVE NetInv'
<1>1. /\ scanning = "dispatch" /\ UNCHANGED <<peer, aliases, seen, probed, result>>
      /\ candidates = <<>> /\ seen = {}
  BY DEF Net!Dispatch, NetInv, Worklist
<1>2. CASE Net!Route(peer) \in {"tls", "unknown"}
  <2>1. scanning' = "tls" /\ pending' = Net!InitialNames /\ UNCHANGED candidates
    BY <1>2 DEF Net!Dispatch
  <2>2. <<peer.name>> \in Seq(AName) /\ Net!SetToSeq(aliases) \in Seq(AName)
    <3>1. peer.name \in AName /\ IsFiniteSet(aliases) /\ aliases \subseteq AName
      BY NetAssumed, FS_Subset DEF NetInv, NetTyped, AName
    <3>2. Net!SetToSeq(aliases) \in Seq(aliases)
      BY <3>1, SequenceOfSet
    <3>. QED
      BY <3>1, <3>2
  <2>3. pending' \in Seq(AName) /\ pending' # <<>>
    BY <2>1, <2>2 DEF Net!InitialNames
  <2>4. NetTyped'
    BY <1>1, <2>1, <2>3 DEF NetInv, NetTyped
  <2>5. OnRoute'
    BY <1>1, <1>2, <2>1 DEF OnRoute, Probing, Net!Route
  <2>6. Worklist'
    BY <1>1, <2>1, <2>3 DEF Worklist, NamesIn, Probing
  <2>. QED
    BY <2>4, <2>5, <2>6 DEF NetInv
<1>3. CASE Net!Route(peer) = "fallback"
  <2>1. Net!Finish(Net!Fallback) /\ UNCHANGED pending
    BY <1>3 DEF Net!Dispatch
  <2>2. Net!Fallback # {}
    BY DEF Net!Fallback
  <2>. QED
    BY <1>1, <1>3, <2>1, <2>2, Finishing DEF NetInv, NetTyped
<1>4. CASE Net!Route(peer) \notin {"tls", "unknown", "fallback"}
  <2>1. scanning' = Net!Route(peer) /\ UNCHANGED <<pending, candidates>>
    BY <1>4 DEF Net!Dispatch
  <2>2. Net!Route(peer) \in {"ike", "ssh", "smtp", "postgresql"}
    BY <1>4 DEF Net!Route
  <2>3. Net!Route(peer') = Net!Route(peer)
    BY <1>1
  <2>4. NetTyped'
    BY <1>1, <2>1, <2>2 DEF NetInv, NetTyped
  <2>5. OnRoute'
    BY <1>1, <2>1, <2>2, <2>3 DEF OnRoute, Probing
  <2>6. Worklist'
    BY <1>1, <2>1, <2>2, <2>3 DEF Worklist, NamesIn, Probing
  <2>. QED
    BY <2>4, <2>5, <2>6 DEF NetInv
<1>. QED
  BY <1>2, <1>3, <1>4

LEMMA NextNameNet == ASSUME NetInv, Net!NextName PROVE NetInv'
<1>1. /\ scanning = "tls" /\ pending # <<>> /\ pending' = Tail(pending)
      /\ UNCHANGED <<peer, aliases, candidates>>
  BY DEF Net!NextName
<1>2. /\ pending \in Seq(AName) /\ probed \in Seq(AName) /\ seen = Net!ToSet(probed) /\ Net!IsInjective(probed)
  BY DEF NetInv, NetTyped
<1>3. /\ Head(pending) \in AName /\ Tail(pending) \in Seq(AName)
      /\ Net!ToSet(pending) = {Head(pending)} \cup Net!ToSet(Tail(pending))
  BY <1>1, <1>2, HeadAndTail
<1>4. CASE Head(pending) \in seen
  <2>1. UNCHANGED <<scanning, seen, probed, result>>
    BY <1>4 DEF Net!NextName
  <2>2. seen' \cup Net!ToSet(pending') = seen \cup Net!ToSet(pending)
    BY <1>1, <1>3, <1>4, <2>1
  <2>3. NetTyped'
    BY <1>1, <1>3, <2>1 DEF NetInv, NetTyped
  <2>4. OnRoute'
    BY <1>1, <2>1 DEF NetInv, OnRoute, Probing
  <2>5. Worklist'
    BY <1>1, <1>4, <2>1, <2>2 DEF NetInv, Worklist, NamesIn, Probing
  <2>. QED
    BY <2>3, <2>4, <2>5 DEF NetInv
<1>5. CASE Head(pending) \notin seen
  <2>1. /\ seen' = seen \cup {Head(pending)} /\ probed' = Append(probed, Head(pending))
        /\ result' = [Net!NoResult EXCEPT !.sni = Head(pending)] /\ scanning' = "handshake"
    BY <1>5 DEF Net!NextName
  <2>2. seen' \cup Net!ToSet(pending') = seen \cup Net!ToSet(pending)
    BY <1>1, <1>3, <2>1
  <2>3. probed' \in Seq(AName) /\ Net!IsInjective(probed') /\ Net!ToSet(probed') = seen'
    BY <1>2, <1>3, <1>5, <2>1, ProbedOnce
  <2>4. DOMAIN result' = {"sni", "chain", "negotiated", "suites", "mqtt", "ready"}
    BY <2>1 DEF Net!NoResult
  <2>5. NetTyped'
    BY <1>1, <1>3, <2>1, <2>3, <2>4 DEF NetInv, NetTyped
  <2>6. OnRoute'
    BY <1>1, <2>1 DEF NetInv, OnRoute, Probing, Net!Route
  <2>7. Worklist'
    BY <1>1, <2>1, <2>2 DEF NetInv, Worklist, NamesIn, Probing
  <2>. QED
    BY <2>5, <2>6, <2>7 DEF NetInv
<1>. QED
  BY <1>4, <1>5

LEMMA NoMoreNamesNet == ASSUME NetInv, Net!NoMoreNames PROVE NetInv'
<1>1. /\ scanning = "tls" /\ pending = <<>> /\ scanning' = "done"
      /\ UNCHANGED <<peer, aliases, pending, seen, probed, result, candidates>>
  BY DEF Net!NoMoreNames
<1>2. candidates # <<>>
  BY <1>1 DEF NetInv, Worklist
<1>3. NetTyped'
  BY <1>1 DEF NetInv, NetTyped
<1>4. OnRoute'
  BY <1>1 DEF OnRoute, Probing
<1>5. Worklist'
  BY <1>1, <1>2 DEF NetInv, Worklist, NamesIn, Probing
<1>. QED
  BY <1>3, <1>4, <1>5 DEF NetInv

LEMMA HandshakeNet == ASSUME NetInv, Net!Handshake PROVE NetInv'
<1>1. scanning = "handshake" /\ UNCHANGED <<peer, aliases, pending, seen, probed, candidates>>
  BY DEF Net!Handshake
<1>2. CASE Net!Raise /\ UNCHANGED result
  BY <1>1, <1>2, NetRaises
<1>3. ASSUME NEW c \in Certificates, NEW s, NEW mqtt, scanning' = "chain",
             result' = [result EXCEPT !.chain = <<c>>, !.negotiated = s, !.mqtt = mqtt]
      PROVE  NetInv'
  <2>1. result'.chain = <<c>> /\ DOMAIN result' = {"sni", "chain", "negotiated", "suites", "mqtt", "ready"}
    BY <1>3 DEF NetInv, NetTyped
  <2>2. 1 \in DOMAIN result'.chain /\ result'.chain[1] \in Certificates
    BY <2>1
  <2>. QED
    BY <1>1, <1>3, <2>1, <2>2, ProbeGoesOn DEF Probing
<1>. QED
  BY <1>2, <1>3 DEF Net!Handshake

LEMMA ChainsBegin == \A chain \in Net!Chains : 1 \in DOMAIN chain /\ chain[1] \in Certificates
BY DEF Net!Chains

LEMMA ChainNet == ASSUME NetInv, Net!OpensslChain PROVE NetInv'
<1>1. /\ scanning = "chain" /\ scanning' = "suites"
      /\ UNCHANGED <<peer, aliases, pending, seen, probed, candidates>>
  BY DEF Net!OpensslChain
<1>2. /\ 1 \in DOMAIN result.chain /\ result.chain[1] \in Certificates
      /\ DOMAIN result = {"sni", "chain", "negotiated", "suites", "mqtt", "ready"}
  BY <1>1 DEF NetInv, NetTyped
<1>3. CASE UNCHANGED result
  BY <1>1, <1>2, <1>3, ProbeGoesOn DEF Probing
<1>4. ASSUME NEW chain \in Net!Chains, result' = [result EXCEPT !.chain = chain] PROVE NetInv'
  <2>1. result'.chain = chain /\ DOMAIN result' = DOMAIN result
    BY <1>2, <1>4
  <2>. QED
    BY <1>1, <1>2, <2>1, ChainsBegin, ProbeGoesOn DEF Probing
<1>. QED
  BY <1>3, <1>4 DEF Net!OpensslChain

LEMMA SuitesNet == ASSUME NetInv, Net!ProbeSuite \/ Net!Readiness PROVE NetInv'
<1>1. /\ scanning = "suites" /\ scanning' \in {"suites", "collect"}
      /\ UNCHANGED <<peer, aliases, pending, seen, probed, candidates>>
  BY DEF Net!ProbeSuite, Net!Readiness
<1>2. /\ 1 \in DOMAIN result.chain /\ result.chain[1] \in Certificates
      /\ DOMAIN result = {"sni", "chain", "negotiated", "suites", "mqtt", "ready"}
  BY <1>1 DEF NetInv, NetTyped
<1>3. result'.chain = result.chain /\ DOMAIN result' = DOMAIN result
  BY <1>2 DEF Net!ProbeSuite, Net!Readiness
<1>. QED
  BY <1>1, <1>2, <1>3, ProbeGoesOn DEF Probing

\* The names of the leaf wait, unless they were probed or wait already.
LEMMA CollectNet == ASSUME NetInv, Net!Collect PROVE NetInv'
<1>1. /\ scanning = "collect" /\ scanning' = "tls" /\ candidates' = Append(candidates, Net!TlsCandidates(result))
      /\ pending' = pending \o Net!Unseen(Net!Discovered)
      /\ UNCHANGED <<peer, aliases, seen, probed, result>>
  BY DEF Net!Collect
<1>2. /\ 1 \in DOMAIN result.chain /\ result.chain[1] \in Certificates /\ aliases \subseteq Names
      /\ pending \in Seq(AName)
  BY <1>1 DEF NetInv, NetTyped
<1> DEFINE leaf == result.chain[1]
           more == (Net!Discovered \ seen) \ Net!ToSet(pending)
<1>3. Net!Discovered \subseteq Names /\ leaf.sans \subseteq Net!Discovered
  BY <1>2, NetAssumed DEF Net!Discovered
<1>4. IsFiniteSet(more)
  BY <1>3, NetAssumed, FS_Subset
<1>5. Net!Unseen(Net!Discovered) \in Seq(more) /\ Net!ToSet(Net!Unseen(Net!Discovered)) = more
  <2>1. Net!Unseen(Net!Discovered) = Net!SetToSeq(more)
    BY DEF Net!Unseen
  <2> HIDE DEF more
  <2>. QED
    BY <1>4, <2>1, SequenceOfSet
<1>6. more \subseteq AName
  BY <1>3 DEF AName
<1> HIDE DEF more
<1>7. Net!Unseen(Net!Discovered) \in Seq(AName)
  BY <1>5, <1>6
<1>8. pending' \in Seq(AName) /\ Net!ToSet(pending') = Net!ToSet(pending) \cup more
  BY <1>1, <1>2, <1>5, <1>7, AddedToSet
<1>9. leaf.sans \subseteq seen \cup Net!ToSet(pending')
  BY <1>3, <1>8 DEF more
<1>10. \A x \in Net!TlsCandidates(result) : x.kind = "certificate" /\ x.of[1] = 1 =>
          \A c \in Certificates : c.id = x.of[2] => c.sans \subseteq seen \cup Net!ToSet(pending')
  <2>1. SUFFICES ASSUME NEW x \in Net!TlsCandidates(result), x.kind = "certificate", x.of[1] = 1,
                        NEW c \in Certificates, c.id = x.of[2]
                 PROVE  c = leaf
    BY <1>9
  <2>2. PICK i \in DOMAIN result.chain : x.of = <<i, result.chain[i].id>>
    BY <2>1, ProbeCandidates
  <2>3. c.id = leaf.id
    BY <2>1, <2>2
  <2>. QED
    BY <1>2, <2>3, NetAssumed
<1>11. PICK T : candidates \in Seq(T)
  BY DEF NetInv, NetTyped
<1> DEFINE tls == Net!TlsCandidates(result)
<1>12. tls # {}
  BY ProbeCandidates
<1>13. candidates' = Append(candidates, tls)
  BY <1>1
<1> HIDE DEF tls
<1>14. /\ candidates' \in Seq(T \cup {tls}) /\ candidates' # <<>>
       /\ \A i \in DOMAIN candidates' : i \notin DOMAIN candidates => candidates'[i] = tls
       /\ \A i \in DOMAIN candidates' : i \in DOMAIN candidates => candidates'[i] = candidates[i]
  <2>1. candidates \in Seq(T \cup {tls}) /\ tls \in T \cup {tls}
    BY <1>11
  <2>. QED
    BY <1>13, <2>1
<1>15. Net!Route(peer) = "tls" => NamesIn(candidates', seen \cup Net!ToSet(pending'))
  <2>1. SUFFICES ASSUME Net!Route(peer) = "tls", NEW i \in DOMAIN candidates', NEW x \in candidates'[i],
                        x.kind = "certificate", x.of[1] = 1, NEW c \in Certificates, c.id = x.of[2]
                 PROVE  c.sans \subseteq seen \cup Net!ToSet(pending')
    BY DEF NamesIn
  <2>2. CASE i \in DOMAIN candidates
    <3>1. x \in candidates[i]
      BY <1>14, <2>1, <2>2
    <3>2. c.sans \subseteq seen \cup Net!ToSet(pending)
      BY <2>1, <2>2, <3>1 DEF NetInv, Worklist, NamesIn
    <3>. QED
      BY <1>8, <3>2
  <2>3. CASE i \notin DOMAIN candidates
    BY <1>10, <1>14, <2>1, <2>3 DEF tls
  <2>. QED
    BY <2>2, <2>3
<1>16. NetTyped'
  BY <1>1, <1>8, <1>14 DEF NetInv, NetTyped
<1>17. OnRoute'
  BY <1>1 DEF NetInv, OnRoute, Probing
<1>18. Worklist'
  <2>1. \A i \in DOMAIN candidates' : candidates'[i] # {}
    BY <1>12, <1>14 DEF NetInv, Worklist
  <2>2. Net!Route(peer') = Net!Route(peer) /\ seen' = seen
    BY <1>1
  <2>3. seen # {}
    BY <1>1 DEF NetInv, Worklist, Probing
  <2>. QED
    BY <1>1, <1>14, <1>15, <2>1, <2>2, <2>3 DEF Worklist, Probing
<1>. QED
  BY <1>16, <1>17, <1>18 DEF NetInv

LEMMA AliasesNet == ASSUME NetInv, Net!AliasesChange PROVE NetInv'
<1>1. /\ aliases' \subseteq Names /\ UNCHANGED <<peer, scanning, pending, seen, probed, result, candidates>>
  BY DEF Net!AliasesChange
<1>. QED
  BY <1>1 DEF NetInv, NetTyped, OnRoute, Worklist, NamesIn, Probing, Net!Guessing, Net!Route

\* The other protocols finish with something to say.
LEMMA ProtocolNet == ASSUME NetInv, Net!Smtp \/ Net!Postgresql \/ Net!Ike PROVE NetInv'
<1>1. /\ scanning \in {"smtp", "postgresql", "ike"} /\ UNCHANGED <<peer, aliases, pending, seen, probed>>
  BY DEF Net!Smtp, Net!Postgresql, Net!Ike
<1>2. Net!Route(peer) # "tls" /\ scanning # "done"
  BY <1>1 DEF NetInv, OnRoute
<1>3. DOMAIN result = {"sni", "chain", "negotiated", "suites", "mqtt", "ready"}
  BY DEF NetInv, NetTyped
<1>4. \A of : Net!Policy(of) # {}
  BY DEF Net!Policy
<1>5. ASSUME NEW of, Net!Finish(Net!Policy(of)), UNCHANGED result PROVE NetInv'
  BY <1>1, <1>2, <1>3, <1>4, <1>5, Finishing
<1>6. CASE Net!Raise /\ UNCHANGED <<candidates, result>> /\ scanning \in {"smtp", "postgresql"}
  BY <1>1, <1>6, NetRaises
<1>7. ASSUME Net!Finish(Net!TlsCandidates(result')),
             DOMAIN result' = {"sni", "chain", "negotiated", "suites", "mqtt", "ready"}
      PROVE  NetInv'
  <2>1. Net!TlsCandidates(result') # {}
    BY ProbeCandidates
  <2>. QED
    BY <1>1, <1>2, <1>7, <2>1, Finishing
<1>8. ASSUME NEW K, K # {}, Net!Finish({Net!Candidate("ike", None, <<k>>) : k \in K}), UNCHANGED result
      PROVE  NetInv'
  <2>1. {Net!Candidate("ike", None, <<k>>) : k \in K} # {}
    BY <1>8
  <2>. QED
    BY <1>1, <1>2, <1>3, <1>8, <2>1, Finishing
<1>9. CASE Net!Smtp
  <2>1. CASE Net!Finish(Net!Policy("no-starttls")) /\ UNCHANGED result
    BY <1>5, <2>1
  <2>2. CASE Net!Finish(Net!Policy("rejected")) /\ UNCHANGED result
    BY <1>5, <2>2
  <2>3. ASSUME NEW chain, NEW s, Net!Finish(Net!TlsCandidates(result')),
               result' = [Net!NoResult EXCEPT !.sni = peer.name, !.chain = chain, !.negotiated = s]
        PROVE  NetInv'
    <3>1. DOMAIN result' = {"sni", "chain", "negotiated", "suites", "mqtt", "ready"}
      BY <2>3 DEF Net!NoResult
    <3>. QED
      BY <1>7, <2>3, <3>1
  <2>4. scanning = "smtp"
    BY <1>9 DEF Net!Smtp
  <2>5. CASE Net!Raise /\ UNCHANGED <<candidates, result>>
    BY <1>6, <2>4, <2>5
  <2>. QED
    BY <1>9, <2>1, <2>2, <2>3, <2>5, Zenon DEF Net!Smtp
<1>10. CASE Net!Postgresql
  <2>1. CASE Net!Finish(Net!Policy("disabled")) /\ UNCHANGED result
    BY <1>5, <2>1
  <2>2. ASSUME NEW chain, NEW s, Net!Finish(Net!TlsCandidates(result')),
               result' = [Net!NoResult EXCEPT !.chain = chain, !.negotiated = s]
        PROVE  NetInv'
    <3>1. DOMAIN result' = {"sni", "chain", "negotiated", "suites", "mqtt", "ready"}
      BY <2>2 DEF Net!NoResult
    <3>. QED
      BY <1>7, <2>2, <3>1
  <2>3. scanning = "postgresql"
    BY <1>10 DEF Net!Postgresql
  <2>4. CASE Net!Raise /\ UNCHANGED <<candidates, result>>
    BY <1>6, <2>3, <2>4
  <2>. QED
    BY <1>10, <2>1, <2>2, <2>4, Zenon DEF Net!Postgresql
<1>11. CASE Net!Ike
  <2>1. UNCHANGED result
    BY <1>11 DEF Net!Ike
  <2>2. ASSUME NEW of, Net!Finish(Net!Policy(of)) PROVE NetInv'
    BY <1>5, <2>1, <2>2
  <2>3. ASSUME NEW K \in (SUBSET {"encryption", "prf", "integrity", "dh_group"}) \ {{}},
               Net!Finish({Net!Candidate("ike", None, <<k>>) : k \in K})
        PROVE  NetInv'
    <3>1. K # {}
      BY <2>3
    <3>. QED
      BY <1>8, <2>1, <2>3, <3>1, Zenon
  <2>. QED
    BY <1>11, <2>2, <2>3, Zenon DEF Net!Ike
<1>. QED
  BY <1>1, <1>9, <1>10, <1>11

\* What a failed TLS scan of an unknown service found is not returned.
LEMMA SshNet == ASSUME NetInv, Net!Ssh PROVE NetInv'
<1>1. PICK S : S # {} /\ candidates' = <<S>>
  <2>1. PICK K \in SUBSET Net!HostKeys :
          candidates' = <<IF K = {} THEN Net!Policy("ssh") ELSE {Net!Candidate("ssh", None, <<k>>) : k \in K}>>
    BY DEF Net!Ssh
  <2>2. Net!Policy("ssh") # {}
    BY DEF Net!Policy
  <2>3. K # {} => {Net!Candidate("ssh", None, <<k>>) : k \in K} # {}
    OBVIOUS
  <2>. QED
    BY <2>1, <2>2, <2>3
<1>2. /\ scanning = "ssh" /\ scanning' = "done"
      /\ UNCHANGED <<peer, aliases, pending, seen, probed, result>>
  BY DEF Net!Ssh
<1>3. Net!Route(peer) # "tls"
  BY <1>2 DEF NetInv, OnRoute
<1>4. candidates' \in Seq({S}) /\ candidates' # <<>> /\ \A i \in DOMAIN candidates' : candidates'[i] = S
  BY <1>1
<1>5. NetTyped'
  BY <1>2, <1>4 DEF NetInv, NetTyped
<1>6. OnRoute'
  BY <1>2 DEF OnRoute, Probing
<1>7. Worklist'
  BY <1>1, <1>2, <1>3, <1>4 DEF Worklist, Probing
<1>. QED
  BY <1>5, <1>6, <1>7 DEF NetInv

LEMMA NetNext == ASSUME NetInv, [Net!Next]_netVars PROVE NetInv'
<1>1. CASE UNCHANGED netVars
  <2>1. UNCHANGED <<peer, scanning, aliases, pending, seen, probed, result, candidates>>
    BY <1>1 DEF netVars
  <2>. QED
    BY <2>1 DEF NetInv, NetTyped, OnRoute, Worklist, NamesIn, Probing, Net!Guessing, Net!Route
<1>2. CASE Net!Tls
  BY <1>2, NextNameNet, NoMoreNamesNet, HandshakeNet, ChainNet, SuitesNet, CollectNet DEF Net!Tls
<1>. QED
  BY <1>1, <1>2, DispatchNet, ProtocolNet, SshNet, AliasesNet DEF Net!Next, Net!Scan

LEMMA ScannedNetwork ==
    ASSUME NetInv PROVE Net!NamesFollowed /\ Net!NoNameTwice /\ Net!AlwaysACandidate
<1>1. Net!NoNameTwice
  BY DEF NetInv, NetTyped, Net!NoNameTwice
<1>2. Net!AlwaysACandidate
  BY DEF NetInv, Worklist, OnRoute, Net!AlwaysACandidate
<1>3. Net!NamesFollowed
  <2>1. SUFFICES ASSUME scanning = "done", Net!Route(peer) = "tls"
                 PROVE  NamesIn(candidates, seen)
    BY DEF Net!NamesFollowed, NamesIn
  <2>2. Net!ToSet(pending) = {}
    BY <2>1 DEF NetInv, Worklist, Net!ToSet
  <2>3. NamesIn(candidates, seen \cup Net!ToSet(pending))
    BY <2>1 DEF NetInv, Worklist
  <2>. QED
    BY <2>2, <2>3, Zenon DEF NamesIn
<1>. QED
  BY <1>1, <1>2, <1>3

\* Whatever names certificates carry and targets come and go, a TLS scan that
\* ends has probed every name of its leaf certificates, none of them twice, and
\* a scan of any kind that ends has something to say of its target
\* (jobs/network_scanner.py:127 seen_sni, pending_sni and the fallbacks).
THEOREM NetworkScansAreWhole == Spec => []NetworkScanIsWhole
<1> DEFINE Inv == part = "network" => NetInv
<1>1. Init => Inv
  BY FirstPart, NetInit
<1>2. Inv /\ [Next]_vars => Inv'
  BY OnePart, NetNext
<1>3. Inv => NetworkScanIsWhole
  BY ScannedNetwork DEF NetworkScanIsWhole
<1>. QED
  BY <1>1, <1>2, <1>3, PTL DEF Spec

-----------------------------------------------------------------------------
(* List comprehensions and finite sets.                                    *)

\* The kept places below another one are fewer.
LEMMA RankGrows ==
    ASSUME NEW kept \in SUBSET Nat, IsFiniteSet(kept), NEW i \in kept, NEW k \in kept, i < k
    PROVE  Cardinality({j \in kept : j <= i}) < Cardinality({j \in kept : j <= k})
<1> DEFINE A == {j \in kept : j <= i}
           B == {j \in kept : j <= k}
<1>0. i \in Nat /\ k \in Nat /\ \A j \in kept : j \in Nat
  OBVIOUS
<1>1. A \subseteq B /\ k \in B /\ k \notin A /\ B \subseteq kept
  <2>1. \A j \in kept : j <= i => j <= k
    BY <1>0
  <2>2. k <= k /\ ~ (k <= i)
    BY <1>0
  <2>. QED
    BY <2>1, <2>2
<1>2. IsFiniteSet(B)
  BY <1>1, FS_Subset
<1>3. IsFiniteSet(A) /\ Cardinality(A) <= Cardinality(B) /\ Cardinality(A) # Cardinality(B)
  BY <1>1, <1>2, FS_Subset
<1>4. Cardinality(A) \in Nat /\ Cardinality(B) \in Nat
  BY <1>2, <1>3, FS_CardinalityType
<1>. QED
  BY <1>3, <1>4

\* The n-th kept place is the one with n kept places up to it.
LEMMA Places ==
    ASSUME NEW kept \in SUBSET Nat, IsFiniteSet(kept)
    PROVE  /\ Cardinality(kept) \in Nat
           /\ \E g \in Bijection(1 .. Cardinality(kept), kept) :
                 /\ \A n \in 1 .. Cardinality(kept) :
                       g[n] = CHOOSE i \in kept : Cardinality({j \in kept : j <= i}) = n
                 /\ \A m, n \in 1 .. Cardinality(kept) : m < n => g[m] < g[n]
<1> DEFINE N == Cardinality(kept)
           Rank(i) == Cardinality({j \in kept : j <= i})
           rank == [i \in kept |-> Rank(i)]
           g == [n \in 1 .. N |-> CHOOSE i \in kept : Rank(i) = n]
<1>1. N \in Nat
  BY FS_CardinalityType
<1>2. \A i \in kept : Rank(i) \in 1 .. N
  <2> TAKE i \in kept
  <2> DEFINE A == {j \in kept : j <= i}
  <2>1. A \subseteq kept /\ i \in A
    OBVIOUS
  <2>2. IsFiniteSet(A) /\ Cardinality(A) <= N
    BY <2>1, FS_Subset
  <2>3. Cardinality(A) \in Nat /\ Cardinality(A) # 0
    BY <2>1, <2>2, FS_CardinalityType, FS_EmptySet
  <2>. QED
    BY <1>1, <2>2, <2>3
<1>3. \A i, k \in kept : Rank(i) = Rank(k) => i = k
  <2> SUFFICES ASSUME NEW i \in kept, NEW k \in kept, Rank(i) = Rank(k), i # k PROVE FALSE
    OBVIOUS
  <2>1. Rank(i) \in Nat /\ Rank(k) \in Nat
    BY <1>1, <1>2
  <2>2. CASE i < k
    BY <2>1, <2>2, RankGrows
  <2>3. CASE k < i
    BY <2>1, <2>3, RankGrows
  <2>. QED
    BY <2>2, <2>3
<1> HIDE DEF Rank
<1>4. rank \in Injection(kept, 1 .. N)
  BY <1>2, <1>3 DEF Injection, IsInjective
<1>5. IsFiniteSet(1 .. N) /\ Cardinality(1 .. N) = N
  BY <1>1, FS_Interval
<1>6. rank \in Surjection(kept, 1 .. N)
  BY <1>4, <1>5, FS_Injection
<1>7. \A n \in 1 .. N : \E i \in kept : Rank(i) = n
  BY <1>6 DEF Surjection
<1>8. \A n \in 1 .. N : g[n] \in kept /\ Rank(g[n]) = n
  BY <1>7
<1>9. g \in [1 .. N -> kept]
  BY <1>8
<1>10. \A m, n \in 1 .. N : g[m] = g[n] => m = n
  BY <1>8
<1>11. \A i \in kept : Rank(i) \in 1 .. N /\ g[Rank(i)] = i
  BY <1>2, <1>3, <1>8
<1>12. \A m, n \in 1 .. N : m < n => g[m] < g[n]
  <2> SUFFICES ASSUME NEW m \in 1 .. N, NEW n \in 1 .. N, m < n, ~ (g[m] < g[n]) PROVE FALSE
    OBVIOUS
  <2> HIDE DEF g
  <2>1. g[m] # g[n]
    BY <1>1, <1>10
  <2>2. g[m] \in kept /\ g[n] \in kept
    BY <1>8
  <2>3. g[m] \in Nat /\ g[n] \in Nat
    BY <2>2
  <2>4. g[n] < g[m]
    BY <2>1, <2>3
  <2>5. Rank(g[n]) < Rank(g[m])
    BY <2>2, <2>4, RankGrows DEF Rank
  <2>. QED
    BY <1>1, <1>8, <2>5
<1>13. g \in Bijection(1 .. N, kept)
  BY <1>9, <1>10, <1>11 DEF Bijection, Injection, Surjection, IsInjective
<1>14. \A n \in 1 .. N : g[n] = CHOOSE i \in kept : Cardinality({j \in kept : j <= i}) = n
  BY DEF Rank
<1> HIDE DEF g
<1>. QED
  BY <1>1, <1>12, <1>13, <1>14

\* What is kept of a sequence are the elements at the kept places, in order.
LEMMA Kept ==
    ASSUME NEW S, NEW seq \in Seq(S), NEW kept \in SUBSET (DOMAIN seq)
    PROVE  /\ IsFiniteSet(kept) /\ Cardinality(kept) \in Nat
           /\ Keep(seq, kept) \in Seq(S) /\ Len(Keep(seq, kept)) = Cardinality(kept)
           /\ \E g \in Bijection(1 .. Cardinality(kept), kept) :
                 /\ \A n \in 1 .. Cardinality(kept) : Keep(seq, kept)[n] = seq[g[n]]
                 /\ \A m, n \in 1 .. Cardinality(kept) : m < n => g[m] < g[n]
<1> DEFINE N == Cardinality(kept)
<1>1. DOMAIN seq = 1 .. Len(seq) /\ Len(seq) \in Nat
  OBVIOUS
<1>2. IsFiniteSet(kept) /\ kept \subseteq Nat
  <2>1. IsFiniteSet(1 .. Len(seq))
    BY <1>1, FS_Interval
  <2>. QED
    BY <1>1, <2>1, FS_Subset
<1>3. N \in Nat
  BY <1>2, FS_CardinalityType
<1>4. PICK g \in Bijection(1 .. N, kept) :
           /\ \A n \in 1 .. N : g[n] = CHOOSE i \in kept : Cardinality({j \in kept : j <= i}) = n
           /\ \A m, n \in 1 .. N : m < n => g[m] < g[n]
  BY <1>2, Places
<1>5. Keep(seq, kept) = [n \in 1 .. N |-> seq[g[n]]]
  <2> DEFINE Nth(n) == CHOOSE i \in kept : Cardinality({j \in kept : j <= i}) = n
  <2>1. \A n \in 1 .. N : g[n] = Nth(n)
    BY <1>4
  <2>2. Keep(seq, kept) = [n \in 1 .. N |-> seq[Nth(n)]]
    BY DEF Keep
  <2> HIDE DEF Nth, N
  <2>. QED
    BY <2>1, <2>2
<1>6. \A n \in 1 .. N : g[n] \in DOMAIN seq /\ seq[g[n]] \in S
  BY <1>1, <1>4 DEF Bijection, Injection
<1> HIDE DEF N
<1>7. Keep(seq, kept) \in [1 .. N -> S]
  BY <1>5, <1>6
<1>8. Keep(seq, kept) \in Seq(S) /\ Len(Keep(seq, kept)) = N
  BY <1>3, <1>7
<1>9. \A n \in 1 .. N : Keep(seq, kept)[n] = seq[g[n]]
  BY <1>5
<1>. QED
  BY <1>2, <1>3, <1>4, <1>8, <1>9 DEF N

\* A set of natural numbers has a least one.
LEMMA LeastOf ==
    ASSUME NEW S, S \subseteq Nat, S # {}
    PROVE  \E i \in S : \A j \in S : i <= j
<1> DEFINE less == {p \in Nat \X Nat : p[1] < p[2]}
<1>1. IsWellFoundedOn(less, Nat)
  BY NatLessThanWellFounded DEF OpToRel
<1>2. PICK i \in S : \A j \in S : <<j, i>> \notin less
  BY <1>1, WFMin, Zenon
<1>3. ASSUME NEW j \in S PROVE i <= j
  <2>1. i \in Nat /\ j \in Nat /\ <<j, i>> \notin less
    BY <1>2
  <2>. QED
    BY <2>1
<1>. QED
  BY <1>3

-----------------------------------------------------------------------------
(* Elements of comprehensions.                                             *)

Elements(q) == {q[i] : i \in DOMAIN q}

LEMMA KeptElements ==
    ASSUME NEW S, NEW q \in Seq(S), NEW kept \in SUBSET (DOMAIN q)
    PROVE  Keep(q, kept) \in Seq(S) /\ Elements(Keep(q, kept)) = {q[i] : i \in kept}
<1> DEFINE r == Keep(q, kept)
           N == Cardinality(kept)
<1>1. /\ N \in Nat /\ r \in Seq(S) /\ Len(r) = N
      /\ \E g \in Bijection(1 .. N, kept) : \A n \in 1 .. N : r[n] = q[g[n]]
  BY Kept
<1>2. PICK g \in Bijection(1 .. N, kept) : \A n \in 1 .. N : r[n] = q[g[n]]
  BY <1>1
<1> HIDE DEF r, N
<1>3. g \in [1 .. N -> kept] /\ \A k \in kept : \E n \in 1 .. N : g[n] = k
  BY <1>2 DEF Bijection, Injection, Surjection
<1>4. DOMAIN r = 1 .. N
  BY <1>1
<1>5. Elements(r) \subseteq {q[i] : i \in kept}
  BY <1>2, <1>3, <1>4 DEF Elements
<1>6. {q[i] : i \in kept} \subseteq Elements(r)
  BY <1>2, <1>3, <1>4 DEF Elements
<1>. QED
  BY <1>1, <1>5, <1>6 DEF r

\* In a chain of sets, one for each member of K, sizes number the members.
InChain(K, up) ==
    /\ up \in [K -> SUBSET K] /\ \A p \in K : p \in up[p]
    /\ \A p, q \in K : p # q => up[p] # up[q] /\ (up[p] \subseteq up[q] \/ up[q] \subseteq up[p])

Numbered(K, up) ==
    /\ Cardinality(K) \in Nat
    /\ \A p \in K : Cardinality(up[p]) \in 1 .. Cardinality(K)
    /\ \A p, q \in K : Cardinality(up[p]) = Cardinality(up[q]) => p = q
    /\ \A n \in 1 .. Cardinality(K) : \E p \in K : Cardinality(up[p]) = n

LEMMA Ranked == \A K, up : IsFiniteSet(K) /\ InChain(K, up) => Numbered(K, up)
<1> SUFFICES ASSUME NEW K, NEW up, IsFiniteSet(K), InChain(K, up) PROVE Numbered(K, up)
  OBVIOUS
<1>0. /\ up \in [K -> SUBSET K] /\ \A p \in K : p \in up[p]
      /\ \A p, q \in K : p # q => up[p] # up[q] /\ (up[p] \subseteq up[q] \/ up[q] \subseteq up[p])
  BY DEF InChain
<1> DEFINE N == Cardinality(K)
           rank == [p \in K |-> Cardinality(up[p])]
<1>1. N \in Nat
  BY FS_CardinalityType
<1>2. \A p \in K : IsFiniteSet(up[p]) /\ Cardinality(up[p]) \in 1 .. N
  <2> SUFFICES ASSUME NEW p \in K PROVE IsFiniteSet(up[p]) /\ Cardinality(up[p]) \in 1 .. N
    OBVIOUS
  <2>1. up[p] \in SUBSET K /\ p \in up[p]
    BY <1>0
  <2>2. IsFiniteSet(up[p]) /\ Cardinality(up[p]) <= N
    BY <2>1, FS_Subset
  <2>3. Cardinality(up[p]) \in Nat /\ Cardinality(up[p]) # 0
    BY <2>1, <2>2, FS_CardinalityType, FS_EmptySet
  <2>. QED
    BY <1>1, <2>2, <2>3
<1>3. \A p, q \in K : Cardinality(up[p]) = Cardinality(up[q]) => p = q
  <2> SUFFICES ASSUME NEW p \in K, NEW q \in K, Cardinality(up[p]) = Cardinality(up[q]), p # q PROVE FALSE
    OBVIOUS
  <2>1. CASE up[p] \subseteq up[q]
    BY <1>0, <1>2, <2>1, FS_Subset
  <2>2. CASE up[q] \subseteq up[p]
    BY <1>0, <1>2, <2>2, FS_Subset
  <2>. QED
    BY <1>0, <2>1, <2>2
<1>4. rank \in Injection(K, 1 .. N)
  BY <1>2, <1>3 DEF Injection, IsInjective
<1>5. IsFiniteSet(1 .. N) /\ Cardinality(1 .. N) = N
  BY <1>1, FS_Interval
<1>6. rank \in Surjection(K, 1 .. N)
  BY <1>4, <1>5, FS_Injection
<1>7. \A n \in 1 .. N : \E p \in K : Cardinality(up[p]) = n
  BY <1>6 DEF Surjection
<1>. QED
  BY <1>1, <1>2, <1>3, <1>7 DEF Numbered

\* The places of a nested comprehension, line by line.
LEMMA PlacesLined ==
    ASSUME NEW S, NEW qs \in Seq(Seq(S))
    PROVE  /\ \A p \in PlacesIn(qs) : /\ p[1] \in DOMAIN qs /\ p[2] \in DOMAIN qs[p[1]] /\ p = <<p[1], p[2]>>
                                      /\ p[1] \in Nat /\ p[2] \in Nat
           /\ \A i \in DOMAIN qs : \A j \in DOMAIN qs[i] : <<i, j>> \in PlacesIn(qs)
           /\ IsFiniteSet(PlacesIn(qs))
<1>1. \A i \in DOMAIN qs : i \in Nat /\ qs[i] \in Seq(S)
  OBVIOUS
<1>2. \A i \in DOMAIN qs : \A j \in DOMAIN qs[i] : j \in Nat
  BY <1>1
<1>3. \A p \in PlacesIn(qs) : \E i \in DOMAIN qs : \E j \in DOMAIN qs[i] : p = <<i, j>>
  BY DEF PlacesIn
<1>4. \A p \in PlacesIn(qs) : /\ p[1] \in DOMAIN qs /\ p[2] \in DOMAIN qs[p[1]] /\ p = <<p[1], p[2]>>
                              /\ p[1] \in Nat /\ p[2] \in Nat
  BY <1>1, <1>2, <1>3
<1>5. \A i \in DOMAIN qs : \A j \in DOMAIN qs[i] : <<i, j>> \in PlacesIn(qs)
  BY DEF PlacesIn
<1>6. IsFiniteSet(PlacesIn(qs))
  <2> DEFINE Line(i) == {<<i, j>> : j \in DOMAIN qs[i]}
             lines == {Line(i) : i \in DOMAIN qs}
             f == [i \in DOMAIN qs |-> Line(i)]
  <2>1. IsFiniteSet(DOMAIN qs)
    <3>1. DOMAIN qs = 1 .. Len(qs) /\ Len(qs) \in Nat
      OBVIOUS
    <3>. QED
      BY <3>1, FS_Interval
  <2>2. f \in Surjection(DOMAIN qs, lines)
    BY DEF Surjection
  <2>3. IsFiniteSet(lines)
    BY <2>1, <2>2, FS_Surjection
  <2>4. \A i \in DOMAIN qs : IsFiniteSet(Line(i))
    <3> SUFFICES ASSUME NEW i \in DOMAIN qs PROVE IsFiniteSet(Line(i))
      OBVIOUS
    <3> DEFINE h == [j \in DOMAIN qs[i] |-> <<i, j>>]
    <3>1. DOMAIN qs[i] = 1 .. Len(qs[i]) /\ Len(qs[i]) \in Nat
      BY <1>1
    <3>2. IsFiniteSet(DOMAIN qs[i])
      BY <3>1, FS_Interval
    <3>3. h \in Surjection(DOMAIN qs[i], Line(i))
      BY DEF Surjection
    <3>. QED
      BY <3>2, <3>3, FS_Surjection
  <2>5. PlacesIn(qs) = UNION lines
    BY DEF PlacesIn
  <2> HIDE DEF lines, Line
  <2>6. \A T \in lines : IsFiniteSet(T)
    BY <2>4 DEF lines
  <2>. QED
    BY <2>3, <2>5, <2>6, FS_UNION
<1>. QED
  BY <1>4, <1>5, <1>6

LEMMA PlacesGrow ==
    ASSUME NEW S, NEW qs \in Seq(Seq(S)), NEW p \in PlacesIn(qs), NEW q \in PlacesIn(qs), p # q
    PROVE  UpTo(qs, p) # UpTo(qs, q) /\ (UpTo(qs, p) \subseteq UpTo(qs, q) \/ UpTo(qs, q) \subseteq UpTo(qs, p))
<1>1. \A r \in PlacesIn(qs) : r[1] \in Nat /\ r[2] \in Nat /\ r = <<r[1], r[2]>>
  BY PlacesLined
<1>2. p[1] # q[1] \/ p[2] # q[2]
  BY <1>1
<1>3. p[1] < q[1] \/ q[1] < p[1] \/ (p[1] = q[1] /\ (p[2] < q[2] \/ q[2] < p[2]))
  BY <1>1, <1>2
<1>4. p \in UpTo(qs, p) /\ q \in UpTo(qs, q)
  BY <1>1 DEF UpTo
<1>5. CASE p[1] < q[1] \/ (p[1] = q[1] /\ p[2] < q[2])
  <2>1. \A r \in PlacesIn(qs) : r[1] < p[1] \/ (r[1] = p[1] /\ r[2] <= p[2]) => r[1] < q[1] \/ (r[1] = q[1] /\ r[2] <= q[2])
    BY <1>1, <1>5
  <2>2. ~ (q[1] < p[1] \/ (q[1] = p[1] /\ q[2] <= p[2]))
    BY <1>1, <1>5
  <2>. QED
    BY <1>4, <2>1, <2>2 DEF UpTo
<1>6. CASE q[1] < p[1] \/ (p[1] = q[1] /\ q[2] < p[2])
  <2>1. \A r \in PlacesIn(qs) : r[1] < q[1] \/ (r[1] = q[1] /\ r[2] <= q[2]) => r[1] < p[1] \/ (r[1] = p[1] /\ r[2] <= p[2])
    BY <1>1, <1>6
  <2>2. ~ (p[1] < q[1] \/ (p[1] = q[1] /\ p[2] <= q[2]))
    BY <1>1, <1>6
  <2>. QED
    BY <1>4, <2>1, <2>2 DEF UpTo
<1>. QED
  BY <1>3, <1>5, <1>6

\* A nested comprehension has the elements of all the lists.
LEMMA FlatElements ==
    ASSUME NEW S, NEW qs \in Seq(Seq(S))
    PROVE  Flat(qs) \in Seq(S) /\ Elements(Flat(qs)) = UNION {Elements(qs[i]) : i \in DOMAIN qs}
<1> DEFINE K == PlacesIn(qs)
           N == Cardinality(K)
           up == [p \in K |-> UpTo(qs, p)]
           At(n) == PlaceAt(qs, n)
<1>1. /\ \A p \in K : p[1] \in DOMAIN qs /\ p[2] \in DOMAIN qs[p[1]] /\ p = <<p[1], p[2]>>
      /\ \A i \in DOMAIN qs : \A j \in DOMAIN qs[i] : <<i, j>> \in K
      /\ IsFiniteSet(K) /\ \A p \in K : p[1] \in Nat /\ p[2] \in Nat
  BY PlacesLined
<1>2. up \in [K -> SUBSET K] /\ \A p \in K : up[p] = UpTo(qs, p)
  BY DEF UpTo
<1>3. \A p \in K : p \in up[p]
  BY <1>1 DEF UpTo
<1>4. \A p, q \in K : p # q => up[p] # up[q] /\ (up[p] \subseteq up[q] \/ up[q] \subseteq up[p])
  BY PlacesGrow
<1> HIDE DEF up, K
<1>5. /\ N \in Nat
      /\ \A p \in K : Cardinality(up[p]) \in 1 .. N
      /\ \A p, q \in K : Cardinality(up[p]) = Cardinality(up[q]) => p = q
      /\ \A n \in 1 .. N : \E p \in K : Cardinality(up[p]) = n
  <2>1. InChain(K, up)
    BY <1>2, <1>3, <1>4 DEF InChain
  <2>2. Numbered(K, up)
    BY <1>1, <2>1, Ranked
  <2>. QED
    BY <2>2 DEF Numbered
<1>6. \A n \in 1 .. N : At(n) = CHOOSE p \in K : Cardinality(up[p]) = n
  <2> SUFFICES ASSUME NEW n \in 1 .. N PROVE PlaceAt(qs, n) = CHOOSE p \in K : Cardinality(up[p]) = n
    OBVIOUS
  <2>. QED
    BY <1>2, Zenon DEF PlaceAt, K
<1> HIDE DEF At
<1>7. \A n \in 1 .. N : At(n) \in K /\ Cardinality(up[At(n)]) = n
  BY <1>5, <1>6
<1>8. \A p \in K : \E n \in 1 .. N : At(n) = p
  BY <1>5, <1>7
<1>9. Flat(qs) = [n \in 1 .. N |-> qs[At(n)[1]][At(n)[2]]]
  BY DEF Flat, K, At
<1> HIDE DEF N
<1>10. \A n \in 1 .. N : qs[At(n)[1]][At(n)[2]] \in S
  <2> SUFFICES ASSUME NEW n \in 1 .. N PROVE qs[At(n)[1]][At(n)[2]] \in S
    OBVIOUS
  <2>1. At(n)[1] \in DOMAIN qs /\ At(n)[2] \in DOMAIN qs[At(n)[1]]
    BY <1>1, <1>7
  <2>2. qs[At(n)[1]] \in Seq(S)
    BY <2>1
  <2>. QED
    BY <2>1, <2>2
<1>11. Flat(qs) \in Seq(S) /\ DOMAIN Flat(qs) = 1 .. N
  BY <1>5, <1>9, <1>10
<1>12. \A x \in Elements(Flat(qs)) : \E i \in DOMAIN qs : x \in Elements(qs[i])
  BY <1>1, <1>7, <1>9, <1>11 DEF Elements
<1>13. \A i \in DOMAIN qs : \A j \in DOMAIN qs[i] : qs[i][j] \in Elements(Flat(qs))
  <2> SUFFICES ASSUME NEW i \in DOMAIN qs, NEW j \in DOMAIN qs[i] PROVE qs[i][j] \in Elements(Flat(qs))
    OBVIOUS
  <2>1. PICK n \in 1 .. N : At(n) = <<i, j>>
    BY <1>1, <1>8
  <2>2. Flat(qs)[n] = qs[i][j]
    BY <1>9, <2>1
  <2>. QED
    BY <1>11, <2>2 DEF Elements
<1>14. Elements(Flat(qs)) = UNION {Elements(qs[i]) : i \in DOMAIN qs}
  <2>1. \A i \in DOMAIN qs : \A x \in Elements(qs[i]) : x \in Elements(Flat(qs))
    <3>1. \A i \in DOMAIN qs : \A x \in Elements(qs[i]) : \E j \in DOMAIN qs[i] : x = qs[i][j]
      BY DEF Elements
    <3>. QED
      BY <1>13, <3>1
  <2>2. \A x \in Elements(Flat(qs)) : x \in UNION {Elements(qs[i]) : i \in DOMAIN qs}
    BY <1>12
  <2>3. \A x \in UNION {Elements(qs[i]) : i \in DOMAIN qs} : x \in Elements(Flat(qs))
    BY <2>1
  <2>. QED
    BY <2>2, <2>3
<1>. QED
  BY <1>11, <1>14

\* A bijection that keeps the order numbers the places.
Place(kept, n) == CHOOSE i \in kept : Cardinality({j \in kept : j <= i}) = n

InOrder(g, N, kept) ==
    g \in Bijection(1 .. N, kept) /\ \A m, n \in 1 .. N : m < n => g[m] < g[n]

LEMMA OrderNumbers ==
    ASSUME NEW N \in Nat, NEW kept \in SUBSET Nat, NEW g, InOrder(g, N, kept)
    PROVE  \A n \in 1 .. N : Cardinality({j \in kept : j <= g[n]}) = n
<1> SUFFICES ASSUME NEW n \in 1 .. N PROVE Cardinality({j \in kept : j <= g[n]}) = n
  OBVIOUS
<1> DEFINE B == {j \in kept : j <= g[n]}
           f == [m \in 1 .. n |-> g[m]]
<1>1. /\ g \in [1 .. N -> kept] /\ \A m, k \in 1 .. N : g[m] = g[k] => m = k
      /\ \A i \in kept : \E m \in 1 .. N : g[m] = i
      /\ \A m, k \in 1 .. N : m < k => g[m] < g[k]
  BY DEF InOrder, Bijection, Injection, Surjection, IsInjective
<1>2. \A m \in 1 .. N : g[m] \in kept /\ g[m] \in Nat
  BY <1>1
<1>3. \A m \in 1 .. n : m \in 1 .. N /\ (m < n \/ m = n)
  OBVIOUS
<1>4. \A m \in 1 .. n : g[m] \in B
  <2> SUFFICES ASSUME NEW m \in 1 .. n PROVE g[m] \in B
    OBVIOUS
  <2>1. g[m] < g[n] \/ g[m] = g[n]
    BY <1>1, <1>3
  <2>2. g[m] \in kept /\ g[m] \in Nat /\ g[n] \in Nat
    BY <1>2, <1>3
  <2>. QED
    BY <2>1, <2>2
<1>5. \A i \in B : \E m \in 1 .. n : g[m] = i
  <2> SUFFICES ASSUME NEW i \in B PROVE \E m \in 1 .. n : g[m] = i
    OBVIOUS
  <2>1. PICK m \in 1 .. N : g[m] = i
    BY <1>1
  <2>2. ~ (n < m)
    <3> SUFFICES ASSUME n < m PROVE FALSE
      OBVIOUS
    <3>1. g[n] < g[m] /\ g[m] <= g[n] /\ g[m] \in Nat /\ g[n] \in Nat
      BY <1>1, <1>2, <2>1
    <3>. QED
      BY <3>1
  <2>3. m \in 1 .. n
    BY <2>2
  <2>. QED
    BY <2>1, <2>3
<1> HIDE DEF B
<1>6. f \in Bijection(1 .. n, B)
  BY <1>1, <1>3, <1>4, <1>5 DEF Bijection, Injection, Surjection, IsInjective
<1>7. IsFiniteSet(1 .. n) /\ Cardinality(1 .. n) = n
  BY FS_Interval
<1>8. ExistsBijection(1 .. n, B)
  BY <1>6 DEF ExistsBijection
<1>9. Cardinality(B) = n
  BY <1>7, <1>8, FS_Bijection
<1>. QED
  BY <1>9 DEF B

LEMMA OrderIsPlaces ==
    ASSUME NEW N \in Nat, NEW kept \in SUBSET Nat, IsFiniteSet(kept), NEW g, InOrder(g, N, kept)
    PROVE  N = Cardinality(kept) /\ \A n \in 1 .. N : g[n] = Place(kept, n)
<1>1. N = Cardinality(kept)
  <2>1. IsFiniteSet(1 .. N) /\ Cardinality(1 .. N) = N
    BY FS_Interval
  <2>2. ExistsBijection(1 .. N, kept)
    BY DEF InOrder, ExistsBijection
  <2>. QED
    BY <2>1, <2>2, FS_Bijection
<1>2. PICK h \in Bijection(1 .. N, kept) :
         /\ \A n \in 1 .. N : h[n] = Place(kept, n)
         /\ \A m, n \in 1 .. N : m < n => h[m] < h[n]
  BY <1>1, Places DEF Place
<1>3. InOrder(h, N, kept)
  BY <1>2 DEF InOrder
<1>4. \A n \in 1 .. N : Cardinality({j \in kept : j <= g[n]}) = n /\ Cardinality({j \in kept : j <= h[n]}) = n
  BY <1>3, OrderNumbers
<1>5. \A n \in 1 .. N : g[n] \in kept /\ h[n] \in kept
  BY <1>3 DEF InOrder, Bijection, Injection
<1>6. \A n \in 1 .. N : g[n] = h[n]
  <2> SUFFICES ASSUME NEW n \in 1 .. N, g[n] # h[n] PROVE FALSE
    OBVIOUS
  <2> DEFINE a == g[n]
             b == h[n]
  <2>1. a \in kept /\ b \in kept /\ a # b
    BY <1>5
  <2>2. Cardinality({j \in kept : j <= a}) = n /\ Cardinality({j \in kept : j <= b}) = n
    BY <1>4
  <2> HIDE DEF a, b
  <2>3. a \in Nat /\ b \in Nat
    BY <2>1
  <2>4. ~ (n < n)
    OBVIOUS
  <2>5. CASE a < b
    BY <2>1, <2>2, <2>4, <2>5, RankGrows
  <2>6. CASE b < a
    BY <2>1, <2>2, <2>4, <2>6, RankGrows
  <2>. QED
    BY <2>1, <2>3, <2>5, <2>6
<1>. QED
  BY <1>1, <1>2, <1>6

\* Keeping twice is keeping once.
LEMMA KeptTwice ==
    ASSUME NEW S, NEW q \in Seq(S), NEW A \in SUBSET (DOMAIN q), NEW B \in SUBSET A
    PROVE  /\ DOMAIN Keep(q, A) = 1 .. Cardinality(A)
           /\ \A n \in DOMAIN Keep(q, A) : Place(A, n) \in A /\ Keep(q, A)[n] = q[Place(A, n)]
           /\ Keep(Keep(q, A), {n \in DOMAIN Keep(q, A) : Place(A, n) \in B}) = Keep(q, B)
<1> DEFINE N == Cardinality(A)
           r == Keep(q, A)
           C == {n \in DOMAIN r : Place(A, n) \in B}
           M == Cardinality(C)
<1>1. IsFiniteSet(A) /\ IsFiniteSet(B) /\ A \subseteq Nat /\ B \subseteq Nat /\ N \in Nat
  <2>1. DOMAIN q = 1 .. Len(q) /\ Len(q) \in Nat
    OBVIOUS
  <2>2. IsFiniteSet(DOMAIN q)
    BY <2>1, FS_Interval
  <2>3. IsFiniteSet(A) /\ IsFiniteSet(B)
    BY <2>2, FS_Subset
  <2>. QED
    BY <2>1, <2>3, FS_CardinalityType
<1>2. DOMAIN r = 1 .. N /\ \A n \in 1 .. N : r[n] = q[Place(A, n)]
  BY DEF Keep, Place
<1>3. PICK g \in Bijection(1 .. N, A) :
         /\ \A n \in 1 .. N : g[n] = Place(A, n)
         /\ \A m, n \in 1 .. N : m < n => g[m] < g[n]
  BY <1>1, Places DEF Place
<1> HIDE DEF r, N
<1>4. /\ \A n \in 1 .. N : g[n] \in A
      /\ \A m, n \in 1 .. N : g[m] = g[n] => m = n
      /\ \A i \in A : \E n \in 1 .. N : g[n] = i
  BY <1>3 DEF Bijection, Injection, Surjection, IsInjective
<1>5. C \subseteq 1 .. N /\ C \subseteq Nat /\ IsFiniteSet(C) /\ M \in Nat /\ C = {n \in 1 .. N : g[n] \in B}
  <2>1. IsFiniteSet(1 .. N)
    BY <1>1, FS_Interval
  <2>2. C \subseteq 1 .. N /\ C = {n \in 1 .. N : g[n] \in B}
    BY <1>2, <1>3
  <2>3. IsFiniteSet(C)
    BY <2>1, <2>2, FS_Subset
  <2>. QED
    BY <1>1, <2>2, <2>3, FS_CardinalityType
<1> HIDE DEF C
<1>6. PICK h \in Bijection(1 .. M, C) :
         /\ \A n \in 1 .. M : h[n] = Place(C, n)
         /\ \A m, n \in 1 .. M : m < n => h[m] < h[n]
  <2>1. C \in SUBSET Nat /\ IsFiniteSet(C)
    BY <1>5
  <2>. QED
    BY <2>1, Places DEF Place
<1> HIDE DEF M
<1>7. /\ \A n \in 1 .. M : h[n] \in C
      /\ \A m, n \in 1 .. M : h[m] = h[n] => m = n
      /\ \A i \in C : \E n \in 1 .. M : h[n] = i
  BY <1>6 DEF Bijection, Injection, Surjection, IsInjective
<1> DEFINE k == [m \in 1 .. M |-> g[h[m]]]
<1>8. InOrder(k, M, B)
  <2>1. \A m \in 1 .. M : h[m] \in 1 .. N /\ g[h[m]] \in B
    BY <1>5, <1>7
  <2>2. \A m, n \in 1 .. M : k[m] = k[n] => m = n
    BY <1>4, <1>7, <2>1
  <2>3. \A i \in B : \E m \in 1 .. M : k[m] = i
    BY <1>4, <1>5, <1>7
  <2>4. \A m, n \in 1 .. M : m < n => k[m] < k[n]
    BY <1>3, <1>6, <2>1
  <2>5. k \in [1 .. M -> B]
    BY <2>1
  <2> HIDE DEF k
  <2>. QED
    BY <2>2, <2>3, <2>4, <2>5 DEF InOrder, Bijection, Injection, Surjection, IsInjective
<1>9. M = Cardinality(B) /\ \A n \in 1 .. M : k[n] = Place(B, n)
  BY <1>1, <1>5, <1>8, OrderIsPlaces
<1>10. Keep(r, C) = [m \in 1 .. M |-> r[Place(C, m)]]
  BY DEF Keep, Place, M
<1>11. Keep(q, B) = [m \in 1 .. M |-> q[Place(B, m)]]
  BY <1>9 DEF Keep, Place
<1>12. \A m \in 1 .. M : r[Place(C, m)] = q[Place(B, m)]
  BY <1>2, <1>3, <1>5, <1>6, <1>7, <1>9
<1>13. Keep(r, C) = Keep(q, B)
  BY <1>10, <1>11, <1>12
<1>14. \A n \in DOMAIN r : Place(A, n) \in A /\ r[n] = q[Place(A, n)]
  BY <1>2, <1>3, <1>4
<1>. QED
  BY <1>2, <1>13, <1>14 DEF r, C, N

LEMMA JoinedElements ==
    ASSUME NEW S, NEW q \in Seq(S), NEW r \in Seq(S)
    PROVE  q \o r \in Seq(S) /\ Elements(q \o r) = Elements(q) \cup Elements(r)
<1>1. /\ q \o r \in Seq(S) /\ DOMAIN (q \o r) = 1 .. Len(q) + Len(r)
      /\ DOMAIN q = 1 .. Len(q) /\ DOMAIN r = 1 .. Len(r) /\ Len(q) \in Nat /\ Len(r) \in Nat
      /\ \A i \in 1 .. Len(q) + Len(r) : (q \o r)[i] = IF i <= Len(q) THEN q[i] ELSE r[i - Len(q)]
  OBVIOUS
<1>2. \A i \in DOMAIN q : i \in DOMAIN (q \o r) /\ (q \o r)[i] = q[i]
  BY <1>1
<1>3. \A i \in DOMAIN r : i + Len(q) \in DOMAIN (q \o r) /\ (q \o r)[i + Len(q)] = r[i]
  BY <1>1
<1>4. \A i \in DOMAIN (q \o r) : (q \o r)[i] \in Elements(q) \cup Elements(r)
  <2> SUFFICES ASSUME NEW i \in DOMAIN (q \o r) PROVE (q \o r)[i] \in Elements(q) \cup Elements(r)
    OBVIOUS
  <2>1. CASE i <= Len(q)
    BY <1>1, <2>1 DEF Elements
  <2>2. CASE ~ (i <= Len(q))
    <3>1. i - Len(q) \in DOMAIN r /\ (q \o r)[i] = r[i - Len(q)]
      BY <1>1, <2>2
    <3>. QED
      BY <3>1 DEF Elements
  <2>. QED
    BY <2>1, <2>2
<1>5. \A x \in Elements(q) \cup Elements(r) : x \in Elements(q \o r)
  BY <1>2, <1>3 DEF Elements
<1>6. \A x \in Elements(q \o r) : x \in Elements(q) \cup Elements(r)
  BY <1>4 DEF Elements
<1>. QED
  BY <1>1, <1>5, <1>6

-----------------------------------------------------------------------------
(* The report of a host: its findings and its errors.                      *)

\* What is asked for, and the rows of a report.
HostAsked == UNION {Host!ToSet(r) : r \in Requests}
HostRow ==
    [of : HostAsked, file : Files, dormant : BOOLEAN] \cup
    [of : HostAsked, file : Files \cup {"none"}, why : {"unsupported", "parse_failed", "exception"}]

\* Nothing of the capability is reported yet.
Untouched(f, e, c) == Host!Of(c, f) = {} /\ Host!Of(c, e) = {}

\* Its exception alone is.
Alone(f, e, c) == Host!Of(c, f) = {} /\ \E i \in DOMAIN e : Host!Of(c, e) = {i} /\ e[i].file = "none"

\* No file of it is reported twice.
OnceEach(f, e, c) ==
    /\ \A i \in Host!Of(c, f) : f[i].file # "none" /\ \A j \in Host!Of(c, f) : f[i].file = f[j].file => i = j
    /\ \A i \in Host!Of(c, e) : e[i].file # "none" /\ \A j \in Host!Of(c, e) : e[i].file = e[j].file => i = j
    /\ \A i \in Host!Of(c, f) : \A j \in Host!Of(c, e) : f[i].file # e[j].file

FilesOf(f, e, c) == {f[i].file : i \in Host!Of(c, f)} \cup {e[i].file : i \in Host!Of(c, e)}

\* The capability has been gone through.
Whole(f, e, c, quiet) ==
    \/ Alone(f, e, c)
    \/ /\ OnceEach(f, e, c)
       /\ Cardinality(FilesOf(f, e, c)) = MaxFiles \/ (quiet => FilesOf(f, e, c) = Host!ToSet(Host!Below(c)))

LEMMA Concatenated ==
    ASSUME NEW q \in Seq(HostRow), NEW r \in Seq(HostRow)
    PROVE  /\ q \o r \in Seq(HostRow) /\ Len(q \o r) = Len(q) + Len(r)
           /\ \A i \in 1 .. Len(q) : (q \o r)[i] = q[i]
           /\ \A i \in 1 .. Len(r) : (q \o r)[Len(q) + i] = r[i]
OBVIOUS

\* Where the rows of a concatenation come from.
LEMMA RowsOfBoth ==
    ASSUME NEW q \in Seq(HostRow), NEW r \in Seq(HostRow), NEW c
    PROVE  /\ \A i \in Host!Of(c, q) : i \in Host!Of(c, q \o r) /\ (q \o r)[i] = q[i]
           /\ \A i \in Host!Of(c, r) : Len(q) + i \in Host!Of(c, q \o r) /\ (q \o r)[Len(q) + i] = r[i]
           /\ \A i \in Host!Of(c, q \o r) :
                 \/ i \in Host!Of(c, q) /\ i \in 1 .. Len(q)
                 \/ \E j \in Host!Of(c, r) : j \in 1 .. Len(r) /\ i = Len(q) + j
           /\ Len(q) \in Nat /\ Len(r) \in Nat
           /\ Host!Of(c, q) \subseteq 1 .. Len(q) /\ Host!Of(c, r) \subseteq 1 .. Len(r)
<1> DEFINE s == q \o r
<1>1. /\ s \in Seq(HostRow) /\ Len(s) = Len(q) + Len(r)
      /\ \A i \in 1 .. Len(q) : s[i] = q[i]
      /\ \A i \in 1 .. Len(r) : s[Len(q) + i] = r[i]
  BY Concatenated
<1> HIDE DEF s
<1>2. /\ Len(q) \in Nat /\ Len(r) \in Nat
      /\ DOMAIN q = 1 .. Len(q) /\ DOMAIN r = 1 .. Len(r) /\ DOMAIN s = 1 .. Len(s)
  BY <1>1
<1>3. \A i \in 1 .. Len(q) : i \in 1 .. Len(s)
  BY <1>1, <1>2
<1>4. \A i \in 1 .. Len(r) : Len(q) + i \in 1 .. Len(s)
  BY <1>1, <1>2
<1>5. \A i \in 1 .. Len(s) : i \in 1 .. Len(q) \/ \E j \in 1 .. Len(r) : i = Len(q) + j
  <2> SUFFICES ASSUME NEW i \in 1 .. Len(s), i \notin 1 .. Len(q) PROVE \E j \in 1 .. Len(r) : i = Len(q) + j
    OBVIOUS
  <2>1. i - Len(q) \in 1 .. Len(r) /\ i = Len(q) + (i - Len(q))
    BY <1>1, <1>2
  <2>. QED
    BY <2>1
<1>6. \A i \in Host!Of(c, q) : i \in Host!Of(c, s) /\ s[i] = q[i]
  BY <1>1, <1>2, <1>3 DEF Host!Of
<1>7. \A i \in Host!Of(c, r) : Len(q) + i \in Host!Of(c, s) /\ s[Len(q) + i] = r[i]
  BY <1>1, <1>2, <1>4 DEF Host!Of
<1>8. \A i \in Host!Of(c, s) : \/ i \in Host!Of(c, q) /\ i \in 1 .. Len(q)
                               \/ \E j \in Host!Of(c, r) : j \in 1 .. Len(r) /\ i = Len(q) + j
  <2> SUFFICES ASSUME NEW i \in Host!Of(c, s)
               PROVE  \/ i \in Host!Of(c, q) /\ i \in 1 .. Len(q)
                      \/ \E j \in Host!Of(c, r) : j \in 1 .. Len(r) /\ i = Len(q) + j
    OBVIOUS
  <2>1. i \in 1 .. Len(s) /\ s[i].of = c
    BY <1>2 DEF Host!Of
  <2>2. CASE i \in 1 .. Len(q)
    <3>1. s[i] = q[i]
      BY <1>1, <2>2
    <3>. QED
      BY <1>2, <2>1, <2>2, <3>1 DEF Host!Of
  <2>3. CASE i \notin 1 .. Len(q)
    <3>1. PICK j \in 1 .. Len(r) : i = Len(q) + j
      BY <1>5, <2>1, <2>3
    <3>2. s[i] = r[j]
      BY <1>1, <3>1
    <3>3. j \in Host!Of(c, r)
      BY <1>2, <2>1, <3>1, <3>2 DEF Host!Of
    <3>. QED
      BY <3>1, <3>3
  <2>. QED
    BY <2>2, <2>3
<1>9. Host!Of(c, q) \subseteq 1 .. Len(q) /\ Host!Of(c, r) \subseteq 1 .. Len(r)
  BY <1>2 DEF Host!Of
<1>. QED
  BY <1>2, <1>6, <1>7, <1>8, <1>9 DEF s

\* Rows of one capability leave the others alone.
NoneOf(c, r) == \A i \in DOMAIN r : r[i].of # c

LEMMA OthersRows ==
    \A c : \A q, r \in Seq(HostRow) : NoneOf(c, r) =>
        Host!Of(c, q \o r) = Host!Of(c, q) /\ \A i \in Host!Of(c, q) : (q \o r)[i] = q[i]
<1> SUFFICES ASSUME NEW c, NEW q \in Seq(HostRow), NEW r \in Seq(HostRow), NoneOf(c, r)
             PROVE  Host!Of(c, q \o r) = Host!Of(c, q) /\ \A i \in Host!Of(c, q) : (q \o r)[i] = q[i]
  OBVIOUS
<1> DEFINE A == Host!Of(c, q)
           B == Host!Of(c, q \o r)
<1>1. Host!Of(c, r) = {}
  BY DEF Host!Of, NoneOf
<1>2. \A i \in A : i \in B /\ (q \o r)[i] = q[i]
  BY RowsOfBoth
<1>3. \A i \in B : i \in A \/ \E j \in Host!Of(c, r) : TRUE
  BY RowsOfBoth
<1>4. A = B /\ \A i \in A : (q \o r)[i] = q[i]
  <2> HIDE DEF A, B
  <2>. QED
    BY <1>1, <1>2, <1>3
<1>. QED
  BY <1>4

LEMMA OthersStay ==
    ASSUME NEW f \in Seq(HostRow), NEW fs \in Seq(HostRow), NEW e \in Seq(HostRow), NEW es \in Seq(HostRow), NEW c, NEW quiet,
           NoneOf(c, fs), NoneOf(c, es)
    PROVE  /\ Untouched(f, e, c) => Untouched(f \o fs, e \o es, c)
           /\ Whole(f, e, c, quiet) => Whole(f \o fs, e \o es, c, quiet)
<1> DEFINE f2 == f \o fs
           e2 == e \o es
<1>1. /\ Host!Of(c, f2) = Host!Of(c, f) /\ \A i \in Host!Of(c, f) : f2[i] = f[i]
      /\ Host!Of(c, e2) = Host!Of(c, e) /\ \A i \in Host!Of(c, e) : e2[i] = e[i]
  <2>1. Host!Of(c, f2) = Host!Of(c, f) /\ \A i \in Host!Of(c, f) : f2[i] = f[i]
    BY OthersRows, Zenon
  <2>2. Host!Of(c, e2) = Host!Of(c, e) /\ \A i \in Host!Of(c, e) : e2[i] = e[i]
    BY OthersRows, Zenon
  <2>. QED
    BY <2>1, <2>2
<1> HIDE DEF f2, e2
<1>2. FilesOf(f2, e2, c) = FilesOf(f, e, c)
  BY <1>1 DEF FilesOf
<1>3. Untouched(f, e, c) => Untouched(f2, e2, c)
  BY <1>1 DEF Untouched
<1>4. Alone(f, e, c) => Alone(f2, e2, c)
  <2> SUFFICES ASSUME Alone(f, e, c) PROVE Alone(f2, e2, c)
    OBVIOUS
  <2>1. PICK i \in DOMAIN e : Host!Of(c, e) = {i} /\ e[i].file = "none"
    BY DEF Alone
  <2>2. i \in DOMAIN e2 /\ e2[i].file = "none"
    <3>1. i \in Host!Of(c, e2) /\ e2[i] = e[i]
      BY <1>1, <2>1
    <3>. QED
      BY <2>1, <3>1 DEF Host!Of
  <2>. QED
    BY <1>1, <2>1, <2>2 DEF Alone
<1>5. OnceEach(f, e, c) => OnceEach(f2, e2, c)
  <2> SUFFICES ASSUME OnceEach(f, e, c) PROVE OnceEach(f2, e2, c)
    OBVIOUS
  <2>1. \A i \in Host!Of(c, f2) : f2[i].file # "none" /\ \A j \in Host!Of(c, f2) : f2[i].file = f2[j].file => i = j
    BY <1>1 DEF OnceEach
  <2>2. \A i \in Host!Of(c, e2) : e2[i].file # "none" /\ \A j \in Host!Of(c, e2) : e2[i].file = e2[j].file => i = j
    BY <1>1 DEF OnceEach
  <2>3. \A i \in Host!Of(c, f2) : \A j \in Host!Of(c, e2) : f2[i].file # e2[j].file
    BY <1>1 DEF OnceEach
  <2>. QED
    BY <2>1, <2>2, <2>3 DEF OnceEach
<1>. QED
  BY <1>2, <1>3, <1>4, <1>5 DEF Whole, f2, e2

\* An exception is a capability's only row.
LEMMA ExceptionAlone ==
    ASSUME NEW f \in Seq(HostRow), NEW e \in Seq(HostRow), NEW c, NEW x \in HostRow, x.of = c, x.file = "none", Untouched(f, e, c)
    PROVE  Alone(f, Append(e, x), c)
<1> DEFINE e2 == Append(e, x)
<1>1. /\ Len(e) \in Nat /\ DOMAIN e = 1 .. Len(e) /\ DOMAIN e2 = 1 .. Len(e) + 1
      /\ e2[Len(e) + 1] = x /\ \A i \in 1 .. Len(e) : e2[i] = e[i]
  OBVIOUS
<1> HIDE DEF e2
<1>2. Len(e) + 1 \in 1 .. Len(e) + 1 /\ \A i \in 1 .. Len(e) + 1 : i = Len(e) + 1 \/ i \in 1 .. Len(e)
  BY <1>1
<1>3. \A i \in 1 .. Len(e) : e[i].of # c
  BY <1>1 DEF Untouched, Host!Of
<1>4. Host!Of(c, e2) = {Len(e) + 1}
  BY <1>1, <1>2, <1>3 DEF Host!Of
<1>. QED
  BY <1>1, <1>2, <1>4 DEF Alone, Untouched, e2

\* What the walk of a capability holds: a row each of different files.
HeldOf(c, held) ==
    \A i \in DOMAIN held :
        /\ held[i].of = c /\ held[i].file # "none"
        /\ \A j \in DOMAIN held : held[i].file = held[j].file => i = j

\* The rows of a capability are those kept of what was held.
RowsAre(c, s, held, kept) ==
    /\ s \in Seq(HostRow)
    /\ \A i \in Host!Of(c, s) : \E k \in kept : s[i] = held[k]
    /\ \A k \in kept : \E i \in Host!Of(c, s) : s[i] = held[k]
    /\ \A i, j \in Host!Of(c, s) : s[i].file = s[j].file => i = j

LEMMA KeptRows ==
    \A c : \A q, held \in Seq(HostRow) : \A kept \in SUBSET (DOMAIN held) :
        Host!Of(c, q) = {} /\ HeldOf(c, held) => RowsAre(c, q \o Keep(held, kept), held, kept)
<1> SUFFICES ASSUME NEW c, NEW q \in Seq(HostRow), NEW held \in Seq(HostRow), NEW kept \in SUBSET (DOMAIN held),
                    Host!Of(c, q) = {}, HeldOf(c, held)
             PROVE  RowsAre(c, q \o Keep(held, kept), held, kept)
  OBVIOUS
<1> DEFINE r == Keep(held, kept)
           s == q \o r
           N == Cardinality(kept)
<1>1. /\ N \in Nat /\ r \in Seq(HostRow) /\ Len(r) = N
      /\ \E g \in Bijection(1 .. N, kept) : \A n \in 1 .. N : r[n] = held[g[n]]
  BY Kept
<1>2. PICK g \in Bijection(1 .. N, kept) : \A n \in 1 .. N : r[n] = held[g[n]]
  BY <1>1
<1> HIDE DEF r, N
<1>3. /\ g \in [1 .. N -> kept]
      /\ \A m, n \in 1 .. N : g[m] = g[n] => m = n
      /\ \A k \in kept : \E n \in 1 .. N : g[n] = k
  BY <1>2 DEF Bijection, Injection, Surjection, IsInjective
<1>4. s \in Seq(HostRow)
  BY <1>1, Concatenated
<1>5. /\ \A n \in Host!Of(c, r) : Len(q) + n \in Host!Of(c, s) /\ s[Len(q) + n] = r[n]
      /\ \A i \in Host!Of(c, s) : \E n \in Host!Of(c, r) : n \in 1 .. N /\ i = Len(q) + n
  BY <1>1, RowsOfBoth
<1>6. \A n \in 1 .. N : g[n] \in kept /\ n \in Host!Of(c, r) /\ r[n] = held[g[n]]
  BY <1>1, <1>2, <1>3 DEF HeldOf, Host!Of
<1> HIDE DEF s
<1>7. \A i \in Host!Of(c, s) : \E n \in 1 .. N : i = Len(q) + n /\ s[i] = held[g[n]] /\ g[n] \in kept
  BY <1>5, <1>6
<1>8. \A i \in Host!Of(c, s) : \E k \in kept : s[i] = held[k]
  BY <1>7
<1>9. \A k \in kept : \E i \in Host!Of(c, s) : s[i] = held[k]
  BY <1>3, <1>5, <1>6
<1>10. \A i, j \in Host!Of(c, s) : s[i].file = s[j].file => i = j
  <2> SUFFICES ASSUME NEW i \in Host!Of(c, s), NEW j \in Host!Of(c, s), s[i].file = s[j].file PROVE i = j
    OBVIOUS
  <2>1. PICK m \in 1 .. N : i = Len(q) + m /\ s[i] = held[g[m]] /\ g[m] \in kept
    BY <1>7
  <2>2. PICK n \in 1 .. N : j = Len(q) + n /\ s[j] = held[g[n]] /\ g[n] \in kept
    BY <1>7
  <2>3. g[m] = g[n]
    BY <2>1, <2>2 DEF HeldOf
  <2>. QED
    BY <1>3, <2>1, <2>2, <2>3
<1>. QED
  BY <1>4, <1>8, <1>9, <1>10 DEF s, r, RowsAre

FilesHeld(held) == {held[i].file : i \in DOMAIN held}

\* What the walk held is reported, each file once.
OnceReported(f, e, held, c) ==
    f \in Seq(HostRow) /\ e \in Seq(HostRow) /\ OnceEach(f, e, c) /\ FilesOf(f, e, c) = FilesHeld(held)

LEMMA ReportedOnce ==
    \A f, e, held \in Seq(HostRow) : \A c : \A good, bad \in SUBSET (DOMAIN held) :
        good \cup bad = DOMAIN held /\ good \cap bad = {} /\ Untouched(f, e, c) /\ HeldOf(c, held) =>
            OnceReported(f \o Keep(held, good), e \o Keep(held, bad), held, c)
<1> SUFFICES ASSUME NEW f \in Seq(HostRow), NEW e \in Seq(HostRow), NEW held \in Seq(HostRow), NEW c,
                    NEW good \in SUBSET (DOMAIN held), NEW bad \in SUBSET (DOMAIN held),
                    good \cup bad = DOMAIN held, good \cap bad = {}, Untouched(f, e, c), HeldOf(c, held)
             PROVE  OnceReported(f \o Keep(held, good), e \o Keep(held, bad), held, c)
  OBVIOUS
<1> DEFINE f2 == f \o Keep(held, good)
           e2 == e \o Keep(held, bad)
<1>1. /\ f2 \in Seq(HostRow)
      /\ \A i \in Host!Of(c, f2) : \E k \in good : f2[i] = held[k]
      /\ \A k \in good : \E i \in Host!Of(c, f2) : f2[i] = held[k]
      /\ \A i, j \in Host!Of(c, f2) : f2[i].file = f2[j].file => i = j
  <2>1. RowsAre(c, f2, held, good)
    BY KeptRows DEF Untouched
  <2>. QED
    BY <2>1 DEF RowsAre
<1>2. /\ e2 \in Seq(HostRow)
      /\ \A i \in Host!Of(c, e2) : \E k \in bad : e2[i] = held[k]
      /\ \A k \in bad : \E i \in Host!Of(c, e2) : e2[i] = held[k]
      /\ \A i, j \in Host!Of(c, e2) : e2[i].file = e2[j].file => i = j
  <2>1. RowsAre(c, e2, held, bad)
    BY KeptRows DEF Untouched
  <2>. QED
    BY <2>1 DEF RowsAre
<1> HIDE DEF f2, e2
<1>3. \A i \in Host!Of(c, f2) : f2[i].file # "none"
  BY <1>1 DEF HeldOf
<1>4. \A i \in Host!Of(c, e2) : e2[i].file # "none"
  BY <1>2 DEF HeldOf
<1>5. \A i \in Host!Of(c, f2) : \A j \in Host!Of(c, e2) : f2[i].file # e2[j].file
  <2> SUFFICES ASSUME NEW i \in Host!Of(c, f2), NEW j \in Host!Of(c, e2), f2[i].file = e2[j].file PROVE FALSE
    OBVIOUS
  <2>1. PICK k \in good : f2[i] = held[k]
    BY <1>1
  <2>2. PICK l \in bad : e2[j] = held[l]
    BY <1>2
  <2>3. k = l
    BY <2>1, <2>2 DEF HeldOf
  <2>. QED
    BY <2>3
<1>6. OnceEach(f2, e2, c)
  BY <1>1, <1>2, <1>3, <1>4, <1>5 DEF OnceEach
<1>7. FilesOf(f2, e2, c) \subseteq FilesHeld(held)
  BY <1>1, <1>2 DEF FilesOf, FilesHeld
<1>8. FilesHeld(held) \subseteq FilesOf(f2, e2, c)
  <2> SUFFICES ASSUME NEW k \in DOMAIN held PROVE held[k].file \in FilesOf(f2, e2, c)
    BY DEF FilesHeld
  <2>1. CASE k \in good
    BY <1>1, <2>1 DEF FilesOf
  <2>2. CASE k \in bad
    BY <1>2, <2>2 DEF FilesOf
  <2>. QED
    BY <2>1, <2>2
<1>. QED
  BY <1>1, <1>2, <1>6, <1>7, <1>8 DEF f2, e2, OnceReported

\* The report of a capability: its findings and then its errors.
Report(f, e, c) == Keep(f, Host!Of(c, f)) \o Keep(e, Host!Of(c, e))

LEMMA ReportOf ==
    ASSUME NEW f \in Seq(HostRow), NEW e \in Seq(HostRow), NEW c
    PROVE  /\ {Report(f, e, c)[i].file : i \in DOMAIN Report(f, e, c)} = FilesOf(f, e, c)
           /\ Alone(f, e, c) => Len(Report(f, e, c)) = 1 /\ \E i \in DOMAIN Report(f, e, c) : Report(f, e, c)[i].file = "none"
           /\ OnceEach(f, e, c) =>
                 \A i, j \in DOMAIN Report(f, e, c) :
                     /\ Report(f, e, c)[i].file # "none"
                     /\ i # j => Report(f, e, c)[i].file # Report(f, e, c)[j].file
<1> DEFINE p == Keep(f, Host!Of(c, f))
           q == Keep(e, Host!Of(c, e))
           r == p \o q
           M == Cardinality(Host!Of(c, f))
           N == Cardinality(Host!Of(c, e))
<1>0. Host!Of(c, f) \in SUBSET (DOMAIN f) /\ Host!Of(c, e) \in SUBSET (DOMAIN e)
  BY DEF Host!Of
<1>1. /\ M \in Nat /\ p \in Seq(HostRow) /\ Len(p) = M
      /\ \E g \in Bijection(1 .. M, Host!Of(c, f)) : \A n \in 1 .. M : p[n] = f[g[n]]
  BY <1>0, Kept
<1>2. /\ N \in Nat /\ q \in Seq(HostRow) /\ Len(q) = N
      /\ \E h \in Bijection(1 .. N, Host!Of(c, e)) : \A n \in 1 .. N : q[n] = e[h[n]]
  BY <1>0, Kept
<1>3. PICK g \in Bijection(1 .. M, Host!Of(c, f)) : \A n \in 1 .. M : p[n] = f[g[n]]
  BY <1>1
<1>4. PICK h \in Bijection(1 .. N, Host!Of(c, e)) : \A n \in 1 .. N : q[n] = e[h[n]]
  BY <1>2
<1>5. /\ r \in Seq(HostRow) /\ Len(r) = M + N
      /\ \A i \in 1 .. M : r[i] = p[i]
      /\ \A i \in 1 .. N : r[M + i] = q[i]
  <2> HIDE DEF M, N, p, q
  <2>1. /\ r \in Seq(HostRow) /\ Len(r) = Len(p) + Len(q)
        /\ \A i \in 1 .. Len(p) : r[i] = p[i]
        /\ \A i \in 1 .. Len(q) : r[Len(p) + i] = q[i]
    BY <1>1, <1>2, Concatenated
  <2>. QED
    BY <1>1, <1>2, <2>1
<1>6. /\ g \in [1 .. M -> Host!Of(c, f)] /\ h \in [1 .. N -> Host!Of(c, e)]
      /\ \A m, n \in 1 .. M : g[m] = g[n] => m = n
      /\ \A m, n \in 1 .. N : h[m] = h[n] => m = n
      /\ \A k \in Host!Of(c, f) : \E n \in 1 .. M : g[n] = k
      /\ \A k \in Host!Of(c, e) : \E n \in 1 .. N : h[n] = k
  BY <1>3, <1>4 DEF Bijection, Injection, Surjection, IsInjective
<1> HIDE DEF p, q, r
<1>7. /\ \A i \in 1 .. M : i \in DOMAIN r /\ g[i] \in Host!Of(c, f) /\ r[i] = f[g[i]]
      /\ \A i \in 1 .. N : M + i \in DOMAIN r /\ h[i] \in Host!Of(c, e) /\ r[M + i] = e[h[i]]
  <2> HIDE DEF M, N
  <2>1. DOMAIN r = 1 .. M + N
    BY <1>5
  <2>2. /\ \A i \in 1 .. M : i \in 1 .. M + N
        /\ \A i \in 1 .. N : M + i \in 1 .. M + N
    BY <1>1, <1>2
  <2>. QED
    BY <1>3, <1>4, <1>5, <1>6, <2>1, <2>2
<1>8. \A i \in DOMAIN r : i \in 1 .. M \/ \E j \in 1 .. N : i = M + j
  <2> HIDE DEF M, N
  <2> SUFFICES ASSUME NEW i \in DOMAIN r, i \notin 1 .. M PROVE \E j \in 1 .. N : i = M + j
    OBVIOUS
  <2>1. i \in 1 .. M + N
    BY <1>5
  <2>2. i - M \in 1 .. N /\ i = M + (i - M)
    BY <1>1, <1>2, <2>1
  <2>. QED
    BY <2>2
<1> HIDE DEF M, N
<1>9. {r[i].file : i \in DOMAIN r} = FilesOf(f, e, c)
  <2>1. \A i \in DOMAIN r : r[i].file \in FilesOf(f, e, c)
    BY <1>7, <1>8 DEF FilesOf
  <2>2. \A k \in Host!Of(c, f) : \E i \in DOMAIN r : r[i].file = f[k].file
    BY <1>6, <1>7
  <2>3. \A k \in Host!Of(c, e) : \E i \in DOMAIN r : r[i].file = e[k].file
    BY <1>6, <1>7
  <2>. QED
    BY <2>1, <2>2, <2>3 DEF FilesOf
<1>10. Alone(f, e, c) => Len(r) = 1 /\ \E i \in DOMAIN r : r[i].file = "none"
  <2> SUFFICES ASSUME Alone(f, e, c) PROVE Len(r) = 1 /\ \E i \in DOMAIN r : r[i].file = "none"
    OBVIOUS
  <2>1. PICK k \in DOMAIN e : Host!Of(c, e) = {k} /\ e[k].file = "none"
    BY DEF Alone
  <2>2. M = 0
    BY FS_EmptySet DEF Alone, M
  <2>3. N = 1
    BY <2>1, FS_Singleton DEF N
  <2>4. h[1] = k
    BY <1>6, <2>1, <2>3
  <2>5. Len(r) = 1 /\ 1 \in DOMAIN r /\ r[1] = e[k]
    BY <1>5, <1>7, <2>2, <2>3, <2>4
  <2>. QED
    BY <2>1, <2>5
<1>11. OnceEach(f, e, c) => \A i, j \in DOMAIN r : r[i].file # "none" /\ (i # j => r[i].file # r[j].file)
  <2> SUFFICES ASSUME OnceEach(f, e, c), NEW i \in DOMAIN r, NEW j \in DOMAIN r
               PROVE  r[i].file # "none" /\ (r[i].file = r[j].file => i = j)
    OBVIOUS
  <2>1. CASE i \in 1 .. M
    <3>1. CASE j \in 1 .. M
      BY <1>6, <1>7, <2>1, <3>1 DEF OnceEach
    <3>2. CASE \E l \in 1 .. N : j = M + l
      BY <1>7, <2>1, <3>2 DEF OnceEach
    <3>. QED
      BY <1>8, <3>1, <3>2
  <2>2. CASE \E l \in 1 .. N : i = M + l
    <3>0. PICK l \in 1 .. N : i = M + l
      BY <2>2
    <3>1. CASE j \in 1 .. M
      BY <1>7, <3>0, <3>1 DEF OnceEach
    <3>2. CASE \E n \in 1 .. N : j = M + n
      BY <1>6, <1>7, <3>0, <3>2 DEF OnceEach
    <3>. QED
      BY <1>8, <3>1, <3>2
  <2>. QED
    BY <1>8, <2>1, <2>2
<1>. QED
  BY <1>9, <1>10, <1>11 DEF Report, r, p, q

-----------------------------------------------------------------------------
(* The host scan.                                                            *)

\* A request names each capability once.
DistinctRequests == \A r \in Requests : \A m, n \in DOMAIN r : r[m] = r[n] => m = n

LEMMA HostAssumed ==
    /\ KeyFiles \subseteq Files /\ MaxFiles \in Nat /\ HostChanges \in Nat /\ "none" \notin Files
    /\ \A c \in Supported : Host!Below(c) \in Seq(Files)
    /\ \A r \in Requests : r \in Seq(Host!ToSet(r))
    /\ \A S : Host!Cardinality(S) = Cardinality(S)
    /\ \A q, k : Host!Keep(q, k) = Keep(q, k)
<1>1. \A S : Host!Cardinality(S) = Cardinality(S)
  BY DEF Host!Cardinality, Cardinality
<1>2. \A q, k : Host!Keep(q, k) = Keep(q, k)
  BY DEF Host!Keep, Keep, Host!Cardinality, Cardinality
<1>. QED
  BY <1>1, <1>2, ScansAssumption DEF ScansAssumption, Host!HostAssumption

\* What is left of a list that names nothing twice.
LEMMA Popped ==
    ASSUME NEW S, NEW q \in Seq(S), q # <<>>
    PROVE  /\ Head(q) \in S /\ Tail(q) \in Seq(S) /\ 1 \in DOMAIN q /\ Head(q) = q[1]
           /\ \A i \in DOMAIN Tail(q) : i + 1 \in DOMAIN q /\ Tail(q)[i] = q[i + 1] /\ i \in Nat \ {0}
           /\ Host!ToSet(q) = {Head(q)} \cup Host!ToSet(Tail(q))
<1>1. /\ Head(q) \in S /\ Tail(q) \in Seq(S) /\ 1 \in DOMAIN q /\ Head(q) = q[1]
      /\ \A i \in DOMAIN Tail(q) : i + 1 \in DOMAIN q /\ Tail(q)[i] = q[i + 1] /\ i \in Nat \ {0}
  OBVIOUS
<1>2. \A i \in DOMAIN q : i = 1 \/ (i - 1 \in DOMAIN Tail(q) /\ q[i] = Tail(q)[i - 1])
  OBVIOUS
<1>3. Host!ToSet(q) = {Head(q)} \cup Host!ToSet(Tail(q))
  <2>1. \A i \in DOMAIN q : q[i] = Head(q) \/ \E j \in DOMAIN Tail(q) : q[i] = Tail(q)[j]
    BY <1>1, <1>2
  <2>2. Head(q) \in Host!ToSet(q)
    BY <1>1 DEF Host!ToSet
  <2>3. \A x \in Host!ToSet(Tail(q)) : x \in Host!ToSet(q)
    BY <1>1 DEF Host!ToSet
  <2>. QED
    BY <2>1, <2>2, <2>3 DEF Host!ToSet
<1>. QED
  BY <1>1, <1>3

Distinct(q) == \A i, j \in DOMAIN q : q[i] = q[j] => i = j

LEMMA DistinctTail ==
    ASSUME NEW S, NEW q \in Seq(S), q # <<>>, Distinct(q)
    PROVE  Distinct(Tail(q)) /\ Head(q) \notin Host!ToSet(Tail(q))
<1>1. /\ 1 \in DOMAIN q /\ Head(q) = q[1]
      /\ \A i \in DOMAIN Tail(q) : i + 1 \in DOMAIN q /\ Tail(q)[i] = q[i + 1] /\ i \in Nat \ {0}
  BY Popped
<1>2. \A i \in DOMAIN Tail(q) : Tail(q)[i] # Head(q)
  <2> SUFFICES ASSUME NEW i \in DOMAIN Tail(q), Tail(q)[i] = Head(q) PROVE FALSE
    OBVIOUS
  <2>1. i + 1 = 1
    BY <1>1 DEF Distinct
  <2>. QED
    BY <1>1, <2>1
<1>3. \A i, j \in DOMAIN Tail(q) : Tail(q)[i] = Tail(q)[j] => i = j
  <2> SUFFICES ASSUME NEW i \in DOMAIN Tail(q), NEW j \in DOMAIN Tail(q), Tail(q)[i] = Tail(q)[j] PROVE i = j
    OBVIOUS
  <2>1. i + 1 = j + 1
    BY <1>1 DEF Distinct
  <2>. QED
    BY <1>1, <2>1
<1>. QED
  BY <1>2, <1>3 DEF Distinct, Host!ToSet

\* A row more leaves the other capabilities alone.
LEMMA OthersKeep ==
    ASSUME NEW f \in Seq(HostRow), NEW e \in Seq(HostRow), NEW x \in HostRow, NEW c, x.of # c, NEW quiet
    PROVE  /\ Untouched(f, e, c) => Untouched(f, Append(e, x), c)
           /\ Whole(f, e, c, quiet) => Whole(f, Append(e, x), c, quiet)
<1>1. f \o <<>> = f /\ Append(e, x) = e \o <<x>> /\ <<>> \in Seq(HostRow) /\ <<x>> \in Seq(HostRow)
  OBVIOUS
<1>2. NoneOf(c, <<>>) /\ NoneOf(c, <<x>>)
  BY DEF NoneOf
<1>3. /\ Untouched(f, e, c) => Untouched(f \o <<>>, e \o <<x>>, c)
      /\ Whole(f, e, c, quiet) => Whole(f \o <<>>, e \o <<x>>, c, quiet)
  BY <1>1, <1>2, OthersStay
<1>. QED
  BY <1>1, <1>3

HostWalks ==
    [pc : {"next", "walk", "parse", "200", "400"}, asked : Requests, todo : Seq(HostAsked), left : Seq(Files),
     seen : SUBSET Files, file : Files \cup {"none"},
     referenced : [paths : SUBSET Files, names : SUBSET {Base[f] : f \in Files}],
     held : Seq(HostRow), findings : Seq(HostRow), errors : Seq(HostRow)]

HostTyped == walk \in HostWalks /\ config \subseteq Host!References /\ edits \in Nat

\* What is to be done is asked for, once; of an answered request nothing is.
HostTodo ==
    /\ Distinct(walk.todo) /\ Host!ToSet(walk.todo) \subseteq Host!ToSet(walk.asked)
    /\ walk.pc \in {"200", "400"} => walk.todo = <<>>

\* What was asked for and is no longer to be done has been gone through; of
\* anything else nothing is reported.
Reports(f, e, asked, todo, quiet) ==
    \A c \in Supported : IF c \in asked /\ c \notin todo THEN Whole(f, e, c, quiet) ELSE Untouched(f, e, c)

HostReports ==
    Reports(walk.findings, walk.errors, Host!ToSet(walk.asked), Host!ToSet(walk.todo), edits = 0)

\* A walk holds a row of every file it has come to, but for the one it reads.
HostHeld ==
    walk.pc \in {"walk", "parse"} =>
        /\ walk.todo # <<>> /\ Head(walk.todo) \in Supported
        /\ HeldOf(Head(walk.todo), walk.held)
        /\ IsFiniteSet(walk.seen) /\ Cardinality(walk.seen) <= MaxFiles
        /\ walk.pc = "walk" => FilesHeld(walk.held) = walk.seen
        /\ walk.pc = "parse" => walk.file \in walk.seen /\ FilesHeld(walk.held) = walk.seen \ {walk.file}
        /\ edits = 0 => walk.seen \cup Host!ToSet(walk.left) = Host!ToSet(Host!Below(Head(walk.todo)))

\* No configuration names the file but by an assignment.
Unnamed(f) == \A r \in config : r.file # f \/ r.form = "assigned"

\* On a host that does not change no file goes, and the references read are
\* those there are.
HostQuiet ==
    edits = 0 =>
        /\ \A f \in Files : disk[f] # "gone"
        /\ walk.pc \in {"walk", "parse"} /\ Head(walk.todo) = Host!Keys => walk.referenced = Host!ReadReferences
        /\ \A i \in DOMAIN walk.held : ~Host!IsFailure(walk.held[i]) /\ walk.held[i].dormant => Unnamed(walk.held[i].file)
        /\ \A i \in DOMAIN walk.findings : walk.findings[i].dormant => Unnamed(walk.findings[i].file)

HostInv == HostTyped /\ HostTodo /\ HostReports /\ HostHeld /\ HostQuiet

LEMMA HostBegins == ASSUME DistinctRequests PROVE Host!Init => HostInv
<1> SUFFICES ASSUME Host!Init PROVE HostInv
  OBVIOUS
<1>1. PICK r \in Requests :
         walk = [pc |-> "next", asked |-> r, todo |-> r, left |-> <<>>, seen |-> {}, file |-> "none",
                 referenced |-> Host!NoRefs, held |-> <<>>, findings |-> <<>>, errors |-> <<>>]
  BY DEF Host!Init
<1>2. /\ walk.pc = "next" /\ walk.asked = r /\ walk.todo = r /\ walk.held = <<>> /\ walk.findings = <<>> /\ walk.errors = <<>>
      /\ edits = 0 /\ \A f \in Files : disk[f] # "gone"
  BY <1>1 DEF Host!Init, Host!States
<1>3. HostTyped
  <2>1. r \in Seq(HostAsked)
    <3>1. r \in Seq(Host!ToSet(r)) /\ Host!ToSet(r) \subseteq HostAsked
      BY HostAssumed DEF HostAsked
    <3>. QED
      BY <3>1
  <2>2. Host!NoRefs \in [paths : SUBSET Files, names : SUBSET {Base[f] : f \in Files}]
    BY DEF Host!NoRefs
  <2>3. walk \in HostWalks
    BY <1>1, <2>1, <2>2 DEF HostWalks
  <2>4. config \subseteq Host!References
    BY DEF Host!Init
  <2>. QED
    BY <1>2, <2>3, <2>4 DEF HostTyped
<1>4. HostTodo
  BY <1>2 DEF HostTodo, Distinct, DistinctRequests
<1>5. HostReports
  BY <1>2 DEF HostReports, Reports, Untouched, Host!Of
<1>6. HostHeld /\ HostQuiet
  BY <1>2 DEF HostHeld, HostQuiet
<1>. QED
  BY <1>3, <1>4, <1>5, <1>6 DEF HostInv

\* A capability is taken off.
LEMMA OneDone ==
    ASSUME HostInv, walk.todo # <<>>, NEW f, NEW e,
           \A c \in Supported \ {Head(walk.todo)} :
               /\ Untouched(walk.findings, walk.errors, c) => Untouched(f, e, c)
               /\ Whole(walk.findings, walk.errors, c, edits = 0) => Whole(f, e, c, edits = 0),
           Head(walk.todo) \in Supported => Whole(f, e, Head(walk.todo), edits = 0)
    PROVE  /\ Reports(f, e, Host!ToSet(walk.asked), Host!ToSet(Tail(walk.todo)), edits = 0)
           /\ Tail(walk.todo) \in Seq(HostAsked) /\ Distinct(Tail(walk.todo))
           /\ Host!ToSet(Tail(walk.todo)) \subseteq Host!ToSet(walk.asked)
<1> DEFINE c0 == Head(walk.todo)
           old == Host!ToSet(walk.todo)
           new == Host!ToSet(Tail(walk.todo))
<1>1. walk.todo \in Seq(HostAsked) /\ Distinct(walk.todo) /\ old \subseteq Host!ToSet(walk.asked)
  BY DEF HostInv, HostTyped, HostWalks, HostTodo
<1>2. Tail(walk.todo) \in Seq(HostAsked) /\ old = {c0} \cup new
  BY <1>1, Popped
<1>3. Distinct(Tail(walk.todo)) /\ c0 \notin new
  BY <1>1, DistinctTail
<1>4. \A c \in Supported : IF c \in Host!ToSet(walk.asked) /\ c \notin old
                            THEN Whole(walk.findings, walk.errors, c, edits = 0) ELSE Untouched(walk.findings, walk.errors, c)
  BY DEF HostInv, HostReports, Reports
<1> HIDE DEF c0, old, new
<1>5. \A c \in Supported : IF c \in Host!ToSet(walk.asked) /\ c \notin new THEN Whole(f, e, c, edits = 0) ELSE Untouched(f, e, c)
  <2> SUFFICES ASSUME NEW c \in Supported
               PROVE  IF c \in Host!ToSet(walk.asked) /\ c \notin new THEN Whole(f, e, c, edits = 0) ELSE Untouched(f, e, c)
    OBVIOUS
  <2>1. CASE c = c0
    BY <1>1, <1>2, <1>3, <2>1 DEF c0
  <2>2. CASE c # c0
    BY <1>2, <1>4, <2>2 DEF c0
  <2>. QED
    BY <2>1, <2>2
<1>. QED
  BY <1>1, <1>2, <1>3, <1>5 DEF Reports, new

\* The fields of the walk.
LEMMA HostFields ==
    ASSUME HostInv
    PROVE  /\ walk \in HostWalks /\ DOMAIN walk = {"pc", "asked", "todo", "left", "seen", "file", "referenced", "held", "findings", "errors"}
           /\ walk.todo \in Seq(HostAsked) /\ walk.left \in Seq(Files) /\ walk.seen \in SUBSET Files
           /\ walk.held \in Seq(HostRow) /\ walk.findings \in Seq(HostRow) /\ walk.errors \in Seq(HostRow)
           /\ config \subseteq Host!References /\ edits \in Nat
BY DEF HostInv, HostTyped, HostWalks

LEMMA HostRefuses == ASSUME HostInv, Host!Refuse PROVE HostInv'
<1> DEFINE x == [of |-> Head(walk.todo), file |-> "none", why |-> "unsupported"]
<1>1. /\ walk.todo # <<>> /\ Head(walk.todo) \notin Supported
      /\ walk' = [walk EXCEPT !.todo = Tail(@), !.errors = Append(@, x)] /\ walk.pc = "next"
      /\ disk' = disk /\ config' = config /\ edits' = edits
  BY DEF Host!Refuse, Host!Capability
<1>2. /\ walk'.pc = "next" /\ walk'.asked = walk.asked /\ walk'.todo = Tail(walk.todo) /\ walk'.held = walk.held
      /\ walk'.findings = walk.findings /\ walk'.errors = Append(walk.errors, x)
  BY <1>1, HostFields DEF HostWalks
<1>3. x \in HostRow /\ x.of = Head(walk.todo)
  BY <1>1, HostFields, Popped DEF HostRow
<1> HIDE DEF x
<1>4. \A c \in Supported \ {Head(walk.todo)} :
          /\ Untouched(walk.findings, walk.errors, c) => Untouched(walk.findings, Append(walk.errors, x), c)
          /\ Whole(walk.findings, walk.errors, c, edits = 0) => Whole(walk.findings, Append(walk.errors, x), c, edits = 0)
  BY <1>3, HostFields, OthersKeep
<1>5. /\ Reports(walk.findings, Append(walk.errors, x), Host!ToSet(walk.asked), Host!ToSet(Tail(walk.todo)), edits = 0)
      /\ Tail(walk.todo) \in Seq(HostAsked) /\ Distinct(Tail(walk.todo))
      /\ Host!ToSet(Tail(walk.todo)) \subseteq Host!ToSet(walk.asked)
  BY <1>1, <1>4, OneDone
<1>6. HostTyped'
  <2>1. Append(walk.errors, x) \in Seq(HostRow)
    BY <1>3, HostFields
  <2>2. walk' \in HostWalks
    BY <1>1, <1>5, <2>1, HostFields DEF HostWalks
  <2>. QED
    BY <1>1, <2>2, HostFields DEF HostTyped, Host!References
<1>7. HostTodo' /\ HostReports'
  BY <1>1, <1>2, <1>5 DEF HostTodo, HostReports
<1>8. HostHeld'
  BY <1>2 DEF HostHeld
<1>9. HostQuiet'
  BY <1>1, <1>2 DEF HostInv, HostQuiet, Unnamed
<1>. QED
  BY <1>6, <1>7, <1>8, <1>9 DEF HostInv

LEMMA HostRaises == ASSUME HostInv, Host!Raise PROVE HostInv'
<1> DEFINE x == [of |-> Head(walk.todo), file |-> "none", why |-> "exception"]
<1>1. /\ walk.pc = "parse"
      /\ walk' = [walk EXCEPT !.pc = "next", !.todo = Tail(@), !.file = "none", !.held = <<>>, !.errors = Append(@, x)]
      /\ disk' = disk /\ config' = config /\ edits' = edits
  BY DEF Host!Raise, Host!Capability
<1>2. /\ walk'.pc = "next" /\ walk'.asked = walk.asked /\ walk'.todo = Tail(walk.todo) /\ walk'.held = <<>>
      /\ walk'.findings = walk.findings /\ walk'.errors = Append(walk.errors, x)
  BY <1>1, HostFields DEF HostWalks
<1>3. walk.todo # <<>> /\ Head(walk.todo) \in Supported
  BY <1>1 DEF HostInv, HostHeld
<1>4. x \in HostRow /\ x.of = Head(walk.todo) /\ x.file = "none"
  BY <1>3, HostFields, Popped DEF HostRow
<1> HIDE DEF x
<1>5. \A c \in Supported \ {Head(walk.todo)} :
          /\ Untouched(walk.findings, walk.errors, c) => Untouched(walk.findings, Append(walk.errors, x), c)
          /\ Whole(walk.findings, walk.errors, c, edits = 0) => Whole(walk.findings, Append(walk.errors, x), c, edits = 0)
  BY <1>4, HostFields, OthersKeep
<1>6. Whole(walk.findings, Append(walk.errors, x), Head(walk.todo), edits = 0)
  <2>1. Head(walk.todo) \in Host!ToSet(walk.todo)
    BY <1>3, HostFields, Popped
  <2>2. Untouched(walk.findings, walk.errors, Head(walk.todo))
    BY <1>3, <2>1 DEF HostInv, HostReports, Reports
  <2>3. Alone(walk.findings, Append(walk.errors, x), Head(walk.todo))
    BY <1>4, <2>2, HostFields, ExceptionAlone
  <2>. QED
    BY <2>3 DEF Whole
<1>7. /\ Reports(walk.findings, Append(walk.errors, x), Host!ToSet(walk.asked), Host!ToSet(Tail(walk.todo)), edits = 0)
      /\ Tail(walk.todo) \in Seq(HostAsked) /\ Distinct(Tail(walk.todo))
      /\ Host!ToSet(Tail(walk.todo)) \subseteq Host!ToSet(walk.asked)
  BY <1>3, <1>5, <1>6, OneDone
<1>8. HostTyped'
  <2>1. Append(walk.errors, x) \in Seq(HostRow) /\ <<>> \in Seq(HostRow)
    BY <1>4, HostFields
  <2>2. walk' \in HostWalks
    BY <1>1, <1>7, <2>1, HostFields DEF HostWalks
  <2>. QED
    BY <1>1, <2>2, HostFields DEF HostTyped, Host!References
<1>9. HostTodo' /\ HostReports'
  BY <1>1, <1>2, <1>7 DEF HostTodo, HostReports
<1>10. HostHeld'
  BY <1>2 DEF HostHeld
<1>11. HostQuiet'
  BY <1>1, <1>2 DEF HostInv, HostQuiet, Unnamed
<1>. QED
  BY <1>8, <1>9, <1>10, <1>11 DEF HostInv

LEMMA HostBeginsOne == ASSUME HostInv, Host!Begin PROVE HostInv'
<1> DEFINE refs == IF Head(walk.todo) = Host!Keys THEN Host!ReadReferences ELSE Host!NoRefs
<1>1. /\ walk.todo # <<>> /\ Head(walk.todo) \in Supported
      /\ walk' = [walk EXCEPT !.pc = "walk", !.left = Host!Below(Head(walk.todo)), !.seen = {}, !.held = <<>>, !.referenced = refs]
      /\ disk' = disk /\ config' = config /\ edits' = edits
  BY DEF Host!Begin, Host!Capability
<1>2. /\ walk'.pc = "walk" /\ walk'.asked = walk.asked /\ walk'.todo = walk.todo /\ walk'.held = <<>>
      /\ walk'.left = Host!Below(Head(walk.todo)) /\ walk'.seen = {} /\ walk'.referenced = refs
      /\ walk'.findings = walk.findings /\ walk'.errors = walk.errors
  BY <1>1, HostFields DEF HostWalks
<1>3. refs \in [paths : SUBSET Files, names : SUBSET {Base[f] : f \in Files}]
  BY HostFields DEF Host!ReadReferences, Host!NoRefs, Host!References
<1>4. HostTyped'
  <2>1. Host!Below(Head(walk.todo)) \in Seq(Files) /\ <<>> \in Seq(HostRow)
    BY <1>1, HostAssumed
  <2>. HIDE DEF refs
  <2>2. walk' \in HostWalks
    BY <1>1, <1>3, <2>1, HostFields DEF HostWalks
  <2>. QED
    BY <1>1, <2>2, HostFields DEF HostTyped, Host!References
<1>5. HostTodo' /\ HostReports'
  BY <1>1, <1>2 DEF HostInv, HostTodo, HostReports
<1>6. HostHeld'
  <2>1. HeldOf(Head(walk.todo), <<>>) /\ FilesHeld(<<>>) = {}
    BY DEF HeldOf, FilesHeld
  <2>2. IsFiniteSet({}) /\ Cardinality({}) <= MaxFiles
    BY FS_EmptySet, HostAssumed
  <2>. QED
    BY <1>1, <1>2, <2>1, <2>2 DEF HostHeld
<1>7. HostQuiet'
  BY <1>1, <1>2 DEF HostInv, HostQuiet, Unnamed, Host!ReadReferences
<1>. QED
  BY <1>4, <1>5, <1>6, <1>7 DEF HostInv

LEMMA HostSkips == ASSUME HostInv, Host!Skip PROVE HostInv'
<1>1. /\ walk.pc = "walk" /\ walk.left # <<>> /\ (disk[Head(walk.left)] = "gone" \/ Head(walk.left) \in walk.seen)
      /\ walk' = [walk EXCEPT !.left = Tail(@)]
      /\ disk' = disk /\ config' = config /\ edits' = edits
  BY DEF Host!Skip, Host!WalkFull, Host!Passed
<1>2. /\ walk'.pc = "walk" /\ walk'.asked = walk.asked /\ walk'.todo = walk.todo /\ walk'.held = walk.held
      /\ walk'.left = Tail(walk.left) /\ walk'.seen = walk.seen /\ walk'.referenced = walk.referenced
      /\ walk'.findings = walk.findings /\ walk'.errors = walk.errors
  BY <1>1, HostFields DEF HostWalks
<1>3. Tail(walk.left) \in Seq(Files) /\ Head(walk.left) \in Files /\ Host!ToSet(walk.left) = {Head(walk.left)} \cup Host!ToSet(Tail(walk.left))
  BY <1>1, HostFields, Popped
<1>4. HostTyped'
  BY <1>1, <1>3, HostFields DEF HostTyped, HostWalks, Host!References
<1>5. HostTodo' /\ HostReports'
  BY <1>1, <1>2 DEF HostInv, HostTodo, HostReports
<1>6. HostHeld'
  <2>1. edits = 0 => walk.seen \cup Host!ToSet(Tail(walk.left)) = walk.seen \cup Host!ToSet(walk.left)
    BY <1>1, <1>3 DEF HostInv, HostQuiet
  <2>. QED
    BY <1>1, <1>2, <2>1 DEF HostInv, HostHeld
<1>7. HostQuiet'
  BY <1>1, <1>2 DEF HostInv, HostQuiet, Unnamed, Host!ReadReferences
<1>. QED
  BY <1>4, <1>5, <1>6, <1>7 DEF HostInv

LEMMA HostYields == ASSUME HostInv, Host!Yield PROVE HostInv'
<1> DEFINE f == Head(walk.left)
<1>1. /\ walk.pc = "walk" /\ walk.left # <<>> /\ ~(Host!Cardinality(walk.seen) >= MaxFiles) /\ f \notin walk.seen
      /\ walk' = [walk EXCEPT !.pc = "parse", !.file = f, !.left = Tail(@), !.seen = @ \cup {f}]
      /\ disk' = disk /\ config' = config /\ edits' = edits
  BY DEF Host!Yield, Host!WalkFull, Host!Passed
<1>2. /\ walk'.pc = "parse" /\ walk'.asked = walk.asked /\ walk'.todo = walk.todo /\ walk'.held = walk.held
      /\ walk'.left = Tail(walk.left) /\ walk'.seen = walk.seen \cup {f} /\ walk'.referenced = walk.referenced /\ walk'.file = f
      /\ walk'.findings = walk.findings /\ walk'.errors = walk.errors
  BY <1>1, HostFields DEF HostWalks
<1>3. Tail(walk.left) \in Seq(Files) /\ f \in Files /\ Host!ToSet(walk.left) = {f} \cup Host!ToSet(Tail(walk.left))
  BY <1>1, HostFields, Popped
<1> HIDE DEF f
<1>4. HostTyped'
  BY <1>1, <1>3, HostFields DEF HostTyped, HostWalks, Host!References
<1>5. HostTodo' /\ HostReports'
  BY <1>1, <1>2 DEF HostInv, HostTodo, HostReports
<1>6. HostHeld'
  <2>1. /\ walk.todo # <<>> /\ Head(walk.todo) \in Supported /\ HeldOf(Head(walk.todo), walk.held)
        /\ IsFiniteSet(walk.seen) /\ FilesHeld(walk.held) = walk.seen
        /\ edits = 0 => walk.seen \cup Host!ToSet(walk.left) = Host!ToSet(Host!Below(Head(walk.todo)))
    BY <1>1 DEF HostInv, HostHeld
  <2>2. IsFiniteSet(walk.seen \cup {f}) /\ Cardinality(walk.seen \cup {f}) = Cardinality(walk.seen) + 1
    BY <1>1, <2>1, FS_AddElement
  <2>3. Cardinality(walk.seen \cup {f}) <= MaxFiles
    <3>1. Host!Cardinality(walk.seen) = Cardinality(walk.seen) /\ Cardinality(walk.seen) \in Nat /\ MaxFiles \in Nat
      BY <2>1, HostAssumed, FS_CardinalityType
    <3>. QED
      BY <1>1, <2>2, <3>1
  <2>4. FilesHeld(walk.held) = (walk.seen \cup {f}) \ {f}
    BY <1>1, <2>1
  <2>. QED
    BY <1>1, <1>2, <1>3, <2>1, <2>2, <2>3, <2>4 DEF HostHeld
<1>7. HostQuiet'
  BY <1>1, <1>2 DEF HostInv, HostQuiet, Unnamed, Host!ReadReferences
<1>. QED
  BY <1>4, <1>5, <1>6, <1>7 DEF HostInv

\* A row more is held, of a file not held yet.
LEMMA HeldMore ==
    ASSUME NEW held \in Seq(HostRow), NEW x \in HostRow, NEW c, HeldOf(c, held),
           x.of = c, x.file # "none", x.file \notin FilesHeld(held)
    PROVE  /\ Append(held, x) \in Seq(HostRow) /\ HeldOf(c, Append(held, x))
           /\ FilesHeld(Append(held, x)) = FilesHeld(held) \cup {x.file}
           /\ \A i \in DOMAIN Append(held, x) : Append(held, x)[i] = x \/ (i \in DOMAIN held /\ Append(held, x)[i] = held[i])
<1> DEFINE h == Append(held, x)
           n == Len(held) + 1
<1>1. /\ h \in Seq(HostRow) /\ n \in DOMAIN h /\ h[n] = x /\ n \notin DOMAIN held
      /\ \A i \in DOMAIN held : i \in DOMAIN h /\ h[i] = held[i]
      /\ \A i \in DOMAIN h : i = n \/ i \in DOMAIN held
  OBVIOUS
<1> HIDE DEF h, n
<1>2. HeldOf(c, h)
  <2>1. \A i \in DOMAIN h : h[i].of = c /\ h[i].file # "none"
    BY <1>1 DEF HeldOf
  <2>2. \A i, j \in DOMAIN h : h[i].file = h[j].file => i = j
    <3> SUFFICES ASSUME NEW i \in DOMAIN h, NEW j \in DOMAIN h, h[i].file = h[j].file PROVE i = j
      OBVIOUS
    <3>1. CASE i = n \/ j = n
      BY <1>1, <3>1 DEF FilesHeld
    <3>2. CASE i # n /\ j # n
      BY <1>1, <3>2 DEF HeldOf
    <3>. QED
      BY <3>1, <3>2
  <2>. QED
    BY <2>1, <2>2 DEF HeldOf
<1>3. FilesHeld(h) = FilesHeld(held) \cup {x.file}
  BY <1>1 DEF FilesHeld
<1>. QED
  BY <1>1, <1>2, <1>3 DEF h

\* What is read of the file comes to what is held.
LEMMA HostHolds ==
    ASSUME HostInv, walk.pc = "parse", NEW x \in HostRow, x.of = Head(walk.todo), x.file = walk.file,
           edits = 0 /\ ~Host!IsFailure(x) /\ x.dormant => Unnamed(x.file),
           walk' = [walk EXCEPT !.pc = "walk", !.held = Append(@, x), !.file = "none"],
           disk' = disk, config' = config, edits' = edits
    PROVE  HostInv'
<1>1. /\ walk'.pc = "walk" /\ walk'.asked = walk.asked /\ walk'.todo = walk.todo /\ walk'.held = Append(walk.held, x)
      /\ walk'.left = walk.left /\ walk'.seen = walk.seen /\ walk'.referenced = walk.referenced
      /\ walk'.findings = walk.findings /\ walk'.errors = walk.errors
  BY HostFields DEF HostWalks
<1>2. /\ walk.todo # <<>> /\ Head(walk.todo) \in Supported /\ HeldOf(Head(walk.todo), walk.held)
      /\ IsFiniteSet(walk.seen) /\ Cardinality(walk.seen) <= MaxFiles
      /\ walk.file \in walk.seen /\ FilesHeld(walk.held) = walk.seen \ {walk.file}
      /\ edits = 0 => walk.seen \cup Host!ToSet(walk.left) = Host!ToSet(Host!Below(Head(walk.todo)))
  BY DEF HostInv, HostHeld
<1>3. x.file # "none" /\ x.file \notin FilesHeld(walk.held)
  BY <1>2, HostFields, HostAssumed
<1>4. /\ Append(walk.held, x) \in Seq(HostRow) /\ HeldOf(Head(walk.todo), Append(walk.held, x))
      /\ FilesHeld(Append(walk.held, x)) = FilesHeld(walk.held) \cup {x.file}
      /\ \A i \in DOMAIN Append(walk.held, x) :
            Append(walk.held, x)[i] = x \/ (i \in DOMAIN walk.held /\ Append(walk.held, x)[i] = walk.held[i])
  BY <1>2, <1>3, HostFields, HeldMore
<1>5. HostTyped'
  <2>1. walk' \in HostWalks
    BY <1>4, HostFields DEF HostWalks
  <2>. QED
    BY <2>1, HostFields DEF HostTyped, Host!References
<1>6. HostTodo' /\ HostReports'
  BY <1>1 DEF HostInv, HostTodo, HostReports
<1>7. HostHeld'
  <2>1. FilesHeld(Append(walk.held, x)) = walk.seen
    BY <1>2, <1>4
  <2>. QED
    BY <1>1, <1>2, <1>4, <2>1 DEF HostHeld
<1>8. HostQuiet'
  <2> DEFINE h == Append(walk.held, x)
  <2>1. edits = 0 => \A i \in DOMAIN h : ~Host!IsFailure(h[i]) /\ h[i].dormant => Unnamed(h[i].file)
    <3> HIDE DEF h
    <3> SUFFICES ASSUME edits = 0, NEW i \in DOMAIN h, ~Host!IsFailure(h[i]) /\ h[i].dormant PROVE Unnamed(h[i].file)
      OBVIOUS
    <3>1. CASE h[i] = x
      BY <3>1
    <3>2. CASE i \in DOMAIN walk.held /\ h[i] = walk.held[i]
      BY <3>2 DEF HostInv, HostQuiet
    <3>. QED
      BY <1>4, <3>1, <3>2 DEF h
  <2>2. edits = 0 => /\ \A f \in Files : disk[f] # "gone"
                     /\ Head(walk.todo) = Host!Keys => walk.referenced = Host!ReadReferences
                     /\ \A i \in DOMAIN walk.findings : walk.findings[i].dormant => Unnamed(walk.findings[i].file)
    BY DEF HostInv, HostQuiet
  <2>3. Host!ReadReferences' = Host!ReadReferences /\ \A f : Unnamed(f)' <=> Unnamed(f)
    BY DEF Host!ReadReferences, Unnamed
  <2> HIDE DEF h
  <2>. QED
    BY <1>1, <2>1, <2>2, <2>3 DEF HostQuiet, h, Unnamed
<1>. QED
  BY <1>5, <1>6, <1>7, <1>8 DEF HostInv

LEMMA HostFinds == ASSUME HostInv, Host!Find PROVE HostInv'
<1> DEFINE c == Head(walk.todo)
           dead == c = Host!Keys /\ ~Host!InUse(walk.file)
           x == [of |-> c, file |-> walk.file, dormant |-> dead]
<1>1. /\ walk.pc = "parse" /\ walk' = [walk EXCEPT !.pc = "walk", !.held = Append(@, x), !.file = "none"]
      /\ disk' = disk /\ config' = config /\ edits' = edits
  BY DEF Host!Find, Host!Finding, Host!Capability
<1>2. c \in HostAsked /\ walk.file \in Files
  BY <1>1, HostFields, Popped DEF HostInv, HostHeld
<1>3. edits = 0 /\ dead => Unnamed(walk.file)
  <2> SUFFICES ASSUME edits = 0, dead, NEW r \in config, r.file = walk.file, r.form # "assigned" PROVE FALSE
    BY DEF Unnamed
  <2>1. walk.referenced = Host!ReadReferences
    BY <1>1 DEF HostInv, HostQuiet
  <2>2. Base[walk.file] \in walk.referenced.names
    BY <2>1 DEF Host!ReadReferences
  <2>. QED
    BY <2>2 DEF Host!InUse
<1>4. dead \in BOOLEAN
  OBVIOUS
<1> HIDE DEF dead, c
<1>5. x \in HostRow /\ x.of = c /\ x.file = walk.file /\ x.dormant = dead
  BY <1>2, <1>4 DEF HostRow
<1>. QED
  BY <1>1, <1>3, <1>5, HostHolds DEF c

LEMMA HostFails == ASSUME HostInv, Host!Fail PROVE HostInv'
<1> DEFINE x == [of |-> Head(walk.todo), file |-> walk.file, why |-> "parse_failed"]
<1>1. /\ walk.pc = "parse" /\ walk' = [walk EXCEPT !.pc = "walk", !.held = Append(@, x), !.file = "none"]
      /\ disk' = disk /\ config' = config /\ edits' = edits
  BY DEF Host!Fail, Host!Unfound, Host!Failure, Host!Capability
<1>2. Head(walk.todo) \in HostAsked /\ walk.file \in Files
  BY <1>1, HostFields, Popped DEF HostInv, HostHeld
<1>3. x \in HostRow /\ x.of = Head(walk.todo) /\ x.file = walk.file /\ Host!IsFailure(x)
  BY <1>2 DEF HostRow, Host!IsFailure
<1>. QED
  BY <1>1, <1>3, HostHolds

\* What is kept was held.
LEMMA KeptOnly ==
    ASSUME NEW held \in Seq(HostRow), NEW kept \in SUBSET (DOMAIN held)
    PROVE  Keep(held, kept) \in Seq(HostRow) /\ \A n \in DOMAIN Keep(held, kept) : \E k \in kept : Keep(held, kept)[n] = held[k]
<1> DEFINE r == Keep(held, kept)
           N == Cardinality(kept)
<1>1. /\ N \in Nat /\ r \in Seq(HostRow) /\ Len(r) = N
      /\ \E g \in Bijection(1 .. N, kept) : \A n \in 1 .. N : r[n] = held[g[n]]
  BY Kept
<1>2. PICK g \in Bijection(1 .. N, kept) : \A n \in 1 .. N : r[n] = held[g[n]]
  BY <1>1
<1> HIDE DEF r, N
<1>3. g \in [1 .. N -> kept]
  BY <1>2 DEF Bijection, Injection
<1>4. DOMAIN r = 1 .. N
  BY <1>1
<1>5. \A n \in DOMAIN r : \E k \in kept : r[n] = held[k]
  BY <1>2, <1>3, <1>4
<1>. QED
  BY <1>1, <1>5 DEF r

LEMMA HostFinishes == ASSUME HostInv, Host!Finish PROVE HostInv'
<1> DEFINE c0 == Head(walk.todo)
           held == walk.held
           good == {i \in DOMAIN held : ~Host!IsFailure(held[i])}
           bad == {i \in DOMAIN held : Host!IsFailure(held[i])}
           fs == Keep(held, good)
           es == Keep(held, bad)
           f == walk.findings \o fs
           e == walk.errors \o es
<1>1. /\ walk.pc = "walk" /\ (walk.left = <<>> \/ Host!Cardinality(walk.seen) >= MaxFiles)
      /\ walk' = [walk EXCEPT !.pc = "next", !.todo = Tail(@), !.held = <<>>, !.findings = f, !.errors = e]
      /\ disk' = disk /\ config' = config /\ edits' = edits
  <2>1. Host!Keep(held, good) = fs /\ Host!Keep(held, bad) = es
    BY HostAssumed
  <2> HIDE DEF fs, es
  <2>2. /\ walk.pc = "walk" /\ (walk.left = <<>> \/ Host!Cardinality(walk.seen) >= MaxFiles)
        /\ walk' = [walk EXCEPT !.pc = "next", !.todo = Tail(@), !.held = <<>>,
                                !.findings = @ \o Host!Keep(held, good), !.errors = @ \o Host!Keep(held, bad)]
        /\ disk' = disk /\ config' = config /\ edits' = edits
    BY DEF Host!Finish, Host!WalkFull
  <2>. QED
    BY <2>1, <2>2
<1>2. /\ walk.todo # <<>> /\ c0 \in Supported /\ HeldOf(c0, held)
      /\ IsFiniteSet(walk.seen) /\ Cardinality(walk.seen) <= MaxFiles /\ FilesHeld(held) = walk.seen
      /\ edits = 0 => walk.seen \cup Host!ToSet(walk.left) = Host!ToSet(Host!Below(c0))
  BY <1>1 DEF HostInv, HostHeld
<1>3. /\ held \in Seq(HostRow) /\ good \in SUBSET (DOMAIN held) /\ bad \in SUBSET (DOMAIN held)
      /\ good \cup bad = DOMAIN held /\ good \cap bad = {}
  BY HostFields
<1>4. /\ fs \in Seq(HostRow) /\ \A n \in DOMAIN fs : \E k \in good : fs[n] = held[k]
      /\ es \in Seq(HostRow) /\ \A n \in DOMAIN es : \E k \in bad : es[n] = held[k]
  <2> HIDE DEF good, bad, held
  <2>. QED
    BY <1>3, KeptOnly
<1>5. Untouched(walk.findings, walk.errors, c0)
  <2>1. c0 \in Host!ToSet(walk.todo)
    BY <1>2, HostFields, Popped
  <2>. QED
    BY <1>2, <2>1 DEF HostInv, HostReports, Reports
<1>6. /\ f \in Seq(HostRow) /\ e \in Seq(HostRow) /\ OnceEach(f, e, c0) /\ FilesOf(f, e, c0) = FilesHeld(held)
  <2> HIDE DEF good, bad, held, c0
  <2>. QED
    <3>1. walk.findings \in Seq(HostRow) /\ walk.errors \in Seq(HostRow)
      BY HostFields
    <3>2. OnceReported(f, e, held, c0)
      BY <1>2, <1>3, <1>5, <3>1, ReportedOnce, Zenon
    <3>. QED
      BY <3>2 DEF OnceReported
<1>7. \A i \in DOMAIN f : (i \in DOMAIN walk.findings /\ f[i] = walk.findings[i]) \/ \E k \in good : f[i] = held[k]
  <2> HIDE DEF good, held, fs
  <2>1. /\ Len(f) = Len(walk.findings) + Len(fs)
        /\ \A i \in 1 .. Len(walk.findings) : f[i] = walk.findings[i]
        /\ \A i \in 1 .. Len(fs) : f[Len(walk.findings) + i] = fs[i]
    BY <1>4, HostFields, Concatenated
  <2> SUFFICES ASSUME NEW i \in DOMAIN f, i \notin DOMAIN walk.findings PROVE \E k \in good : f[i] = held[k]
    BY <2>1, HostFields
  <2>2. i - Len(walk.findings) \in 1 .. Len(fs) /\ i = Len(walk.findings) + (i - Len(walk.findings))
    <3>1. i \in 1 .. Len(f) /\ i \notin 1 .. Len(walk.findings) /\ Len(walk.findings) \in Nat /\ Len(fs) \in Nat
      BY <1>4, <1>6, HostFields
    <3>. QED
      BY <2>1, <3>1
  <2>3. f[i] = fs[i - Len(walk.findings)] /\ i - Len(walk.findings) \in DOMAIN fs
    BY <1>4, <2>1, <2>2
  <2>. QED
    BY <1>4, <2>3
<1>8. \A c \in Supported \ {c0} :
          /\ Untouched(walk.findings, walk.errors, c) => Untouched(f, e, c)
          /\ Whole(walk.findings, walk.errors, c, edits = 0) => Whole(f, e, c, edits = 0)
  <2> SUFFICES ASSUME NEW c \in Supported \ {c0}
               PROVE  /\ Untouched(walk.findings, walk.errors, c) => Untouched(f, e, c)
                      /\ Whole(walk.findings, walk.errors, c, edits = 0) => Whole(f, e, c, edits = 0)
    OBVIOUS
  <2> HIDE DEF good, bad, held, c0, fs, es
  <2>1. NoneOf(c, fs) /\ NoneOf(c, es)
    BY <1>2, <1>3, <1>4 DEF NoneOf, HeldOf
  <2>. QED
    BY <1>4, <2>1, HostFields, OthersStay
<1> HIDE DEF f, e, fs, es
<1>9. Whole(f, e, c0, edits = 0)
  <2>1. CASE walk.left = <<>>
    <3>1. Host!ToSet(<<>>) = {}
      BY DEF Host!ToSet
    <3>2. edits = 0 => FilesOf(f, e, c0) = Host!ToSet(Host!Below(c0))
      BY <1>2, <1>6, <2>1, <3>1
    <3>. QED
      BY <1>6, <3>2 DEF Whole
  <2>2. CASE Host!Cardinality(walk.seen) >= MaxFiles
    <3>1. Host!Cardinality(walk.seen) = Cardinality(walk.seen) /\ Cardinality(walk.seen) \in Nat /\ MaxFiles \in Nat
      BY <1>2, HostAssumed, FS_CardinalityType
    <3>2. Cardinality(walk.seen) = MaxFiles
      BY <1>2, <2>2, <3>1
    <3>. QED
      BY <1>2, <1>6, <3>2 DEF Whole
  <2>. QED
    BY <1>1, <2>1, <2>2
<1>10. /\ Reports(f, e, Host!ToSet(walk.asked), Host!ToSet(Tail(walk.todo)), edits = 0)
       /\ Tail(walk.todo) \in Seq(HostAsked) /\ Distinct(Tail(walk.todo))
       /\ Host!ToSet(Tail(walk.todo)) \subseteq Host!ToSet(walk.asked)
  BY <1>2, <1>8, <1>9, OneDone
<1>11. /\ walk'.pc = "next" /\ walk'.asked = walk.asked /\ walk'.todo = Tail(walk.todo) /\ walk'.held = <<>>
       /\ walk'.findings = f /\ walk'.errors = e
  BY <1>1, HostFields DEF HostWalks
<1>12. HostTyped'
  <2>1. <<>> \in Seq(HostRow)
    OBVIOUS
  <2>2. walk' \in HostWalks
    BY <1>1, <1>6, <1>10, <2>1, HostFields DEF HostWalks
  <2>. QED
    BY <1>1, <2>2, HostFields DEF HostTyped, Host!References
<1>13. HostTodo' /\ HostReports'
  BY <1>1, <1>10, <1>11 DEF HostTodo, HostReports
<1>14. HostHeld'
  BY <1>11 DEF HostHeld
<1>15. HostQuiet'
  <2>1. edits = 0 => \A i \in DOMAIN f : f[i].dormant => Unnamed(f[i].file)
    <3> SUFFICES ASSUME edits = 0, NEW i \in DOMAIN f, f[i].dormant PROVE Unnamed(f[i].file)
      OBVIOUS
    <3>1. CASE i \in DOMAIN walk.findings /\ f[i] = walk.findings[i]
      BY <3>1 DEF HostInv, HostQuiet
    <3>2. CASE \E k \in good : f[i] = held[k]
      BY <3>2 DEF HostInv, HostQuiet
    <3>. QED
      BY <1>7, <3>1, <3>2
  <2>2. edits = 0 => \A x \in Files : disk[x] # "gone"
    BY DEF HostInv, HostQuiet
  <2>. QED
    BY <1>1, <1>11, <2>1, <2>2 DEF HostQuiet, Unnamed
<1>. QED
  BY <1>12, <1>13, <1>14, <1>15 DEF HostInv

LEMMA HostReplies == ASSUME HostInv, Host!Reply PROVE HostInv'
<1> DEFINE code == IF Host!Refuses THEN "400" ELSE "200"
<1>1. /\ walk' = [walk EXCEPT !.pc = code] /\ walk.todo = <<>>
      /\ disk' = disk /\ config' = config /\ edits' = edits
  BY DEF Host!Reply
<1>2. code \in {"200", "400"}
  OBVIOUS
<1> HIDE DEF code
<1>3. /\ walk'.pc = code /\ walk'.asked = walk.asked /\ walk'.todo = walk.todo /\ walk'.held = walk.held
      /\ walk'.findings = walk.findings /\ walk'.errors = walk.errors
  BY <1>1, HostFields DEF HostWalks
<1>4. HostTyped'
  BY <1>1, <1>2, HostFields DEF HostTyped, HostWalks, Host!References
<1>5. HostTodo' /\ HostReports'
  BY <1>1, <1>3 DEF HostInv, HostTodo, HostReports
<1>6. HostHeld'
  BY <1>2, <1>3 DEF HostHeld
<1>7. HostQuiet'
  BY <1>1, <1>2, <1>3 DEF HostInv, HostQuiet, Unnamed
<1>. QED
  BY <1>4, <1>5, <1>6, <1>7 DEF HostInv

\* The host changes under the scan.
LEMMA HostChanged ==
    ASSUME HostInv, walk' = walk, edits' = edits + 1, config' \subseteq Host!References
    PROVE  HostInv'
<1>1. edits \in Nat /\ edits' \in Nat /\ edits' # 0
  BY HostFields
<1>2. HostTyped' /\ HostTodo'
  BY <1>1 DEF HostInv, HostTyped, HostTodo, HostWalks, Host!References
<1>3. HostReports'
  <2>1. \A c : Whole(walk.findings, walk.errors, c, edits = 0) => Whole(walk.findings, walk.errors, c, FALSE)
    BY DEF Whole
  <2>2. Reports(walk.findings, walk.errors, Host!ToSet(walk.asked), Host!ToSet(walk.todo), FALSE)
    BY <2>1 DEF HostInv, HostReports, Reports
  <2>3. (edits' = 0) = FALSE
    BY <1>1
  <2>. QED
    BY <2>2, <2>3 DEF HostReports
<1>4. HostHeld'
  BY <1>1 DEF HostInv, HostHeld
<1>5. HostQuiet'
  BY <1>1 DEF HostQuiet
<1>. QED
  BY <1>2, <1>3, <1>4, <1>5 DEF HostInv

LEMMA HostUnchanged == ASSUME HostInv, UNCHANGED Host!vars PROVE HostInv'
BY DEF Host!vars, HostInv, HostTyped, HostTodo, HostReports, HostHeld, HostQuiet, Unnamed, Host!ReadReferences

LEMMA HostStep == ASSUME HostInv, Host!Next PROVE HostInv'
<1>1. ASSUME Host!Step PROVE HostInv'
  BY <1>1, HostRefuses, HostBeginsOne, HostSkips, HostYields, HostFinds, HostFails, HostRaises, HostFinishes, HostReplies
     DEF Host!Step
<1>2. ASSUME NEW f \in Files, NEW s \in Host!States, Host!ChangeFile(f, s) PROVE HostInv'
  <2>1. walk' = walk /\ edits' = edits + 1 /\ config' = config
    BY <1>2 DEF Host!ChangeFile
  <2>. QED
    BY <2>1, HostFields, HostChanged
<1>3. ASSUME NEW r \in Host!References, Host!ChangeConfig(r) PROVE HostInv'
  <2>1. walk' = walk /\ edits' = edits + 1 /\ config' \subseteq Host!References
    BY <1>3, HostFields DEF Host!ChangeConfig
  <2>. QED
    BY <2>1, HostChanged
<1>. QED
  BY <1>1, <1>2, <1>3 DEF Host!Next

\* What the invariant says of the report.
LEMMA HostReported ==
    ASSUME HostInv PROVE Host!EachFileOnce /\ Host!QuietScanIsWhole /\ Host!NamedKeyIsInUse
<1> DEFINE f == walk.findings
           e == walk.errors
<1>1. f \in Seq(HostRow) /\ e \in Seq(HostRow)
  BY HostFields
<1>2. \A c : Host!Reported(c) = Report(f, e, c)
  BY HostAssumed DEF Host!Reported, Report
<1>3. \A c \in Supported : Untouched(f, e, c) \/ Whole(f, e, c, edits = 0)
  BY DEF HostInv, HostReports, Reports
<1> HIDE DEF f, e
<1>4. \A c \in Supported : Alone(f, e, c) \/ OnceEach(f, e, c)
  BY <1>3 DEF Whole, OnceEach, Untouched
<1>5. Host!EachFileOnce
  <2> SUFFICES ASSUME NEW c \in Supported
               PROVE  LET r == Report(f, e, c)
                      IN \/ \E i \in DOMAIN r : r[i].file = "none" /\ Len(r) = 1
                         \/ \A i, j \in DOMAIN r : r[i].file # "none" /\ (i # j => r[i].file # r[j].file)
    BY <1>2 DEF Host!EachFileOnce
  <2>1. CASE Alone(f, e, c)
    BY <1>1, <2>1, ReportOf
  <2>2. CASE OnceEach(f, e, c)
    BY <1>1, <2>2, ReportOf
  <2>. QED
    BY <1>4, <2>1, <2>2
<1>6. Host!QuietScanIsWhole
  <2> SUFFICES ASSUME walk.pc = "200", edits = 0, NEW c \in Supported, c \in Host!ToSet(walk.asked)
               PROVE  LET files == {Host!Reported(c)[i].file : i \in DOMAIN Host!Reported(c)}
                      IN "none" \in files \/ Host!Cardinality(files) = MaxFiles \/ files = Host!ToSet(Host!Below(c))
    BY DEF Host!QuietScanIsWhole
  <2>1. {Host!Reported(c)[i].file : i \in DOMAIN Host!Reported(c)} = FilesOf(f, e, c)
    BY <1>1, <1>2, ReportOf
  <2>2. Whole(f, e, c, edits = 0)
    <3>1. c \notin Host!ToSet(walk.todo)
      BY DEF HostInv, HostTodo, Host!ToSet
    <3>. QED
      BY <3>1 DEF HostInv, HostReports, Reports, f, e
  <2>3. CASE Alone(f, e, c)
    BY <2>1, <2>3 DEF Alone, FilesOf
  <2>4. CASE Cardinality(FilesOf(f, e, c)) = MaxFiles
    BY <2>1, <2>4, HostAssumed
  <2>5. CASE FilesOf(f, e, c) = Host!ToSet(Host!Below(c))
    BY <2>1, <2>5
  <2>. QED
    BY <2>2, <2>3, <2>4, <2>5 DEF Whole
<1>7. Host!NamedKeyIsInUse
  BY DEF HostInv, HostQuiet, Unnamed, Host!NamedKeyIsInUse
<1>. QED
  BY <1>5, <1>6, <1>7

HostKnown == part = "host" => HostInv

LEMMA HostInvariant == ASSUME DistinctRequests PROVE Spec => []HostKnown
<1>1. Init => HostKnown
  BY FirstPart, HostBegins DEF HostKnown
<1>2. HostKnown /\ [Next]_vars => HostKnown'
  <2> SUFFICES ASSUME HostKnown, [Next]_vars, part' = "host" PROVE HostInv'
    BY DEF HostKnown
  <2>1. HostInv /\ [Host!Next]_hostVars
    BY OnePart DEF HostKnown
  <2>2. CASE Host!Next
    BY <2>1, <2>2, HostStep
  <2>3. CASE UNCHANGED hostVars
    BY <2>1, <2>3, HostUnchanged DEF hostVars, Host!vars
  <2>. QED
    BY <2>1, <2>2, <2>3
<1>. QED
  BY <1>1, <1>2, PTL DEF Spec

\* If the request names each capability once: of every capability its
\* exception alone is reported, or each file it came to once; on a host that
\* stays as it is no file is missing below the limit, and no key that some
\* configuration names is dormant, whatever files, roots and configurations
\* there are (testbed/agent/host_scanners/registry.py, crypto_utils.py).
THEOREM QuietScanAlwaysWhole == ASSUME DistinctRequests PROVE Spec => []QuietScanIsWhole
<1>1. HostKnown => QuietScanIsWhole
  BY HostReported DEF HostKnown, QuietScanIsWhole
<1>. QED
  BY <1>1, HostInvariant, PTL

-----------------------------------------------------------------------------
(* What an agent makes of a configuration.                                 *)

\* The lists of HostConfig are these.
LEMMA ConfigLists ==
    /\ \A s, kept : Config!Keep(s, kept) = Keep(s, kept)
    /\ \A qs : Config!Flat(qs) = Flat(qs)
    /\ \A s : Config!ToSet(s) = Elements(s)
<1>1. \A S : Config!Cardinality(S) = Cardinality(S)
  BY DEF Config!Cardinality, Cardinality
<1>2. \A s, kept : Config!Keep(s, kept) = Keep(s, kept)
  BY DEF Config!Keep, Keep, Config!Cardinality, Cardinality
<1>3. \A s : Config!ToSet(s) = Elements(s)
  BY DEF Config!ToSet, Elements
<1>4. \A qs : Config!PlacesIn(qs) = PlacesIn(qs)
  BY DEF Config!PlacesIn, PlacesIn
<1>5. \A qs, p : Config!UpTo(qs, p) = UpTo(qs, p)
  BY <1>4 DEF Config!UpTo, UpTo
<1>6. \A qs, n : Config!PlaceAt(qs, n) = PlaceAt(qs, n)
  BY <1>1, <1>4, <1>5 DEF Config!PlaceAt, PlaceAt
<1>7. \A qs : Config!Flat(qs) = Flat(qs)
  BY <1>1, <1>4, <1>6 DEF Config!Flat, Flat
<1>. QED
  BY <1>2, <1>3, <1>7

LEMMA ConfigAssumed ==
    /\ ConfigKinds \subseteq {"nginx", "postgresql", "sshd"} /\ MaxLines \in Nat
    /\ Lines \subseteq Config!Line /\ Versions \in Seq(STRING)
    /\ Elements(Versions) \subseteq STRING /\ Elements(Versions) \cap Config!Placeholders = {}
    /\ ServerCerts \cap Elements(Versions) = {}
<1>1. Versions \in Seq(STRING)
  BY ScansAssumption DEF ScansAssumption, Config!ConfigAssumption
<1>2. Elements(Versions) \subseteq STRING
  BY <1>1 DEF Elements
<1>3. Elements(Versions) \cap Config!Placeholders = {} /\ ServerCerts \cap Elements(Versions) = {}
  BY ScansAssumption, ConfigLists DEF ScansAssumption, Config!ConfigAssumption
<1>. QED
  BY <1>1, <1>2, <1>3, ScansAssumption DEF ScansAssumption, Config!ConfigAssumption

LEMMA DistinctElements ==
    ASSUME NEW S, NEW q \in Seq(S)
    PROVE  Config!Distinct(q) \in Seq(S) /\ Elements(Config!Distinct(q)) = Elements(q)
<1> DEFINE firsts == {i \in DOMAIN q : \A j \in DOMAIN q : j < i => q[j] # q[i]}
<1>1. Config!Distinct(q) = Keep(q, firsts)
  BY ConfigLists DEF Config!Distinct
<1>2. Config!Distinct(q) \in Seq(S) /\ Elements(Config!Distinct(q)) = {q[i] : i \in firsts}
  BY <1>1, KeptElements
<1>3. \A i \in DOMAIN q : \E k \in firsts : q[k] = q[i]
  <2> SUFFICES ASSUME NEW i \in DOMAIN q PROVE \E k \in firsts : q[k] = q[i]
    OBVIOUS
  <2> DEFINE same == {j \in DOMAIN q : q[j] = q[i]}
  <2>1. same \subseteq Nat /\ same # {}
    OBVIOUS
  <2>2. PICK k \in same : \A j \in same : k <= j
    <3> HIDE DEF same
    <3>. QED
      BY <2>1, LeastOf, Zenon
  <2>3. \A j \in DOMAIN q : j < k => q[j] # q[k]
    <3> SUFFICES ASSUME NEW j \in DOMAIN q, j < k, q[j] = q[k] PROVE FALSE
      OBVIOUS
    <3>1. j \in same /\ j \in Nat /\ k \in Nat
      BY <2>2
    <3>. QED
      BY <2>2, <3>1
  <2>. QED
    BY <2>2, <2>3
<1>4. Elements(q) = {q[i] : i \in firsts}
  BY <1>3 DEF Elements
<1>. QED
  BY <1>2, <1>4

\* The live lines of some words.
Live(W, t) == {i \in DOMAIN t : t[i].live /\ t[i].word \in W}

LEMMA DirectiveElements ==
    ASSUME NEW W, NEW t \in Seq(Config!Line)
    PROVE  /\ Config!Directives(W, t) = Keep(t, Live(W, t))
           /\ Config!Directives(W, t) \in Seq(Config!Line)
           /\ Elements(Config!Directives(W, t)) = {t[i] : i \in Live(W, t)}
<1>1. Config!Directives(W, t) = Keep(t, Live(W, t))
  BY ConfigLists DEF Config!Directives, Live
<1>2. Live(W, t) \in SUBSET (DOMAIN t)
  BY DEF Live
<1>. QED
  BY <1>1, <1>2, KeptElements

\* Their values.
LEMMA TokenElements ==
    ASSUME NEW W, NEW t \in Seq(Config!Line)
    PROVE  /\ Config!Tokens(W, t) \in Seq(Config!Token)
           /\ \A x : x \in Elements(Config!Tokens(W, t)) <=> \E i \in Live(W, t) : x \in Elements(t[i].tokens)
<1> DEFINE d == Config!Directives(W, t)
           qs == [i \in DOMAIN d |-> d[i].tokens]
<1>1. d \in Seq(Config!Line) /\ Elements(d) = {t[i] : i \in Live(W, t)}
  BY DirectiveElements
<1>2. Config!Tokens(W, t) = Flat(qs)
  BY ConfigLists DEF Config!Tokens
<1> HIDE DEF d
<1>3. DOMAIN qs = DOMAIN d /\ \A i \in DOMAIN d : qs[i] = d[i].tokens
  OBVIOUS
<1>4. qs \in Seq(Seq(Config!Token))
  <2>1. \A i \in DOMAIN d : d[i].tokens \in Seq(Config!Token)
    <3>1. \A i \in DOMAIN d : d[i] \in Config!Line
      BY <1>1
    <3>2. \A l \in Config!Line : l.tokens \in Seq(Config!Token)
      BY DEF Config!Line
    <3>. QED
      BY <3>1, <3>2
  <2>2. DOMAIN d = 1 .. Len(d) /\ Len(d) \in Nat
    BY <1>1
  <2>. QED
    BY <2>1, <2>2
<1> HIDE DEF qs
<1>5. Flat(qs) \in Seq(Config!Token) /\ Elements(Flat(qs)) = UNION {Elements(qs[i]) : i \in DOMAIN qs}
  BY <1>4, FlatElements
<1>6. \A x : x \in Elements(Flat(qs)) <=> \E l \in Elements(d) : x \in Elements(l.tokens)
  <2>1. \A x : x \in Elements(Flat(qs)) <=> \E i \in DOMAIN qs : x \in Elements(qs[i])
    BY <1>5
  <2>2. \A l : l \in Elements(d) <=> \E i \in DOMAIN d : l = d[i]
    BY DEF Elements
  <2>. QED
    BY <1>3, <2>1, <2>2
<1>. QED
  BY <1>1, <1>2, <1>5, <1>6

\* The known names of one sign.
LEMMA SignedElements ==
    ASSUME NEW q \in Seq(Config!Token), NEW b \in BOOLEAN
    PROVE  /\ Config!Named(Config!OfSign(b, Config!OnlyKnown(q))) \in Seq(STRING)
           /\ \A v : v \in Elements(Config!Named(Config!OfSign(b, Config!OnlyKnown(q)))) <=>
                     v \in Elements(Versions) /\ [name |-> v, off |-> b] \in Elements(q)
<1> DEFINE known == {i \in DOMAIN q : q[i].name \in Elements(Versions)}
           r == Config!OnlyKnown(q)
           signed == {i \in DOMAIN r : r[i].off = b}
           s == Config!OfSign(b, r)
<1>1. r \in Seq(Config!Token) /\ Elements(r) = {q[i] : i \in known}
  <2>1. r = Keep(q, known)
    BY ConfigLists DEF Config!OnlyKnown
  <2>. QED
    BY <2>1, KeptElements
<1> HIDE DEF r
<1>2. s \in Seq(Config!Token) /\ Elements(s) = {r[i] : i \in signed}
  <2>1. s = Keep(r, signed)
    BY ConfigLists DEF Config!OfSign
  <2>. QED
    BY <1>1, <2>1, KeptElements
<1> HIDE DEF s
<1>3. \A x : x \in Elements(r) <=> x \in Elements(q) /\ x.name \in Elements(Versions)
  BY <1>1 DEF Elements
<1>4. \A x : x \in Elements(s) <=> x \in Elements(r) /\ x.off = b
  BY <1>2 DEF Elements
<1>5. \A x \in Elements(q) : x = [name |-> x.name, off |-> x.off]
  <2>1. \A x \in Elements(q) : x \in Config!Token
    BY DEF Elements
  <2>2. \A x \in Config!Token : x = [name |-> x.name, off |-> x.off]
    BY DEF Config!Token
  <2>. QED
    BY <2>1, <2>2
<1>6. Config!Named(s) = [i \in DOMAIN s |-> s[i].name]
  BY DEF Config!Named
<1>7. Config!Named(s) \in Seq(STRING)
  <2>1. \A i \in DOMAIN s : s[i].name \in STRING
    <3>1. \A i \in DOMAIN s : s[i] \in Config!Token
      BY <1>2
    <3>2. \A x \in Config!Token : x.name \in STRING
      BY DEF Config!Token
    <3>. QED
      BY <3>1, <3>2
  <2>2. DOMAIN s = 1 .. Len(s) /\ Len(s) \in Nat
    BY <1>2
  <2>. QED
    BY <1>6, <2>1, <2>2
<1>8. \A v : v \in Elements(Config!Named(s)) <=> \E x \in Elements(s) : x.name = v
  BY <1>6 DEF Elements
<1>9. ASSUME NEW v PROVE v \in Elements(Config!Named(s)) <=> v \in Elements(Versions) /\ [name |-> v, off |-> b] \in Elements(q)
  <2>1. v \in Elements(Config!Named(s)) <=> \E x \in Elements(q) : x.name = v /\ v \in Elements(Versions) /\ x.off = b
    BY <1>3, <1>4, <1>8
  <2>2. (\E x \in Elements(q) : x.name = v /\ v \in Elements(Versions) /\ x.off = b) =>
          v \in Elements(Versions) /\ [name |-> v, off |-> b] \in Elements(q)
    BY <1>5
  <2>. QED
    BY <2>1, <2>2
<1>. QED
  BY <1>7, <1>9 DEF r, s

\* A version is enabled if some live line turns it on.
LEMMA EnabledElements ==
    ASSUME NEW t \in Seq(Config!Line)
    PROVE  /\ Config!Enabled(t) \in Seq(STRING)
           /\ \A v : v \in Elements(Config!Enabled(t)) <=>
                     /\ v \in Elements(Versions)
                     /\ \E i \in Live(Config!TlsWords, t) : [name |-> v, off |-> FALSE] \in Elements(t[i].tokens)
<1> DEFINE q == Config!Tokens(Config!TlsWords, t)
           s == Config!Named(Config!OfSign(FALSE, Config!OnlyKnown(q)))
<1>1. /\ q \in Seq(Config!Token)
      /\ \A x : x \in Elements(q) <=> \E i \in Live(Config!TlsWords, t) : x \in Elements(t[i].tokens)
  BY TokenElements
<1>2. Config!Enabled(t) = Config!Distinct(s)
  BY DEF Config!Enabled
<1> HIDE DEF q
<1>3. s \in Seq(STRING) /\ \A v : v \in Elements(s) <=> v \in Elements(Versions) /\ [name |-> v, off |-> FALSE] \in Elements(q)
  BY <1>1, SignedElements
<1> HIDE DEF s
<1>4. Config!Enabled(t) \in Seq(STRING) /\ Elements(Config!Enabled(t)) = Elements(s)
  BY <1>2, <1>3, DistinctElements
<1>. QED
  BY <1>1, <1>3, <1>4

Ciphers == {"ciphers"}
Spellings == {Config!Spelled(x) : x \in Config!Token} \cup STRING

\* A suite is listed if some live line does.
LEMMA SuiteElements ==
    ASSUME NEW t \in Seq(Config!Line)
    PROVE  /\ Config!CipherSuites(t) \in Seq(Spellings)
           /\ \A v : v \in Elements(Config!CipherSuites(t)) <=>
                     \E i \in Live(Ciphers, t) : \E x \in Elements(t[i].tokens) : v = Config!Spelled(x)
<1> DEFINE q == Config!Tokens(Ciphers, t)
           s == [i \in DOMAIN q |-> Config!Spelled(q[i])]
<1>1. /\ q \in Seq(Config!Token)
      /\ \A x : x \in Elements(q) <=> \E i \in Live(Ciphers, t) : x \in Elements(t[i].tokens)
  BY TokenElements
<1>2. Config!CipherSuites(t) = Config!Distinct(s)
  BY DEF Config!CipherSuites, Ciphers
<1> HIDE DEF q
<1>3. s \in Seq(Spellings)
  <2>1. \A i \in DOMAIN q : Config!Spelled(q[i]) \in Spellings
    BY <1>1 DEF Spellings
  <2>2. DOMAIN q = 1 .. Len(q) /\ Len(q) \in Nat
    BY <1>1
  <2> HIDE DEF s
  <2>. QED
    BY <2>1, <2>2 DEF s
<1>4. \A v : v \in Elements(s) <=> \E x \in Elements(q) : v = Config!Spelled(x)
  <2>1. DOMAIN s = DOMAIN q /\ \A i \in DOMAIN q : s[i] = Config!Spelled(q[i])
    OBVIOUS
  <2> HIDE DEF s
  <2>. QED
    BY <2>1 DEF Elements
<1> HIDE DEF s
<1>5. Config!CipherSuites(t) \in Seq(Spellings) /\ Elements(Config!CipherSuites(t)) = Elements(s)
  BY <1>2, <1>3, DistinctElements
<1>. QED
  BY <1>1, <1>4, <1>5

-----------------------------------------------------------------------------
(* Its algorithms.                                                         *)

\* The versions it enables and the suites it lists.
Recorded(t) == Elements(Config!Enabled(t)) \cup Elements(Config!CipherSuites(t))
AlgorithmsIn(t) == Elements(Config!AlgorithmsOf(Config!FindingOf(t)))

\* The agent found a certificate that goes with the file.
WithCert == kind = "postgresql" /\ serverCert # "none"
Says(t) == Config!Policy(t) \/ Config!Refers(t)

\* They are the algorithms of its finding, or it has the algorithm of the
\* certificate, or else a placeholder, alone.
LEMMA TlsAlgorithms ==
    ASSUME kind # "sshd", NEW t \in Seq(Config!Line)
    PROVE  /\ Config!FindingOf(t).is <=> Says(t)
           /\ \/ Recorded(t) # {} /\ AlgorithmsIn(t) = Recorded(t)
              \/ Recorded(t) = {} /\ ~ Says(t) /\ AlgorithmsIn(t) = {}
              \/ /\ Recorded(t) = {} /\ Says(t)
                 /\ \E x : /\ AlgorithmsIn(t) = {x}
                          /\ IF WithCert THEN x = serverCert ELSE x \in Config!Placeholders
<1> DEFINE f == Config!TlsFinding(t)
           e == Config!Enabled(t)
           s == Config!CipherSuites(t)
           all == (<<>> \o e) \o s
<1>1. Config!FindingOf(t) = f
  BY DEF Config!FindingOf
<1>2. e \in Seq(Spellings) /\ s \in Seq(Spellings) /\ <<>> \in Seq(Spellings) /\ Elements(<<>>) = {}
  <2>1. e \in Seq(STRING)
    BY EnabledElements
  <2>2. s \in Seq(Spellings)
    BY SuiteElements
  <2>. QED
    BY <2>1, <2>2 DEF Spellings, Elements
<1>3. Recorded(t) = Elements(e) \cup Elements(s)
  BY DEF Recorded
<1> HIDE DEF e, s
<1>4. all \in Seq(Spellings) /\ Elements(all) = Recorded(t)
  <2>1. <<>> \o e \in Seq(Spellings) /\ Elements(<<>> \o e) = Elements(e)
    BY <1>2, JoinedElements
  <2>. QED
    BY <1>2, <1>3, <2>1, JoinedElements
<1> HIDE DEF all
<1>5. Config!Distinct(all) \in Seq(Spellings) /\ Elements(Config!Distinct(all)) = Recorded(t)
  BY <1>4, DistinctElements
<1>6. CASE ~ Config!Policy(t) /\ ~ Config!Refers(t)
  <2>1. f = Config!NoFinding /\ f.is = FALSE
    BY <1>6 DEF Config!TlsFinding, Config!NoFinding
  <2>2. Config!AlgorithmsOf(f) = <<>>
    BY <2>1 DEF Config!AlgorithmsOf, Config!NoFinding
  <2>3. \A W : Live(W, t) = {}
    BY <1>6 DEF Config!Policy, Live
  <2>4. Elements(e) = {} /\ Elements(s) = {}
    <3>1. \A v : v \notin Elements(e)
      BY <2>3, EnabledElements DEF e
    <3>2. \A v : v \notin Elements(s)
      BY <2>3, SuiteElements DEF s
    <3>. QED
      BY <3>1, <3>2
  <2>. QED
    BY <1>1, <1>2, <1>3, <1>6, <2>1, <2>2, <2>4 DEF AlgorithmsIn, Says
<1>7. CASE Config!Policy(t) \/ Config!Refers(t)
  <2> DEFINE c == Config!Distinct(all)
  <2>1. /\ f.is = TRUE /\ f.versions = e /\ f.suites = s /\ f.kex = <<>>
        /\ f.minimum = Config!Minimum(t) /\ f.algorithm = Config!Stated
    BY <1>7 DEF Config!TlsFinding, e, s
  <2>2. c = Config!Distinct((f.kex \o f.versions) \o f.suites)
    BY <2>1 DEF all
  <2> HIDE DEF f, c
  <2>3. c = <<>> <=> Recorded(t) = {}
    <3>1. c \in Seq(Spellings) /\ Elements(c) = Recorded(t)
      BY <1>5 DEF c
    <3>2. c # <<>> => 1 \in DOMAIN c
      BY <3>1
    <3>3. c = <<>> => Recorded(t) = {}
      BY <1>2, <3>1
    <3>. QED
      BY <3>1, <3>2, <3>3 DEF Elements
  <2>4. CASE c # <<>>
    <3>1. Config!AlgorithmsOf(f) = c
      BY <2>1, <2>2, <2>4 DEF Config!AlgorithmsOf
    <3>. QED
      BY <1>1, <1>5, <1>7, <2>1, <2>3, <2>4, <3>1 DEF AlgorithmsIn, c, Says
  <2>5. CASE c = <<>>
    <3>1. Config!Minimum(t) \in {"none", "TLS config"}
      <4>1. e = <<>>
        <5>1. 1 \notin DOMAIN e
          BY <1>3, <2>3, <2>5 DEF Elements
        <5>. QED
          BY <1>2, <5>1
      <4>. QED
        BY <4>1 DEF Config!Minimum, e
    <3>2. Config!AlgorithmsOf(f) \in {<<f.algorithm>>, <<f.minimum>>, <<"unknown">>}
          /\ (Config!AlgorithmsOf(f) = <<f.algorithm>> => f.algorithm # "none")
          /\ (Config!AlgorithmsOf(f) = <<f.minimum>> => f.minimum # "none")
      BY <2>1, <2>2, <2>5 DEF Config!AlgorithmsOf
    <3>3. \E x : Config!AlgorithmsOf(f) = <<x>> /\ IF WithCert THEN x = serverCert ELSE x \in Config!Placeholders
      <4>1. CASE WithCert
        <5>1. f.algorithm = serverCert /\ f.algorithm # "none"
          BY <2>1, <4>1 DEF Config!Stated, WithCert
        <5>2. Config!AlgorithmsOf(f) = <<serverCert>>
          BY <2>1, <2>2, <2>5, <5>1 DEF Config!AlgorithmsOf
        <5>. QED
          BY <4>1, <5>2
      <4>2. CASE ~ WithCert
        <5>1. f.algorithm \in {"TLS config", "none"}
          BY <2>1, <4>2 DEF Config!Stated, WithCert
        <5>2. Config!AlgorithmsOf(f) \in {<<"TLS config">>, <<"unknown">>}
          BY <2>1, <3>1, <3>2, <5>1
        <5>. QED
          BY <4>2, <5>2 DEF Config!Placeholders
      <4>. QED
        BY <4>1, <4>2
    <3>4. \A z : Elements(<<z>>) = {z}
      BY DEF Elements
    <3>. QED
      BY <1>1, <1>7, <2>1, <2>3, <2>5, <3>3, <3>4 DEF AlgorithmsIn, Says
  <2>. QED
    BY <2>4, <2>5
<1>. QED
  BY <1>6, <1>7

\* What a file records, a longer one does.
LEMMA RecordedGrow ==
    ASSUME NEW t \in Seq(Config!Line), NEW n \in 0 .. Len(t)
    PROVE  /\ SubSeq(t, 1, n) \in Seq(Config!Line) /\ Recorded(SubSeq(t, 1, n)) \subseteq Recorded(t)
           /\ Says(SubSeq(t, 1, n)) => Says(t)
<1> DEFINE u == SubSeq(t, 1, n)
<1>1. u \in Seq(Config!Line) /\ DOMAIN u = 1 .. n /\ DOMAIN t = 1 .. Len(t) /\ Len(t) \in Nat
      /\ \A i \in 1 .. n : u[i] = t[i]
  OBVIOUS
<1> HIDE DEF u
<1>2. \A W : \A i \in Live(W, u) : i \in Live(W, t) /\ u[i] = t[i]
  BY <1>1 DEF Live
<1>3. \A v \in Elements(Config!Enabled(u)) : v \in Elements(Config!Enabled(t))
  BY <1>1, <1>2, EnabledElements
<1>4. \A v \in Elements(Config!CipherSuites(u)) : v \in Elements(Config!CipherSuites(t))
  <2> SUFFICES ASSUME NEW v \in Elements(Config!CipherSuites(u)) PROVE v \in Elements(Config!CipherSuites(t))
    OBVIOUS
  <2>1. PICK i \in Live(Ciphers, u) : \E x \in Elements(u[i].tokens) : v = Config!Spelled(x)
    BY <1>1, SuiteElements
  <2>2. i \in Live(Ciphers, t) /\ \E x \in Elements(t[i].tokens) : v = Config!Spelled(x)
    BY <1>2, <2>1
  <2>. QED
    BY <2>2, SuiteElements
<1>5. Says(u) => Says(t)
  BY <1>1 DEF Says, Config!Policy, Config!Refers
<1>. QED
  BY <1>1, <1>3, <1>4, <1>5 DEF Recorded, u

-----------------------------------------------------------------------------
(* The file as it is edited.                                               *)

\* No cipher of a line is spelled like a version.
CiphersAreNoVersions ==
    \A l \in Lines : l.word = "ciphers" => \A x \in Elements(l.tokens) : Config!Spelled(x) \notin Elements(Versions)

\* A line of the file is one an editor may add, perhaps made a comment.
Added(l) == \E m \in Lines : l.word = m.word /\ l.tokens = m.tokens

ConfigInv == kind \in ConfigKinds /\ serverCert \in ServerCerts /\ text \in Seq(Config!Line) /\ \A i \in DOMAIN text : Added(text[i])

LEMMA ConfigInit == ASSUME Config!Init PROVE ConfigInv
BY DEF Config!Init, ConfigInv

LEMMA ConfigNext == ASSUME ConfigInv, [Config!Next]_configVars PROVE ConfigInv'
<1>1. /\ kind \in ConfigKinds /\ serverCert \in ServerCerts
      /\ text \in Seq(Config!Line) /\ \A i \in DOMAIN text : Added(text[i])
  BY DEF ConfigInv
<1>2. ASSUME NEW l \in Lines, Config!AddLine(l) PROVE ConfigInv'
  <2>1. text' = Append(text, l) /\ kind' = kind /\ serverCert' = serverCert
    BY <1>2 DEF Config!AddLine
  <2>2. l \in Config!Line /\ Added(l)
    BY ConfigAssumed DEF Added
  <2>3. text' \in Seq(Config!Line)
    BY <1>1, <2>1, <2>2
  <2>4. \A i \in DOMAIN text' : Added(text'[i])
    <3>1. \A i \in DOMAIN text' : text'[i] = l \/ (i \in DOMAIN text /\ text'[i] = text[i])
      BY <1>1, <2>1, <2>2
    <3>. QED
      BY <1>1, <2>2, <3>1
  <2>. QED
    BY <1>1, <2>1, <2>3, <2>4 DEF ConfigInv, Added
<1>3. ASSUME NEW i \in DOMAIN text, Config!Comment(i) PROVE ConfigInv'
  <2> DEFINE l == [text[i] EXCEPT !.live = ~@]
  <2>1. text' = [text EXCEPT ![i] = l] /\ kind' = kind /\ serverCert' = serverCert
    BY <1>3 DEF Config!Comment
  <2>2. text[i] \in Config!Line /\ Added(text[i])
    BY <1>1
  <2>3. l \in Config!Line /\ l.word = text[i].word /\ l.tokens = text[i].tokens
    BY <2>2 DEF Config!Line
  <2>4. Added(l)
    BY <2>2, <2>3 DEF Added
  <2> HIDE DEF l
  <2>5. text' \in Seq(Config!Line) /\ \A j \in DOMAIN text' : j \in DOMAIN text /\ (text'[j] = l \/ text'[j] = text[j])
    BY <1>1, <2>1, <2>3
  <2>6. \A j \in DOMAIN text' : Added(text'[j])
    BY <1>1, <2>4, <2>5
  <2>. QED
    BY <1>1, <2>1, <2>5, <2>6 DEF ConfigInv, Added
<1>4. ASSUME NEW c \in ServerCerts, Config!Reissue(c) PROVE ConfigInv'
  BY <1>1, <1>4 DEF Config!Reissue, ConfigInv, Added
<1>5. CASE UNCHANGED configVars
  BY <1>1, <1>5 DEF configVars, ConfigInv, Added
<1>. QED
  BY <1>2, <1>3, <1>4, <1>5 DEF Config!Next

LEMMA VersionsEnabled == ASSUME CiphersAreNoVersions, ConfigInv PROVE Config!AssetIffEnabled
<1> SUFFICES ASSUME kind # "sshd", NEW v \in Elements(Versions)
             PROVE  v \in AlgorithmsIn(text) <=>
                      \E i \in DOMAIN text : /\ text[i].live /\ text[i].word \in Config!TlsWords
                                            /\ [name |-> v, off |-> FALSE] \in Elements(text[i].tokens)
  BY ConfigLists DEF Config!AssetIffEnabled, Config!Algorithms, AlgorithmsIn
<1>1. text \in Seq(Config!Line) /\ \A i \in DOMAIN text : Added(text[i])
  BY DEF ConfigInv
<1>2. v \notin Config!Placeholders /\ v # serverCert
  BY ConfigAssumed DEF ConfigInv
<1>3. v \in AlgorithmsIn(text) <=> v \in Recorded(text)
  BY <1>1, <1>2, TlsAlgorithms
<1>4. v \notin Elements(Config!CipherSuites(text))
  <2> SUFFICES ASSUME v \in Elements(Config!CipherSuites(text)) PROVE FALSE
    OBVIOUS
  <2>1. PICK i \in Live(Ciphers, text) : \E x \in Elements(text[i].tokens) : v = Config!Spelled(x)
    BY <1>1, SuiteElements
  <2>2. i \in DOMAIN text /\ text[i].word = "ciphers"
    BY <2>1 DEF Live, Ciphers
  <2>3. PICK m \in Lines : text[i].word = m.word /\ text[i].tokens = m.tokens
    BY <1>1, <2>2 DEF Added
  <2>. QED
    BY <2>1, <2>2, <2>3 DEF CiphersAreNoVersions
<1>5. v \in AlgorithmsIn(text) <=> v \in Elements(Config!Enabled(text))
  BY <1>3, <1>4 DEF Recorded
<1>. QED
  BY <1>1, <1>5, EnabledElements DEF Live

LEMMA LinesOnlyAdd == ASSUME ConfigInv PROVE Config!LinesAddUp
<1>1. text \in Seq(Config!Line)
  BY DEF ConfigInv
<1>2. \A t : Config!Given(t) = Recorded(t)
  BY ConfigLists DEF Config!Given, Recorded
<1>3. Config!Algorithms = AlgorithmsIn(text) /\ \A n : Config!AlgorithmsAbove(n) = AlgorithmsIn(SubSeq(text, 1, n))
  BY ConfigLists DEF Config!Algorithms, Config!AlgorithmsAbove, AlgorithmsIn
<1> SUFFICES ASSUME kind # "sshd", NEW n \in 0 .. Len(text)
             PROVE  LET lost == AlgorithmsIn(SubSeq(text, 1, n)) \ AlgorithmsIn(text)
                    IN /\ Recorded(SubSeq(text, 1, n)) \subseteq AlgorithmsIn(text)
                       /\ lost # {} => Recorded(SubSeq(text, 1, n)) = {}
                       /\ lost \subseteq Config!Placeholders \cup (IF Recorded(text) = {} THEN {} ELSE {serverCert})
  BY <1>2, <1>3 DEF Config!LinesAddUp
<1> DEFINE u == SubSeq(text, 1, n)
<1>4. u \in Seq(Config!Line) /\ Recorded(u) \subseteq Recorded(text) /\ (Says(u) => Says(text))
  BY <1>1, RecordedGrow
<1> HIDE DEF u
<1>5. Recorded(u) \subseteq AlgorithmsIn(text)
  BY <1>1, <1>4, TlsAlgorithms
<1>6. Recorded(u) # {} => AlgorithmsIn(u) \subseteq AlgorithmsIn(text)
  BY <1>4, <1>5, TlsAlgorithms
<1>7. ASSUME NEW x \in AlgorithmsIn(u), x \notin AlgorithmsIn(text), x \notin Config!Placeholders
      PROVE  x = serverCert /\ Recorded(text) # {}
  <2>1. Recorded(u) = {}
    BY <1>6, <1>7
  <2>2. Says(u) /\ WithCert /\ x = serverCert
    BY <1>4, <1>7, <2>1, TlsAlgorithms
  <2>3. Recorded(text) = {} => AlgorithmsIn(text) = {serverCert}
    BY <1>1, <1>4, <2>2, TlsAlgorithms
  <2>. QED
    BY <1>7, <2>2, <2>3
<1>. QED
  BY <1>5, <1>6, <1>7 DEF u

\* What is kept of a list ends with the last place of it.
LEMMA LastKept ==
    ASSUME NEW S, NEW t \in Seq(S), NEW places \in SUBSET (DOMAIN t),
           NEW m \in places, \A j \in places : j <= m
    PROVE  Keep(t, places) # <<>> /\ Config!Last(Keep(t, places)) = t[m]
<1> DEFINE k == Keep(t, places)
           N == Cardinality(places)
<1>1. /\ N \in Nat /\ k \in Seq(S) /\ Len(k) = N
      /\ \E g \in Bijection(1 .. N, places) : /\ \A n \in 1 .. N : k[n] = t[g[n]]
                                             /\ \A i, n \in 1 .. N : i < n => g[i] < g[n]
  BY Kept
<1> HIDE DEF k, N
<1>2. PICK g \in Bijection(1 .. N, places) : /\ \A n \in 1 .. N : k[n] = t[g[n]]
                                             /\ \A i, n \in 1 .. N : i < n => g[i] < g[n]
  BY <1>1
<1>3. g \in [1 .. N -> places] /\ \E n \in 1 .. N : g[n] = m
  BY <1>2 DEF Bijection, Injection, Surjection
<1>4. PICK n \in 1 .. N : g[n] = m
  BY <1>3
<1>5. places \subseteq Nat
  OBVIOUS
<1>6. n = N
  <2>1. N \in 1 .. N /\ g[N] \in places /\ g[N] <= m
    BY <1>1, <1>3, <1>4
  <2>2. n < N => g[n] < g[N]
    BY <1>2, <2>1
  <2>. QED
    BY <1>1, <1>4, <1>5, <2>1, <2>2
<1>7. k # <<>> /\ k[Len(k)] = t[m]
  BY <1>1, <1>2, <1>4, <1>6
<1>. QED
  BY <1>7 DEF k, Config!Last

\* The last line of sshd's key exchanges is the same from any other on.
LEMMA KexFromLast == ASSUME ConfigInv PROVE Config!KexReplaced
<1> SUFFICES ASSUME kind = "sshd", NEW n \in DOMAIN text, text[n].live, text[n].word = "KexAlgorithms"
             PROVE  Config!AlgorithmsOf(Config!FindingOf(text))
                        = Config!AlgorithmsOf(Config!FindingOf(SubSeq(text, n, Len(text))))
  BY DEF Config!KexReplaced, Config!Algorithms
<1> DEFINE u == SubSeq(text, n, Len(text))
           W == {"KexAlgorithms"}
           L == Live(W, text)
           M == Live(W, u)
<1>1. text \in Seq(Config!Line) /\ DOMAIN text = 1 .. Len(text) /\ Len(text) \in Nat
  BY DEF ConfigInv
<1>2. /\ u \in Seq(Config!Line) /\ DOMAIN u = 1 .. (Len(text) - n + 1)
      /\ \A i \in DOMAIN u : i + n - 1 \in DOMAIN text /\ u[i] = text[i + n - 1]
  BY <1>1
<1> HIDE DEF u
<1>3. n \in L /\ L \in SUBSET (DOMAIN text) /\ M \in SUBSET (DOMAIN u)
  BY DEF Live
<1>4. PICK m \in L : \A j \in L : j <= m
  <2> DEFINE D == {d \in Nat : Len(text) - d \in L}   \* counted from the end
  <2>1. Len(text) - n \in D
    BY <1>1, <1>3
  <2>2. PICK d \in D : \A e \in D : d <= e
    <3>1. D \subseteq Nat /\ D # {}
      BY <2>1
    <3> HIDE DEF D
    <3>. QED
      BY <3>1, LeastOf
  <2>3. \A j \in L : Len(text) - j \in D /\ j \in 1 .. Len(text) /\ (Len(text) - j) \in Nat
    BY <1>1, <1>3
  <2> DEFINE last == Len(text) - d
  <2>4. d \in Nat /\ last \in L
    BY <2>2
  <2>5. ASSUME NEW j \in L PROVE j <= last
    <3>1. d <= Len(text) - j /\ j \in Nat
      BY <2>2, <2>3, <2>5
    <3>. QED
      BY <1>1, <2>4, <3>1
  <2> HIDE DEF D, last
  <2>. QED
    BY <2>4, <2>5
<1>5. m - n + 1 \in M /\ u[m - n + 1] = text[m] /\ \A j \in M : j <= m - n + 1
  <2>1. n <= m /\ m \in DOMAIN text
    BY <1>3, <1>4
  <2>2. m - n + 1 \in DOMAIN u /\ (m - n + 1) + n - 1 = m
    BY <1>1, <1>2, <2>1
  <2>3. u[m - n + 1] = text[m]
    BY <1>2, <2>2
  <2>4. \A j \in M : j + n - 1 \in L
    BY <1>2 DEF Live
  <2>5. \A j \in M : j <= m - n + 1
    BY <1>1, <1>2, <1>3, <1>4, <2>1, <2>4
  <2>. QED
    BY <1>4, <2>2, <2>3, <2>5 DEF Live
<1>6. /\ Config!Directives(W, text) # <<>> /\ Config!Last(Config!Directives(W, text)) = text[m]
      /\ Config!Directives(W, u) # <<>> /\ Config!Last(Config!Directives(W, u)) = text[m]
  <2>1. Config!Directives(W, text) = Keep(text, L) /\ Config!Directives(W, u) = Keep(u, M)
    BY <1>1, <1>2, DirectiveElements
  <2>2. Keep(text, L) # <<>> /\ Config!Last(Keep(text, L)) = text[m]
    BY <1>1, <1>3, <1>4, LastKept
  <2>3. Keep(u, M) # <<>> /\ Config!Last(Keep(u, M)) = u[m - n + 1]
    BY <1>2, <1>3, <1>5, LastKept
  <2>. QED
    BY <1>5, <2>1, <2>2, <2>3
<1>7. Config!SshPolicy("KexAlgorithms", text) = Config!SshPolicy("KexAlgorithms", u)
  BY <1>6 DEF Config!SshPolicy
<1>8. Config!SshFinding(text) = Config!SshFinding(u)
  BY <1>6, <1>7 DEF Config!SshFinding, Config!SshWords
<1>. QED
  BY <1>8 DEF Config!FindingOf, u

LEMMA CommentsIgnored == ASSUME ConfigInv PROVE Config!CommentsSayNothing
<1> DEFINE lines == {i \in DOMAIN text : text[i].live}
           bare == Keep(text, lines)
<1>1. text \in Seq(Config!Line) /\ lines \in SUBSET (DOMAIN text)
  BY DEF ConfigInv
<1>2. bare \in Seq(Config!Line)
  BY <1>1, KeptElements
<1>3. \A W : Config!Directives(W, bare) = Config!Directives(W, text)
  <2> SUFFICES ASSUME NEW W PROVE Config!Directives(W, bare) = Config!Directives(W, text)
    OBVIOUS
  <2>1. Live(W, text) \in SUBSET lines
    BY DEF Live
  <2>2. /\ \A n \in DOMAIN bare : Place(lines, n) \in lines /\ bare[n] = text[Place(lines, n)]
        /\ Keep(bare, {n \in DOMAIN bare : Place(lines, n) \in Live(W, text)}) = Keep(text, Live(W, text))
    <3> HIDE DEF lines
    <3>. QED
      BY <1>1, <2>1, KeptTwice
  <2> HIDE DEF bare
  <2>3. \A n \in DOMAIN bare : Place(lines, n) \in Live(W, text) <=> bare[n].live /\ bare[n].word \in W
    BY <2>2 DEF Live
  <2>4. {n \in DOMAIN bare : Place(lines, n) \in Live(W, text)} = Live(W, bare)
    BY <2>3 DEF Live
  <2>5. Config!Directives(W, bare) = Keep(bare, Live(W, bare)) /\ Config!Directives(W, text) = Keep(text, Live(W, text))
    BY <1>1, <1>2, DirectiveElements
  <2>. QED
    BY <2>2, <2>4, <2>5
<1>4. Config!Keep(text, lines) = bare
  BY ConfigLists
<1> HIDE DEF bare, lines
<1>5. \A W : Config!Tokens(W, bare) = Config!Tokens(W, text)
  BY <1>3 DEF Config!Tokens
<1>6. /\ Config!Enabled(text) = Config!Enabled(bare) /\ Config!Disabled(text) = Config!Disabled(bare)
      /\ Config!CipherSuites(text) = Config!CipherSuites(bare)
  <2>1. Config!Enabled(text) = Config!Enabled(bare) /\ Config!Disabled(text) = Config!Disabled(bare)
    BY <1>5 DEF Config!Enabled, Config!Disabled
  <2>2. Config!CipherSuites(text) = Config!CipherSuites(bare)
    BY <1>5 DEF Config!CipherSuites
  <2>. QED
    BY <2>1, <2>2
<1>7. \A w \in Config!SshWords : Config!SshPolicy(w, text) = Config!SshPolicy(w, bare)
  BY <1>3 DEF Config!SshPolicy
<1>. QED
  BY <1>4, <1>6, <1>7 DEF Config!CommentsSayNothing, lines

ConfigKnown == part = "config" => ConfigInv

LEMMA ConfigInvariant == Spec => []ConfigKnown
<1>1. Init => ConfigKnown
  BY FirstPart, ConfigInit DEF ConfigKnown
<1>2. ConfigKnown /\ [Next]_vars => ConfigKnown'
  BY OnePart, ConfigNext DEF ConfigKnown
<1>. QED
  BY <1>1, <1>2, PTL DEF Spec

\* Whatever lines are added and made comments of, and whatever certificates
\* the server gets: a TLS version becomes an asset if some line turns it on,
\* and only then, provided that no cipher has the name of a version; the
\* versions and suites of the lines above stay, and what a line takes away is a
\* placeholder or the algorithm of the certificate, while no line gave
\* anything; a line of key exchanges takes the place of those above it; and a
\* comment says nothing (host_scanners/crypto_utils.py parse_tls_config_policy,
\* parse_ssh_config_algorithms, host_scanners/registry.py _app_config_finding,
\* jobs/agent_asset_mapper.py).
THEOREM PolicyAlwaysAsWritten == ASSUME CiphersAreNoVersions PROVE Spec => []PolicyAsWritten
<1>1. ConfigKnown => PolicyAsWritten
  BY VersionsEnabled, LinesOnlyAdd, KexFromLast, CommentsIgnored DEF ConfigKnown, PolicyAsWritten
<1>. QED
  BY <1>1, ConfigInvariant, PTL
=============================================================================
