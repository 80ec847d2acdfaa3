--------------------------- MODULE NetworkParsers --------------------------
(***************************************************************************)
(* What the network scanner makes of the bytes of a server: the nested     *)
(* lengths of an IKE answer, the strings of an SSH host key, the text of a *)
(* certificate.  Every length field may hold anything; each is read once,  *)
(* so what it holds is chosen when it is read.                             *)
(***************************************************************************)
EXTENDS Naturals, FiniteSets, Sequences

CONSTANTS
    Sizes,    \* sizes of an answer, in bytes
    Lengths,  \* values of a length field
    Ids       \* transform ids, known ones and others

ParserAssumption == Sizes \subseteq Nat /\ Lengths \subseteq Nat

VARIABLES
    pc,
    size,     \* bytes of the answer
    next,     \* next_payload, or the algorithm of an SSH key
    cursor,   \* where the next payload or SSH string begins
    body,     \* [at, end]: the SA payload and its next proposal
    proposal, \* [at, end, read]: the proposal, its next transform, whether it read one
    attr,     \* [at, end, read]: the attributes of a transform, whether it is the last
    found     \* candidates: type of transform, family by name, family given

vars == <<pc, size, next, cursor, body, proposal, attr, found>>

SA == 33
Nothing == [at |-> 0, end |-> 0, read |-> FALSE]

(***************************************************************************)
(* family_from_algorithm: an algorithm is the set of the markers its name  *)
(* contains, the first rule that knows one of them decides.                *)

Rules == << <<{"ML-KEM", "MLKEM"}, "ML-KEM">>, <<{"ML-DSA", "MLDSA"}, "ML-DSA">>, <<{"SLH-DSA"}, "SLH-DSA">>,
            <<{"ECDSA", "P-256", "P-384", "P-521", "SECP"}, "ECDSA">>, <<{"ED25519", "ED448"}, "EdDSA">>,
            <<{"RSA"}, "RSA">>, <<{"HMAC"}, "HMAC">>, <<{"MODP", "GROUP14", "DIFFIE-HELLMAN"}, "DH">>,
            <<{"ECDH", "X25519", "X448", "CURVE25519", "CURVE448", "ECP-"}, "ECDH">>,
            <<{"AES"}, "AES">>, <<{"CHACHA"}, "ChaCha20">> >>

Family(markers) ==
    LET fits == {i \in DOMAIN Rules : Rules[i][1] \cap markers # {}}
    IN IF fits = {} THEN "" ELSE Rules[CHOOSE i \in fits : \A j \in fits : i <= j][2]

\* _ike_algorithm: the markers of the name of a transform.
IkeAlgorithm(type, id) ==
    CASE type = 1 -> IF id \in {12, 13, 18, 19, 20} THEN {"AES"} ELSE IF id = 28 THEN {"CHACHA"} ELSE {}
      [] type = 2 -> IF id \in {2, 5, 6, 7} THEN {"HMAC"} ELSE {}
      [] type = 3 -> IF id \in {2, 12, 13, 14} THEN {"HMAC"} ELSE {}
      [] type = 4 -> (CASE id \in {14, 15, 16} -> {"MODP"}
                       [] id = 19 -> {"ECP-", "P-256"} [] id = 20 -> {"ECP-", "P-384"} [] id = 21 -> {"ECP-", "P-521"}
                       [] id = 31 -> {"CURVE25519"} [] id = 32 -> {"CURVE448"}
                       [] OTHER -> {})
      [] OTHER -> {}

IkeCandidate(type, id) ==
    [type |-> type, family |-> Family(IkeAlgorithm(type, id)), given |-> Family(IkeAlgorithm(type, id))]
Recognised(type, id) == IF type = 5 THEN {} ELSE {IkeCandidate(type, id)}
KeyCandidate(markers, family) == [type |-> 0, family |-> Family(markers), given |-> family]

-----------------------------------------------------------------------------
Init ==
    /\ pc \in {"ike", "ssh", "certificate"} /\ size \in Sizes
    /\ next = 0 /\ cursor = 0 /\ found = {}
    /\ body = Nothing /\ proposal = Nothing /\ attr = Nothing

Done == pc' = "done"

(***************************************************************************)
(* IKE.                                                                    *)

\* The prefix of NAT-T is taken off, and so are four zeros an SPI begins with.
Header ==
    /\ pc = "ike"
    /\ \E offset \in {0, 4}, mine \in BOOLEAN :
         IF size < offset + 28 \/ ~ mine
         THEN Done /\ UNCHANGED <<next, cursor>>
         ELSE pc' = "payload" /\ cursor' = offset + 28 /\ next' \in {0, SA, 34}
    /\ UNCHANGED <<size, body, proposal, attr, found>>

ReadPayload ==
    /\ pc = "payload" /\ next # 0 /\ cursor + 4 <= size
    /\ \E length \in Lengths :
         IF length < 4 \/ cursor + length > size
         THEN Done /\ UNCHANGED <<next, cursor, body, proposal>>
         ELSE /\ cursor' = cursor + length /\ next' \in {0, SA, 34}
              /\ IF next = SA
                 THEN /\ pc' = "proposal" /\ body' = [Nothing EXCEPT !.at = cursor + 4, !.end = cursor + length]
                      /\ proposal' = Nothing
                 ELSE UNCHANGED <<pc, body, proposal>>
    /\ UNCHANGED <<size, attr, found>>

NoPayload ==
    /\ pc = "payload" /\ (next = 0 \/ cursor + 4 > size)
    /\ Done /\ UNCHANGED <<size, next, cursor, body, proposal, attr, found>>

\* The size of the SPI moves the transforms and may move them past the end.
ReadProposal ==
    /\ pc = "proposal" /\ body.at + 8 <= body.end
    /\ \E length \in Lengths, spi \in Lengths :
         IF length < 8 \/ body.at + length > body.end
         THEN pc' = "payload" /\ UNCHANGED <<body, proposal>>
         ELSE /\ pc' = "transform" /\ body' = [body EXCEPT !.at = @ + length]
              /\ proposal' = [at |-> body.at + 8 + spi, end |-> body.at + length, read |-> FALSE]
    /\ UNCHANGED <<size, next, cursor, attr, found>>

NoProposal ==
    /\ pc = "proposal" /\ body.at + 8 > body.end
    /\ pc' = "payload" /\ UNCHANGED <<size, next, cursor, body, proposal, attr, found>>

Advance(length, last) ==
    /\ proposal' = [proposal EXCEPT !.at = @ + length, !.read = TRUE]
    /\ pc' = IF last THEN "proposal" ELSE "transform"

ReadTransformLoose ==   \* fault: a transform is measured by the payload
    /\ pc = "transform" /\ proposal.at + 8 <= proposal.end
    /\ \E length \in Lengths, last \in BOOLEAN :
         /\ length >= 8 /\ proposal.at + length <= size
         /\ Advance(length, last)
    /\ UNCHANGED <<size, next, cursor, body, attr, found>>

\* The attributes are read of an encryption transform.
ReadTransform ==
    /\ pc = "transform" /\ proposal.at + 8 <= proposal.end
    /\ \E length \in Lengths, last \in BOOLEAN, type \in 1..5, id \in Ids :
         IF length < 8 \/ proposal.at + length > proposal.end
         THEN pc' = "proposal" /\ UNCHANGED <<proposal, attr, found>>
         ELSE /\ proposal' = [proposal EXCEPT !.at = @ + length, !.read = TRUE]
              /\ pc' = IF type = 1 THEN "attributes" ELSE IF last THEN "proposal" ELSE "transform"
              /\ attr' = IF type = 1 THEN [at |-> proposal.at + 8, end |-> proposal.at + length, read |-> last]
                         ELSE attr
              /\ found' = found \cup Recognised(type, id)
    /\ UNCHANGED <<size, next, cursor, body>>

NoTransform ==
    /\ pc = "transform" /\ proposal.at + 8 > proposal.end
    /\ pc' = "proposal" /\ UNCHANGED <<size, next, cursor, body, proposal, attr, found>>

AfterAttributes == pc' = IF attr.read THEN "proposal" ELSE "transform"

\* _ike_key_length: a fixed attribute takes four bytes, any other its length more.
ReadAttribute ==
    /\ pc = "attributes"
    /\ \/ /\ attr.at + 4 <= attr.end
          /\ \E fixed \in BOOLEAN, value \in Lengths : attr' = [attr EXCEPT !.at = @ + 4 + (IF fixed THEN 0 ELSE value)]
          /\ UNCHANGED pc
       \/ AfterAttributes /\ UNCHANGED attr   \* the key length, or no more of them
    /\ UNCHANGED <<size, next, cursor, body, proposal, found>>

(***************************************************************************)
(* SSH host keys: _read_ssh_string for each field the algorithm has.       *)

SshAlgorithms == [fields : {3}, markers : {{"RSA"}}, family : {"RSA"}]
                 \cup [fields : {2}, markers : {{"ECDSA", "P-256"}, {"ECDSA"}}, family : {"ECDSA"}]
                 \cup [fields : {1}, markers : {{"ED25519"}}, family : {"EdDSA"}]

\* An unknown algorithm or a truncated string makes no candidate.
ReadString ==
    /\ pc = "ssh" /\ next > 0
    /\ \/ Done /\ (cursor + 4 > size \/ \E length \in Lengths : cursor + 4 + length > size) /\ UNCHANGED <<next, cursor>>
       \/ /\ \E length \in Lengths : cursor + 4 + length <= size /\ cursor' = cursor + 4 + length
          /\ next' = next - 1 /\ UNCHANGED pc
    /\ UNCHANGED <<size, body, proposal, attr, found>>

\* found holds the candidate until its fields are read.
BeginKey ==
    /\ pc = "ssh" /\ next = 0 /\ found = {}
    /\ \/ \E x \in SshAlgorithms : /\ next' = x.fields /\ found' = {KeyCandidate(x.markers, x.family)}
                                   /\ UNCHANGED pc
       \/ Done /\ UNCHANGED <<next, found>>
    /\ UNCHANGED <<size, cursor, body, proposal, attr>>

EndKey ==
    /\ pc = "ssh" /\ next = 0 /\ found # {}
    /\ pc' = "key" /\ UNCHANGED <<size, next, cursor, body, proposal, attr, found>>

(***************************************************************************)
(* Certificates: the algorithm and family _parse_openssl_certificate_text  *)
(* gives, or none, and then those of the words "X.509 certificate".        *)

CertificateKinds == {<<{"RSA"}, "RSA">>, <<{"ECDSA"}, "ECDSA">>, <<{"ECDSA", "P-256"}, "ECDSA">>,
                     <<{"ECDSA", "SECP"}, "ECDSA">>, <<{"ED25519"}, "EdDSA">>, <<{}, "">>}

ParseCertificate ==
    /\ pc = "certificate"
    /\ Done /\ \E x \in CertificateKinds : found' = {KeyCandidate(x[1], x[2])}
    /\ UNCHANGED <<size, next, cursor, body, proposal, attr>>

-----------------------------------------------------------------------------
Ike == Header \/ ReadPayload \/ NoPayload \/ ReadProposal \/ NoProposal \/ ReadTransform \/ NoTransform \/ ReadAttribute
Next == Ike \/ BeginKey \/ ReadString \/ EndKey \/ ParseCertificate

Spec == Init /\ [][Next]_vars
LiveSpec == Spec /\ WF_vars(Next)

-----------------------------------------------------------------------------
(* Properties.                                                             *)

TypeOK ==
    /\ pc \in {"ike", "payload", "proposal", "transform", "attributes", "ssh", "key", "certificate", "done"}
    /\ size \in Sizes /\ cursor \in Nat /\ next \in Nat
    /\ \A x \in found : x.type \in 0..4

\* Code: the checks of every loop (network_scanner.py:848).  Whatever the
\* length fields hold, a transform ends within its proposal, a proposal within
\* its payload, a payload or the string of a key within the answer.
LengthsNest ==
    /\ cursor <= size
    /\ pc \in {"proposal", "transform", "attributes"} => body.at <= body.end /\ body.end <= size
    /\ pc \in {"transform", "attributes"} => proposal.end <= body.at /\ (proposal.read => proposal.at <= proposal.end)
    /\ pc = "attributes" => attr.end <= proposal.at

\* Code: the same checks.  No length of zero keeps a loop in place.
ParsingEnded == pc \in {"done", "key"}

\* Code: the parsers of keys and certificates give a family
\* (network_scanner.py:706), other code derives it from the name: both agree.
FamiliesAgree == \A x \in found : x.given = x.family

=============================================================================
