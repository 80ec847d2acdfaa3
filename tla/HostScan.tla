------------------------------ MODULE HostScan ------------------------------
(***************************************************************************)
(* A host agent answers one POST /scan: capability by capability it walks  *)
(* its roots and reads file after file, while the host goes on: files are  *)
(* replaced, locked and removed, and configurations come to name other     *)
(* keys.  A key no configuration names is reported dormant.                *)
(***************************************************************************)
EXTENDS Naturals, FiniteSets, SequencesExt, Lists

CONSTANTS
    Files,       \* certificate and key files, and keystores
    Base,        \* Base[f]: the name of the file without its directory
    HostKeys,    \* the keys /etc/ssh/ssh_host_*_key
    Roots,       \* Roots[c]: for each root of a capability the files below it, in the order of rglob
    Requests,    \* sequences of capabilities that may be asked for
    Supported,   \* AGENT_CAPABILITIES
    MaxFiles,    \* max_files_per_capability
    Forms,       \* how a configuration may name a key
    MaxChanges   \* bound: changes of the host during the scan

\* iter_files, root after root.
Below(c) == FlattenSeq(Roots[c])

HostAssumption ==
    /\ HostKeys \subseteq Files /\ MaxFiles \in Nat /\ MaxChanges \in Nat /\ "none" \notin Files
    /\ \A c \in Supported : Below(c) \in Seq(Files)
    /\ \A r \in Requests : r \in Seq(ToSet(r))
    /\ Forms \subseteq {"absolute", "relative", "assigned", "comment"}

VARIABLES
    disk,     \* disk[f]: "good", "junk" (cannot be parsed), "locked" (cannot be read) or "gone"
    config,   \* the keys the configurations name: {[form, file]}
    scan,     \* the request: [pc, asked, todo, left, seen, file, referenced, held, findings, errors]
    changes

vars == <<disk, config, scan, changes>>

States == {"good", "junk", "locked", "gone"}
References == [form : Forms, file : Files]
Keys == "keys"
NoRefs == [paths |-> {}, names |-> {}]

Init ==
    /\ disk \in [Files -> States \ {"gone"}]
    /\ config \in {s \in SUBSET References : Cardinality(s) <= 2}
    /\ \E r \in Requests :
         scan = [pc |-> "next", asked |-> r, todo |-> r, left |-> <<>>, seen |-> {}, file |-> "none", referenced |-> NoRefs,
                 held |-> <<>>, findings |-> <<>>, errors |-> <<>>]
    /\ changes = 0

Capability == Head(scan.todo)

-----------------------------------------------------------------------------
\* run_host_scan: an unsupported capability is noted and the next one taken.
Refuse ==
    /\ scan.pc = "next" /\ scan.todo # <<>> /\ Capability \notin Supported
    /\ scan' = [scan EXCEPT !.todo = Tail(@), !.errors = Append(@, [of |-> Capability, file |-> "none", why |-> "unsupported"])]
    /\ UNCHANGED <<disk, config, changes>>

ReadReferences ==
    [paths |-> {r.file : r \in {x \in config : x.form \in {"absolute", "comment"}}},
     names |-> {Base[r.file] : r \in {x \in config : x.form # "assigned"}}]

Begin ==
    /\ scan.pc = "next" /\ scan.todo # <<>> /\ Capability \in Supported
    /\ scan' = [scan EXCEPT !.pc = "walk", !.left = Below(Capability), !.seen = {}, !.held = <<>>,
                            !.referenced = IF Capability = Keys THEN ReadReferences ELSE NoRefs]
    /\ UNCHANGED <<disk, config, changes>>

-----------------------------------------------------------------------------
WalkFull == scan.left = <<>> \/ Cardinality(scan.seen) >= MaxFiles

Passed(f) == disk[f] = "gone" \/ f \in scan.seen

SkipNothing == FALSE   \* fault: a file that is gone is waited for
Skip ==
    /\ scan.pc = "walk" /\ ~WalkFull /\ Passed(Head(scan.left))
    /\ scan' = [scan EXCEPT !.left = Tail(@)]
    /\ UNCHANGED <<disk, config, changes>>

Yield ==
    /\ scan.pc = "walk" /\ ~WalkFull /\ ~Passed(Head(scan.left))
    /\ scan' = [scan EXCEPT !.pc = "parse", !.file = Head(scan.left), !.left = Tail(@), !.seen = @ \cup {Head(scan.left)}]
    /\ UNCHANGED <<disk, config, changes>>

-----------------------------------------------------------------------------
\* The file is read a second time by its parser: parse_certificate_metadata
\* fails softly, whatever the reason; parse_private_key_metadata and
\* read_json_or_kv open the file when openssl gave nothing, and raise if they
\* cannot.
Raises(f) == Capability \in {Keys, "keystore"} /\ disk[f] \in {"locked", "gone"}
Parsed(f) == disk[f] = "good"

InUse(f) == f \in scan.referenced.paths \/ Base[f] \in scan.referenced.names \/ f \in HostKeys

Finding(f) == [of |-> Capability, file |-> f, dormant |-> Capability = Keys /\ ~InUse(f)]
Failure(f) == [of |-> Capability, file |-> f, why |-> "parse_failed"]

Find ==
    /\ scan.pc = "parse" /\ Parsed(scan.file)
    /\ scan' = [scan EXCEPT !.pc = "walk", !.held = Append(@, Finding(scan.file)), !.file = "none"]
    /\ UNCHANGED <<disk, config, changes>>

Unfound == scan.pc = "parse" /\ ~Parsed(scan.file) /\ ~Raises(scan.file)

FailSilently ==   \* fault: the file is passed over without an error
    /\ Unfound /\ scan' = [scan EXCEPT !.pc = "walk", !.file = "none"]
    /\ UNCHANGED <<disk, config, changes>>
Fail ==
    /\ Unfound /\ scan' = [scan EXCEPT !.pc = "walk", !.held = Append(@, Failure(scan.file)), !.file = "none"]
    /\ UNCHANGED <<disk, config, changes>>

IsFailure(x) == "why" \in DOMAIN x

\* An exception of the scanner: what it held is lost.
Raise ==
    /\ scan.pc = "parse" /\ Raises(scan.file)
    /\ scan' = [scan EXCEPT !.pc = "next", !.todo = Tail(@), !.file = "none", !.held = <<>>,
                            !.errors = Append(@, [of |-> Capability, file |-> "none", why |-> "exception"])]
    /\ UNCHANGED <<disk, config, changes>>

Finish ==
    /\ scan.pc = "walk" /\ WalkFull
    /\ scan' = [scan EXCEPT !.pc = "next", !.todo = Tail(@), !.held = <<>>,
                            !.findings = @ \o Keep(scan.held, {i \in DOMAIN scan.held : ~IsFailure(scan.held[i])}),
                            !.errors = @ \o Keep(scan.held, {i \in DOMAIN scan.held : IsFailure(scan.held[i])})]
    /\ UNCHANGED <<disk, config, changes>>

Refuses == \E i \in DOMAIN scan.errors : scan.errors[i].why = "unsupported"
Reply ==
    /\ scan.pc = "next" /\ scan.todo = <<>>
    /\ scan' = [scan EXCEPT !.pc = IF Refuses THEN "400" ELSE "200"]
    /\ UNCHANGED <<disk, config, changes>>

-----------------------------------------------------------------------------
\* The host: packages, rotations and administrators.
ChangeFile(f, s) ==
    /\ changes < MaxChanges /\ disk[f] # s
    /\ disk' = [disk EXCEPT ![f] = s] /\ changes' = changes + 1
    /\ UNCHANGED <<config, scan>>

ChangeConfig(r) ==
    /\ changes < MaxChanges /\ changes' = changes + 1
    /\ config' = IF r \in config THEN config \ {r} ELSE config \cup {r}
    /\ UNCHANGED <<disk, scan>>

Step == Refuse \/ Begin \/ Skip \/ Yield \/ Find \/ Fail \/ Raise \/ Finish \/ Reply
Next ==
    \/ Step
    \/ scan.pc \notin {"200", "400"} /\ \E f \in Files : \E s \in States : ChangeFile(f, s)
    \/ scan.pc \notin {"200", "400"} /\ \E r \in References : ChangeConfig(r)

Spec == Init /\ [][Next]_vars /\ WF_vars(Step)

-----------------------------------------------------------------------------
Answered == scan.pc \in {"200", "400"}

TypeOK ==
    /\ disk \in [Files -> States] /\ config \subseteq References /\ changes \in 0 .. MaxChanges
    /\ scan.pc \in {"next", "walk", "parse", "200", "400"}
    /\ Cardinality(scan.seen) <= MaxFiles /\ Len(scan.held) <= Cardinality(scan.seen)

\* registry.py:52-58: of a capability that raised nothing is reported but the
\* exception; of any other each file it came to is reported once, as a finding
\* or as an error.
Of(c, rows) == {i \in DOMAIN rows : rows[i].of = c}
Reported(c) == Keep(scan.findings, Of(c, scan.findings)) \o Keep(scan.errors, Of(c, scan.errors))
EachFileOnce ==
    \A c \in Supported :
        LET r == Reported(c)
        IN \/ \E i \in DOMAIN r : r[i].file = "none" /\ Len(r) = 1
           \/ \A i, j \in DOMAIN r : r[i].file # "none" /\ (i # j => r[i].file # r[j].file)

\* Of a host that does not change every file below the roots is reported,
\* unless its capability raised or met its limit.
QuietScanIsWhole ==
    scan.pc = "200" /\ changes = 0 =>
        \A c \in Supported \cap ToSet(scan.asked) :
            LET files == {Reported(c)[i].file : i \in DOMAIN Reported(c)}
            IN "none" \in files \/ Cardinality(files) = MaxFiles \/ files = ToSet(Below(c))

\* registry.py:182-184: a key that some configuration names by its path or by
\* its name alone is not dormant, on a host that does not change.
NamedKeyIsInUse ==
    changes = 0 => \A i \in DOMAIN scan.findings : \A r \in config :
        scan.findings[i].dormant => r.file # scan.findings[i].file \/ r.form = "assigned"

=============================================================================
