---------------------------- MODULE AcquisitionLedger ----------------------------
(***************************************************************************)
(* The acquisition ledger (opencritique_acquisition): which sources are    *)
(* imported into the corpus, under which grant.  Operators run commands on *)
(* one JSON file; a command reads it, computes the new ledger and writes   *)
(* the file, and nothing locks the file in between.  The approved-profile  *)
(* importer first compares a profile with the manuscript and the rights    *)
(* record on disk, which maintainers change.                               *)
(***************************************************************************)
EXTENDS Integers, FiniteSets, FiniteSetsExt, Functions

CONSTANTS
    Sources,        \* source ids
    Operators,      \* who runs commands, each one command at a time
    Profiles,       \* approved profiles an operator may present
    Texts,          \* contents of the manuscript file
    Records,        \* contents of the rights record file
    Reasons,        \* reasons given for a withdrawal, possibly ""
    MaxCommands,    \* bound: commands ever run
    MaxEdits        \* bound: changes of manuscript and record

None == [kind |-> "none"]
NoText == "missing"
Absent == [kind |-> "absent"]
Torn == [kind |-> "torn"]

AcquisitionAssumption ==
    /\ IsFiniteSet(Sources)
    /\ {MaxCommands, MaxEdits} \subseteq Nat
    /\ \A p \in Profiles : p.source \in Sources /\ p.kind \in {"sample", "natural"}

VARIABLES
    ledger,         \* the file: Absent, Torn, or the last ledger written
    working,        \* per operator: the ledger about to be written, or None
    text, record,   \* manuscript and rights record on disk
    ever,           \* source ids some finished command recorded
    cleared,        \* <<text, kind>> of every import a record on disk allowed
    commands, edits

vars == <<ledger, working, text, record, ever, cleared, commands, edits>>

-----------------------------------------------------------------------------
(* What the validators of a source and of a ledger accept. *)

Closed == {"withdrawn", "cancelled"}

ValidSource(s) ==
    /\ s.status = "imported" => s.use /\ s.cases >= 1 /\ s.grant
    /\ s.status # "imported" => s.cases = 0
    /\ s.redistribution => s.license
    /\ s.status \in Closed => s.reason # ""

Total(sources) ==
    MapThenSumSet(LAMBDA s : sources[s].cases, {s \in DOMAIN sources : sources[s].status = "imported"})

LedgerOf(sources, claims) ==
    [kind |-> "ledger", sources |-> sources, total |-> Total(sources), claims |-> claims]

Empty == LedgerOf([s \in {} |-> None], FALSE)

ValidLedger(l) ==
    /\ \A s \in DOMAIN l.sources : ValidSource(l.sources[s])
    /\ l.total = Total(l.sources)
    /\ l.claims => l.total > 0

(* Variant: a file that does not load is no ledger yet. *)
ReadableOrNew == IF ledger.kind # "ledger" THEN {Empty} ELSE {l \in {ledger} : ValidLedger(l)}

(* The ledger a command starts from; none when the file does not load. *)
Readable == IF ledger = Absent THEN {Empty} ELSE {l \in {ledger} : l # Torn /\ ValidLedger(l)}

-----------------------------------------------------------------------------
(* The commands: read, check, compute.  A refused command changes nothing. *)

Idle(o) == working[o] = None /\ commands < MaxCommands

Hold(o, l) ==
    /\ working' = [working EXCEPT ![o] = l]
    /\ commands' = commands + 1
    /\ UNCHANGED <<ledger, text, record, ever, edits>>

Put(sources, s, source) == [t \in DOMAIN sources \cup {s} |-> IF t = s THEN source ELSE sources[t]]

ImportedAs(origin, cases, licensed, granted) ==
    [status |-> "imported", origin |-> origin, cases |-> cases, license |-> licensed, grant |-> granted,
     use |-> TRUE, redistribution |-> TRUE, reason |-> ""]

(* Variant: an id is taken only while it is imported. *)
FreeUnlessImported(l, s) == s \in DOMAIN l.sources => l.sources[s].status # "imported"

Free(l, s) == s \notin DOMAIN l.sources

(* import_source, and the refusal of its callers to persist claims. *)
AddSource(o, l, s, source) ==
    /\ Free(l, s) /\ ValidSource(source) /\ ~l.claims
    /\ Hold(o, LedgerOf(Put(l.sources, s, source), l.claims))

Import(o, s) ==
    /\ Idle(o)
    /\ \E l \in Readable, cases \in 1..2, licensed, granted \in BOOLEAN :
         AddSource(o, l, s, ImportedAs("command", cases, licensed, granted))
    /\ UNCHANGED cleared

(* profile_consistency *)
ValidProfile(p) ==
    /\ p.use
    /\ p.natural = (p.kind = "natural")
    /\ p.kind = "natural" => p.redistribution /\ ~p.public

VerifyManuscriptHash(p) == text # NoText /\ text = p.text

VerifyRightsRecord(p) ==
    IF ~p.recorded THEN p.kind # "natural"
    ELSE /\ record # None
         /\ record.case = p.case /\ record.text = p.text
         /\ record.use /\ ~record.claims
         /\ record.natural = (p.kind = "natural")

(* import_approved_profile; a dry run stops before anything is written. *)
ImportProfile(o, p) ==
    /\ Idle(o)
    /\ ValidProfile(p) /\ VerifyManuscriptHash(p) /\ VerifyRightsRecord(p)
    /\ \E l \in Readable :
         /\ p.source \in DOMAIN l.sources => l.sources[p.source].status # "imported"
         /\ AddSource(o, l, p.source, ImportedAs(p.kind, 1, TRUE, TRUE))
    /\ UNCHANGED cleared

Closing(source, status, reason) ==
    [source EXCEPT !.status = status, !.cases = 0, !.use = FALSE, !.redistribution = FALSE, !.reason = reason]

Close(o, s, status) ==
    /\ Idle(o) /\ ledger # Absent
    /\ \E l \in Readable, reason \in Reasons :
         /\ s \in DOMAIN l.sources
         /\ Hold(o, LedgerOf(Put(l.sources, s, Closing(l.sources[s], status, reason)), FALSE))
    /\ UNCHANGED cleared

Withdraw(o, s) == Close(o, s, "withdrawn")
Cancel(o, s) == Close(o, s, "cancelled")

-----------------------------------------------------------------------------
(* Writing the file; a crash may leave it cut short. *)

SaveLedger(o) ==
    /\ working[o] # None
    /\ ledger' = working[o]
    /\ ever' = ever \cup DOMAIN working[o].sources
    /\ working' = [working EXCEPT ![o] = None]
    /\ UNCHANGED <<text, record, cleared, commands, edits>>

Crash(o) ==
    /\ working[o] # None
    /\ ledger' \in {ledger, Torn}
    /\ working' = [working EXCEPT ![o] = None]
    /\ UNCHANGED <<text, record, ever, cleared, commands, edits>>

(* Maintainers place manuscripts and rights records. *)
Edit ==
    /\ edits < MaxEdits
    /\ \/ text' \in Texts \ {text} /\ UNCHANGED record
       \/ record' \in Records \ {record} /\ UNCHANGED text
    /\ cleared' = cleared \cup
         (IF record' # None /\ text' # NoText /\ record'.use /\ record'.text = text'
          THEN {<<text', IF record'.natural THEN "natural" ELSE "sample">>} ELSE {})
    /\ edits' = edits + 1
    /\ UNCHANGED <<ledger, working, ever, commands>>

(* A source under discovery is entered by hand, between commands. *)
Curate(s) ==
    /\ \A o \in Operators : working[o] = None
    /\ ledger.kind = "ledger" /\ s \notin DOMAIN ledger.sources
    /\ commands < MaxCommands
    /\ ledger' = LedgerOf(Put(ledger.sources, s, [ImportedAs("hand", 0, TRUE, FALSE) EXCEPT !.status = "discovered"]), ledger.claims)
    /\ ever' = ever \cup {s}
    /\ commands' = commands + 1
    /\ UNCHANGED <<working, text, record, cleared, edits>>

Init ==
    /\ ledger = Absent
    /\ working = [o \in Operators |-> None]
    /\ text = NoText /\ record = None
    /\ ever = {} /\ cleared = {}
    /\ commands = 0 /\ edits = 0

Next ==
    \/ Edit
    \/ \E s \in Sources : Curate(s)
    \/ \E o \in Operators :
         \/ \E s \in Sources : Import(o, s) \/ Withdraw(o, s) \/ Cancel(o, s)
         \/ \E p \in Profiles : ImportProfile(o, p)
         \/ SaveLedger(o) \/ Crash(o)

Spec == Init /\ [][Next]_vars

-----------------------------------------------------------------------------

TypeOK ==
    /\ ledger.kind \in {"absent", "torn", "ledger"}
    /\ ever \subseteq Sources
    /\ \A o \in Operators : working[o] # None => DOMAIN working[o].sources \subseteq Sources
    /\ ledger.kind = "ledger" =>
         /\ DOMAIN ledger.sources \subseteq Sources
         /\ \A s \in DOMAIN ledger.sources : ledger.sources[s].status \in {"discovered", "imported"} \cup Closed

(* What a command writes, the next command can read: whatever sequence of  *)
(* imports, withdrawals and cancellations led there, the ledger passes its *)
(* own validators.                                                         *)
LedgerLoads == ledger.kind = "ledger" => ValidLedger(ledger)

(* "Retain append-only ledger history": a source once recorded is in every *)
(* ledger that can be read, across crashes too.                            *)
HistoryKept == ledger.kind = "ledger" => ever \subseteq DOMAIN ledger.sources

(* A source that was withdrawn or cancelled is never imported again, by a  *)
(* command or by a profile, and never counts as natural again.             *)
WithdrawnIsFinal ==
    [][\A s \in Sources :
         (/\ ledger.kind = "ledger" /\ s \in DOMAIN ledger.sources
          /\ ledger.sources[s].status \in Closed
          /\ ledger'.kind = "ledger")
         => /\ s \in DOMAIN ledger'.sources
            /\ ledger'.sources[s].status \in Closed]_vars

(* A source imported as natural came with a manuscript that some rights    *)
(* record, on disk at one time, cleared as natural.                        *)
NaturalWasCleared ==
    ledger.kind = "ledger" =>
      \A s \in DOMAIN ledger.sources :
        ledger.sources[s].origin = "natural" => \E t \in Texts : <<t, "natural">> \in cleared
=============================================================================
