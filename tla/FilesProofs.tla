------------------------------ MODULE FilesProofs ------------------------------
(***************************************************************************)
(* Theorems about Files: what the commands over files leave behind, for    *)
(* any number of sources, files, packages, manuscripts and commands.       *)
(* Nothing locks a file, and a command may die between two writes.         *)
(*                                                                         *)
(* The acquisition ledger.  LedgerInv says that the file and what commands *)
(* have in hand are ledgers of valid sources, of which the natural ones    *)
(* were cleared, and that the record at hand is remembered (`cleared').    *)
(* That the ledger forgets nothing needs more (HistoryInv), namely that a  *)
(* command writes what it made of the ledger that is still there: commands *)
(* come one at a time (OneCommand), since nobody looks again before        *)
(* writing.  A withdrawal without a reason makes a source that does not    *)
(* load (withdraw_source copies it unvalidated), hence ReasonsGiven.       *)
(*                                                                         *)
(* Staging.  StagingInv: a manifest that can be read, and that of a        *)
(* running command, is of a package that was validated; what the tree is   *)
(* compared with is therefore that package, however files were left.       *)
(*                                                                         *)
(* The pipeline.  RunsInv says, of every command, how far it came          *)
(* (Reached): the files of its plan so far are its own, and its summary is *)
(* written last.  Commands that share the directory mix their files, which *)
(* OneRun excludes.                                                        *)
(*                                                                         *)
(* Racing imports have their theorems in LiveImportProofs, instantiated    *)
(* here with the variables of the racing part.                             *)
(***************************************************************************)
EXTENDS Files, FiniteSetTheorems, SequenceTheorems, TLAPS

-----------------------------------------------------------------------------
(* The acquisition ledger. *)

SourceRecord ==
    [status : {"discovered", "imported"} \cup Acq!Closed, origin : {"command", "hand", "sample", "natural"},
     cases : Nat, license : BOOLEAN, grant : BOOLEAN, use : BOOLEAN, redistribution : BOOLEAN,
     reason : Reasons \cup {""}]

(* Reasons are given where they are asked for. *)
ReasonsGiven == "" \notin Reasons

GoodSource(s) == s \in SourceRecord /\ (ReasonsGiven => Acq!ValidSource(s))

(* A ledger as the commands write it. *)
GoodLedger(l) ==
    /\ l = Acq!LedgerOf(l.sources, FALSE)
    /\ DOMAIN l.sources \subseteq Sources
    /\ \A s \in DOMAIN l.sources : GoodSource(l.sources[s])

NaturalCleared(l) ==
    \A s \in DOMAIN l.sources :
      l.sources[s].origin = "natural" => \E t \in Texts : <<t, "natural">> \in cleared

Sound(l) == GoodLedger(l) /\ NaturalCleared(l)

(* A record that clears the manuscript on disk is remembered. *)
RecordRemembered ==
    /\ manuscript \in Texts \cup {Acq!NoText}
    /\ record # Acq!None /\ manuscript # Acq!NoText /\ record.use /\ record.text = manuscript
       => <<manuscript, IF record.natural THEN "natural" ELSE "sample">> \in cleared

LedgerInv ==
    /\ ledger \in {Acq!Absent, Acq!Torn} \/ Sound(ledger)
    /\ working = [o \in Operators |-> working[o]]
    /\ \A o \in Operators : working[o] = Acq!None \/ Sound(working[o])
    /\ RecordRemembered
    /\ ever \subseteq Sources

(* What the ledger has, l has, and what is closed there is closed in l. *)
Succeeds(l) ==
    ledger.kind = "ledger" =>
      \A s \in DOMAIN ledger.sources :
        /\ s \in DOMAIN l.sources
        /\ ledger.sources[s].status \in Acq!Closed => l.sources[s].status \in Acq!Closed

(* Commands come one at a time. *)
OneCommand == \A o, p \in Operators : working[o] # Acq!None /\ working[p] # Acq!None => o = p

(* While it is so, the one at work starts from the ledger that is there. *)
HistoryInv ==
    /\ ledger = Acq!Absent => ever = {}
    /\ ledger.kind = "ledger" => ever \subseteq DOMAIN ledger.sources
    /\ \A o \in Operators : working[o] # Acq!None =>
         Succeeds(working[o]) /\ ever \subseteq DOMAIN working[o].sources

(* The kinds of file are told apart. *)
LEMMA Kinds ==
  /\ Acq!None.kind = "none" /\ Acq!Absent.kind = "absent" /\ Acq!Torn.kind = "torn"
  /\ \A f : Acq!LedgerOf(f, FALSE).kind = "ledger"
  /\ \A f : Acq!LedgerOf(f, FALSE).sources = f
  /\ \A f : Acq!LedgerOf(f, FALSE).claims = FALSE
  /\ \A f : Acq!LedgerOf(f, FALSE).total = Acq!Total(f)
BY DEF Acq!None, Acq!Absent, Acq!Torn, Acq!LedgerOf

(* A good ledger is none of the other files, and loads. *)
LEMMA GoodIsLedger ==
  ASSUME NEW l, GoodLedger(l)
  PROVE  /\ l.kind = "ledger" /\ ~l.claims /\ l \notin {Acq!None, Acq!Absent, Acq!Torn}
         /\ ReasonsGiven => Acq!ValidLedger(l)
<1>1. l.kind = "ledger" /\ l.claims = FALSE /\ l.total = Acq!Total(l.sources)
  BY Kinds DEF GoodLedger
<1>2. ReasonsGiven => \A s \in DOMAIN l.sources : Acq!ValidSource(l.sources[s])
  BY DEF GoodLedger, GoodSource
<1> QED BY <1>1, <1>2, Kinds DEF Acq!ValidLedger

(* l with the source x entered as s. *)
Entered(l, s, x) == Acq!LedgerOf(Acq!Put(l.sources, s, x), FALSE)

(* Entering a good source in a good ledger. *)
LEMMA PutGood ==
  ASSUME NEW l, GoodLedger(l), NEW s \in Sources, NEW x, GoodSource(x)
  PROVE  /\ GoodLedger(Entered(l, s, x))
         /\ DOMAIN Entered(l, s, x).sources = DOMAIN l.sources \cup {s}
         /\ Entered(l, s, x).sources[s] = x
         /\ \A t \in DOMAIN l.sources \ {s} : Entered(l, s, x).sources[t] = l.sources[t]
<1> DEFINE m == Entered(l, s, x)
<1>1. m = Acq!LedgerOf(Acq!Put(l.sources, s, x), FALSE) /\ m.sources = Acq!Put(l.sources, s, x)
  BY Kinds DEF Entered
<1> HIDE DEF m
<1>2. /\ DOMAIN m.sources = DOMAIN l.sources \cup {s}
      /\ m.sources[s] = x
      /\ \A t \in DOMAIN l.sources \ {s} : m.sources[t] = l.sources[t]
  BY <1>1 DEF Acq!Put
<1>3. m = Acq!LedgerOf(m.sources, FALSE)
  BY <1>1
<1>4. GoodLedger(m)
  BY <1>2, <1>3 DEF GoodLedger
<1> QED BY <1>2, <1>4 DEF m

(* What a command starts from. *)
LEMMA ReadGood ==
  ASSUME LedgerInv, NEW l \in Acq!Readable
  PROVE  /\ Sound(l) /\ Succeeds(l)
         /\ HistoryInv => ever \subseteq DOMAIN l.sources
<1>1. CASE ledger = Acq!Absent
  <2>1. l = Acq!LedgerOf([s \in {} |-> Acq!None], FALSE)
    BY <1>1 DEF Acq!Readable, Acq!Empty
  <2>2. l.sources = [s \in {} |-> Acq!None]
    BY <2>1, Kinds
  <2>3. DOMAIN l.sources = {}
    BY <2>2
  <2>4. GoodLedger(l)
    BY <2>1, <2>2, <2>3 DEF GoodLedger
  <2>5. ledger.kind # "ledger"
    BY <1>1, Kinds
  <2> QED BY <1>1, <2>3, <2>4, <2>5 DEF Sound, NaturalCleared, Succeeds, HistoryInv
<1>2. CASE ledger # Acq!Absent
  <2>1. l = ledger /\ ledger # Acq!Torn
    BY <1>2 DEF Acq!Readable
  <2>2. Sound(l)
    BY <1>2, <2>1 DEF LedgerInv
  <2>3. ledger.kind = "ledger"
    BY <2>1, <2>2, GoodIsLedger DEF Sound
  <2> QED BY <2>1, <2>2, <2>3 DEF Succeeds, HistoryInv
<1> QED BY <1>1, <1>2

(* A command has computed l. *)
Computes(o, l) ==
    /\ working[o] = Acq!None
    /\ working' = [working EXCEPT ![o] = l]
    /\ UNCHANGED <<ledger, manuscript, record, ever, cleared>>
    /\ Sound(l) /\ Succeeds(l)
    /\ HistoryInv => ever \subseteq DOMAIN l.sources

(* An import computes a sound ledger when its source is good and, if it is
   natural, was cleared.                                                    *)
LEMMA AddSound ==
  ASSUME LedgerInv, NEW o \in Operators, NEW l \in Acq!Readable, NEW s \in Sources, NEW x \in SourceRecord,
         Acq!AddSource(o, l, s, x), working[o] = Acq!None, UNCHANGED cleared,
         x.origin = "natural" => \E t \in Texts : <<t, "natural">> \in cleared
  PROVE  \E m : Computes(o, m)
<1> DEFINE m == Entered(l, s, x)
<1>1. Sound(l) /\ Succeeds(l) /\ (HistoryInv => ever \subseteq DOMAIN l.sources)
  BY ReadGood
<1>2. l.claims = FALSE
  BY <1>1, Kinds DEF Sound, GoodLedger
<1>3. s \notin DOMAIN l.sources /\ GoodSource(x) /\ Acq!Hold(o, m)
  BY <1>2 DEF Acq!AddSource, Acq!Free, GoodSource, Entered
<1>4. /\ GoodLedger(m)
      /\ DOMAIN m.sources = DOMAIN l.sources \cup {s}
      /\ m.sources[s] = x
      /\ \A t \in DOMAIN l.sources \ {s} : m.sources[t] = l.sources[t]
  <2>1. GoodLedger(l) /\ GoodSource(x)
    BY <1>1, <1>3 DEF Sound
  <2> QED BY <2>1, PutGood
<1> HIDE DEF m
<1>5. Sound(m)
  BY <1>1, <1>4 DEF Sound, NaturalCleared
<1>6. Succeeds(m) /\ (HistoryInv => ever \subseteq DOMAIN m.sources)
  BY <1>1, <1>3, <1>4 DEF Succeeds
<1> QED BY <1>3, <1>5, <1>6 DEF Computes, Acq!Hold

LEMMA ImportSound ==
  ASSUME LedgerInv, NEW o \in Operators, NEW s \in Sources, Acq!Import(o, s)
  PROVE  \E m : Computes(o, m)
<1>1. PICK l \in Acq!Readable, cases0 \in 1..2, licensed \in BOOLEAN, granted \in BOOLEAN :
        Acq!AddSource(o, l, s, Acq!ImportedAs("command", cases0, licensed, granted))
  BY DEF Acq!Import
<1> DEFINE x == Acq!ImportedAs("command", cases0, licensed, granted)
<1>2. x \in SourceRecord /\ x.origin = "command"
  BY DEF SourceRecord, Acq!ImportedAs
<1>3. working[o] = Acq!None /\ UNCHANGED cleared
  BY DEF Acq!Import, Acq!Idle
<1> HIDE DEF x
<1>4. Acq!AddSource(o, l, s, x)
  BY <1>1 DEF x
<1>5. "command" # "natural"
  OBVIOUS
<1> QED BY <1>2, <1>3, <1>4, <1>5, AddSound

(* import_approved_profile compares the profile with what is on disk. *)
LEMMA ImportProfileSound ==
  ASSUME LedgerInv, NEW o \in Operators, NEW p \in Profiles, Acq!ImportProfile(o, p)
  PROVE  \E m : Computes(o, m)
<1>1. PICK l \in Acq!Readable : Acq!AddSource(o, l, p.source, Acq!ImportedAs(p.kind, 1, TRUE, TRUE))
  BY DEF Acq!ImportProfile
<1> DEFINE x == Acq!ImportedAs(p.kind, 1, TRUE, TRUE)
<1>2. p.source \in Sources /\ p.kind \in {"sample", "natural"}
  BY FilesAssumption DEF Acq!AcquisitionAssumption
<1>3. x \in SourceRecord /\ x.origin = p.kind
  BY <1>2 DEF SourceRecord, Acq!ImportedAs
<1>4. working[o] = Acq!None /\ UNCHANGED cleared
  BY DEF Acq!ImportProfile, Acq!Idle
<1>5. ASSUME p.kind = "natural" PROVE \E t \in Texts : <<t, "natural">> \in cleared
  <2>1. manuscript # Acq!NoText /\ manuscript = p.text
    BY DEF Acq!ImportProfile, Acq!VerifyManuscriptHash
  <2>2. record # Acq!None /\ record.text = p.text /\ record.use /\ record.natural
    BY <1>5 DEF Acq!ImportProfile, Acq!VerifyRightsRecord
  <2>3. <<manuscript, "natural">> \in cleared /\ manuscript \in Texts
    BY <2>1, <2>2 DEF LedgerInv, RecordRemembered
  <2> QED BY <2>3
<1> HIDE DEF x
<1>6. Acq!AddSource(o, l, p.source, x)
  BY <1>1 DEF x
<1> QED BY <1>2, <1>3, <1>4, <1>5, <1>6, AddSound

(* A withdrawal or a cancellation with a reason. *)
LEMMA CloseSound ==
  ASSUME LedgerInv, NEW o \in Operators, NEW s \in Sources, NEW status \in Acq!Closed,
         Acq!Close(o, s, status)
  PROVE  \E m : Computes(o, m)
<1>1. PICK l \in Acq!Readable, reason \in Reasons :
        /\ s \in DOMAIN l.sources
        /\ Acq!Hold(o, Acq!LedgerOf(Acq!Put(l.sources, s, Acq!Closing(l.sources[s], status, reason)), FALSE))
  BY DEF Acq!Close
<1> DEFINE x == Acq!Closing(l.sources[s], status, reason)
           m == Entered(l, s, x)
<1>2. Sound(l) /\ Succeeds(l) /\ (HistoryInv => ever \subseteq DOMAIN l.sources)
  BY ReadGood
<1>3. l.sources[s] \in SourceRecord
  BY <1>1, <1>2 DEF Sound, GoodLedger, GoodSource
<1>4. /\ x \in SourceRecord
      /\ x.status = status /\ x.cases = 0 /\ x.redistribution = FALSE /\ x.reason = reason
      /\ x.origin = l.sources[s].origin
  BY <1>3 DEF Acq!Closing, SourceRecord
<1>5. GoodSource(x)
  BY <1>4 DEF GoodSource, Acq!ValidSource, Acq!Closed, ReasonsGiven
<1> HIDE DEF x
<1>6. /\ GoodLedger(m)
      /\ DOMAIN m.sources = DOMAIN l.sources \cup {s}
      /\ m.sources[s] = x
      /\ \A t \in DOMAIN l.sources \ {s} : m.sources[t] = l.sources[t]
  <2>1. GoodLedger(l)
    BY <1>2 DEF Sound
  <2> QED BY <1>5, <2>1, PutGood
<1>7. Acq!Hold(o, m)
  BY <1>1 DEF x, Entered
<1> HIDE DEF m
<1>8. Sound(m)
  BY <1>1, <1>2, <1>4, <1>6 DEF Sound, NaturalCleared
<1>9. Succeeds(m) /\ (HistoryInv => ever \subseteq DOMAIN m.sources)
  BY <1>1, <1>2, <1>4, <1>6 DEF Succeeds
<1> QED BY <1>7, <1>8, <1>9 DEF Computes, Acq!Hold, Acq!Close, Acq!Idle

LEMMA LedgerInit == Acq!Init => LedgerInv /\ HistoryInv
<1> SUFFICES ASSUME Acq!Init PROVE LedgerInv /\ HistoryInv
  OBVIOUS
<1>1. LedgerInv
  BY DEF Acq!Init, LedgerInv, RecordRemembered
<1>2. ledger.kind # "ledger"
  BY Kinds DEF Acq!Init
<1> QED BY <1>1, <1>2 DEF Acq!Init, HistoryInv

(* Every command computes a ledger, and it alone. *)
LEMMA CommandSound ==
  ASSUME LedgerInv, NEW o \in Operators,
         \/ \E s \in Sources : Acq!Import(o, s) \/ Acq!Withdraw(o, s) \/ Acq!Cancel(o, s)
         \/ \E p \in Profiles : Acq!ImportProfile(o, p)
  PROVE  \E m : Computes(o, m)
<1>1. \A s \in Sources : Acq!Import(o, s) => \E m : Computes(o, m)
  BY ImportSound
<1>2. \A s \in Sources : Acq!Withdraw(o, s) \/ Acq!Cancel(o, s) => \E m : Computes(o, m)
  BY CloseSound DEF Acq!Withdraw, Acq!Cancel, Acq!Closed
<1>3. \A p \in Profiles : Acq!ImportProfile(o, p) => \E m : Computes(o, m)
  BY ImportProfileSound
<1> QED BY <1>1, <1>2, <1>3

(* What hand, command and crash do to the files. *)
LEMMA LedgerSteps ==
  ASSUME LedgerInv, [Acq!Next]_Acq!vars
  PROVE  \/ Acq!Edit
         \/ \E s \in Sources : Acq!Curate(s)
         \/ \E o \in Operators : (\E m : Computes(o, m)) \/ Acq!SaveLedger(o) \/ Acq!Crash(o)
         \/ UNCHANGED Acq!vars
BY CommandSound DEF Acq!Next

(* A source under discovery, entered by hand. *)
LEMMA CurateSound ==
  ASSUME LedgerInv, NEW s \in Sources, Acq!Curate(s)
  PROVE  /\ Sound(ledger)' /\ ledger.kind = "ledger" /\ s \notin DOMAIN ledger.sources
         /\ DOMAIN ledger'.sources = DOMAIN ledger.sources \cup {s}
         /\ \A t \in DOMAIN ledger.sources : ledger'.sources[t] = ledger.sources[t]
<1> DEFINE x == [Acq!ImportedAs("hand", 0, TRUE, FALSE) EXCEPT !.status = "discovered"]
<1>1. ledger.kind = "ledger" /\ s \notin DOMAIN ledger.sources /\ cleared' = cleared
  BY DEF Acq!Curate
<1>2. Sound(ledger)
  BY <1>1, Kinds DEF LedgerInv
<1>3. ledger.claims = FALSE
  BY <1>2, Kinds DEF Sound, GoodLedger
<1>4. x \in SourceRecord /\ x.origin = "hand" /\ Acq!ValidSource(x)
  BY DEF SourceRecord, Acq!ImportedAs, Acq!ValidSource, Acq!Closed
<1> HIDE DEF x
<1>5. ledger' = Entered(ledger, s, x)
  BY <1>3 DEF Acq!Curate, Entered, x
<1>6. /\ GoodLedger(Entered(ledger, s, x))
      /\ DOMAIN Entered(ledger, s, x).sources = DOMAIN ledger.sources \cup {s}
      /\ Entered(ledger, s, x).sources[s] = x
      /\ \A t \in DOMAIN ledger.sources \ {s} : Entered(ledger, s, x).sources[t] = ledger.sources[t]
  <2>1. GoodLedger(ledger) /\ GoodSource(x)
    BY <1>2, <1>4 DEF Sound, GoodSource
  <2> QED BY <2>1, PutGood
<1>7. PICK m : m = Entered(ledger, s, x)
  OBVIOUS
<1>8. /\ GoodLedger(m)
      /\ DOMAIN m.sources = DOMAIN ledger.sources \cup {s}
      /\ m.sources[s] = x
      /\ \A t \in DOMAIN ledger.sources \ {s} : m.sources[t] = ledger.sources[t]
  BY <1>6, <1>7
<1>9. NaturalCleared(m)
  BY <1>2, <1>4, <1>8 DEF Sound, NaturalCleared
<1>10. Sound(m)' /\ ledger' = m
  BY <1>1, <1>5, <1>7, <1>8, <1>9 DEF Sound, NaturalCleared
<1>11. Sound(ledger)'
  BY <1>10
<1> QED BY <1>1, <1>8, <1>10, <1>11

(* What was cleared stays so. *)
LEMMA SoundStays ==
  ASSUME NEW l, Sound(l), cleared \subseteq cleared'
  PROVE  Sound(l)'
BY DEF Sound, NaturalCleared

LEMMA LedgerStep == LedgerInv /\ [Acq!Next]_Acq!vars => LedgerInv'
<1> SUFFICES ASSUME LedgerInv, [Acq!Next]_Acq!vars PROVE LedgerInv'
  OBVIOUS
<1>1. CASE Acq!Edit
  <2>1. cleared \subseteq cleared' /\ UNCHANGED <<ledger, working, ever>>
    BY <1>1 DEF Acq!Edit
  <2>2. RecordRemembered'
    BY <1>1 DEF Acq!Edit, LedgerInv, RecordRemembered
  <2>3. Sound(ledger) => Sound(ledger)'
    <3>1. PICK l : l = ledger
      OBVIOUS
    <3>2. Sound(l) => Sound(l)'
      BY <2>1, SoundStays
    <3> QED BY <2>1, <3>1, <3>2
  <2>4. ASSUME NEW o \in Operators, Sound(working[o]) PROVE Sound(working[o])'
    <3>1. PICK l : l = working[o]
      OBVIOUS
    <3>2. Sound(l)'
      BY <2>1, <2>4, <3>1, SoundStays
    <3> QED BY <2>1, <3>1, <3>2
  <2> QED BY <2>1, <2>2, <2>3, <2>4 DEF LedgerInv
<1>2. ASSUME NEW s \in Sources, Acq!Curate(s) PROVE LedgerInv'
  <2>1. Sound(ledger)'
    BY <1>2, CurateSound
  <2>2. /\ UNCHANGED <<working, manuscript, record, cleared>>
        /\ ever' = ever \cup {s}
        /\ \A o \in Operators : working[o] = Acq!None
    BY <1>2 DEF Acq!Curate
  <2>3. RecordRemembered'
    BY <2>2 DEF LedgerInv, RecordRemembered
  <2> QED BY <2>1, <2>2, <2>3 DEF LedgerInv
<1>3. ASSUME NEW o \in Operators, NEW m, Computes(o, m) PROVE LedgerInv'
  <2>1. /\ working' = [working EXCEPT ![o] = m]
        /\ UNCHANGED <<ledger, manuscript, record, ever, cleared>>
        /\ Sound(m)
    BY <1>3 DEF Computes
  <2>2. RecordRemembered'
    BY <2>1 DEF LedgerInv, RecordRemembered
  <2>3. Sound(m)'
    BY <2>1, SoundStays
  <2>4. ledger \in {Acq!Absent, Acq!Torn} \/ Sound(ledger)'
    <3>1. PICK l : l = ledger
      OBVIOUS
    <3>2. Sound(l) => Sound(l)'
      BY <2>1, SoundStays
    <3> QED BY <2>1, <3>1, <3>2 DEF LedgerInv
  <2>5. ASSUME NEW p \in Operators PROVE (working[p] = Acq!None \/ Sound(working[p]))'
    <3>1. CASE p = o
      BY <2>1, <2>3, <3>1 DEF LedgerInv
    <3>2. CASE p # o
      <4>1. PICK l : l = working[p]
        OBVIOUS
      <4>2. Sound(l) => Sound(l)'
        BY <2>1, SoundStays
      <4> QED BY <2>1, <3>2, <4>1, <4>2 DEF LedgerInv
    <3> QED BY <3>1, <3>2
  <2>6. working' = [p \in Operators |-> working'[p]]
    BY <2>1 DEF LedgerInv
  <2> QED BY <2>1, <2>2, <2>4, <2>5, <2>6 DEF LedgerInv
<1>4. ASSUME NEW o \in Operators, Acq!SaveLedger(o) \/ Acq!Crash(o) PROVE LedgerInv'
  <2>1. /\ working[o] # Acq!None
        /\ working' = [working EXCEPT ![o] = Acq!None]
        /\ UNCHANGED <<manuscript, record, cleared>>
    BY <1>4 DEF Acq!SaveLedger, Acq!Crash
  <2>2. RecordRemembered'
    BY <2>1 DEF LedgerInv, RecordRemembered
  <2>3. \A l : Sound(l) => Sound(l)'
    BY <2>1, SoundStays
  <2>4. Sound(working[o])
    BY <2>1 DEF LedgerInv
  <2>5. ever' \subseteq Sources /\ ledger' \in {ledger, Acq!Torn, working[o]}
    BY <1>4, <2>4 DEF Acq!SaveLedger, Acq!Crash, Sound, GoodLedger, LedgerInv
  <2>6. ledger' \in {Acq!Absent, Acq!Torn} \/ Sound(ledger)'
    <3>1. PICK l : l = ledger'
      OBVIOUS
    <3>2. l \in {Acq!Absent, Acq!Torn} \/ Sound(l)
      BY <2>4, <2>5, <3>1 DEF LedgerInv
    <3>3. l \in {Acq!Absent, Acq!Torn} \/ Sound(l)'
      BY <2>3, <3>2
    <3> QED BY <3>1, <3>3
  <2>7. ASSUME NEW p \in Operators PROVE (working[p] = Acq!None \/ Sound(working[p]))'
    <3>1. PICK l : l = working'[p]
      OBVIOUS
    <3>2. l = Acq!None \/ Sound(l)
      BY <2>1, <3>1 DEF LedgerInv
    <3>3. l = Acq!None \/ Sound(l)'
      BY <2>3, <3>2
    <3> QED BY <3>1, <3>3
  <2>8. working' = [p \in Operators |-> working'[p]]
    BY <2>1 DEF LedgerInv
  <2> QED BY <2>2, <2>5, <2>6, <2>7, <2>8 DEF LedgerInv
<1>5. CASE UNCHANGED Acq!vars
  <2>1. UNCHANGED <<ledger, working, manuscript, record, ever, cleared>>
    BY <1>5 DEF Acq!vars
  <2> QED BY <2>1 DEF LedgerInv, RecordRemembered, Sound, NaturalCleared
<1> QED BY <1>1, <1>2, <1>3, <1>4, <1>5, LedgerSteps

(* One command at a time succeeds the ledger it read. *)
LEMMA HistoryStep ==
  ASSUME LedgerInv, HistoryInv, OneCommand, [Acq!Next]_Acq!vars
  PROVE  /\ HistoryInv'
         /\ ledger.kind = "ledger" /\ ledger'.kind = "ledger" => Succeeds(ledger')
<1>1. CASE Acq!Edit \/ UNCHANGED Acq!vars
  <2>1. UNCHANGED <<ledger, working, ever>>
    BY <1>1 DEF Acq!Edit, Acq!vars
  <2> QED BY <2>1 DEF HistoryInv, Succeeds
<1>2. ASSUME NEW s \in Sources, Acq!Curate(s)
      PROVE  HistoryInv' /\ (ledger.kind = "ledger" /\ ledger'.kind = "ledger" => Succeeds(ledger'))
  <2>1. UNCHANGED working /\ ever' = ever \cup {s} /\ \A o \in Operators : working[o] = Acq!None
    BY <1>2 DEF Acq!Curate
  <2>2. /\ Sound(ledger)' /\ ledger.kind = "ledger"
        /\ DOMAIN ledger'.sources = DOMAIN ledger.sources \cup {s}
        /\ \A t \in DOMAIN ledger.sources : ledger'.sources[t] = ledger.sources[t]
    BY <1>2, CurateSound
  <2>3. ledger' # Acq!Absent
    <3>1. PICK l : l = ledger'
      OBVIOUS
    <3>2. GoodLedger(l)
      BY <2>2, <3>1 DEF Sound
    <3> QED BY <3>1, <3>2, GoodIsLedger
  <2>4. Succeeds(ledger')
    BY <2>2 DEF Succeeds
  <2> QED BY <2>1, <2>2, <2>3, <2>4 DEF HistoryInv
<1>3. ASSUME NEW o \in Operators, NEW m, Computes(o, m)
      PROVE  HistoryInv' /\ (ledger.kind = "ledger" /\ ledger'.kind = "ledger" => Succeeds(ledger'))
  <2>1. /\ working' = [working EXCEPT ![o] = m]
        /\ UNCHANGED <<ledger, ever>>
        /\ Succeeds(m) /\ ever \subseteq DOMAIN m.sources
    BY <1>3 DEF Computes
  <2>2. ASSUME NEW p \in Operators, working'[p] # Acq!None
        PROVE  Succeeds(working'[p]) /\ ever \subseteq DOMAIN working'[p].sources
    BY <2>1, <2>2 DEF HistoryInv, LedgerInv
  <2>3. \A l : Succeeds(l) <=> Succeeds(l)'
    BY <2>1 DEF Succeeds
  <2>4. ASSUME NEW p \in Operators, working'[p] # Acq!None PROVE Succeeds(working[p])'
    BY <2>1, <2>2, <2>4 DEF Succeeds
  <2> QED BY <2>1, <2>2, <2>4 DEF HistoryInv, Succeeds
<1>4. ASSUME NEW o \in Operators, Acq!SaveLedger(o)
      PROVE  HistoryInv' /\ (ledger.kind = "ledger" /\ ledger'.kind = "ledger" => Succeeds(ledger'))
  <2>1. /\ working[o] # Acq!None /\ ledger' = working[o]
        /\ ever' = ever \cup DOMAIN working[o].sources
        /\ working' = [working EXCEPT ![o] = Acq!None]
    BY <1>4 DEF Acq!SaveLedger
  <2>2. Sound(working[o]) /\ Succeeds(working[o]) /\ ever \subseteq DOMAIN working[o].sources
    BY <2>1 DEF LedgerInv, HistoryInv
  <2>3. working[o] # Acq!Absent
    BY <2>2, GoodIsLedger DEF Sound
  <2>4. \A p \in Operators : working'[p] = Acq!None
    BY <2>1 DEF OneCommand, LedgerInv
  <2> QED BY <2>1, <2>2, <2>3, <2>4 DEF HistoryInv
<1>5. ASSUME NEW o \in Operators, Acq!Crash(o)
      PROVE  HistoryInv' /\ (ledger.kind = "ledger" /\ ledger'.kind = "ledger" => Succeeds(ledger'))
  <2>1. /\ working[o] # Acq!None /\ ledger' \in {ledger, Acq!Torn} /\ ever' = ever
        /\ working' = [working EXCEPT ![o] = Acq!None]
    BY <1>5 DEF Acq!Crash
  <2>2. \A p \in Operators : working'[p] = Acq!None
    BY <2>1 DEF OneCommand, LedgerInv
  <2>3. Acq!Torn # Acq!Absent /\ Acq!Torn.kind # "ledger"
    BY Kinds
  <2> QED BY <2>1, <2>2, <2>3 DEF HistoryInv, Succeeds
<1> QED BY <1>1, <1>2, <1>3, <1>4, <1>5, LedgerSteps

LEMMA LedgerAlways == Acq!Spec => []LedgerInv
<1>1. Acq!Init => LedgerInv
  BY LedgerInit
<1> QED BY <1>1, LedgerStep, PTL DEF Acq!Spec

LEMMA HistoryAlways == Acq!Spec /\ []OneCommand => []HistoryInv
<1>1. Acq!Init => HistoryInv
  BY LedgerInit
<1>2. LedgerInv /\ HistoryInv /\ OneCommand /\ [Acq!Next]_Acq!vars => HistoryInv'
  BY HistoryStep
<1> QED BY <1>1, <1>2, LedgerAlways, PTL DEF Acq!Spec

(* The ledger and what is written to it are of their types. *)
THEOREM LedgerTyped == Acq!Spec => []Acq!TypeOK
<1>1. LedgerInv => Acq!TypeOK
  <2> SUFFICES ASSUME LedgerInv PROVE Acq!TypeOK
    OBVIOUS
  <2>1. ledger.kind \in {"absent", "torn", "ledger"} /\ (ledger.kind = "ledger" => Sound(ledger))
    BY Kinds, GoodIsLedger DEF LedgerInv, Sound
  <2>2. \A l : Sound(l) => /\ DOMAIN l.sources \subseteq Sources
                           /\ \A s \in DOMAIN l.sources :
                                l.sources[s].status \in {"discovered", "imported"} \cup Acq!Closed
    BY DEF Sound, GoodLedger, GoodSource, SourceRecord
  <2> QED BY <2>1, <2>2 DEF LedgerInv, Acq!TypeOK
<1> QED BY <1>1, LedgerAlways, PTL

(* A source that counts as natural was cleared by a rights record on disk
   (verify_manuscript_hash, verify_rights_record), however many operators run
   commands at once and whatever is edited or lost meanwhile.               *)
THEOREM NaturalsWereCleared == Acq!Spec => []Acq!NaturalWasCleared
<1>1. LedgerInv => Acq!NaturalWasCleared
  BY Kinds DEF LedgerInv, Sound, NaturalCleared, Acq!NaturalWasCleared
<1> QED BY <1>1, LedgerAlways, PTL

(* What a command writes passes the validators of load_ledger, as long as nobody
   withdraws without a reason: withdraw_source copies a source without validating
   it.                                                                      *)
THEOREM LedgersLoad ==
  ASSUME ReasonsGiven
  PROVE  Acq!Spec => []Acq!LedgerLoads
<1>1. LedgerInv => Acq!LedgerLoads
  BY Kinds, GoodIsLedger DEF LedgerInv, Sound, Acq!LedgerLoads
<1> QED BY <1>1, LedgerAlways, PTL

(* "Retain append-only ledger history": no source is forgotten, as long as
   commands come one at a time.  Nothing locks the file between load_ledger and
   save_ledger, so that of two at once the later one drops what the other wrote. *)
THEOREM HistoryIsKept == Acq!Spec /\ []OneCommand => []Acq!HistoryKept
<1>1. HistoryInv => Acq!HistoryKept
  BY DEF HistoryInv, Acq!HistoryKept
<1> QED BY <1>1, HistoryAlways, PTL

(* A source that was withdrawn or cancelled stays so, as long as commands come
   one at a time (import_source refuses an id that is there).               *)
THEOREM WithdrawalsAreFinal == Acq!Spec /\ []OneCommand => Acq!WithdrawnIsFinal
<1> DEFINE Final == \A s \in Sources :
         (/\ ledger.kind = "ledger" /\ s \in DOMAIN ledger.sources
          /\ ledger.sources[s].status \in Acq!Closed
          /\ ledger'.kind = "ledger")
         => /\ s \in DOMAIN ledger'.sources
            /\ ledger'.sources[s].status \in Acq!Closed
<1>1. LedgerInv /\ HistoryInv /\ OneCommand /\ [Acq!Next]_Acq!vars => [Final]_Acq!vars
  <2> SUFFICES ASSUME LedgerInv, HistoryInv, OneCommand, [Acq!Next]_Acq!vars PROVE Final
    OBVIOUS
  <2>1. ledger.kind = "ledger" /\ ledger'.kind = "ledger" => Succeeds(ledger')
    BY HistoryStep
  <2> QED BY <2>1 DEF Succeeds
<1> QED BY <1>1, LedgerAlways, HistoryAlways, PTL DEF Acq!Spec, Acq!WithdrawnIsFinal

-----------------------------------------------------------------------------
(* Staging. *)

(* The manifest of a package that could be staged. *)
OfPackage(m) ==
    \E p \in Packages :
      /\ p.manifest = m /\ m.status = "ready" /\ ~p.private
      /\ Stage!ValidPackage(m, p.files)

StageJob ==
    [kind : {"stage"}, manifest : {p.manifest : p \in Packages}, stale : SUBSET FileNames,
     todo : SUBSET FileNames, written : BOOLEAN]

StagingInv ==
    /\ package \in Packages
    /\ manifest \in {Stage!Pending, Stage!Torn} \/ OfPackage(manifest)
    /\ staging = [g \in Stagers |-> staging[g]]
    /\ \A g \in Stagers : staging[g] # Stage!None => staging[g] \in StageJob /\ OfPackage(staging[g].manifest)
    /\ tree \in [DOMAIN tree -> Contents]
    /\ DOMAIN tree \subseteq FileNames /\ IsFiniteSet(DOMAIN tree)
    /\ \A g \in Stagers : told[g] \in {"nothing", "staged", "failed"}
    /\ told = [g \in Stagers |-> told[g]]

(* Finite sets are what the library says of them. *)
LEMMA SameSets ==
  /\ \A S : Stage!IsFiniteSet(S) = IsFiniteSet(S)
  /\ \A S : Stage!Cardinality(S) = Cardinality(S)
BY DEF Stage!IsFiniteSet, IsFiniteSet, Stage!Cardinality, Cardinality

(* Packages are well formed. *)
LEMMA PackagesFormed ==
  ASSUME NEW p \in Packages
  PROVE  /\ p.manifest.kind = "manifest" /\ p.manifest.status \in {"pending", "blocked", "ready"}
         /\ p.files \in [DOMAIN p.files -> Contents]
         /\ DOMAIN p.files \subseteq FileNames /\ IsFiniteSet(DOMAIN p.files)
BY FilesAssumption, SameSets DEF Stage!IntakeAssumption

LEMMA StagingInit == Stage!Init => StagingInv
<1> SUFFICES ASSUME Stage!Init PROVE StagingInv
  OBVIOUS
<1>1. tree = [n \in {} |-> ""] /\ DOMAIN tree = {}
  BY DEF Stage!Init, Stage!NoFiles
<1>2. IsFiniteSet(DOMAIN tree)
  BY <1>1, FS_EmptySet
<1>3. tree \in [DOMAIN tree -> Contents]
  BY <1>1
<1> QED BY <1>1, <1>2, <1>3 DEF Stage!Init, StagingInv

(* What a stager is about changes only by the one step that moves it. *)
LEMMA StagerStep ==
  ASSUME StagingInv, NEW g \in Stagers, Stage!Begin(g) \/ Stage!Step(g) \/ Stage!Crash(g)
  PROVE  /\ staging' = [h \in Stagers |-> staging'[h]]
         /\ told' = [h \in Stagers |-> told'[h]]
         /\ \A h \in Stagers : told'[h] \in {"nothing", "staged", "failed"}
         /\ \A h \in Stagers : staging'[h] # Stage!None =>
              staging'[h] \in StageJob /\ OfPackage(staging'[h].manifest)
         /\ UNCHANGED package
<1>1. CASE Stage!Begin(g)
  <2> DEFINE x == [kind |-> "stage", manifest |-> package.manifest, stale |-> DOMAIN tree,
                   todo |-> DOMAIN package.manifest.artifacts, written |-> FALSE]
  <2>1. /\ staging' = [staging EXCEPT ![g] = x] /\ UNCHANGED <<package, told>>
        /\ Stage!Stagable
    BY <1>1 DEF Stage!Begin
  <2>2. x.manifest = package.manifest /\ x.todo = DOMAIN package.manifest.artifacts
    OBVIOUS
  <2>3. OfPackage(package.manifest)
    BY <2>1 DEF Stage!Stagable, OfPackage, StagingInv
  <2>4. DOMAIN package.manifest.artifacts \subseteq FileNames
    BY <2>1, PackagesFormed DEF Stage!Stagable, Stage!ValidPackage, StagingInv
  <2>5. x \in StageJob
    BY <2>4 DEF StageJob, StagingInv
  <2> HIDE DEF x
  <2> QED BY <2>1, <2>2, <2>3, <2>5 DEF StagingInv
<1>2. CASE Stage!Unlink(g) \/ Stage!Copy(g) \/ Stage!WriteManifest(g) \/ Stage!Validate(g) \/ Stage!Crash(g)
  <2>1. staging[g] # Stage!None /\ UNCHANGED package
    BY <1>2 DEF Stage!Unlink, Stage!Copy, Stage!WriteManifest, Stage!Validate, Stage!Crash
  <2>2. \/ staging' = [staging EXCEPT ![g] = Stage!None]
        \/ \E n : staging' = [staging EXCEPT ![g].stale = @ \ {n}]
        \/ \E n : staging' = [staging EXCEPT ![g].todo = @ \ {n}]
        \/ staging' = [staging EXCEPT ![g].written = TRUE]
    BY <1>2 DEF Stage!Unlink, Stage!Copy, Stage!WriteManifest, Stage!Validate, Stage!Crash, Stage!Fail
  <2>3. \E t \in {"failed", "staged"} : told' \in {told, [told EXCEPT ![g] = t]}
    BY <1>2 DEF Stage!Unlink, Stage!Copy, Stage!WriteManifest, Stage!Validate, Stage!Crash, Stage!Fail
  <2>4. \A n : /\ [staging[g] EXCEPT !.stale = @ \ {n}] \in StageJob
               /\ [staging[g] EXCEPT !.stale = @ \ {n}].manifest = staging[g].manifest
    BY <2>1 DEF StagingInv, StageJob
  <2>5. \A n : /\ [staging[g] EXCEPT !.todo = @ \ {n}] \in StageJob
               /\ [staging[g] EXCEPT !.todo = @ \ {n}].manifest = staging[g].manifest
    BY <2>1 DEF StagingInv, StageJob
  <2>6. /\ [staging[g] EXCEPT !.written = TRUE] \in StageJob
        /\ [staging[g] EXCEPT !.written = TRUE].manifest = staging[g].manifest
    BY <2>1 DEF StagingInv, StageJob
  <2>7. PICK j : /\ staging' = [staging EXCEPT ![g] = j]
                 /\ j = Stage!None \/ (j \in StageJob /\ j.manifest = staging[g].manifest)
    BY <2>2, <2>4, <2>5, <2>6
  <2>8. \A h \in Stagers : staging'[h] # Stage!None =>
            staging'[h] \in StageJob /\ OfPackage(staging'[h].manifest)
    BY <2>1, <2>7 DEF StagingInv
  <2>9. staging' = [h \in Stagers |-> staging'[h]]
    BY <2>7 DEF StagingInv
  <2> QED BY <2>1, <2>3, <2>8, <2>9 DEF StagingInv
<1> QED BY <1>1, <1>2 DEF Stage!Step

(* What a step does to the tree. *)
LEMMA TreeStep ==
  ASSUME StagingInv, NEW g \in Stagers, Stage!Begin(g) \/ Stage!Step(g) \/ Stage!Crash(g)
  PROVE  /\ tree' \in [DOMAIN tree' -> Contents]
         /\ DOMAIN tree' \subseteq FileNames /\ IsFiniteSet(DOMAIN tree')
         /\ manifest' \in {manifest, Stage!Torn} \/ OfPackage(manifest')
<1>1. CASE Stage!Unlink(g)
  <2>1. manifest' = manifest
    BY <1>1 DEF Stage!Unlink
  <2>2. PICK n : \/ tree' = [m \in DOMAIN tree \ {n} |-> tree[m]]
                 \/ tree' = tree
    BY <1>1 DEF Stage!Unlink, Stage!Restrict
  <2>3. IsFiniteSet(DOMAIN tree \ {n})
    BY FS_RemoveElement DEF StagingInv
  <2> QED BY <2>1, <2>2, <2>3 DEF StagingInv
<1>2. CASE Stage!Copy(g)
  <2>1. manifest' = manifest /\ staging[g] \in StageJob
    BY <1>2 DEF Stage!Copy, StagingInv
  <2>2. PICK n \in staging[g].todo :
          \/ tree' = tree
          \/ \E content \in Stage!Fetched(n) :
               tree' = [m \in DOMAIN tree \cup {n} |-> IF m = n THEN content ELSE tree[m]]
    BY <1>2 DEF Stage!Copy
  <2>3. n \in FileNames /\ \A content \in Stage!Fetched(n) : content \in Contents
    BY <2>1, PackagesFormed DEF StageJob, Stage!Fetched, StagingInv
  <2>4. IsFiniteSet(DOMAIN tree \cup {n})
    BY FS_AddElement DEF StagingInv
  <2> QED BY <2>1, <2>2, <2>3, <2>4 DEF StagingInv
<1>3. CASE Stage!Begin(g) \/ Stage!WriteManifest(g) \/ Stage!Validate(g) \/ Stage!Crash(g)
  <2>1. UNCHANGED tree
    BY <1>3 DEF Stage!Begin, Stage!WriteManifest, Stage!Validate, Stage!Crash
  <2>2. manifest' \in {manifest, Stage!Torn} \/ (staging[g] # Stage!None /\ manifest' = staging[g].manifest)
    BY <1>3 DEF Stage!Begin, Stage!WriteManifest, Stage!Validate, Stage!Crash
  <2>3. staging[g] # Stage!None => OfPackage(staging[g].manifest)
    BY DEF StagingInv
  <2> QED BY <2>1, <2>2, <2>3 DEF StagingInv
<1> QED BY <1>1, <1>2, <1>3 DEF Stage!Step

LEMMA StagingStep == StagingInv /\ [Stage!Next]_Stage!vars => StagingInv'
<1> SUFFICES ASSUME StagingInv, [Stage!Next]_Stage!vars PROVE StagingInv'
  OBVIOUS
<1>1. CASE Stage!Rebuild
  <2>1. package' \in Packages /\ UNCHANGED <<manifest, tree, staging, told>>
    BY <1>1 DEF Stage!Rebuild
  <2> QED BY <2>1 DEF StagingInv, OfPackage
<1>2. ASSUME NEW g \in Stagers, Stage!Begin(g) \/ Stage!Step(g) \/ Stage!Crash(g) PROVE StagingInv'
  <2>1. /\ staging' = [h \in Stagers |-> staging'[h]]
        /\ told' = [h \in Stagers |-> told'[h]]
        /\ \A h \in Stagers : told'[h] \in {"nothing", "staged", "failed"}
        /\ \A h \in Stagers : staging'[h] # Stage!None =>
              staging'[h] \in StageJob /\ OfPackage(staging'[h].manifest)
        /\ UNCHANGED package
    BY <1>2, StagerStep
  <2>2. /\ tree' \in [DOMAIN tree' -> Contents]
        /\ DOMAIN tree' \subseteq FileNames /\ IsFiniteSet(DOMAIN tree')
        /\ manifest' \in {manifest, Stage!Torn} \/ OfPackage(manifest')
    BY <1>2, TreeStep
  <2>3. \A m : OfPackage(m) <=> OfPackage(m)'
    BY DEF OfPackage
  <2>4. manifest' \in {Stage!Pending, Stage!Torn} \/ OfPackage(manifest')
    BY <2>2 DEF StagingInv
  <2>5. \A h \in Stagers : staging'[h] # Stage!None => OfPackage(staging[h].manifest)'
    BY <2>1 DEF OfPackage
  <2>6. manifest' \in {Stage!Pending, Stage!Torn} \/ OfPackage(manifest)'
    BY <2>4 DEF OfPackage
  <2> QED BY <2>1, <2>2, <2>5, <2>6 DEF StagingInv
<1>3. CASE UNCHANGED Stage!vars
  BY <1>3 DEF Stage!vars, StagingInv, OfPackage
<1> QED BY <1>1, <1>2, <1>3 DEF Stage!Next

LEMMA StagingAlways == Stage!Spec => []StagingInv
BY StagingInit, StagingStep, PTL DEF Stage!Spec

(* The manifest, the reviews and the outcomes are of their types. *)
THEOREM StagingTyped == Stage!Spec => []Stage!TypeOK
<1>1. StagingInv => Stage!TypeOK
  <2> SUFFICES ASSUME StagingInv PROVE Stage!TypeOK
    OBVIOUS
  <2>1. OfPackage(manifest) => manifest.kind = "manifest" /\ manifest.status = "ready"
    BY PackagesFormed DEF OfPackage
  <2>2. Stage!Pending.kind = "manifest" /\ Stage!Pending.status = "pending"
    BY DEF Stage!Pending
  <2>3. Stage!Range(tree) \subseteq Contents
    BY DEF StagingInv, Stage!Range
  <2> QED BY <2>1, <2>2, <2>3 DEF StagingInv, Stage!TypeOK
<1> QED BY <1>1, StagingAlways, PTL

(* Equal manifests and verified hashes mean equal files. *)
LEMMA SameFiles ==
  ASSUME StagingInv, NEW p \in Packages, p.manifest = manifest, manifest.status = "ready",
         Stage!ValidPackage(manifest, p.files), Stage!Section(manifest, tree) = "ready"
  PROVE  p.files = tree
<1>1. DOMAIN manifest.artifacts = DOMAIN p.files /\ Stage!VerifyArtifactHashes(manifest, p.files)
  BY DEF Stage!ValidPackage
<1>2. /\ Cardinality(DOMAIN manifest.artifacts) = Cardinality(DOMAIN tree)
      /\ Stage!VerifyArtifactHashes(manifest, tree)
  BY SameSets DEF Stage!Section
<1>3. DOMAIN manifest.artifacts \subseteq DOMAIN tree
  BY <1>2 DEF Stage!VerifyArtifactHashes
<1>4. DOMAIN manifest.artifacts = DOMAIN tree
  BY <1>2, <1>3, FS_Subset DEF StagingInv
<1>5. \A n \in DOMAIN tree : p.files[n] = tree[n]
  BY <1>1, <1>2, <1>4 DEF Stage!VerifyArtifactHashes
<1>6. p.files \in [DOMAIN p.files -> Contents] /\ tree \in [DOMAIN tree -> Contents]
  BY PackagesFormed DEF StagingInv
<1> QED BY <1>1, <1>4, <1>5, <1>6

(* What the reports and gates show as ready is one complete package
   (production_section_for, validate_production_package), whatever commands,
   rebuilds and crashes have mixed in the tree: equal counts and verified hashes
   leave no room for a file of another package.                            *)
THEOREM ReadyIsAPackage == Stage!Spec => []Stage!ReadyIsOnePackage
<1>1. StagingInv => Stage!ReadyIsOnePackage
  <2> SUFFICES ASSUME StagingInv, Stage!Section(manifest, tree) = "ready"
               PROVE  \E p \in Packages :
                        /\ p.manifest = manifest /\ p.files = tree
                        /\ Stage!ValidPackage(p.manifest, p.files) /\ ~p.private
    BY DEF Stage!ReadyIsOnePackage
  <2>1. manifest # Stage!Torn
    BY DEF Stage!Section, Stage!Loads
  <2>2. manifest # Stage!Pending
    <3>1. Stage!Pending.status = "pending" /\ "pending" # "ready" /\ "error" # "ready"
      BY DEF Stage!Pending
    <3> QED BY <3>1 DEF Stage!Section
  <2>3. PICK p \in Packages :
          /\ p.manifest = manifest /\ manifest.status = "ready" /\ ~p.private
          /\ Stage!ValidPackage(manifest, p.files)
    BY <2>1, <2>2 DEF StagingInv, OfPackage
  <2>4. p.files = tree
    BY <2>3, SameFiles
  <2> QED BY <2>3, <2>4
<1> QED BY <1>1, StagingAlways, PTL

-----------------------------------------------------------------------------
(* The pipeline. *)

(* s without its first k elements. *)
From(s, k) == SubSeq(s, k + 1, Len(s))

LEMMA FromSeq ==
  ASSUME NEW S, NEW s \in Seq(S), NEW k \in 0 .. Len(s)
  PROVE  /\ From(s, 0) = s
         /\ From(s, k) \in Seq(S)
         /\ From(s, k) = << >> <=> k = Len(s)
         /\ k < Len(s) => Head(From(s, k)) = s[k + 1] /\ Tail(From(s, k)) = From(s, k + 1)
<1>1. From(s, 0) = s
  BY DEF From
<1>2. /\ From(s, k) \in Seq(S)
      /\ Len(From(s, k)) = Len(s) - k
      /\ \A i \in 1 .. (Len(s) - k) : From(s, k)[i] = s[k + i]
  BY DEF From
<1>3. CASE k = Len(s)
  BY <1>1, <1>2, <1>3
<1>4. CASE k < Len(s)
  <2>1. From(s, k) # << >> /\ Head(From(s, k)) = s[k + 1]
    BY <1>2, <1>4
  <2>2. /\ From(s, k + 1) \in Seq(S)
        /\ Len(From(s, k + 1)) = Len(s) - k - 1
        /\ \A i \in 1 .. (Len(s) - k - 1) : From(s, k + 1)[i] = s[k + 1 + i]
    BY <1>4 DEF From
  <2>3. /\ Tail(From(s, k)) \in Seq(S)
        /\ Len(Tail(From(s, k))) = Len(s) - k - 1
        /\ \A i \in 1 .. (Len(s) - k - 1) : Tail(From(s, k))[i] = s[k + 1 + i]
    BY <1>2, <2>1, HeadTailProperties
  <2>4. Tail(From(s, k)) = From(s, k + 1)
    <3>1. /\ Len(Tail(From(s, k))) = Len(From(s, k + 1))
          /\ \A i \in 1 .. Len(Tail(From(s, k))) : Tail(From(s, k))[i] = From(s, k + 1)[i]
      BY <2>2, <2>3
    <3> QED BY <2>2, <2>3, <3>1, SeqEqual
  <2> QED BY <1>1, <1>2, <1>4, <2>1, <2>4
<1> QED BY <1>3, <1>4

(* The plan of a manuscript, file by file. *)
LEMMA Plans ==
  ASSUME NEW m
  PROVE  /\ Run!Plan(m) \in Seq(Run!Names)
         /\ Run!Plan(m)[1] = "review" /\ Run!Plan(m)[2] = "provenance"
         /\ m \in Gold => /\ Len(Run!Plan(m)) = 7
                          /\ Run!Plan(m)[3] = "map" /\ Run!Plan(m)[4] = "submission"
                          /\ Run!Plan(m)[5] = "evaluation" /\ Run!Plan(m)[6] = "scorecard"
                          /\ Run!Plan(m)[7] = "summary"
         /\ m \notin Gold => Len(Run!Plan(m)) = 3 /\ Run!Plan(m)[3] = "handoff"
<1>1. CASE m \in Gold
  BY <1>1 DEF Run!Plan, Run!HasGold, Run!Names
<1>2. CASE m \notin Gold
  BY <1>2 DEF Run!Plan, Run!HasGold, Run!Names
<1> QED BY <1>1, <1>2

(* The submission that a command makes of its own map and review. *)
Made(r) == [kind |-> "converted", case |-> r.manuscript, review |-> Run!ReviewOf(r)]

(* The first k files of the plan of r are written, and by r. *)
Reached(r, k) ==
    /\ k \in 0 .. Len(Run!Plan(r.manuscript))
    /\ r.plan = From(Run!Plan(r.manuscript), k)
    /\ r.open => k < Len(Run!Plan(r.manuscript))
    /\ k >= 1 => directory["review"] = Run!ReviewOf(r)
    /\ k >= 3 /\ r.manuscript \in Gold => directory["map"] = Run!MapOf(r)
    /\ k >= 4 /\ r.manuscript \in Gold => directory["submission"] = Made(r)
    /\ k >= 5 /\ r.manuscript \in Gold => directory["evaluation"] = Made(r)
    /\ k >= 6 /\ r.manuscript \in Gold => directory["scorecard"] = Made(r)
    /\ k >= 4 \/ (k = 3 /\ r.open) => (r.manuscript \in Gold => r.converted = Made(r))
    /\ k < 7 /\ Run!Whole(directory["summary"]) => directory["summary"].run < r.number

RunJob(r) ==
    /\ r = [kind |-> "run", number |-> r.number, manuscript |-> r.manuscript, register |-> r.register,
            plan |-> r.plan, open |-> r.open, converted |-> r.converted]
    /\ r.number \in 1 .. runs /\ r.manuscript \in Manuscripts
    /\ r.open \in BOOLEAN
    /\ r.converted \in {Run!Absent, Made(r)}
    /\ \E k \in Nat : Reached(r, k)

(* A file holds what its name says. *)
FileOK(name, file) ==
    Run!Whole(file) =>
      /\ file.kind = IF name \in Run!Evaluated THEN "converted" ELSE name
      /\ name = "review" => file.of \in Manuscripts
      /\ name = "summary" => file.run \in 1 .. runs
      /\ name \in Run!Evaluated => file.case = file.review.of

RunsInv ==
    /\ runs \in Nat
    /\ directory = [name \in Run!Names |-> directory[name]]
    /\ \A name \in Run!Names : FileOK(name, directory[name])
    /\ DOMAIN registered \subseteq Manuscripts
    /\ Run!CaseOfItsRun
    /\ Run!SummaryVouches
    /\ commandsRunning = [p \in Runners |-> commandsRunning[p]]
    /\ \A p \in Runners : commandsRunning[p] = Run!Idle \/ RunJob(commandsRunning[p])

(* Commands do not share the directory. *)
OneRun == \A p, q \in Runners : commandsRunning[p] # Run!Idle /\ commandsRunning[q] # Run!Idle => p = q

LEMMA RunsInit == Run!Init => RunsInv
<1> SUFFICES ASSUME Run!Init PROVE RunsInv
  OBVIOUS
<1>1. \A name \in Run!Names : ~Run!Whole(directory[name])
  BY DEF Run!Init, Run!Whole, Run!Absent
<1>2. "summary" \in Run!Names
  BY DEF Run!Names
<1> QED BY <1>1, <1>2 DEF Run!Init, RunsInv, FileOK, Run!CaseOfItsRun, Run!SummaryVouches

(* What a command writes next. *)
LEMMA NextFile ==
  ASSUME NEW r, NEW k, Reached(r, k)
  PROVE  /\ r.plan = << >> <=> k = Len(Run!Plan(r.manuscript))
         /\ r.plan # << >> =>
              /\ k + 1 \in 0 .. Len(Run!Plan(r.manuscript))
              /\ Tail(r.plan) = From(Run!Plan(r.manuscript), k + 1)
              /\ \/ k = 0 /\ Head(r.plan) = "review"
                 \/ k = 1 /\ Head(r.plan) = "provenance"
                 \/ k = 2 /\ r.manuscript \notin Gold /\ Head(r.plan) = "handoff"
                 \/ /\ r.manuscript \in Gold
                    /\ \/ k = 2 /\ Head(r.plan) = "map"
                       \/ k = 3 /\ Head(r.plan) = "submission"
                       \/ k = 4 /\ Head(r.plan) = "evaluation"
                       \/ k = 5 /\ Head(r.plan) = "scorecard"
                       \/ k = 6 /\ Head(r.plan) = "summary"
<1> DEFINE plan == Run!Plan(r.manuscript)
<1>1. plan \in Seq(Run!Names) /\ k \in 0 .. Len(plan) /\ r.plan = From(plan, k)
  BY Plans DEF Reached
<1>2. /\ plan[1] = "review" /\ plan[2] = "provenance"
      /\ r.manuscript \in Gold => /\ Len(plan) = 7
                                  /\ plan[3] = "map" /\ plan[4] = "submission" /\ plan[5] = "evaluation"
                                  /\ plan[6] = "scorecard" /\ plan[7] = "summary"
      /\ r.manuscript \notin Gold => Len(plan) = 3 /\ plan[3] = "handoff"
  BY Plans
<1> HIDE DEF plan
<1>3. /\ From(plan, k) = << >> <=> k = Len(plan)
      /\ k < Len(plan) => Head(From(plan, k)) = plan[k + 1] /\ Tail(From(plan, k)) = From(plan, k + 1)
  BY <1>1, FromSeq
<1>4. ASSUME r.plan # << >>
      PROVE  /\ k + 1 \in 0 .. Len(plan)
             /\ Tail(r.plan) = From(plan, k + 1)
             /\ \/ k = 0 /\ Head(r.plan) = "review"
                \/ k = 1 /\ Head(r.plan) = "provenance"
                \/ k = 2 /\ r.manuscript \notin Gold /\ Head(r.plan) = "handoff"
                \/ /\ r.manuscript \in Gold
                   /\ \/ k = 2 /\ Head(r.plan) = "map"
                      \/ k = 3 /\ Head(r.plan) = "submission"
                      \/ k = 4 /\ Head(r.plan) = "evaluation"
                      \/ k = 5 /\ Head(r.plan) = "scorecard"
                      \/ k = 6 /\ Head(r.plan) = "summary"
  <2>1. k < Len(plan) /\ k \in Nat /\ Len(plan) \in Nat
    BY <1>1, <1>3, <1>4
  <2>2. Head(r.plan) = plan[k + 1] /\ Tail(r.plan) = From(plan, k + 1) /\ k + 1 \in 0 .. Len(plan)
    BY <1>1, <1>3, <2>1
  <2>3. k \in {0, 1, 2} \/ (r.manuscript \in Gold /\ k \in {3, 4, 5, 6})
    <3>1. CASE r.manuscript \in Gold
      <4>1. Len(plan) = 7
        BY <1>2, <3>1
      <4>2. k \in {0, 1, 2, 3, 4, 5, 6}
        BY <2>1, <4>1
      <4> QED BY <3>1, <4>2
    <3>2. CASE r.manuscript \notin Gold
      <4>1. Len(plan) = 3
        BY <1>2, <3>2
      <4> QED BY <2>1, <4>1
    <3> QED BY <3>1, <3>2
  <2> QED BY <1>2, <2>2, <2>3
<1>5. r.plan = << >> <=> k = Len(plan)
  BY <1>1, <1>3
<1> QED BY <1>4, <1>5 DEF plan

(* One command moves, and the others rest. *)
LEMMA OneMoves ==
  ASSUME RunsInv, OneRun, NEW p \in Runners, NEW x, commandsRunning[p] # Run!Idle,
         commandsRunning' = [commandsRunning EXCEPT ![p] = x],
         x = Run!Idle \/ RunJob(x)'
  PROVE  /\ commandsRunning' = [q \in Runners |-> commandsRunning'[q]]
         /\ \A q \in Runners : commandsRunning'[q] = Run!Idle \/ RunJob(commandsRunning[q])'
<1>1. commandsRunning' = [q \in Runners |-> commandsRunning'[q]]
  BY DEF RunsInv
<1>2. ASSUME NEW q \in Runners PROVE commandsRunning'[q] = Run!Idle \/ RunJob(commandsRunning[q])'
  <2>1. CASE q = p
    <3>1. commandsRunning'[q] = x
      BY <2>1 DEF RunsInv
    <3> QED BY <3>1
  <2>2. CASE q # p
    <3>1. commandsRunning'[q] = Run!Idle
      BY <2>2 DEF RunsInv, OneRun
    <3> QED BY <3>1
  <2> QED BY <2>1, <2>2
<1> QED BY <1>1, <1>2

(* The upstream call begins a command. *)
LEMMA StartRun ==
  ASSUME RunsInv, NEW p \in Runners, Run!Start(p)
  PROVE  RunsInv'
<1>1. PICK m \in Manuscripts, register \in BOOLEAN :
        commandsRunning' = [commandsRunning EXCEPT ![p] =
           [kind |-> "run", number |-> runs + 1, manuscript |-> m, register |-> register,
            plan |-> Run!Plan(m), open |-> FALSE, converted |-> Run!Absent]]
  BY DEF Run!Start
<1>2. PICK x : x = [kind |-> "run", number |-> runs + 1, manuscript |-> m, register |-> register,
                    plan |-> Run!Plan(m), open |-> FALSE, converted |-> Run!Absent]
  OBVIOUS
<1>3. /\ x.number = runs + 1 /\ x.manuscript = m /\ x.plan = Run!Plan(m) /\ x.open = FALSE
      /\ x.converted = Run!Absent /\ x.register = register
  BY <1>2
<1>4. runs' = runs + 1 /\ UNCHANGED <<directory, registered>>
  BY DEF Run!Start
<1>5. directory'["summary"] = directory["summary"] /\ "summary" \in Run!Names
  BY <1>4 DEF Run!Names
<1>6. Reached(x, 0)'
  <2>1. Run!Plan(m) \in Seq(Run!Names)
    BY Plans
  <2>2. From(Run!Plan(m), 0) = Run!Plan(m) /\ 0 \in 0 .. Len(Run!Plan(m))
    BY <2>1, FromSeq
  <2>3. Run!Whole(directory["summary"]) => directory["summary"].run \in 1 .. runs
    BY <1>5 DEF RunsInv, FileOK
  <2>4. Run!Whole(directory["summary"])' => directory'["summary"].run < x.number
    BY <1>3, <1>5, <2>3 DEF RunsInv, Run!Whole
  <2> QED BY <1>3, <2>2, <2>4 DEF Reached
<1>7. RunJob(x)'
  <2>1. x = [kind |-> "run", number |-> x.number, manuscript |-> x.manuscript, register |-> x.register,
             plan |-> x.plan, open |-> x.open, converted |-> x.converted]
    BY <1>2, <1>3
  <2>2. x.number \in 1 .. runs'
    BY <1>3, <1>4 DEF RunsInv
  <2>3. \E k \in Nat : Reached(x, k)'
    BY <1>6
  <2> QED BY <1>3, <2>1, <2>2, <2>3 DEF RunJob
<1>8. ASSUME NEW q \in Runners PROVE commandsRunning'[q] = Run!Idle \/ RunJob(commandsRunning[q])'
  <2>1. CASE q = p
    <3>1. commandsRunning'[q] = x
      BY <1>1, <1>2, <2>1 DEF RunsInv
    <3> QED BY <1>7, <3>1
  <2>2. CASE q # p
    <3>1. PICK y : y = commandsRunning[q]
      OBVIOUS
    <3>2. commandsRunning'[q] = y /\ (y = Run!Idle \/ RunJob(y))
      BY <1>1, <2>2, <3>1 DEF RunsInv
    <3>3. ASSUME RunJob(y) PROVE RunJob(y)'
      <4>1. y.number \in 1 .. runs'
        BY <1>4, <3>3 DEF RunJob, RunsInv
      <4> QED BY <1>4, <3>3, <4>1 DEF RunJob, Reached
    <3> QED BY <3>2, <3>3
  <2> QED BY <2>1, <2>2
<1>9. \A name \in Run!Names : FileOK(name, directory[name])'
  <2>1. \A n \in 1 .. runs : n \in 1 .. runs'
    BY <1>4 DEF RunsInv
  <2> QED BY <1>4, <2>1 DEF RunsInv, FileOK
<1>10. commandsRunning' = [q \in Runners |-> commandsRunning'[q]] /\ runs' \in Nat
  <2>1. commandsRunning' = [commandsRunning EXCEPT ![p] = x]
    BY <1>1, <1>2
  <2>2. commandsRunning' = [q \in Runners |-> commandsRunning'[q]]
    BY <2>1 DEF RunsInv
  <2>3. runs' \in Nat
    BY <1>4 DEF RunsInv
  <2> QED BY <2>2, <2>3
<1>11. Run!CaseOfItsRun' /\ Run!SummaryVouches'
  BY <1>4 DEF RunsInv, Run!CaseOfItsRun, Run!SummaryVouches
<1> QED BY <1>4, <1>8, <1>9, <1>10, <1>11 DEF RunsInv

(* What a running command is. *)
LEMMA AtWork ==
  ASSUME RunsInv, NEW p \in Runners, commandsRunning[p] # Run!Idle
  PROVE  RunJob(commandsRunning[p])
BY DEF RunsInv

(* The conversion reads what the command itself wrote. *)
LEMMA ConvertRun ==
  ASSUME RunsInv, OneRun, NEW p \in Runners, Run!Convert(p)
  PROVE  RunsInv'
<1>1. PICK r : r = commandsRunning[p]
  OBVIOUS
<1>2. RunJob(r) /\ commandsRunning[p] # Run!Idle /\ r.plan # << >> /\ Head(r.plan) = "submission"
  BY <1>1, AtWork DEF Run!Convert
<1>3. UNCHANGED <<directory, registered, runs>>
  BY DEF Run!Convert
<1>4. PICK k \in Nat : Reached(r, k)
  BY <1>2 DEF RunJob
<1>5. k = 3 /\ r.manuscript \in Gold
  BY <1>2, <1>4, NextFile
<1>6. directory["map"] = Run!MapOf(r) /\ directory["review"] = Run!ReviewOf(r)
  BY <1>4, <1>5 DEF Reached
<1>7. [kind |-> "converted", case |-> directory["map"].case, review |-> directory["review"]] = Made(r)
  BY <1>6 DEF Made, Run!MapOf
<1>8. PICK x : /\ commandsRunning' = [commandsRunning EXCEPT ![p] = x]
               /\ x = Run!Idle \/ x = [r EXCEPT !.converted = Made(r)]
  BY <1>1, <1>7 DEF Run!Convert
<1>9. ASSUME x = [r EXCEPT !.converted = Made(r)] PROVE RunJob(x)'
  <2>1. /\ x.number = r.number /\ x.manuscript = r.manuscript /\ x.plan = r.plan /\ x.open = r.open
        /\ x.register = r.register /\ x.converted = Made(r)
        /\ x = [kind |-> "run", number |-> x.number, manuscript |-> x.manuscript, register |-> x.register,
                plan |-> x.plan, open |-> x.open, converted |-> x.converted]
    BY <1>2, <1>9 DEF RunJob
  <2>2. Made(x) = Made(r) /\ Run!ReviewOf(x) = Run!ReviewOf(r) /\ Run!MapOf(x) = Run!MapOf(r)
    BY <2>1 DEF Made, Run!ReviewOf, Run!MapOf
  <2>3. Reached(x, 3)'
    BY <1>3, <1>4, <1>5, <2>1, <2>2 DEF Reached
  <2> QED BY <1>2, <1>3, <2>1, <2>2, <2>3 DEF RunJob
<1>10. /\ commandsRunning' = [q \in Runners |-> commandsRunning'[q]]
       /\ \A q \in Runners : commandsRunning'[q] = Run!Idle \/ RunJob(commandsRunning[q])'
  BY <1>2, <1>8, <1>9, OneMoves
<1>11. Run!CaseOfItsRun' /\ Run!SummaryVouches' /\ \A name \in Run!Names : FileOK(name, directory[name])'
  BY <1>3 DEF RunsInv, Run!CaseOfItsRun, Run!SummaryVouches, FileOK
<1> QED BY <1>3, <1>10, <1>11 DEF RunsInv

(* Opening a file empties it. *)
LEMMA OpenRun ==
  ASSUME RunsInv, OneRun, NEW p \in Runners, Run!Open(p)
  PROVE  RunsInv'
<1>1. PICK r : r = commandsRunning[p]
  OBVIOUS
<1>2. RunJob(r) /\ commandsRunning[p] # Run!Idle /\ r.plan # << >>
  BY <1>1, AtWork DEF Run!Open
<1>3. UNCHANGED <<registered, runs>>
  BY DEF Run!Open
<1>4. PICK k \in Nat : Reached(r, k)
  BY <1>2 DEF RunJob
<1>5. PICK name : name = Head(r.plan)
  OBVIOUS
<1>6. /\ k + 1 \in 0 .. Len(Run!Plan(r.manuscript))
      /\ \/ k = 0 /\ name = "review"
         \/ k = 1 /\ name = "provenance"
         \/ k = 2 /\ r.manuscript \notin Gold /\ name = "handoff"
         \/ /\ r.manuscript \in Gold
            /\ \/ k = 2 /\ name = "map"
               \/ k = 3 /\ name = "submission"
               \/ k = 4 /\ name = "evaluation"
               \/ k = 5 /\ name = "scorecard"
               \/ k = 6 /\ name = "summary"
  BY <1>2, <1>4, <1>5, NextFile
<1>7. directory' = [directory EXCEPT ![name] = Run!Torn] /\ name \in Run!Names
  BY <1>1, <1>5, <1>6 DEF Run!Open, Run!Names
<1>8. /\ directory'[name] = Run!Torn
      /\ \A n \in Run!Names : n # name => directory'[n] = directory[n]
      /\ directory' = [n \in Run!Names |-> directory'[n]]
  BY <1>7 DEF RunsInv
<1>9. ~Run!Whole(Run!Torn)
  BY DEF Run!Whole, Run!Torn
<1>10. PICK x : /\ commandsRunning' = [commandsRunning EXCEPT ![p] = x]
                /\ x = [r EXCEPT !.open = TRUE]
  BY <1>1 DEF Run!Open
<1>11. RunJob(x)'
  <2>1. /\ x.number = r.number /\ x.manuscript = r.manuscript /\ x.plan = r.plan /\ x.open = TRUE
        /\ x.register = r.register /\ x.converted = r.converted
        /\ x = [kind |-> "run", number |-> x.number, manuscript |-> x.manuscript, register |-> x.register,
                plan |-> x.plan, open |-> x.open, converted |-> x.converted]
    <3>1. r = [kind |-> "run", number |-> r.number, manuscript |-> r.manuscript, register |-> r.register,
               plan |-> r.plan, open |-> r.open, converted |-> r.converted]
      BY <1>2 DEF RunJob
    <3>2. PICK n, m, g, s, o, c : r = [kind |-> "run", number |-> n, manuscript |-> m, register |-> g,
                                       plan |-> s, open |-> o, converted |-> c]
      BY <3>1
    <3>3. PICK t : t = TRUE
      OBVIOUS
    <3>4. [r EXCEPT !.open = t] = [kind |-> "run", number |-> n, manuscript |-> m, register |-> g,
                                   plan |-> s, open |-> t, converted |-> c]
      BY <3>2
    <3> QED BY <1>10, <3>2, <3>3, <3>4
  <2>2. Made(x) = Made(r) /\ Run!ReviewOf(x) = Run!ReviewOf(r) /\ Run!MapOf(x) = Run!MapOf(r)
    BY <2>1 DEF Made, Run!ReviewOf, Run!MapOf
  <2>3. k = 3 => r.converted = Made(r)
    BY <1>1, <1>2, <1>5, <1>6 DEF Run!Open, RunJob
  <2>4. k < Len(Run!Plan(r.manuscript)) /\ Len(Run!Plan(r.manuscript)) \in Nat
    BY <1>4, <1>6 DEF Reached
  <2>5. /\ k >= 1 => directory'["review"] = Run!ReviewOf(x)
        /\ k >= 3 /\ r.manuscript \in Gold => directory'["map"] = Run!MapOf(x)
        /\ k >= 4 /\ r.manuscript \in Gold => directory'["submission"] = Made(x)
        /\ k >= 5 /\ r.manuscript \in Gold => directory'["evaluation"] = Made(x)
        /\ k >= 6 /\ r.manuscript \in Gold => directory'["scorecard"] = Made(x)
    BY <1>4, <1>6, <1>8, <2>2 DEF Reached, Run!Names
  <2>6. k < 7 /\ Run!Whole(directory'["summary"]) => directory'["summary"].run < x.number
    BY <1>4, <1>8, <1>9, <2>1 DEF Reached, Run!Names
  <2>7. k >= 4 \/ k = 3 => (r.manuscript \in Gold => x.converted = Made(x))
    BY <1>4, <2>1, <2>2, <2>3 DEF Reached
  <2>8. Reached(x, k)'
    BY <1>4, <2>1, <2>4, <2>5, <2>6, <2>7 DEF Reached, Run!Whole
  <2> QED BY <1>2, <1>3, <2>1, <2>2, <2>8 DEF RunJob
<1>12. /\ commandsRunning' = [q \in Runners |-> commandsRunning'[q]]
       /\ \A q \in Runners : commandsRunning'[q] = Run!Idle \/ RunJob(commandsRunning[q])'
  BY <1>2, <1>10, <1>11, OneMoves
<1>13. Run!SummaryVouches'
  <2> SUFFICES ASSUME Run!Whole(directory'["summary"]), Run!Whole(directory'["review"]),
                      directory'["summary"].run = directory'["review"].run, NEW n \in Run!Evaluated
               PROVE  Run!Whole(directory'[n]) /\ directory'[n].review = directory'["review"]
    BY DEF Run!SummaryVouches, Run!Whole
  <2>1. name # "summary" /\ name # "review"
    BY <1>8, <1>9
  <2>2. directory'["summary"] = directory["summary"] /\ directory'["review"] = directory["review"]
    BY <1>8, <2>1 DEF Run!Names
  <2>3. k >= 1 => directory["summary"].run < r.number /\ directory["review"].run = r.number
    BY <1>4, <1>6, <2>1, <2>2 DEF Reached, Run!ReviewOf
  <2>4. ~(k >= 1)
    BY <1>2, <2>2, <2>3 DEF RunJob
  <2> QED BY <1>6, <2>1, <2>4
<1>14. Run!CaseOfItsRun' /\ \A n \in Run!Names : FileOK(n, directory[n])'
  <2>1. Run!CaseOfItsRun'
    BY <1>3 DEF RunsInv, Run!CaseOfItsRun
  <2>2. ASSUME NEW n \in Run!Names PROVE FileOK(n, directory[n])'
    BY <1>3, <1>8, <1>9 DEF RunsInv, FileOK, Run!Whole
  <2> QED BY <2>1, <2>2
<1> QED BY <1>3, <1>8, <1>12, <1>13, <1>14 DEF RunsInv

(* Filling a file is a step of the plan. *)
LEMMA CloseRun ==
  ASSUME RunsInv, OneRun, NEW p \in Runners, Run!Close(p)
  PROVE  RunsInv'
<1>1. PICK r : r = commandsRunning[p]
  OBVIOUS
<1>2. RunJob(r) /\ commandsRunning[p] # Run!Idle /\ r.open
  BY <1>1, AtWork DEF Run!Close
<1>3. UNCHANGED <<registered, runs>>
  BY DEF Run!Close
<1>4. PICK k \in Nat : Reached(r, k)
  BY <1>2 DEF RunJob
<1>5. PICK name : name = Head(r.plan)
  OBVIOUS
<1>6. /\ k + 1 \in 0 .. Len(Run!Plan(r.manuscript))
      /\ Tail(r.plan) = From(Run!Plan(r.manuscript), k + 1)
      /\ \/ k = 0 /\ name = "review"
         \/ k = 1 /\ name = "provenance"
         \/ k = 2 /\ r.manuscript \notin Gold /\ name = "handoff"
         \/ /\ r.manuscript \in Gold
            /\ \/ k = 2 /\ name = "map"
               \/ k = 3 /\ name = "submission"
               \/ k = 4 /\ name = "evaluation"
               \/ k = 5 /\ name = "scorecard"
               \/ k = 6 /\ name = "summary"
  <2>1. k < Len(Run!Plan(r.manuscript))
    BY <1>2, <1>4 DEF Reached
  <2>2. r.plan # << >>
    BY <1>4, <2>1, NextFile
  <2> QED BY <1>4, <1>5, <2>2, NextFile
<1>7. PICK c : c = Run!Content(r)
  OBVIOUS
<1>8. /\ name = "review" => c = Run!ReviewOf(r)
      /\ name = "map" => c = Run!MapOf(r)
      /\ name \in Run!Evaluated => c = Made(r)
      /\ name \notin {"review", "map"} \cup Run!Evaluated =>
           c = [kind |-> name, run |-> r.number, of |-> r.manuscript]
  <2>1. name \in Run!Evaluated => r.converted = Made(r)
    BY <1>2, <1>4, <1>6 DEF Reached, Run!Evaluated
  <2> QED BY <1>5, <1>7, <2>1 DEF Run!Content, Run!Evaluated
<1>9. directory' = [directory EXCEPT ![name] = c] /\ name \in Run!Names
  BY <1>1, <1>5, <1>6, <1>7 DEF Run!Close, Run!Names
<1>10. /\ directory'[name] = c
       /\ \A n \in Run!Names : n # name => directory'[n] = directory[n]
       /\ directory' = [n \in Run!Names |-> directory'[n]]
  BY <1>9 DEF RunsInv
<1>11. PICK x : /\ commandsRunning' = [commandsRunning EXCEPT ![p] = x]
                /\ x = [r EXCEPT !.open = FALSE, !.plan = Tail(@)]
  BY <1>1 DEF Run!Close
<1>12. /\ x.number = r.number /\ x.manuscript = r.manuscript /\ x.plan = Tail(r.plan) /\ x.open = FALSE
       /\ x.register = r.register /\ x.converted = r.converted
       /\ x = [kind |-> "run", number |-> x.number, manuscript |-> x.manuscript, register |-> x.register,
                plan |-> x.plan, open |-> x.open, converted |-> x.converted]
  <2>1. r = [kind |-> "run", number |-> r.number, manuscript |-> r.manuscript, register |-> r.register,
             plan |-> r.plan, open |-> r.open, converted |-> r.converted]
    BY <1>2 DEF RunJob
  <2>2. PICK n, m, g, s, o, e : r = [kind |-> "run", number |-> n, manuscript |-> m, register |-> g,
                                     plan |-> s, open |-> o, converted |-> e]
    BY <2>1
  <2>3. PICK t, u : t = FALSE /\ u = Tail(r.plan)
    OBVIOUS
  <2>4. PICK w : w = [r EXCEPT !.open = t]
    OBVIOUS
  <2>5. w = [kind |-> "run", number |-> n, manuscript |-> m, register |-> g,
             plan |-> s, open |-> t, converted |-> e]
    BY <2>2, <2>4
  <2>6. [w EXCEPT !.plan = u] = [kind |-> "run", number |-> n, manuscript |-> m, register |-> g,
                                 plan |-> u, open |-> t, converted |-> e]
    BY <2>5
  <2>7. Tail(w.plan) = u
    BY <2>2, <2>3, <2>5
  <2>8. x = [w EXCEPT !.plan = u]
    BY <1>11, <2>3, <2>4, <2>7
  <2> QED BY <2>2, <2>3, <2>6, <2>8
<1>13. Made(x) = Made(r) /\ Run!ReviewOf(x) = Run!ReviewOf(r) /\ Run!MapOf(x) = Run!MapOf(r)
  BY <1>12 DEF Made, Run!ReviewOf, Run!MapOf
<1>14. r.number \in 1 .. runs /\ r.manuscript \in Manuscripts /\ runs \in Nat
  BY <1>2 DEF RunJob, RunsInv
<1>15. k < 6 /\ Run!Whole(directory'["summary"]) =>
         directory'["summary"] = directory["summary"] /\ directory["summary"].run < r.number
  BY <1>4, <1>6, <1>10 DEF Reached, Run!Names, Run!Whole
<1>16. directory'["review"] = Run!ReviewOf(r)
  BY <1>4, <1>6, <1>8, <1>10 DEF Reached, Run!Names
<1>17. RunJob(x)'
  <2>1. /\ k >= 2 /\ r.manuscript \in Gold => directory'["map"] = Run!MapOf(x)
        /\ k >= 3 /\ r.manuscript \in Gold => directory'["submission"] = Made(x)
        /\ k >= 4 /\ r.manuscript \in Gold => directory'["evaluation"] = Made(x)
        /\ k >= 5 /\ r.manuscript \in Gold => directory'["scorecard"] = Made(x)
    BY <1>4, <1>6, <1>8, <1>10, <1>13 DEF Reached, Run!Names, Run!Evaluated
  <2>2. k + 1 < 7 /\ Run!Whole(directory'["summary"]) => directory'["summary"].run < x.number
    BY <1>12, <1>15
  <2>3. k + 1 >= 4 => (r.manuscript \in Gold => x.converted = Made(x))
    BY <1>2, <1>4, <1>12, <1>13 DEF Reached
  <2>4. Reached(x, k + 1)'
    <3>1. /\ k + 1 >= 1 => directory'["review"] = Run!ReviewOf(x)
          /\ k + 1 >= 3 /\ r.manuscript \in Gold => directory'["map"] = Run!MapOf(x)
          /\ k + 1 >= 4 /\ r.manuscript \in Gold => directory'["submission"] = Made(x)
          /\ k + 1 >= 5 /\ r.manuscript \in Gold => directory'["evaluation"] = Made(x)
          /\ k + 1 >= 6 /\ r.manuscript \in Gold => directory'["scorecard"] = Made(x)
      BY <1>13, <1>16, <2>1
    <3>2. k + 1 >= 4 \/ (k + 1 = 3 /\ x.open) => (r.manuscript \in Gold => x.converted = Made(x))
      BY <1>12, <2>3
    <3> QED BY <1>6, <1>12, <2>2, <3>1, <3>2 DEF Reached, Run!Whole
  <2>5. x.converted \in {Run!Absent, Made(x)} /\ x.open \in BOOLEAN
    BY <1>2, <1>12, <1>13 DEF RunJob
  <2> QED BY <1>3, <1>12, <1>14, <2>4, <2>5 DEF RunJob
<1>18. /\ commandsRunning' = [q \in Runners |-> commandsRunning'[q]]
       /\ \A q \in Runners : commandsRunning'[q] = Run!Idle \/ RunJob(commandsRunning[q])'
  BY <1>2, <1>11, <1>17, OneMoves
<1>19. Run!SummaryVouches'
  <2> SUFFICES ASSUME Run!Whole(directory'["summary"]), Run!Whole(directory'["review"]),
                      directory'["summary"].run = directory'["review"].run, NEW n \in Run!Evaluated
               PROVE  Run!Whole(directory'[n]) /\ directory'[n].review = directory'["review"]
    BY DEF Run!SummaryVouches, Run!Whole
  <2>1. directory'["review"].run = r.number
    BY <1>16 DEF Run!ReviewOf
  <2>2. CASE k < 6
    <3>1. directory'["summary"].run < r.number /\ directory'["summary"].run = r.number
      BY <1>15, <2>1, <2>2
    <3> QED BY <1>14, <3>1
  <2>3. CASE k >= 6
    <3>1. r.manuscript \in Gold /\ name = "summary" /\ k = 6
      BY <1>6, <2>3
    <3>2. directory'[n] = directory[n] /\ directory[n] = Made(r)
      BY <1>4, <1>10, <3>1 DEF Reached, Run!Names, Run!Evaluated
    <3> QED BY <1>16, <3>2 DEF Made, Run!Whole
  <2> QED BY <2>2, <2>3
<1>20. ASSUME NEW n \in Run!Names PROVE FileOK(n, directory[n])'
  <2>1. CASE n # name
    BY <1>3, <1>10, <2>1 DEF RunsInv, FileOK, Run!Whole
  <2>2. CASE n = name
    <3>1. CASE name = "review"
      BY <1>8, <1>10, <1>14, <2>2, <3>1 DEF FileOK, Run!Evaluated, Run!ReviewOf
    <3>2. CASE name = "map"
      BY <1>8, <1>10, <2>2, <3>2 DEF FileOK, Run!Evaluated, Run!MapOf
    <3>3. CASE name \in Run!Evaluated
      BY <1>8, <1>10, <2>2, <3>3 DEF FileOK, Run!Evaluated, Made, Run!ReviewOf
    <3>4. CASE name \notin {"review", "map"} \cup Run!Evaluated
      BY <1>3, <1>8, <1>10, <1>14, <2>2, <3>4 DEF FileOK
    <3> QED BY <3>1, <3>2, <3>3, <3>4
  <2> QED BY <2>1, <2>2
<1>21. Run!CaseOfItsRun'
  BY <1>3 DEF RunsInv, Run!CaseOfItsRun
<1> QED BY <1>3, <1>10, <1>18, <1>19, <1>20, <1>21 DEF RunsInv

(* A review becomes the case of the manuscript it is about. *)
LEMMA ImportRun ==
  ASSUME RunsInv, NEW m \in Manuscripts, Run!Import(m),
         Run!Whole(directory["review"]) => directory["review"].of = m
  PROVE  DOMAIN registered' \subseteq Manuscripts /\ \A n \in DOMAIN registered' : registered'[n].of = n
<1>1. DOMAIN registered \subseteq Manuscripts /\ \A n \in DOMAIN registered : registered[n].of = n
  BY DEF RunsInv, Run!CaseOfItsRun
<1>2. CASE Run!Whole(directory["review"]) /\ m \notin DOMAIN registered
  <2>1. registered' = [n \in DOMAIN registered \cup {m} |->
                         IF n = m THEN directory["review"] ELSE registered[n]]
    BY <1>2 DEF Run!Import
  <2> QED BY <1>1, <1>2, <2>1
<1>3. CASE ~(Run!Whole(directory["review"]) /\ m \notin DOMAIN registered)
  <2>1. registered' = registered
    BY <1>3 DEF Run!Import
  <2> QED BY <1>1, <2>1
<1> QED BY <1>2, <1>3

(* A command that has written its plan, and may register its review. *)
LEMMA FinishRun ==
  ASSUME RunsInv, OneRun, NEW p \in Runners, Run!Finish(p)
  PROVE  RunsInv'
<1>1. PICK r : r = commandsRunning[p]
  OBVIOUS
<1>2. RunJob(r) /\ commandsRunning[p] # Run!Idle /\ r.plan = << >>
  BY <1>1, AtWork DEF Run!Finish
<1>3. UNCHANGED <<directory, runs>> /\ commandsRunning' = [commandsRunning EXCEPT ![p] = Run!Idle]
  BY DEF Run!Finish
<1>4. PICK k \in Nat : Reached(r, k)
  BY <1>2 DEF RunJob
<1>5. k = Len(Run!Plan(r.manuscript))
  BY <1>2, <1>4, NextFile
<1>6. k >= 1
  BY <1>5, Plans
<1>7. directory["review"].of = r.manuscript /\ r.manuscript \in Manuscripts
  BY <1>2, <1>4, <1>6 DEF Reached, Run!ReviewOf, RunJob
<1>8. DOMAIN registered' \subseteq Manuscripts /\ \A n \in DOMAIN registered' : registered'[n].of = n
  <2>1. CASE r.register
    <3>1. Run!Import(r.manuscript)
      BY <1>1, <2>1 DEF Run!Finish
    <3> QED BY <1>7, <3>1, ImportRun
  <2>2. CASE ~r.register
    <3>1. registered' = registered
      BY <1>1, <2>2 DEF Run!Finish
    <3> QED BY <3>1 DEF RunsInv, Run!CaseOfItsRun
  <2> QED BY <2>1, <2>2
<1>9. /\ commandsRunning' = [q \in Runners |-> commandsRunning'[q]]
      /\ \A q \in Runners : commandsRunning'[q] = Run!Idle \/ RunJob(commandsRunning[q])'
  BY <1>2, <1>3, OneMoves
<1>10. Run!SummaryVouches' /\ \A n \in Run!Names : FileOK(n, directory[n])'
  BY <1>3 DEF RunsInv, Run!SummaryVouches, FileOK
<1> QED BY <1>3, <1>8, <1>9, <1>10 DEF RunsInv, Run!CaseOfItsRun

LEMMA CrashRun ==
  ASSUME RunsInv, OneRun, NEW p \in Runners, Run!Crash(p)
  PROVE  RunsInv'
<1>1. /\ UNCHANGED <<directory, registered, runs>> /\ commandsRunning[p] # Run!Idle
      /\ commandsRunning' = [commandsRunning EXCEPT ![p] = Run!Idle]
  BY DEF Run!Crash
<1>2. /\ commandsRunning' = [q \in Runners |-> commandsRunning'[q]]
      /\ \A q \in Runners : commandsRunning'[q] = Run!Idle \/ RunJob(commandsRunning[q])'
  BY <1>1, OneMoves
<1>3. Run!SummaryVouches' /\ Run!CaseOfItsRun' /\ \A n \in Run!Names : FileOK(n, directory[n])'
  BY <1>1 DEF RunsInv, Run!SummaryVouches, Run!CaseOfItsRun, FileOK
<1> QED BY <1>1, <1>2, <1>3 DEF RunsInv

(* The directory and the commands as they were: so is the invariant. *)
LEMMA SameRuns ==
  ASSUME RunsInv, UNCHANGED <<directory, commandsRunning, runs>>,
         DOMAIN registered' \subseteq Manuscripts, \A m \in DOMAIN registered' : registered'[m].of = m
  PROVE  RunsInv'
<1>1. ASSUME NEW p \in Runners PROVE commandsRunning'[p] = Run!Idle \/ RunJob(commandsRunning[p])'
  BY DEF RunsInv, RunJob, Reached
<1>2. Run!SummaryVouches' /\ \A n \in Run!Names : FileOK(n, directory[n])'
  BY DEF RunsInv, Run!SummaryVouches, FileOK
<1> QED BY <1>1, <1>2 DEF RunsInv, Run!CaseOfItsRun

LEMMA RunsStep ==
  ASSUME RunsInv, OneRun, [Run!Next]_Run!vars
  PROVE  RunsInv'
<1>1. ASSUME NEW p \in Runners, Run!Pipeline(p) PROVE RunsInv'
  BY <1>1, StartRun, ConvertRun, OpenRun, CloseRun, FinishRun DEF Run!Pipeline
<1>2. ASSUME NEW p \in Runners, Run!Crash(p) PROVE RunsInv'
  BY <1>2, CrashRun
<1>3. CASE Run!ImportDirectory
  <2>1. PICK m \in Run!InferredManuscript : Run!Import(m)
    BY <1>3 DEF Run!ImportDirectory
  <2>2. Run!Whole(directory["review"]) /\ m = directory["review"].of
    BY <2>1 DEF Run!InferredManuscript
  <2>3. m \in Manuscripts
    BY <2>2 DEF RunsInv, FileOK, Run!Names
  <2>4. UNCHANGED <<directory, commandsRunning, runs>>
    BY <1>3 DEF Run!ImportDirectory
  <2>5. DOMAIN registered' \subseteq Manuscripts /\ \A n \in DOMAIN registered' : registered'[n].of = n
    BY <2>1, <2>2, <2>3, ImportRun
  <2> QED BY <2>4, <2>5, SameRuns
<1>4. CASE UNCHANGED Run!vars
  <2>1. UNCHANGED <<directory, commandsRunning, runs, registered>>
    BY <1>4 DEF Run!vars
  <2> QED BY <2>1, SameRuns DEF RunsInv, Run!CaseOfItsRun
<1> QED BY <1>1, <1>2, <1>3, <1>4 DEF Run!Next

LEMMA RunsAlways == Run!Spec /\ []OneRun => []RunsInv
<1>1. RunsInv /\ OneRun /\ [Run!Next]_Run!vars => RunsInv'
  BY RunsStep
<1> QED BY RunsInit, <1>1, PTL DEF Run!Spec

(* While commands do not share the directory, a case holds the concerns of *)
(* its own manuscript, though the directory held other reviews before.     *)
THEOREM CasesOfTheirRuns == Run!Spec /\ []OneRun => []Run!CaseOfItsRun
<1>1. RunsInv => Run!CaseOfItsRun
  BY DEF RunsInv
<1> QED BY <1>1, RunsAlways, PTL

(* While commands do not share the directory, no review is evaluated       *)
(* against the gold concerns of another manuscript.                        *)
THEOREM EvaluatedOnTheirGold == Run!Spec /\ []OneRun => []Run!EvaluatedOnItsGold
<1>1. Run!Evaluated \subseteq Run!Names
  BY DEF Run!Evaluated, Run!Names
<1>2. RunsInv => Run!EvaluatedOnItsGold
  BY <1>1 DEF RunsInv, FileOK, Run!EvaluatedOnItsGold
<1> QED BY <1>2, RunsAlways, PTL

(* While commands do not share the directory, a summary of the run whose   *)
(* review lies there is a summary of files made of that review.            *)
THEOREM SummariesVouch == Run!Spec /\ []OneRun => []Run!SummaryVouches
<1>1. RunsInv => Run!SummaryVouches
  BY DEF RunsInv
<1> QED BY <1>1, RunsAlways, PTL

(* The files of the directory hold what their names say. *)
THEOREM RunsTyped == Run!Spec /\ []OneRun => []Run!TypeOK
<1>1. RunsInv => Run!TypeOK
  BY DEF RunsInv, FileOK, Run!TypeOK
<1> QED BY <1>1, RunsAlways, PTL

-----------------------------------------------------------------------------
(* Two imports that race: the theorems about LiveImport, in the names of Files. *)

TwoP == INSTANCE LiveImportProofs WITH
    Importers <- RacingImporters, Uploaders <- {}, Texts <- RacingTexts,
    MaxRewrites <- MaxRacingRewrites, MaxUploads <- 0,
    export <- export2, text <- text2, objects <- objects2, rows <- rows2, cases <- cases2,
    links <- links2, running <- running2, rewrites <- rewrites2, crashes <- crashes2,
    uploads <- uploads2

LEMMA TwoAssumption == TwoP!ImportAssumption
BY FilesAssumption DEF FilesAssumption, Two!ImportAssumption, TwoP!ImportAssumption,
     Two!IsFiniteSet, TwoP!IsFiniteSet

LEMMA TwoSpec == Two!Spec => TwoP!Spec
<1>1. Two!Init <=> TwoP!Init
  BY DEF Two!Init, TwoP!Init, Two!Procs, TwoP!Procs, Two!NoMap, TwoP!NoMap, Two!None, TwoP!None
<1>2. UNCHANGED Two!vars => UNCHANGED TwoP!vars
  BY DEF Two!vars, TwoP!vars, Two!files, TwoP!files, Two!db, TwoP!db
<1>3. Two!Next <=> TwoP!Next
  BY Zenon
     DEF Two!Next, TwoP!Next, Two!Procs, TwoP!Procs, Two!None, TwoP!None, Two!NoMap, TwoP!NoMap,
       Two!files, TwoP!files, Two!db, TwoP!db, Two!Fail, TwoP!Fail, Two!Merge, TwoP!Merge, Two!Maps, TwoP!Maps,
       Two!TextBytes, TwoP!TextBytes, Two!ExportBytes, TwoP!ExportBytes,
       Two!Rewrite, TwoP!Rewrite, Two!Crash, TwoP!Crash, Two!Build, TwoP!Build, Two!Seedable, TwoP!Seedable,
       Two!CaseId, TwoP!CaseId, Two!Import, TwoP!Import, Two!Reread, TwoP!Reread, Two!Write, TwoP!Write,
       Two!WhileWriting, TwoP!WhileWriting, Two!Store, TwoP!Store, Two!NeedsRow, TwoP!NeedsRow,
       Two!Register, TwoP!Register, Two!Registrable, TwoP!Registrable, Two!Missing, TwoP!Missing,
       Two!Source, TwoP!Source, Two!NewConcerns, TwoP!NewConcerns, Two!ConcernIds, TwoP!ConcernIds,
       Two!Indexed, TwoP!Indexed, Two!Unique, TwoP!Unique,
       Two!Upload, TwoP!Upload, Two!CommitUpload, TwoP!CommitUpload
<1>4. [Two!Next]_Two!vars => [TwoP!Next]_TwoP!vars
  BY <1>2, <1>3
<1> QED BY <1>1, <1>4, PTL DEF Two!Spec, TwoP!Spec

LEMMA TwoBelongTogether == Two!Spec => [](Two!TypeOK /\ Two!StoreBacksRows /\ Two!ConcernInOneCase)
<1>1. TwoP!TypeOK => Two!TypeOK
  BY DEF Two!TypeOK, TwoP!TypeOK
<1>2. TwoP!StoreBacksRows => Two!StoreBacksRows
  BY DEF Two!StoreBacksRows, TwoP!StoreBacksRows
<1>3. TwoP!ConcernInOneCase => Two!ConcernInOneCase
  BY DEF Two!ConcernInOneCase, TwoP!ConcernInOneCase
<1> QED BY <1>1, <1>2, <1>3, TwoSpec, TwoAssumption, TwoP!TypeCorrect, TwoP!RowsHaveObjects,
           TwoP!ConcernsHaveOneCase, PTL

-----------------------------------------------------------------------------
(* A behaviour of the parts is one of each part: the others rest. *)

LEMMA PartOfLedger == SpecParts => Acq!Spec
<1>1. InitParts => Acq!Init
  BY DEF InitParts
<1>2. [NextParts]_<<part, vars, two, pipeline, acquisition, staged, audit, sessions>>
        => [Acq!Next]_Acq!vars
  BY DEF NextParts, Of, Rest, acquisition, Acq!vars
<1> QED BY <1>1, <1>2, PTL DEF SpecParts, Acq!Spec

LEMMA PartOfStaging == SpecParts => Stage!Spec
<1>1. InitParts => Stage!Init
  BY DEF InitParts
<1>2. [NextParts]_<<part, vars, two, pipeline, acquisition, staged, audit, sessions>>
        => [Stage!Next]_Stage!vars
  BY DEF NextParts, Of, Rest, staged, Stage!vars
<1> QED BY <1>1, <1>2, PTL DEF SpecParts, Stage!Spec

LEMMA PartOfRun == SpecParts => Run!Spec
<1>1. InitParts => Run!Init
  BY DEF InitParts
<1>2. [NextParts]_<<part, vars, two, pipeline, acquisition, staged, audit, sessions>>
        => [Run!Next]_Run!vars
  BY DEF NextParts, Of, Rest, pipeline, Run!vars
<1> QED BY <1>1, <1>2, PTL DEF SpecParts, Run!Spec

LEMMA PartOfTwo == SpecParts => Two!Spec
<1>1. InitParts => Two!Init
  BY DEF InitParts
<1>2. [NextParts]_<<part, vars, two, pipeline, acquisition, staged, audit, sessions>>
        => [Two!Next]_Two!vars
  BY DEF NextParts, Of, Rest, two, Two!vars, Two!files, Two!db
<1> QED BY <1>1, <1>2, PTL DEF SpecParts, Two!Spec

(* The acquisition ledger can be relied on, as long as commands come one at a
   time and withdrawals are given a reason.                                 *)
THEOREM LedgerCanBeReliedOn ==
  ASSUME ReasonsGiven
  PROVE  SpecParts /\ []OneCommand => []LedgerHolds
<1>1. Acq!TypeOK /\ Acq!LedgerLoads /\ Acq!HistoryKept /\ Acq!NaturalWasCleared => LedgerHolds
  BY DEF LedgerHolds
<1> QED BY <1>1, PartOfLedger, LedgerTyped, LedgersLoad, HistoryIsKept, NaturalsWereCleared, PTL

(* What lies in one directory or hangs on one row belongs together, as long as
   pipelines do not share the directory: imports may race, packages be staged
   side by side, and any command may die.                                   *)
THEOREM TogetherInOneDirectory == SpecParts /\ []OneRun => []DirectoriesBelongTogether
<1>1. /\ Two!TypeOK /\ Two!StoreBacksRows /\ Two!ConcernInOneCase
      /\ Run!TypeOK /\ Run!CaseOfItsRun /\ Run!EvaluatedOnItsGold /\ Run!SummaryVouches
      /\ Stage!TypeOK /\ Stage!ReadyIsOnePackage
      => DirectoriesBelongTogether
  BY DEF DirectoriesBelongTogether
<1> QED BY <1>1, PartOfTwo, PartOfRun, PartOfStaging, TwoBelongTogether, RunsTyped, CasesOfTheirRuns,
           EvaluatedOnTheirGold, SummariesVouch, StagingTyped, ReadyIsAPackage, PTL

(* So it is with one operator at the ledger and one command in the directory. *)
THEOREM OneAtATime ==
  ASSUME NEW o, Operators = {o}, NEW r, Runners = {r}, ReasonsGiven
  PROVE  SpecParts => [](LedgerHolds /\ DirectoriesBelongTogether)
<1>1. OneCommand /\ OneRun
  BY DEF OneCommand, OneRun
<1> QED BY <1>1, LedgerCanBeReliedOn, TogetherInOneDirectory, PTL
=============================================================================
