-------------------------------- MODULE MCFiles --------------------------------
(***************************************************************************)
(* Constants of Files for TLC.                                             *)
(***************************************************************************)
EXTENDS Files

(* Import: two exports that share a concern, one without concerns. *)
Overlapping == {{"a", "b"}, {"b"}, {}}
TwoCommands == {"i", "j"}

(* The pipeline of a manuscript: all but one have gold concerns. *)
SomeGold        == {"econ", "bio"}
SomeManuscripts == SomeGold \cup {"new"}
OneRunner       == {1}

(* The acquisition ledger: one operator, three sources. *)
Profile(source, kind, t, recorded) ==
    [source |-> source, kind |-> kind, case |-> "case", text |-> t, recorded |-> recorded, use |-> TRUE,
     natural |-> kind = "natural", redistribution |-> TRUE, public |-> FALSE]
SomeProfiles ==
    {Profile("a", "natural", "t1", TRUE), Profile("b", "sample", "t1", TRUE), Profile("b", "sample", "t2", FALSE),
     [Profile("a", "natural", "t1", TRUE) EXCEPT !.public = TRUE]}

RightsRecord(use, natural) ==
    [kind |-> "record", case |-> "case", text |-> "t1", use |-> use, natural |-> natural, claims |-> FALSE]
SomeRecords == {RightsRecord(TRUE, TRUE), RightsRecord(TRUE, FALSE), RightsRecord(FALSE, TRUE)}

(* Staging: two commands, and complete packages that share names and files. *)
Manifest(contents) ==
    [kind |-> "manifest", status |-> "ready", pin |-> "commit", rights |-> {"rr"},
     artifacts |-> [n \in DOMAIN contents |-> [content |-> contents[n], rights |-> "rr"]]]
Package(contents) == [manifest |-> Manifest(contents), files |-> contents, private |-> FALSE]

First    == [n \in {"a", "b"} |-> "x"]
Second   == [n \in {"a", "b"} |-> IF n = "a" THEN "x" ELSE "y"]
Third    == [n \in {"b", "c"} |-> "y"]
Complete == {Package(First), Package(Second), Package(Third)}
Pair     == {1, 2}

(* The matcher audit: a natural population and a sample of the same decisions;
   three auditors who differ, and two sessions.                             *)
Candidate(id) == [id |-> id, domain |-> "none"]
Population(class, near, far) == [class |-> class, near |-> near, far |-> far, pool |-> {}]
SomePopulations ==
    {Population("natural", {Candidate("a")}, {Candidate("b")}), Population("sample", {Candidate("a")}, {})}

OneSession    == {1}
ThreeAuditors == {1, 2, 3}
=============================================================================
