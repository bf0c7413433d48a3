------------------------------- MODULE LiveImport -------------------------------
(***************************************************************************)
(* Import of a private live run into the registry (registry/live_import.py)*)
(* and the artifact store it shares with uploads through the API           *)
(* (registry/artifacts.py, RegistryService.put_artifact, register_case).   *)
(*                                                                         *)
(* The store is a directory of objects under the hash of their bytes,      *)
(* outside the database; rows, cases, links, grants and tasks are one      *)
(* transaction.  The runner may rewrite the export, and an author the      *)
(* manuscript, while an import reads them.  Bytes and their hash are the   *)
(* same value here.                                                        *)
(***************************************************************************)
EXTENDS Integers, Sequences, FiniteSets

CONSTANTS
    Importers, Uploaders,   \* commands and requests that may run at the same time
    Texts,                  \* manuscripts
    Exports,                \* exports: the titles of the concerns found, as a set
    Medias,                 \* media types an upload may declare
    TextMedia, ExportMedia, \* the types live_import declares
    Ids, Versions,          \* case_id overrides ("" for none) and case versions
    MaxRewrites, MaxCrashes, MaxUploads    \* bounds

None == [kind |-> "none"]
NoMap == [x \in {} |-> None]

ASSUME ImportAssumption ==
    /\ \A e \in Exports : IsFiniteSet(e)
    /\ {MaxRewrites, MaxCrashes, MaxUploads} \subseteq Nat

VARIABLES
    export, text,   \* the files an import reads
    objects,        \* the store: bytes -> "whole" or "partial"
    rows,           \* artifacts: bytes -> media type
    cases,          \* <<case id, version>> -> [text, export, concerns]
    links,          \* artifact_case_links
    running,        \* per importer or uploader: its command, or None
    rewrites, crashes, uploads

files == <<export, text>>
db == <<rows, cases, links>>
vars == <<files, objects, db, running, rewrites, crashes, uploads>>

Procs == Importers \cup Uploaders

TextBytes(t) == <<"text", t>>
ExportBytes(e) == <<"export", e>>

Merge(f, g) == [x \in DOMAIN f \cup DOMAIN g |-> IF x \in DOMAIN g THEN g[x] ELSE f[x]]
Maps(x, y) == [z \in {x} |-> y]

-----------------------------------------------------------------------------
(* The store and the rows of a transaction. *)

Fail(p) == running' = [running EXCEPT ![p] = None]

(* Variant: the bytes are written under their address. *)
VisibleWhileWriting(bytes) == Merge(objects, Maps(bytes, "partial"))

(* Bytes are written to a temporary file beside the address. *)
WhileWriting(bytes) == objects

(* put, first part: an object that is there must have these bytes. *)
Write(p) ==
    /\ running[p] # None /\ running[p].puts # << >> /\ ~running[p].writing
    /\ LET bytes == running[p].puts[1].bytes
       IN  IF bytes \in DOMAIN objects /\ objects[bytes] # "whole" THEN Fail(p) /\ UNCHANGED objects
           ELSE /\ objects' = IF bytes \in DOMAIN objects THEN objects ELSE WhileWriting(bytes)
                /\ running' = [running EXCEPT ![p].writing = TRUE]
    /\ UNCHANGED <<files, db, rewrites, crashes, uploads>>

(* Variant: an object that was there already has its row. *)
RowOfNewObject(p, bytes) == bytes \notin DOMAIN objects

NeedsRow(p, bytes) == bytes \notin DOMAIN rows /\ bytes \notin DOMAIN running[p].rows

(* put, second part, and the row: a row with another media type refuses. *)
Store(p) ==
    /\ running[p] # None /\ running[p].writing
    /\ LET bytes == running[p].puts[1].bytes
           media == running[p].puts[1].media
       IN  /\ objects' = Merge(objects, Maps(bytes, "whole"))
           /\ IF NeedsRow(p, bytes)
              THEN running' = [running EXCEPT ![p].writing = FALSE, ![p].puts = Tail(@),
                                              ![p].rows = Merge(@, Maps(bytes, media))]
              ELSE IF bytes \in DOMAIN rows => rows[bytes] = media
              THEN running' = [running EXCEPT ![p].writing = FALSE, ![p].puts = Tail(@)]
              ELSE Fail(p)
    /\ UNCHANGED <<files, db, rewrites, crashes, uploads>>

-----------------------------------------------------------------------------
(* Imports. *)

(* Concern ids are made of the manuscript, the path and the concern. *)
ConcernIds(t, e) == {<<t, title>> : title \in e}

CaseId(t, id) == IF id = "" THEN t ELSE id

Seedable(e) == e # {}

(* build_live_case_bundle: export and manuscript are read once. *)
Build(p) ==
    /\ running[p] = None
    /\ \E id \in Ids, version \in Versions :
         /\ Seedable(export)
         /\ running' = [running EXCEPT ![p] =
              [kind |-> "import", key |-> <<CaseId(text, id), version>>, text |-> text, export |-> export,
               puts |-> <<[bytes |-> TextBytes(text), media |-> TextMedia]>>,
               writing |-> FALSE, rows |-> NoMap, reread |-> FALSE]]
    /\ UNCHANGED <<files, objects, db, rewrites, crashes, uploads>>

(* The export file is read again, to be stored as well. *)
Reread(p) ==
    /\ running[p] # None /\ running[p].kind = "import" /\ running[p].puts = << >> /\ ~running[p].reread
    /\ running' = [running EXCEPT ![p].reread = TRUE,
                                  ![p].puts = <<[bytes |-> ExportBytes(export), media |-> ExportMedia]>>]
    /\ UNCHANGED <<files, objects, db, rewrites, crashes, uploads>>

Indexed == UNION {cases[k].concerns : k \in DOMAIN cases}

(* Variant: the concerns of a case are unique within the case. *)
UnindexedConcerns(p) == TRUE

(* concern_id is the primary key of the concern index. *)
NewConcerns(p) == ConcernIds(running[p].text, running[p].export) \cap Indexed = {}

(* Variant: the manuscript is read again. *)
SourceNow(p) == TextBytes(text)

(* The artifact the bundle references, from the one time it was read. *)
Source(p) == TextBytes(running[p].text)

(* What the bundle references and no row has, this transaction's included. *)
Missing(p) == {Source(p)} \ (DOMAIN rows \cup DOMAIN running[p].rows)

(* A bundle carries its time: a case that exists always differs. *)
Registrable(p) == Missing(p) = {} /\ running[p].key \notin DOMAIN cases /\ NewConcerns(p)

(* The rows of the transaction are still new. *)
Unique(p) == DOMAIN running[p].rows \cap DOMAIN rows = {}

(* register_case, its grants, the seeded tasks, and the commit. *)
Register(p) ==
    /\ running[p] # None /\ running[p].kind = "import" /\ running[p].puts = << >> /\ running[p].reread
    /\ IF Registrable(p) /\ Unique(p)
       THEN /\ rows' = Merge(rows, running[p].rows)
            /\ cases' = Merge(cases, Maps(running[p].key,
                 [text |-> running[p].text, export |-> running[p].export,
                  concerns |-> ConcernIds(running[p].text, running[p].export)]))
            /\ links' = links \cup {<<running[p].key, Source(p)>>}
       ELSE UNCHANGED db
    /\ Fail(p)
    /\ UNCHANGED <<files, objects, rewrites, crashes, uploads>>

-----------------------------------------------------------------------------
(* Uploads through the API. *)

Upload(u) ==
    /\ running[u] = None /\ uploads < MaxUploads
    /\ \E t \in Texts, media \in Medias :
         running' = [running EXCEPT ![u] =
           [kind |-> "upload", puts |-> <<[bytes |-> TextBytes(t), media |-> media]>>, writing |-> FALSE, rows |-> NoMap]]
    /\ uploads' = uploads + 1
    /\ UNCHANGED <<files, objects, db, rewrites, crashes>>

CommitUpload(u) ==
    /\ running[u] # None /\ running[u].kind = "upload" /\ running[u].puts = << >>
    /\ rows' = IF Unique(u) THEN Merge(rows, running[u].rows) ELSE rows
    /\ Fail(u)
    /\ UNCHANGED <<files, objects, cases, links, rewrites, crashes, uploads>>

-----------------------------------------------------------------------------
(* The world: a process dies, the files are rewritten. *)

Crash(p) ==
    /\ running[p] # None /\ crashes < MaxCrashes
    /\ Fail(p)
    /\ crashes' = crashes + 1
    /\ UNCHANGED <<files, objects, db, rewrites, uploads>>

Rewrite ==
    /\ rewrites < MaxRewrites
    /\ \/ export' \in Exports \ {export} /\ UNCHANGED text
       \/ text' \in Texts \ {text} /\ UNCHANGED export
    /\ rewrites' = rewrites + 1
    /\ UNCHANGED <<objects, db, running, crashes, uploads>>

Init ==
    /\ export \in Exports /\ text \in Texts
    /\ objects = NoMap /\ rows = NoMap /\ cases = NoMap /\ links = {}
    /\ running = [p \in Procs |-> None]
    /\ rewrites = 0 /\ crashes = 0 /\ uploads = 0

Import(p) == Reread(p) \/ Write(p) \/ Store(p) \/ Register(p)

Next ==
    \/ Rewrite
    \/ \E p \in Importers : Build(p) \/ Import(p)
    \/ \E u \in Uploaders : Upload(u) \/ Write(u) \/ Store(u) \/ CommitUpload(u)
    \/ \E p \in Procs : Crash(p)

Spec == Init /\ [][Next]_vars

(* A command runs on by itself; an operator repeats it. *)
FairSpec == Spec /\ \A p \in Importers : WF_vars(Build(p)) /\ WF_vars(Import(p))

-----------------------------------------------------------------------------

TypeOK ==
    /\ \A bytes \in DOMAIN objects : objects[bytes] \in {"whole", "partial"}
    /\ \A bytes \in DOMAIN rows : rows[bytes] \in Medias \cup {TextMedia, ExportMedia}
    /\ \A k \in DOMAIN cases : cases[k].text \in Texts /\ cases[k].export \in Exports \ {{}}

(* Every row has its bytes in the store, and no address ever holds part of *)
(* an object: not between the steps of a put, nor after a crash, nor when  *)
(* two uploads bring the same bytes.                                       *)
StoreBacksRows ==
    /\ DOMAIN rows \subseteq DOMAIN objects
    /\ \A bytes \in DOMAIN objects : objects[bytes] = "whole"

(* A case is about a manuscript that is registered and linked to it,       *)
(* whatever was rewritten while it was imported.                           *)
CasesAreBacked ==
    \A k \in DOMAIN cases :
      /\ TextBytes(cases[k].text) \in DOMAIN rows
      /\ <<k, TextBytes(cases[k].text)>> \in links

(* However often an export is imported, under whichever id and version, a  *)
(* concern is adjudicated in one case only.                                *)
ConcernInOneCase ==
    \A j, k \in DOMAIN cases : j # k => cases[j].concerns \cap cases[k].concerns = {}

(* An import that failed or died half way can be repeated until the case   *)
(* is registered, though its objects are in the store already.             *)
RetriesRegister == (<>[](export # {})) => <>(DOMAIN cases # {})
=============================================================================
