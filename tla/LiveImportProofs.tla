--------------------------- MODULE LiveImportProofs ---------------------------
(***************************************************************************)
(* Theorems about LiveImport for any number of imports, uploads, files,    *)
(* rewrites and crashes: what the database says is in the store, cases are *)
(* backed by their manuscripts, and a concern is adjudicated in one case.  *)
(***************************************************************************)
EXTENDS LiveImport, SequenceTheorems, TLAPS

Bytes == {TextBytes(t) : t \in Texts} \cup {ExportBytes(e) : e \in Exports}
Types == Medias \cup {TextMedia, ExportMedia}
Put == [bytes : Bytes, media : Types]
RowMaps == UNION {[B -> Types] : B \in SUBSET Bytes}
Keys == (Texts \cup Ids) \X Versions

ImportJob == [kind : {"import"}, key : Keys, text : Texts, export : Exports \ {{}},
              puts : Seq(Put), writing : BOOLEAN, rows : RowMaps, reread : BOOLEAN]
UploadJob == [kind : {"upload"}, puts : Seq(Put), writing : BOOLEAN, rows : RowMaps]
Job == ImportJob \cup UploadJob

(* The commands are well formed, and write only what they are about to store. *)
JobsOK ==
    /\ export \in Exports /\ text \in Texts
    /\ rows \in RowMaps
    /\ running \in [Procs -> Job \cup {None}]
    /\ \A p \in Procs : running[p] # None /\ running[p].writing => running[p].puts # << >>

(* A row that a transaction has yet to commit has its bytes already. *)
PendingRowsBacked ==
    \A p \in Procs : running[p] # None => DOMAIN running[p].rows \subseteq DOMAIN objects

IInv == TypeOK /\ JobsOK /\ StoreBacksRows /\ PendingRowsBacked /\ CasesAreBacked /\ ConcernInOneCase

-----------------------------------------------------------------------------
(* Finite maps. *)

(* Adding to a map keeps what it had, and adds what is added. *)
LEMMA MergeMap ==
  ASSUME NEW f, NEW g
  PROVE  /\ DOMAIN Merge(f, g) = DOMAIN f \cup DOMAIN g
         /\ \A x \in DOMAIN g : Merge(f, g)[x] = g[x]
         /\ \A x \in DOMAIN f \ DOMAIN g : Merge(f, g)[x] = f[x]
BY DEF Merge

(* Maps(x, y) maps x alone, to y. *)
LEMMA MapsMap ==
  ASSUME NEW x, NEW y
  PROVE  DOMAIN Maps(x, y) = {x} /\ Maps(x, y)[x] = y
BY DEF Maps

(* Adding one entry. *)
LEMMA AddOne ==
  ASSUME NEW f, NEW x, NEW y
  PROVE  /\ DOMAIN Merge(f, Maps(x, y)) = DOMAIN f \cup {x}
         /\ Merge(f, Maps(x, y))[x] = y
         /\ \A z \in DOMAIN f \ {x} : Merge(f, Maps(x, y))[z] = f[z]
BY DEF Merge, Maps

(* Rows added to rows are rows. *)
LEMMA MergeRows ==
  ASSUME NEW f \in RowMaps, NEW g \in RowMaps
  PROVE  Merge(f, g) \in RowMaps
<1>1. PICK A \in SUBSET Bytes : f \in [A -> Types]
  BY DEF RowMaps
<1>2. PICK B \in SUBSET Bytes : g \in [B -> Types]
  BY DEF RowMaps
<1>3. Merge(f, g) \in [A \cup B -> Types]
  BY <1>1, <1>2 DEF Merge
<1>4. A \cup B \in SUBSET Bytes
  OBVIOUS
<1> QED BY <1>3, <1>4 DEF RowMaps

(* A single row is one, and so is none. *)
LEMMA OneRow ==
  ASSUME NEW b \in Bytes, NEW m \in Types
  PROVE  Maps(b, m) \in RowMaps
<1>1. Maps(b, m) \in [{b} -> Types] /\ {b} \in SUBSET Bytes
  BY DEF Maps
<1> QED BY <1>1 DEF RowMaps

LEMMA NoRows == NoMap \in RowMaps
<1>1. NoMap \in [{} -> Types] /\ {} \in SUBSET Bytes
  BY DEF NoMap
<1> QED BY <1>1 DEF RowMaps

-----------------------------------------------------------------------------
(* What the steps of a put do to the command that runs them. *)

(* Only a whole command is a command. *)
LEMMA JobFields ==
  ASSUME NEW j \in Job
  PROVE  /\ j.puts \in Seq(Put) /\ j.writing \in BOOLEAN /\ j.rows \in RowMaps
         /\ j # None
BY DEF Job, ImportJob, UploadJob, None

(* Taking the first put off. *)
LEMMA TailPuts ==
  ASSUME NEW s \in Seq(Put), s # << >>
  PROVE  s[1] \in Put /\ Tail(s) \in Seq(Put)
BY EmptySeq, ElementOfSeq, LenProperties, HeadTailProperties

(* A put begins. *)
LEMMA BeginPut ==
  ASSUME NEW j \in Job
  PROVE  /\ [j EXCEPT !.writing = TRUE] \in Job
         /\ [j EXCEPT !.writing = TRUE].puts = j.puts
         /\ [j EXCEPT !.writing = TRUE].rows = j.rows
<1>1. CASE j \in ImportJob
  BY <1>1 DEF Job, ImportJob
<1>2. CASE j \in UploadJob
  BY <1>2 DEF Job, UploadJob
<1> QED BY <1>1, <1>2 DEF Job

(* A put ends with a row. *)
Ended(j, s, r) == [j EXCEPT !.writing = FALSE, !.puts = s, !.rows = r]
LEMMA EndPut ==
  ASSUME NEW j \in Job, NEW s \in Seq(Put), NEW r \in RowMaps
  PROVE  Ended(j, s, r) \in Job /\ ~Ended(j, s, r).writing /\ Ended(j, s, r).rows = r
<1>1. CASE j \in ImportJob
  BY <1>1 DEF Job, ImportJob, Ended
<1>2. CASE j \in UploadJob
  BY <1>2 DEF Job, UploadJob, Ended
<1> QED BY <1>1, <1>2 DEF Job

(* A put ends, and its row was there. *)
LEMMA EndPutPlain ==
  ASSUME NEW j \in Job, NEW s \in Seq(Put)
  PROVE  /\ [j EXCEPT !.writing = FALSE, !.puts = s] \in Job
         /\ [j EXCEPT !.writing = FALSE, !.puts = s].writing = FALSE
         /\ [j EXCEPT !.writing = FALSE, !.puts = s].rows = j.rows
<1>1. CASE j \in ImportJob
  BY <1>1 DEF Job, ImportJob
<1>2. CASE j \in UploadJob
  BY <1>2 DEF Job, UploadJob
<1> QED BY <1>1, <1>2 DEF Job

(* The export is queued once the manuscript is stored. *)
LEMMA RereadJob ==
  ASSUME NEW j \in Job, j.kind = "import", NEW s \in Seq(Put)
  PROVE  /\ [j EXCEPT !.reread = TRUE, !.puts = s] \in Job
         /\ [j EXCEPT !.reread = TRUE, !.puts = s].puts = s
         /\ [j EXCEPT !.reread = TRUE, !.puts = s].writing = j.writing
         /\ [j EXCEPT !.reread = TRUE, !.puts = s].rows = j.rows
<1>1. j \in ImportJob
  BY DEF Job, UploadJob
<1> QED BY <1>1 DEF Job, ImportJob

(* A step of one command changes that command, to j, and no other. *)
Becomes(p, j) == running' = [running EXCEPT ![p] = j]

(* Such a step keeps the commands well formed and their rows backed, if j is. *)
LEMMA OneCommand ==
  ASSUME IInv, NEW p \in Procs, NEW j \in Job \cup {None}, Becomes(p, j),
         j # None /\ j.writing => j.puts # << >>,
         j # None => DOMAIN j.rows \subseteq DOMAIN objects',
         DOMAIN objects \subseteq DOMAIN objects'
  PROVE  /\ running' \in [Procs -> Job \cup {None}]
         /\ \A q \in Procs : running'[q] # None /\ running'[q].writing => running'[q].puts # << >>
         /\ PendingRowsBacked'
<1>1. running \in [Procs -> Job \cup {None}]
  BY DEF IInv, JobsOK
<1>2. \A q \in Procs : running'[q] = IF q = p THEN j ELSE running[q]
  BY <1>1 DEF Becomes
<1>3. running' \in [Procs -> Job \cup {None}]
  BY <1>1 DEF Becomes
<1>4. \A q \in Procs : running'[q] # None /\ running'[q].writing => running'[q].puts # << >>
  BY <1>2 DEF IInv, JobsOK
<1>5. PendingRowsBacked'
  BY <1>2 DEF IInv, PendingRowsBacked
<1> QED BY <1>3, <1>4, <1>5

(* What a step of a put, or of a command's end, may do. *)
Sound(p) ==
    /\ \E j \in Job \cup {None} :
         /\ Becomes(p, j)
         /\ j # None /\ j.writing => j.puts # << >>
         /\ j # None => DOMAIN j.rows \subseteq DOMAIN objects'
    /\ DOMAIN objects \subseteq DOMAIN objects'
    /\ \A b \in DOMAIN objects' : objects'[b] = "whole"

LEMMA FailSound ==
  ASSUME IInv, NEW p \in Procs, Fail(p), UNCHANGED objects
  PROVE  Sound(p)
BY DEF Fail, Sound, Becomes, IInv, StoreBacksRows

LEMMA WriteSound ==
  ASSUME IInv, NEW p \in Procs, Write(p)
  PROVE  Sound(p)
<1>1. running \in [Procs -> Job \cup {None}] /\ running[p] \in Job /\ running[p].puts # << >>
  BY DEF IInv, JobsOK, Write
<1>2. \A b \in DOMAIN objects : objects[b] = "whole"
  BY DEF IInv, StoreBacksRows
<1>3. objects' = objects /\ running' = [running EXCEPT ![p].writing = TRUE]
  BY <1>2 DEF Write, WhileWriting
<1> DEFINE j == [running[p] EXCEPT !.writing = TRUE]
<1>4. Becomes(p, j)
  BY <1>1, <1>3 DEF Becomes
<1>5. j \in Job /\ j.puts = running[p].puts /\ j.rows = running[p].rows
  BY <1>1, BeginPut
<1>6. DOMAIN j.rows \subseteq DOMAIN objects'
  <2>1. DOMAIN running[p].rows \subseteq DOMAIN objects
    BY <1>1, JobFields DEF IInv, PendingRowsBacked
  <2> QED BY <1>3, <1>5, <2>1
<1> HIDE DEF j
<1> QED BY <1>1, <1>2, <1>3, <1>4, <1>5, <1>6 DEF Sound

LEMMA StoreSound ==
  ASSUME IInv, NEW p \in Procs, Store(p)
  PROVE  Sound(p)
<1> DEFINE was == running[p]
           bytes == was.puts[1].bytes
           media == was.puts[1].media
<1>1. running \in [Procs -> Job \cup {None}] /\ was \in Job /\ was.puts # << >>
  BY DEF IInv, JobsOK, Store
<1>2. was.puts \in Seq(Put) /\ was.rows \in RowMaps
  BY <1>1, JobFields
<1>3. was.puts[1] \in Put /\ Tail(was.puts) \in Seq(Put)
  BY <1>1, <1>2, TailPuts
<1>4. bytes \in Bytes /\ media \in Types
  BY <1>3 DEF Put
<1>5. /\ \A b \in DOMAIN objects : objects[b] = "whole"
      /\ DOMAIN was.rows \subseteq DOMAIN objects
  BY <1>1, JobFields DEF IInv, StoreBacksRows, PendingRowsBacked
<1>6. objects' = Merge(objects, Maps(bytes, "whole"))
  BY DEF Store
<1>7. /\ DOMAIN objects' = DOMAIN objects \cup {bytes}
      /\ \A b \in DOMAIN objects' : objects'[b] = "whole"
  <2> HIDE DEF bytes
  <2> QED BY <1>5, <1>6 DEF Merge, Maps
<1>8. CASE Fail(p)
  BY <1>7, <1>8 DEF Fail, Becomes, Sound
<1> DEFINE more == Merge(was.rows, Maps(bytes, media))
           stored == Ended(was, Tail(was.puts), more)
           plain == [was EXCEPT !.writing = FALSE, !.puts = Tail(was.puts)]
<1>9. CASE running' = [running EXCEPT ![p].writing = FALSE, ![p].puts = Tail(@),
                                      ![p].rows = Merge(@, Maps(bytes, media))]
  <2>1. more \in RowMaps /\ DOMAIN more = DOMAIN was.rows \cup {bytes}
    <3> HIDE DEF was, bytes, media
    <3>1. Maps(bytes, media) \in RowMaps
      BY <1>4, OneRow
    <3>2. more \in RowMaps
      BY <1>2, <3>1, MergeRows
    <3> QED BY <3>2, AddOne
  <2>2. stored \in Job /\ ~stored.writing /\ stored.rows = more
    <3> HIDE DEF was, more
    <3> QED BY <1>1, <1>3, <2>1, EndPut
  <2>3. Becomes(p, stored)
    BY <1>1, <1>9 DEF Becomes, Job, ImportJob, UploadJob, Ended
  <2> HIDE DEF stored, more
  <2>4. DOMAIN stored.rows \subseteq DOMAIN objects'
    BY <1>5, <1>7, <2>1, <2>2
  <2> QED BY <1>7, <2>2, <2>3, <2>4 DEF Sound
<1>10. CASE running' = [running EXCEPT ![p].writing = FALSE, ![p].puts = Tail(@)]
  <2>1. plain \in Job /\ plain.writing = FALSE /\ plain.rows = was.rows
    <3> HIDE DEF was
    <3> QED BY <1>1, <1>3, EndPutPlain
  <2>2. Becomes(p, plain)
    BY <1>1, <1>10 DEF Becomes, Job, ImportJob, UploadJob
  <2> HIDE DEF plain
  <2> QED BY <1>5, <1>7, <2>1, <2>2 DEF Sound
<1> QED BY <1>8, <1>9, <1>10 DEF Store

(* An import begins with the manuscript to store and no rows. *)
LEMMA BuildSound ==
  ASSUME IInv, NEW p \in Importers, Build(p)
  PROVE  Sound(p)
<1>1. PICK id \in Ids, version \in Versions : Build(p)!2!(id, version)
  BY DEF Build
<1> DEFINE put == [bytes |-> TextBytes(text), media |-> TextMedia]
           j == [kind |-> "import", key |-> <<CaseId(text, id), version>>, text |-> text,
                 export |-> export, puts |-> <<put>>, writing |-> FALSE, rows |-> NoMap,
                 reread |-> FALSE]
<1>2. text \in Texts /\ export \in Exports \ {{}}
  BY <1>1 DEF IInv, JobsOK, Seedable
<1>3. <<put>> \in Seq(Put)
  BY <1>2 DEF Put, Bytes, Types
<1>4. <<CaseId(text, id), version>> \in Keys
  BY <1>2 DEF Keys, CaseId
<1>5. j \in Job
  BY <1>2, <1>3, <1>4, NoRows DEF Job, ImportJob
<1>6. Becomes(p, j) /\ ~j.writing /\ j.rows = NoMap
  BY <1>1 DEF Becomes
<1>7. UNCHANGED objects
  BY DEF Build
<1>8. DOMAIN NoMap = {}
  BY DEF NoMap
<1> HIDE DEF j
<1> QED BY <1>5, <1>6, <1>7, <1>8 DEF Sound, IInv, StoreBacksRows

LEMMA RereadSound ==
  ASSUME IInv, NEW p \in Importers, Reread(p)
  PROVE  Sound(p)
<1> DEFINE put == [bytes |-> ExportBytes(export), media |-> ExportMedia]
           j == [running[p] EXCEPT !.reread = TRUE, !.puts = <<put>>]
<1>1. running \in [Procs -> Job \cup {None}] /\ running[p] \in Job /\ running[p].kind = "import"
  BY DEF IInv, JobsOK, Reread, Procs
<1>2. <<put>> \in Seq(Put)
  BY DEF IInv, JobsOK, Put, Bytes, Types
<1>3. j \in Job /\ j.puts = <<put>> /\ j.rows = running[p].rows
  <2> HIDE DEF put
  <2> QED BY <1>1, <1>2, RereadJob
<1>4. Becomes(p, j) /\ UNCHANGED objects
  BY <1>1 DEF Reread, Becomes
<1>5. DOMAIN running[p].rows \subseteq DOMAIN objects
  BY <1>1, JobFields DEF IInv, PendingRowsBacked, Procs
<1>6. <<put>> # << >>
  OBVIOUS
<1> HIDE DEF j, put
<1> QED BY <1>3, <1>4, <1>5, <1>6 DEF Sound, IInv, StoreBacksRows

LEMMA UploadSound ==
  ASSUME IInv, NEW u \in Uploaders, Upload(u)
  PROVE  Sound(u)
<1>1. PICK t \in Texts, media \in Medias : Upload(u)!2!(t, media)
  BY DEF Upload
<1> DEFINE put == [bytes |-> TextBytes(t), media |-> media]
           j == [kind |-> "upload", puts |-> <<put>>, writing |-> FALSE, rows |-> NoMap]
<1>2. <<put>> \in Seq(Put)
  BY DEF Put, Bytes, Types
<1>3. j \in Job
  BY <1>2, NoRows DEF Job, UploadJob
<1>4. Becomes(u, j) /\ ~j.writing /\ j.rows = NoMap
  BY <1>1 DEF Becomes
<1>5. UNCHANGED objects
  BY DEF Upload
<1>6. DOMAIN NoMap = {}
  BY DEF NoMap
<1> HIDE DEF j
<1> QED BY <1>3, <1>4, <1>5, <1>6 DEF Sound, IInv, StoreBacksRows

(* Every step is one of a command, or changes neither commands nor objects. *)
LEMMA StepSound ==
  ASSUME IInv, [Next]_vars
  PROVE  (\E p \in Procs : Sound(p)) \/ UNCHANGED <<objects, running>>
<1>1. CASE Rewrite \/ UNCHANGED vars
  BY <1>1 DEF Rewrite, vars
<1>2. ASSUME NEW p \in Importers, Build(p) \/ Import(p) PROVE Sound(p)
  <2>1. p \in Procs
    BY DEF Procs
  <2>2. CASE Register(p)
    BY <2>1, <2>2, FailSound DEF Register
  <2> QED BY <1>2, <2>1, <2>2, BuildSound, RereadSound, WriteSound, StoreSound DEF Import
<1>3. ASSUME NEW u \in Uploaders, Upload(u) \/ Write(u) \/ Store(u) \/ CommitUpload(u)
      PROVE  Sound(u)
  <2>1. u \in Procs
    BY DEF Procs
  <2>2. CASE CommitUpload(u)
    BY <2>1, <2>2, FailSound DEF CommitUpload
  <2> QED BY <1>3, <2>1, <2>2, UploadSound, WriteSound, StoreSound
<1>4. ASSUME NEW p \in Procs, Crash(p) PROVE Sound(p)
  BY <1>4, FailSound DEF Crash
<1> QED BY <1>1, <1>2, <1>3, <1>4 DEF Next, Procs

(* Rows change when a transaction commits its own, and only then. *)
LEMMA RowsStep ==
  ASSUME IInv, [Next]_vars
  PROVE  \/ rows' = rows
         \/ \E p \in Procs : running[p] # None /\ rows' = Merge(rows, running[p].rows)
BY DEF Next, vars, db, files, Rewrite, Build, Import, Reread, Write, Store, Register, Upload,
       CommitUpload, Crash, Procs

(* Cases change when an import registers one, with everything it was made of. *)
Registered(p) ==
    /\ running[p] # None /\ running[p].kind = "import"
    /\ Missing(p) = {} /\ running[p].key \notin DOMAIN cases /\ NewConcerns(p)
    /\ rows' = Merge(rows, running[p].rows)
    /\ cases' = Merge(cases, Maps(running[p].key,
          [text |-> running[p].text, export |-> running[p].export,
           concerns |-> ConcernIds(running[p].text, running[p].export)]))
    /\ links' = links \cup {<<running[p].key, Source(p)>>}
LEMMA CasesStep ==
  ASSUME IInv, [Next]_vars
  PROVE  UNCHANGED <<cases, links>> \/ \E p \in Procs : Registered(p)
<1>1. ASSUME NEW p \in Importers, Register(p)
      PROVE  UNCHANGED <<cases, links>> \/ Registered(p)
  BY <1>1 DEF Register, Registrable, Registered, db
<1> QED BY <1>1 DEF Next, vars, db, files, Rewrite, Build, Import, Reread, Write, Store, Upload,
                    CommitUpload, Crash, Procs

(* The commands and the rows they have yet to commit stay in order. *)
LEMMA CommandsStep ==
  ASSUME IInv, [Next]_vars
  PROVE  /\ running' \in [Procs -> Job \cup {None}]
         /\ \A q \in Procs : running'[q] # None /\ running'[q].writing => running'[q].puts # << >>
         /\ PendingRowsBacked'
         /\ DOMAIN objects \subseteq DOMAIN objects'
         /\ \A b \in DOMAIN objects' : objects'[b] = "whole"
<1>1. CASE \E p \in Procs : Sound(p)
  BY <1>1, OneCommand DEF Sound
<1>2. CASE UNCHANGED <<objects, running>>
  BY <1>2 DEF IInv, JobsOK, PendingRowsBacked, StoreBacksRows
<1> QED BY <1>1, <1>2, StepSound

(* The manuscript of a registered case has its row. *)
LEMMA SourceHasRow ==
  ASSUME IInv, NEW p \in Procs, Registered(p)
  PROVE  TextBytes(running[p].text) \in DOMAIN rows'
BY DEF Registered, Missing, Source, Merge

(* A new case brings concerns that no other case has. *)
LEMMA NewCase ==
  ASSUME IInv, NEW p \in Procs, Registered(p)
  PROVE  CasesAreBacked' /\ ConcernInOneCase'
<1> DEFINE key == running[p].key
           new == [text |-> running[p].text, export |-> running[p].export,
                   concerns |-> ConcernIds(running[p].text, running[p].export)]
<1>1. /\ DOMAIN cases' = DOMAIN cases \cup {key} /\ cases'[key] = new
      /\ \A k \in DOMAIN cases : k # key /\ cases'[k] = cases[k]
  BY DEF Registered, Merge, Maps
<1>2. DOMAIN rows \subseteq DOMAIN rows' /\ links \subseteq links'
  BY DEF Registered, Merge
<1>3. CasesAreBacked'
  <2>1. TextBytes(new.text) \in DOMAIN rows' /\ <<key, TextBytes(new.text)>> \in links'
    BY SourceHasRow DEF Registered, Source
  <2> QED BY <1>1, <1>2, <2>1 DEF IInv, CasesAreBacked
<1>4. ConcernInOneCase'
  <2>1. \A k \in DOMAIN cases : cases[k].concerns \cap new.concerns = {}
    BY DEF Registered, NewConcerns, Indexed
  <2> HIDE DEF new, key
  <2> QED BY <1>1, <2>1 DEF IInv, ConcernInOneCase
<1> QED BY <1>3, <1>4

-----------------------------------------------------------------------------

LEMMA ImportInit == Init => IInv
<1> SUFFICES ASSUME Init PROVE IInv
  OBVIOUS
<1>1. rows \in RowMaps
  BY NoRows DEF Init
<1>2. DOMAIN NoMap = {}
  BY DEF NoMap
<1> QED BY <1>1, <1>2 DEF Init, IInv, TypeOK, JobsOK, StoreBacksRows, PendingRowsBacked,
                         CasesAreBacked, ConcernInOneCase

LEMMA ImportStep == IInv /\ [Next]_vars => IInv'
<1> SUFFICES ASSUME IInv, [Next]_vars PROVE IInv'
  OBVIOUS
<1>1. rows' \in RowMaps /\ DOMAIN rows \subseteq DOMAIN rows' /\ DOMAIN rows' \subseteq DOMAIN objects'
  <2>1. CASE rows' = rows
    BY <2>1, CommandsStep DEF IInv, JobsOK, StoreBacksRows
  <2>2. ASSUME NEW p \in Procs, running[p] # None, rows' = Merge(rows, running[p].rows)
        PROVE  /\ rows' \in RowMaps /\ DOMAIN rows \subseteq DOMAIN rows'
               /\ DOMAIN rows' \subseteq DOMAIN objects'
    <3>1. running[p] \in Job /\ running[p].rows \in RowMaps /\ rows \in RowMaps
      BY <2>2, JobFields DEF IInv, JobsOK
    <3>2. DOMAIN running[p].rows \subseteq DOMAIN objects /\ DOMAIN rows \subseteq DOMAIN objects
      BY <2>2 DEF IInv, PendingRowsBacked, StoreBacksRows
    <3>3. DOMAIN rows' = DOMAIN rows \cup DOMAIN running[p].rows
      BY <2>2, MergeMap
    <3> QED BY <2>2, <3>1, <3>2, <3>3, MergeRows, CommandsStep
  <2> QED BY <2>1, <2>2, RowsStep
<1>2. StoreBacksRows'
  BY <1>1, CommandsStep DEF StoreBacksRows
<1>3. export' \in Exports /\ text' \in Texts
  BY DEF IInv, JobsOK, Next, vars, files, Rewrite, Build, Import, Reread, Write, Store, Register,
         Upload, CommitUpload, Crash
<1>4. JobsOK' /\ PendingRowsBacked'
  BY <1>1, <1>3, CommandsStep DEF JobsOK
<1>5. CasesAreBacked' /\ ConcernInOneCase'
  <2>1. CASE UNCHANGED <<cases, links>>
    BY <1>1, <2>1 DEF IInv, CasesAreBacked, ConcernInOneCase
  <2> QED BY <2>1, NewCase, CasesStep
<1>6. \A k \in DOMAIN cases' : cases'[k].text \in Texts /\ cases'[k].export \in Exports \ {{}}
  <2>1. CASE UNCHANGED <<cases, links>>
    BY <2>1 DEF IInv, TypeOK
  <2>2. ASSUME NEW p \in Procs, Registered(p)
        PROVE  \A k \in DOMAIN cases' :
                 cases'[k].text \in Texts /\ cases'[k].export \in Exports \ {{}}
    <3>1. running[p] \in ImportJob
      BY <2>2 DEF Registered, IInv, JobsOK, Job, UploadJob
    <3>2. running[p].text \in Texts /\ running[p].export \in Exports \ {{}}
      BY <3>1 DEF ImportJob
    <3> QED BY <2>2, <3>2 DEF Registered, Merge, Maps, IInv, TypeOK
  <2> QED BY <2>1, <2>2, CasesStep
<1>7. \A b \in DOMAIN rows' : rows'[b] \in Types
  BY <1>1 DEF RowMaps
<1>8. TypeOK'
  BY <1>6, <1>7, CommandsStep DEF TypeOK, Types
<1> QED BY <1>2, <1>4, <1>5, <1>8 DEF IInv

LEMMA Imported == Spec => []IInv
BY ImportInit, ImportStep, PTL DEF Spec

(* The files, rows and cases are always of their types. *)
THEOREM TypeCorrect == Spec => []TypeOK
<1>1. IInv => TypeOK
  BY DEF IInv
<1> QED BY <1>1, Imported, PTL

(* A row's bytes are in the store, and no address holds part of an object
   (ArtifactStore.put), whatever crashes and whoever uploads at the time. *)
THEOREM RowsHaveObjects == Spec => []StoreBacksRows
<1>1. IInv => StoreBacksRows
  BY DEF IInv
<1> QED BY <1>1, Imported, PTL

(* A case's manuscript is registered and linked, though it may be rewritten
   while the import that reads it runs (build_live_case_bundle, register_case). *)
THEOREM CasesHaveManuscripts == Spec => []CasesAreBacked
<1>1. IInv => CasesAreBacked
  BY DEF IInv
<1> QED BY <1>1, Imported, PTL

(* No concern is adjudicated in two cases, under whichever ids an export is
   imported again (the concern index's primary key).                       *)
THEOREM ConcernsHaveOneCase == Spec => []ConcernInOneCase
<1>1. IInv => ConcernInOneCase
  BY DEF IInv
<1> QED BY <1>1, Imported, PTL
=============================================================================
