---------------------------- MODULE ProductionIntake ----------------------------
(***************************************************************************)
(* Staging of an adapter's production exports (opencritique_adapters,      *)
(* production_intake.py and production_fixtures.py, with the script        *)
(* ingest_production_adapter_exports.py).  An operator points a command at *)
(* a package directory; the command validates it, deletes the reviews of   *)
(* the destination tree, copies the package's reviews one by one, writes   *)
(* the manifest and validates the tree.  The package may be rebuilt and    *)
(* the command may die at any point; nothing is locked.  The release gates *)
(* and the conversion reports look at the tree at any time.                *)
(*                                                                         *)
(* A file is its content, and its hash and its size are its content.       *)
(***************************************************************************)
EXTENDS Integers, FiniteSets, Functions

CONSTANTS
    Stagers,        \* commands that may run at the same time
    Names,          \* file names under reviews/
    Contents,
    Packages,       \* what an operator may build: [manifest, files, private]
    Minimum,        \* ADAPTER_READY_MINIMA of the adapter
    MaxRebuilds,    \* bound: how often the package is rebuilt
    MaxCrashes      \* bound: how often a command dies

None == [kind |-> "none"]
Torn == [kind |-> "torn"]
NoFiles == [n \in {} |-> ""]

IntakeAssumption ==
    /\ Minimum \in Nat \ {0} /\ {MaxRebuilds, MaxCrashes} \subseteq Nat
    /\ \A p \in Packages :
         /\ p.manifest.kind = "manifest" /\ p.manifest.status \in {"pending", "blocked", "ready"}
         /\ p.files \in [DOMAIN p.files -> Contents]
         /\ DOMAIN p.files \subseteq Names /\ IsFiniteSet(DOMAIN p.files)

VARIABLES
    package,        \* the package directory
    manifest,       \* MANIFEST.json of the tree: a manifest or Torn
    reviews,        \* reviews/ of the tree: name -> content
    running,        \* per stager: [kind, manifest, stale, todo], or None
    told,           \* per stager: what the last command ended with
    rebuilds, crashes

vars == <<package, manifest, reviews, running, told, rebuilds, crashes>>

Pending == [kind |-> "manifest", status |-> "pending", pin |-> "", rights |-> {}, artifacts |-> NoFiles]

-----------------------------------------------------------------------------
(* The manifest contract. *)

(* check_manifest_invariants *)
CheckManifest(m) ==
    IF m.status = "ready"
    THEN /\ m.pin \notin {"", "sample"}
         /\ m.rights # {}
         /\ Cardinality(DOMAIN m.artifacts) >= Minimum
         /\ \A n \in DOMAIN m.artifacts : m.artifacts[n].rights \in m.rights
    ELSE m.artifacts = NoFiles

Loads(m) == m # Torn /\ CheckManifest(m)

VerifyArtifactHashes(m, files) ==
    \A n \in DOMAIN m.artifacts : n \in DOMAIN files /\ files[n] = m.artifacts[n].content

(* validate_production_package *)
ValidPackage(m, files) ==
    /\ Loads(m)
    /\ IF m.status = "ready"
       THEN /\ Cardinality(DOMAIN files) >= Minimum
            /\ VerifyArtifactHashes(m, files)
            /\ DOMAIN m.artifacts = DOMAIN files
       ELSE files = NoFiles

(* production_section_for: the status the reports show, or an error *)
Section(m, files) ==
    IF ~Loads(m) THEN "error"
    ELSE IF m.status # "ready" THEN m.status
    ELSE IF /\ Cardinality(DOMAIN files) >= Minimum
            /\ Cardinality(DOMAIN m.artifacts) = Cardinality(DOMAIN files)
            /\ VerifyArtifactHashes(m, files)
         THEN "ready" ELSE "error"

(* validate_fixture_tree *)
ValidTree(m, files) ==
    Section(m, files) # "error" /\ (m.status = "ready" => ValidPackage(m, files))

-----------------------------------------------------------------------------
(* Staging, step by step. *)

Stagable ==
    /\ ~package.private
    /\ ValidPackage(package.manifest, package.files)
    /\ package.manifest.status = "ready"

Begin(g) ==
    /\ running[g] = None /\ Stagable
    /\ running' = [running EXCEPT ![g] =
         [kind |-> "stage", manifest |-> package.manifest, stale |-> DOMAIN reviews,
          todo |-> DOMAIN package.manifest.artifacts, written |-> FALSE]]
    /\ UNCHANGED <<package, manifest, reviews, told, rebuilds, crashes>>

Fail(g) ==
    /\ running' = [running EXCEPT ![g] = None]
    /\ told' = [told EXCEPT ![g] = "failed"]

(* Another command may have deleted it already. *)
Unlink(g) ==
    /\ running[g] # None
    /\ \E n \in running[g].stale :
         IF n \in DOMAIN reviews
         THEN /\ reviews' = Restrict(reviews, DOMAIN reviews \ {n})
              /\ running' = [running EXCEPT ![g].stale = @ \ {n}]
              /\ UNCHANGED told
         ELSE Fail(g) /\ UNCHANGED reviews
    /\ UNCHANGED <<package, manifest, rebuilds, crashes>>

Fetched(n) == {package.files[m] : m \in {n} \cap DOMAIN package.files}

(* The package is read again, as it is now. *)
Copy(g) ==
    /\ running[g] # None /\ running[g].stale = {}
    /\ \E n \in running[g].todo :
         IF Fetched(n) = {} THEN Fail(g) /\ UNCHANGED reviews
         ELSE /\ \E content \in Fetched(n) :
                   reviews' = [m \in DOMAIN reviews \cup {n} |-> IF m = n THEN content ELSE reviews[m]]
              /\ running' = [running EXCEPT ![g].todo = @ \ {n}]
              /\ UNCHANGED told
    /\ UNCHANGED <<package, manifest, rebuilds, crashes>>

WriteManifest(g) ==
    /\ running[g] # None /\ running[g].stale = {} /\ running[g].todo = {} /\ ~running[g].written
    /\ manifest' = running[g].manifest
    /\ running' = [running EXCEPT ![g].written = TRUE]
    /\ UNCHANGED <<package, reviews, told, rebuilds, crashes>>

Validate(g) ==
    /\ running[g] # None /\ running[g].written
    /\ running' = [running EXCEPT ![g] = None]
    /\ told' = [told EXCEPT ![g] = IF ValidTree(manifest, reviews) THEN "staged" ELSE "failed"]
    /\ UNCHANGED <<package, manifest, reviews, rebuilds, crashes>>

(* The command dies; in the middle of writing, the manifest is cut short. *)
Crash(g) ==
    /\ running[g] # None /\ crashes < MaxCrashes
    /\ manifest' \in {manifest} \cup
         (IF running[g].stale = {} /\ running[g].todo = {} /\ ~running[g].written THEN {Torn} ELSE {})
    /\ running' = [running EXCEPT ![g] = None]
    /\ crashes' = crashes + 1
    /\ UNCHANGED <<package, reviews, told, rebuilds>>

(* The operator builds the package anew, whether or not it is being read. *)
Rebuild ==
    /\ rebuilds < MaxRebuilds
    /\ package' \in Packages \ {package}
    /\ rebuilds' = rebuilds + 1
    /\ UNCHANGED <<manifest, reviews, running, told, crashes>>

Init ==
    /\ package \in Packages
    /\ manifest = Pending /\ reviews = NoFiles
    /\ running = [g \in Stagers |-> None]
    /\ told = [g \in Stagers |-> "nothing"]
    /\ rebuilds = 0 /\ crashes = 0

Step(g) == Unlink(g) \/ Copy(g) \/ WriteManifest(g) \/ Validate(g)

Next == Rebuild \/ \E g \in Stagers : Begin(g) \/ Step(g) \/ Crash(g)

Spec == Init /\ [][Next]_vars

(* A command runs on by itself; a failed one is started again. *)
FairSpec == Spec /\ \A g \in Stagers : WF_vars(Begin(g)) /\ WF_vars(Step(g))

-----------------------------------------------------------------------------

TypeOK ==
    /\ manifest = Torn \/ (manifest.kind = "manifest" /\ manifest.status \in {"pending", "blocked", "ready"})
    /\ DOMAIN reviews \subseteq Names /\ Range(reviews) \subseteq Contents
    /\ \A g \in Stagers : told[g] \in {"nothing", "staged", "failed"}

(* The reports show ready only over the reviews of one package that was    *)
(* complete: whatever two commands, a rebuilt package or a crash mixed     *)
(* together in the tree, files of different packages never pass as ready.  *)
ReadyIsOnePackage ==
    Section(manifest, reviews) = "ready" =>
      \E p \in Packages :
        /\ p.manifest = manifest /\ p.files = reviews
        /\ ValidPackage(p.manifest, p.files) /\ ~p.private

(* Once the package is complete and stays so, staging it again makes the   *)
(* tree ready, from whatever an interrupted command left behind.           *)
Recovers ==
    LET PackageComplete == /\ ~package.private /\ package.manifest.status = "ready"
                           /\ ValidPackage(package.manifest, package.files)
    IN  <>[]PackageComplete => []<>(Section(manifest, reviews) = "ready")
=============================================================================
