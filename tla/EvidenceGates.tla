----------------------------- MODULE EvidenceGates -----------------------------
(***************************************************************************)
(* The scientific gates of a v0.9 release (scripts/v09_gate_lib.py): each  *)
(* verifies an envelope an evidence authority signed                       *)
(* (evidence_verify.py, attestations.py) and compares what it attests with *)
(* the evidence found in the repository at that moment.                    *)
(*                                                                         *)
(* The gates share the trust store and the clock only, so a behaviour      *)
(* follows one gate: slot is its envelope path.  Evidence is the set of    *)
(* things the gate would count; for staffing, pairs of a domain and an     *)
(* adjudicator.                                                            *)
(***************************************************************************)
EXTENDS TrustStore

CONSTANTS
    Slots,              \* the gates a run looks at
    Items,              \* cases, exports, decisions, benchmarks
    Domains, Adjudicators,
    MinExports,         \* ADAPTER_READY_MINIMA
    AuditTarget,        \* NATURAL_DOD_TARGET
    HoldoutMinimum,     \* NATURAL_HOLDOUT_MINIMUM
    AttestationLife,    \* bound: instants between issued_at and not_after
    MaxEnvelopes        \* bound: envelopes issued

Exports  == {"coarse", "openreviewer"}
AllSlots == Exports \cup {"natural", "staffing", "audit", "holdout", "independent"}

Kind(s) == IF s \in Exports THEN "reviewer_export" ELSE s

GatesAssumption ==
    /\ Slots \subseteq AllSlots
    /\ MinExports \in Nat \ {0} /\ AuditTarget \in Nat /\ HoldoutMinimum \in Nat
    /\ AttestationLife \in Nat \ {0} /\ MaxEnvelopes \in Nat

VARIABLES
    slot,       \* the gate
    live,       \* the evidence in the repository
    envelope,   \* the file at the gate's path
    issued      \* envelopes issued so far

gateVars == <<slot, live, envelope, issued>>
vars     == <<trustVars, gateVars>>

Absent == [for |-> "none"]

Subjects(s) == IF s = "staffing" THEN Domains \X Adjudicators ELSE Items

Domain(pairs) == {p[1] : p \in pairs}
People(pairs) == {p[2] : p \in pairs}
Staffed(pairs) == {d \in Domain(pairs) : Cardinality({p \in pairs : p[1] = d}) >= 2}

(* What can be read at the evidence path, as the validators let it pass.   *)
(* readable is FALSE when the file is missing or does not load: for        *)
(* exports also when the files no longer match the manifest's hashes.      *)
ValidEvidence(s, e) ==
    /\ ~e.readable => e.items = {} /\ e.status = "blocked"
    /\ s \in Exports => IF e.status = "ready" THEN Cardinality(e.items) >= MinExports ELSE e.items = {}
    /\ s = "staffing" /\ e.status = "ready" => Cardinality(Staffed(e.items)) >= 2
    /\ s \in {"audit", "independent", "holdout"} => e.readable
    /\ s \notin Exports \cup {"staffing"} /\ e.readable => e.status = "ready"
    /\ s = "holdout" => e.items = {}

EvidenceFor(s) ==
    {e \in [readable : BOOLEAN, status : {"blocked", "pending", "ready"}, items : SUBSET Subjects(s)] :
       ValidEvidence(s, e)}

-----------------------------------------------------------------------------
(* What a gate hands over to be compared: nothing when it found nothing.   *)

LedgerBound(e)     == e.items # {}      \* gate_natural_rights_cleared
ManifestBound(e)   == e.items # {}      \* gate_production
RosterBound(e)     == e.items # {}      \* gate_staffing
BenchmarksBound(e) == e.items # {}      \* gate_independent_evaluation
HoldoutBound(a)    == a.for = "holdout" \* gate_holdout_custody_scientific: fields and minimum only

(* Live subjects against attested ones: the names that differ.             *)

(* Variant: what was attested may have grown since. *)
NaturalErrorsGrown(e, a) == IF a.items \subseteq e.items THEN {} ELSE {"natural_case_ids"}

NaturalErrors(e, a) ==
    IF ~LedgerBound(e) THEN {}
    ELSE {n \in {"natural_case_ids"} : a.items # e.items}
         \cup {n \in {"natural_case_count"} : a.count # Cardinality(e.items)}

ExportErrors(s, e, a) ==
    IF ~ManifestBound(e) THEN {}
    ELSE {n \in {"adapter"} : a.for # s}
         \cup {n \in {"artifact_content_hashes"} : a.items # e.items}
         \cup {n \in {"export_count"} : a.count # Cardinality(e.items)}

StaffingErrors(e, a) ==
    IF ~RosterBound(e) THEN {}
    ELSE {n \in {"independent_adjudicator_ids"} : People(a.items) # People(e.items)}
         \cup {n \in {"domain_profiles"} : Domain(a.items) # Domain(e.items)}

(* Compared whatever was discovered. *)
AuditErrors(e, a) ==
    {n \in {"session_ids", "completed_decision_count", "judgment_set_hash"} : a.items # e.items}

HoldoutErrors(a) ==
    {n \in {"natural_case_count_below_minimum"} : a.count < HoldoutMinimum}
      \cup {n \in {"holdout_id"} : ~a.complete} \cup {n \in {"contamination_declared"} : a.contaminated}

IndependentErrors(e, a) ==
    {n \in {"benchmark_ids"} : BenchmarksBound(e) /\ a.items # e.items}

(* By the kind of the attestation that was signed. *)
SubjectErrors(s, e, a) ==
    CASE a.for = "natural"     -> NaturalErrors(e, a)
      [] a.for \in Exports     -> ExportErrors(s, e, a)
      [] a.for = "staffing"    -> StaffingErrors(e, a)
      [] a.for = "audit"       -> AuditErrors(e, a)
      [] HoldoutBound(a)       -> HoldoutErrors(a)
      [] a.for = "independent" -> IndependentErrors(e, a)

-----------------------------------------------------------------------------
(* verify_evidence_envelope, under the production policy of the gates.     *)

Verify(s, e, a) ==
    IF a = Absent \/ a.damage = "garbled" THEN "missing_attestation"
    ELSE IF Kind(a.for) # Kind(s) THEN "binding_mismatch"
    ELSE IF a.damage = "payload" THEN "payload_tamper"
    ELSE IF a.status # "attested" THEN "attestation_blocked"
    ELSE LET policy == KeyPolicy(a.key, "production", now, EvidenceAuthoritySigningRoles)
         IN  IF policy # "ok" THEN policy
             ELSE IF now < a.from THEN "decision_not_yet_valid"
             ELSE IF now > a.until THEN "decision_expired"
             ELSE IF a.damage = "signature" THEN "signature_tamper"
             ELSE IF SubjectErrors(s, e, a) # {} THEN "binding_mismatch"
             ELSE "ok"

Report == Verify(slot, live, envelope)

(* gate_matcher_audit asks for the volume besides. *)
VolumeMet(s, e) == s = "audit" => Cardinality(e.items) >= AuditTarget

Passed == Report = "ok" /\ VolumeMet(slot, live)

-----------------------------------------------------------------------------
(* What the validators of the payload refuse to construct. *)
ValidAttestation(a) ==
    /\ a.until > a.from
    /\ a.for = "holdout" /\ a.status = "attested" => a.complete /\ ~a.contaminated

(* An authority attests what it finds, for this gate or, put at the wrong  *)
(* path, for another one, with any key pair, under its published id or     *)
(* the bare one.                                                           *)
Issue ==
    /\ issued < MaxEnvelopes
    /\ \E for \in {slot} \cup (IF slot \in Exports THEN Exports ELSE {"independent"}),
          status \in {"attested", "pending", "blocked"}, k \in DOMAIN origin,
          count \in 0 .. HoldoutMinimum, complete, contaminated \in BOOLEAN :
         LET a == [for |-> for, status |-> status, items |-> live.items,
                   count |-> IF for = "holdout" THEN count ELSE Cardinality(live.items),
                   complete |-> complete, contaminated |-> contaminated,
                   from |-> now, until |-> now + AttestationLife,
                   key |-> <<k, "none">>, damage |-> "none"]
         IN  /\ for # "holdout" => count = 0 /\ complete /\ ~contaminated
             /\ ValidAttestation(a)
             /\ envelope' \in {a, [a EXCEPT !.key = <<k, IF k \in DOMAIN store THEN store[k].mark ELSE "none">>]}
    /\ issued' = issued + 1
    /\ UNCHANGED <<trustVars, slot, live>>

(* The file is edited, or no longer parses. *)
Damage ==
    /\ envelope # Absent /\ envelope.damage = "none"
    /\ \E d \in {"payload", "signature", "garbled"} : envelope' = [envelope EXCEPT !.damage = d]
    /\ UNCHANGED <<trustVars, slot, live, issued>>

(* Imports, withdrawals, rosters, judgments and exports come and go. *)
ChangeEvidence ==
    /\ \E e \in EvidenceFor(slot) : e # live /\ live' = e
    /\ UNCHANGED <<trustVars, slot, envelope, issued>>

Init ==
    /\ TrustInit
    /\ slot \in Slots
    /\ live \in EvidenceFor(slot)
    /\ envelope = Absent
    /\ issued = 0

Trust == TrustNext /\ UNCHANGED gateVars

Next == Issue \/ Damage \/ ChangeEvidence \/ Trust

Spec == Init /\ [][Next]_vars

-----------------------------------------------------------------------------

TypeOK ==
    /\ TrustTypeOK
    /\ slot \in Slots
    /\ live \in EvidenceFor(slot)
    /\ envelope = Absent \/ envelope.for \in AllSlots
    /\ issued \in 0 .. MaxEnvelopes

(* While a gate passes, the key that vouches for its envelope is           *)
(* published and not only for development, unrevoked, in force and for     *)
(* evidence, and the envelope is as signed, declared attested and in       *)
(* force: the checks of one run do not shadow one another.                 *)
PassNeedsAuthority ==
    Passed =>
      LET k == envelope.key[1]
      IN  /\ k \in DOMAIN store /\ k \notin revocations
          /\ store[k].status = "active" /\ store[k].from <= now /\ now <= store[k].until
          /\ store[k].role \in {"evidence_authority", "offline_root"}
          /\ ~DevOnly(store[k])
          /\ envelope.damage = "none" /\ envelope.status = "attested"
          /\ envelope.from <= now /\ now <= envelope.until

(* Evidence that changed after it was attested closes the gate: imported   *)
(* cases, exports, completed decisions and independent benchmarks that can *)
(* be read are those the authority saw, a roster has the same people and   *)
(* the same domains, and the envelope was issued for this gate.            *)
ChangedEvidenceCloses ==
    (Passed /\ live.items # {}) =>
      /\ envelope.for = slot
      /\ slot # "staffing" => envelope.items = live.items
      /\ slot = "staffing" => People(envelope.items) = People(live.items)
                               /\ Domain(envelope.items) = Domain(live.items)

(* A passing matcher audit has its completed decisions now, not only on    *)
(* paper, and a passing holdout attests enough cases with full custody.    *)
VolumeIsEarned ==
    Passed =>
      /\ slot = "audit" => Cardinality(live.items) >= AuditTarget
      /\ slot = "holdout" =>
           envelope.count >= HoldoutMinimum /\ envelope.complete /\ ~envelope.contaminated

(* A gate closed by revocation, by time or by an edit of its envelope is   *)
(* closed until a new envelope is issued, whatever becomes of the evidence.*)
ClosedStaysClosed ==
    [][(envelope # Absent /\ envelope' = envelope
          /\ Report \in {"revoked_key", "expired_key", "decision_expired", "payload_tamper",
                         "attestation_blocked", "missing_attestation"}) => ~Passed']_vars
=============================================================================
