------------------------------ MODULE TrustStore ------------------------------
(***************************************************************************)
(* The published trust store of signing keys and the policy that decides   *)
(* whether a key may vouch for an artifact                                 *)
(* (opencritique_evaluation/trust.py), with what changes the store: the    *)
(* two signing ceremonies (scripts/signing_ceremony_*.py) and the edits    *)
(* operators commit by hand, for which the code has records but no         *)
(* procedure.                                                              *)
(*                                                                         *)
(* A key pair is a model value.  Its id in the store is the pair with the  *)
(* mark the ceremony puts before the hash, "none" for a bare id.           *)
(***************************************************************************)
EXTENDS Integers, FiniteSets, Functions

CONSTANTS
    KeyPairs,
    MaxTime,        \* bound: the last instant
    RootLife,       \* instants until a root key of a ceremony lapses
    ReleaseLife,    \* the same for a release key
    MaxCeremonies,  \* bound: ceremonies of each channel
    MaxRetired,     \* bound: published keys that have left active service
    HandRoles,      \* roles of the keys operators publish by hand
    HandChannels    \* the channels such a key may be published for

Roles    == {"offline_root", "online_release", "claim_authority", "evidence_authority", "test"}
Statuses == {"active", "superseded", "revoked", "expired"}
Modes    == {"production", "historical", "test", "development"}
Channels == {"production", "development"}
Marks    == {"none", "TEST", "DEV-ROOT", "DEV-RELEASE", "PROD-ROOT", "PROD-RELEASE"}
Never    == MaxTime + 1        \* a not_after that is not set

ScorecardSigningRoles         == {"offline_root", "online_release"}
ClaimAuthoritySigningRoles    == {"claim_authority", "offline_root"}
EvidenceAuthoritySigningRoles == {"evidence_authority", "offline_root"}

TrustAssumption ==
    /\ MaxTime \in Nat /\ MaxCeremonies \in Nat /\ MaxRetired \in Nat
    /\ RootLife \in Nat \ {0} /\ ReleaseLife \in Nat \ {0}
    /\ HandRoles \subseteq Roles
    /\ HandChannels \subseteq SUBSET Channels

VARIABLES
    now,
    store,          \* TrustStore.keys: a record for every published key
    revocations,    \* keys with a RevocationRecord
    origin          \* for every generated key pair, the channel it was made for

trustVars == <<now, store, revocations, origin>>

KeyRecord == [role : Roles, status : Statuses, channels : SUBSET Channels,
              from : Nat, until : Nat, mark : Marks]

TrustInit ==
    /\ now = 0
    /\ store = << >>
    /\ revocations = {}
    /\ origin = << >>

-----------------------------------------------------------------------------
(* The key policy.  An id is a pair <<key pair, mark>>. *)

Published(id) == id[1] \in DOMAIN store /\ store[id[1]].mark = id[2]

(* Variant: a status set after the revocation hides the record. *)
RevokedByStatus(k) == store[k].status = "revoked"

IsRevoked(k) == k \in revocations \/ store[k].status = "revoked"

DevOnly(record) == "development" \in record.channels /\ "production" \notin record.channels

KeyPolicy(id, mode, at, permitted) ==
    LET k == id[1]
        r == store[k]
    IN  IF ~Published(id) THEN "unknown_key"
        ELSE IF mode = "production" /\ r.role = "test" THEN "test_key_in_production"
        ELSE IF mode = "production" /\ DevOnly(r) THEN "development_key_in_production"
        ELSE IF mode = "development" /\ "development" \notin r.channels THEN "role_not_permitted"
        ELSE IF IsRevoked(k) THEN "revoked_key"
        ELSE IF at < r.from THEN "not_yet_valid"
        ELSE IF at > r.until THEN "expired_key"
        ELSE IF r.status = "expired" THEN "expired_key"
        ELSE IF r.status = "superseded" /\ mode # "historical" THEN "superseded_without_historical"
        ELSE IF mode \in {"production", "development"} /\ r.role \notin permitted
               THEN "role_not_permitted"
        ELSE "ok"

(* Variant: past signatures are judged by today's clock. *)
PolicyTimeNow(mode, signedAt) == now

(* The instant a policy is asked about. *)
PolicyTime(mode, signedAt) == IF mode = "historical" THEN signedAt ELSE now

-----------------------------------------------------------------------------
(* The ceremonies.  Each makes a root and a release key pair. *)

Unmade == KeyPairs \ DOMAIN origin

(* Which key pair is made says nothing about it: any will do. *)
NewPair    == CHOOSE k \in Unmade : TRUE
NewRelease == CHOOSE k \in Unmade \ {NewPair} : TRUE

Made(channel) == Cardinality({k \in DOMAIN origin : origin[k] = channel})

BuildRecord(role, channels, from, until, mark) ==
    [role |-> role, status |-> "active", channels |-> channels, from |-> from, until |-> until,
     mark |-> IF role = "test" THEN "TEST" ELSE mark]

(* What is new comes before what is kept. *)
Over(new, kept) ==
    [k \in DOMAIN new \cup DOMAIN kept |-> IF k \in DOMAIN new THEN new[k] ELSE kept[k]]

MadeFor(pairs, channel) == [k \in pairs |-> channel]

CeremonyKeys(channel, marks) ==
    [k \in {NewPair, NewRelease} |->
       IF k = NewPair THEN BuildRecord("offline_root", {channel}, now, now + RootLife, marks[1])
       ELSE BuildRecord("online_release", {channel}, now, now + ReleaseLife, marks[2])]

(* Production-channel keys of an earlier ceremony are dropped. *)
Retained(keys, channel) ==
    Restrict(keys, {k \in DOMAIN keys : channel \notin keys[k].channels})

RunCeremonyProd ==
    /\ Made("production") < 2 * MaxCeremonies /\ Cardinality(Unmade) >= 2
    /\ store' = Over(CeremonyKeys("production", <<"PROD-ROOT", "PROD-RELEASE">>),
                     Retained(store, "production"))
    /\ origin' = Over(MadeFor({NewPair, NewRelease}, "production"), origin)
    /\ UNCHANGED <<now, revocations>>

RunCeremonyDev ==
    /\ Made("development") < 2 * MaxCeremonies /\ Cardinality(Unmade) >= 2
    /\ store' = CeremonyKeys("development", <<"DEV-ROOT", "DEV-RELEASE">>)
    /\ origin' = Over(MadeFor({NewPair, NewRelease}, "development"), origin)
    /\ revocations' = {}
    /\ UNCHANGED now

-----------------------------------------------------------------------------
(* What operators edit in the file. *)

Publish ==
    /\ Unmade # {}
    /\ \E role \in HandRoles, channels \in HandChannels, until \in {now + 1, Never} :
         store' = Over([k \in {NewPair} |-> BuildRecord(role, channels, now, until, "none")], store)
    /\ origin' = Over(MadeFor({NewPair}, "hand"), origin)
    /\ UNCHANGED <<now, revocations>>

(* Bounded: the keys an edit may take out of service. *)
Retired == {k \in DOMAIN store : store[k].status # "active" \/ k \in revocations}
Editable == IF Cardinality(Retired) < MaxRetired THEN DOMAIN store ELSE Retired

SetStatus(k, status) == store' = [store EXCEPT ![k].status = status]

Rotate ==
    /\ \E k \in Editable, successor \in DOMAIN store :
         /\ k # successor
         /\ store[k].status = "active" /\ store[successor].status = "active"
         /\ SetStatus(k, "superseded")
    /\ UNCHANGED <<now, revocations, origin>>

(* The record always, the status of the key as SECURITY.md asks, or not. *)
Revoke ==
    /\ \E k \in Editable \ revocations :
         /\ revocations' = revocations \cup {k}
         /\ SetStatus(k, "revoked") \/ store' = store
    /\ UNCHANGED <<now, origin>>

Expire ==
    /\ \E k \in Editable : store[k].status \in {"active", "superseded"} /\ SetStatus(k, "expired")
    /\ UNCHANGED <<now, revocations, origin>>

Tick ==
    /\ now < MaxTime
    /\ now' = now + 1
    /\ UNCHANGED <<store, revocations, origin>>

TrustNext ==
    \/ Tick \/ RunCeremonyProd \/ RunCeremonyDev
    \/ Publish \/ Rotate \/ Revoke \/ Expire

TrustTypeOK ==
    /\ now \in 0 .. MaxTime
    /\ DOMAIN store \subseteq DOMAIN origin
    /\ DOMAIN origin \subseteq KeyPairs
    /\ \A k \in DOMAIN store : store[k] \in KeyRecord
    /\ \A k \in DOMAIN origin : origin[k] \in {"production", "development", "hand"}
    /\ revocations \subseteq DOMAIN origin
=============================================================================
