---------------------------- MODULE AuthorityProofs ----------------------------
(***************************************************************************)
(* Who may vouch for what, for any number of key pairs, ceremonies, edits, *)
(* envelopes, results and scorecards, and whatever the evidence.           *)
(*                                                                         *)
(* The store.  TrustKeeps is the shape of a step of it as its users see    *)
(* it: a key pair enters the store when it is made and at no other time,   *)
(* its record keeps everything but the status, and neither revocation nor  *)
(* expiry is taken back while the key is published.  TrustSteps shows that *)
(* each of the seven ways to change the store has that shape, so that no   *)
(* proof about a user of the store looks at ceremonies or edits again.     *)
(*                                                                         *)
(* Signed scorecards.  SigningInv ties the envelopes to the store: one was *)
(* signed at or after the instant its key was published, since a key pair  *)
(* is published when it is made or never; and one that was relied on was   *)
(* also signed before its key lapses, since it was verified while the key  *)
(* ran.  Neither can change (TrustSteps).                                  *)
(*                                                                         *)
(* Claims (an instance of ClaimAuthorization).  ClaimInv says of a result  *)
(* that it is public only by a verified decision about a natural benchmark *)
(* that meets the prerequisites, and of a scorecard what it shows.         *)
(* Nothing in it speaks of time or of keys: that the decision is in force  *)
(* comes from the verification that is made when the scorecard is built,   *)
(* and from nowhere else (VerifiedClaim).                                  *)
(*                                                                         *)
(* Release gates (an instance of EvidenceGates).  GatesInv only says what  *)
(* is stored.  That the gate is sound rests on the verification itself     *)
(* (PassedMeans), and that it stays closed on TrustSteps.                  *)
(***************************************************************************)
EXTENDS ScorecardSigning, FiniteSetTheorems, SequenceTheorems, TLAPS

CONSTANTS Benchmarks, Declarations, DecisionLife, VerifyModes, MaxEnvelopes, MaxResults,
          MaxScorecards, Mixes
VARIABLES manifest, envelopes, results, scorecards

CONSTANTS Slots, Items, Domains, Adjudicators, MinExports, AuditTarget, HoldoutMinimum, AttestationLife
VARIABLES slot, live, envelope, issued

(* Of SigningAssumption only TrustAssumption matters to these two. *)
Claims == INSTANCE ClaimAuthorization
Gates  == INSTANCE EvidenceGates

-----------------------------------------------------------------------------
(* Steps of the trust store, whoever uses it. *)

(* What a key was published with and never loses. *)
SameTerms(old, new) ==
    /\ new.role = old.role /\ new.channels = old.channels /\ new.mark = old.mark
    /\ new.from = old.from /\ new.until = old.until

(* Out of service is a one-way street. *)
StatusMoves(old, new) ==
    \/ new.status = old.status
    \/ new.status = "revoked"
    \/ old.status = "active" /\ new.status \in {"superseded", "expired"}
    \/ old.status = "superseded" /\ new.status = "expired"

(* What operators and ceremonies agree on about the channel of a key. *)
OriginShows(key, record) ==
    /\ origin[key] = "development" => record.channels = {"development"}
    /\ origin[key] = "hand" => record.role \in HandRoles

StoreInv ==
    /\ TrustTypeOK
    /\ \A k \in DOMAIN store : OriginShows(k, store[k]) /\ store[k].from <= now

TrustKeeps ==
    /\ now <= now'
    /\ DOMAIN origin \subseteq DOMAIN origin'
    /\ \A k \in DOMAIN origin : origin'[k] = origin[k]
    /\ \A k \in DOMAIN origin \cap DOMAIN store' :
         /\ k \in DOMAIN store
         /\ SameTerms(store[k], store'[k]) /\ StatusMoves(store[k], store'[k])
         /\ k \in revocations => k \in revocations'

-----------------------------------------------------------------------------
(* Records and pairs. *)

LEMMA RecordTyped ==
    ASSUME TrustAssumption, now \in Nat,
           NEW role \in Roles, NEW channels \in SUBSET Channels, NEW until \in Nat, NEW mark \in Marks
    PROVE  LET r == BuildRecord(role, channels, now, until, mark)
           IN  /\ r \in KeyRecord
               /\ r.role = role /\ r.channels = channels /\ r.from = now
  BY DEF BuildRecord, KeyRecord, Statuses, Marks

(* A pair is made of what has not been made, and a ceremony makes two. *)
LEMMA NewPairIsUnmade ==
    ASSUME Unmade # {}
    PROVE  NewPair \in Unmade
  BY DEF NewPair

LEMMA NewReleaseIsUnmade ==
    ASSUME Cardinality(Unmade) >= 2
    PROVE  NewPair \in Unmade /\ NewRelease \in Unmade \ {NewPair}
<1>1. Unmade # {}
  BY FS_EmptySet
<1>2. NewPair \in Unmade
  BY <1>1, NewPairIsUnmade
<1>3. Unmade \ {NewPair} # {}
  <2>1. SUFFICES ASSUME Unmade \ {NewPair} = {} PROVE FALSE
    OBVIOUS
  <2>2. Unmade = {NewPair}
    BY <1>2, <2>1
  <2>3. Cardinality({NewPair}) = 1
    BY FS_Singleton
  <2> QED BY <2>2, <2>3
<1>4. NewRelease \in Unmade \ {NewPair}
  BY <1>3 DEF NewRelease
<1> QED BY <1>2, <1>4

LEMMA CeremonyKeysAre ==
    ASSUME TrustAssumption, now \in 0 .. MaxTime,
           NEW channel \in Channels, NEW m1 \in Marks, NEW m2 \in Marks
    PROVE  LET c == CeremonyKeys(channel, <<m1, m2>>)
           IN  /\ DOMAIN c = {NewPair, NewRelease}
               /\ \A k \in DOMAIN c : /\ c[k] \in KeyRecord
                                      /\ c[k].channels = {channel} /\ c[k].from = now
<1> DEFINE root == BuildRecord("offline_root", {channel}, now, now + RootLife, m1)
           release == BuildRecord("online_release", {channel}, now, now + ReleaseLife, m2)
<1>1. now \in Nat /\ now + RootLife \in Nat /\ now + ReleaseLife \in Nat
  BY DEF TrustAssumption
<1>2. root \in KeyRecord /\ root.channels = {channel} /\ root.from = now
  BY <1>1, RecordTyped DEF Roles
<1>3. release \in KeyRecord /\ release.channels = {channel} /\ release.from = now
  BY <1>1, RecordTyped DEF Roles
<1>4. CeremonyKeys(channel, <<m1, m2>>) =
        [k \in {NewPair, NewRelease} |-> IF k = NewPair THEN root ELSE release]
  BY DEF CeremonyKeys
<1> HIDE DEF root, release
<1> QED BY <1>2, <1>3, <1>4

-----------------------------------------------------------------------------
(* The actions. *)

LEMMA ProdCeremonySteps ==
    ASSUME TrustAssumption, StoreInv, RunCeremonyProd
    PROVE  StoreInv' /\ TrustKeeps
<1> DEFINE made == CeremonyKeys("production", <<"PROD-ROOT", "PROD-RELEASE">>)
           kept == Retained(store, "production")
           pairs == {NewPair, NewRelease}
<1>1. NewPair \in Unmade /\ NewRelease \in Unmade
  BY NewReleaseIsUnmade DEF RunCeremonyProd
<1>2. pairs \subseteq KeyPairs /\ pairs \cap DOMAIN origin = {}
  BY <1>1 DEF Unmade
<1>3. /\ DOMAIN made = pairs
      /\ \A k \in pairs : /\ made[k] \in KeyRecord
                          /\ made[k].channels = {"production"} /\ made[k].from = now
  BY CeremonyKeysAre DEF StoreInv, TrustTypeOK, Channels, Marks
<1>4. /\ DOMAIN kept \subseteq DOMAIN store
      /\ \A k \in DOMAIN kept : kept[k] = store[k]
  BY DEF Retained, Restrict
<1>5. store' = Over(made, kept) /\ origin' = Over(MadeFor(pairs, "production"), origin)
  BY DEF RunCeremonyProd
<1> HIDE DEF made, kept
<1>6. /\ DOMAIN store' = pairs \cup DOMAIN kept
      /\ \A k \in pairs : store'[k] = made[k]
      /\ \A k \in DOMAIN kept \ pairs : store'[k] = store[k]
  BY <1>3, <1>4, <1>5 DEF Over
<1>7. /\ DOMAIN origin' = pairs \cup DOMAIN origin
      /\ \A k \in pairs : origin'[k] = "production"
      /\ \A k \in DOMAIN origin : origin'[k] = origin[k]
  BY <1>2, <1>5 DEF MadeFor, Over
<1>8. now' = now /\ revocations' = revocations
  BY DEF RunCeremonyProd
<1> HIDE DEF pairs
<1>9. TrustKeeps
  BY <1>2, <1>4, <1>6, <1>7, <1>8 DEF TrustKeeps, SameTerms, StatusMoves, StoreInv, TrustTypeOK
<1>10. TrustTypeOK'
  BY <1>2, <1>3, <1>4, <1>6, <1>7, <1>8 DEF StoreInv, TrustTypeOK
<1>11. ASSUME NEW k \in DOMAIN store'
       PROVE  OriginShows(k, store[k])' /\ (store[k].from <= now)'
  <2>1. CASE k \in pairs
    BY <1>3, <1>6, <1>7, <1>8, <2>1 DEF OriginShows, StoreInv, TrustTypeOK
  <2>2. CASE k \in DOMAIN kept \ pairs
    <3>1. k \in DOMAIN store /\ k \in DOMAIN origin
      BY <1>4, <2>2 DEF StoreInv, TrustTypeOK
    <3> QED BY <1>6, <1>7, <1>8, <2>2, <3>1 DEF OriginShows, StoreInv
  <2> QED BY <1>6, <2>1, <2>2
<1> QED BY <1>9, <1>10, <1>11 DEF StoreInv

LEMMA DevCeremonySteps ==
    ASSUME TrustAssumption, StoreInv, RunCeremonyDev
    PROVE  StoreInv' /\ TrustKeeps
<1> DEFINE made == CeremonyKeys("development", <<"DEV-ROOT", "DEV-RELEASE">>)
           pairs == {NewPair, NewRelease}
<1>1. NewPair \in Unmade /\ NewRelease \in Unmade
  BY NewReleaseIsUnmade DEF RunCeremonyDev
<1>2. pairs \subseteq KeyPairs /\ pairs \cap DOMAIN origin = {}
  BY <1>1 DEF Unmade
<1>3. /\ DOMAIN made = pairs
      /\ \A k \in pairs : /\ made[k] \in KeyRecord
                          /\ made[k].channels = {"development"} /\ made[k].from = now
  BY CeremonyKeysAre DEF StoreInv, TrustTypeOK, Channels, Marks
<1>4. store' = made /\ origin' = Over(MadeFor(pairs, "development"), origin)
  BY DEF RunCeremonyDev
<1> HIDE DEF made
<1>5. /\ DOMAIN origin' = pairs \cup DOMAIN origin
      /\ \A k \in pairs : origin'[k] = "development"
      /\ \A k \in DOMAIN origin : origin'[k] = origin[k]
  BY <1>2, <1>4 DEF MadeFor, Over
<1>6. now' = now /\ revocations' = {}
  BY DEF RunCeremonyDev
<1> HIDE DEF pairs
<1>7. TrustKeeps
  BY <1>2, <1>3, <1>4, <1>5, <1>6 DEF TrustKeeps, StoreInv, TrustTypeOK
<1>8. TrustTypeOK'
  BY <1>2, <1>3, <1>4, <1>5, <1>6 DEF StoreInv, TrustTypeOK
<1>9. \A k \in DOMAIN store' : OriginShows(k, store[k])' /\ (store[k].from <= now)'
  BY <1>3, <1>4, <1>5, <1>6 DEF OriginShows, StoreInv, TrustTypeOK
<1> QED BY <1>7, <1>8, <1>9 DEF StoreInv

LEMMA PublishSteps ==
    ASSUME TrustAssumption, StoreInv, Publish
    PROVE  StoreInv' /\ TrustKeeps
<1> PICK role \in HandRoles, channels \in HandChannels, until \in {now + 1, Never} :
      store' = Over([k \in {NewPair} |-> BuildRecord(role, channels, now, until, "none")], store)
  BY DEF Publish
<1> DEFINE record == BuildRecord(role, channels, now, until, "none")
<1>1. NewPair \in KeyPairs /\ NewPair \notin DOMAIN origin
  BY NewPairIsUnmade DEF Publish, Unmade
<1>2. record \in KeyRecord /\ record.role = role /\ record.from = now
  <2>1. now \in Nat /\ until \in Nat /\ role \in Roles /\ channels \in SUBSET Channels
    BY DEF StoreInv, TrustTypeOK, TrustAssumption, Never
  <2> QED BY <2>1, RecordTyped DEF Marks
<1> HIDE DEF record
<1>3. /\ DOMAIN store' = {NewPair} \cup DOMAIN store
      /\ store'[NewPair] = record
      /\ \A k \in DOMAIN store \ {NewPair} : store'[k] = store[k]
  BY DEF record, Over
<1>4. origin' = Over(MadeFor({NewPair}, "hand"), origin) /\ now' = now /\ revocations' = revocations
  BY DEF Publish
<1>5. /\ DOMAIN origin' = {NewPair} \cup DOMAIN origin
      /\ origin'[NewPair] = "hand"
      /\ \A k \in DOMAIN origin : origin'[k] = origin[k]
  BY <1>1, <1>4 DEF MadeFor, Over
<1>6. TrustKeeps
  BY <1>1, <1>3, <1>4, <1>5 DEF TrustKeeps, SameTerms, StatusMoves, StoreInv, TrustTypeOK
<1>7. TrustTypeOK'
  BY <1>1, <1>2, <1>3, <1>4, <1>5 DEF StoreInv, TrustTypeOK
<1>8. ASSUME NEW k \in DOMAIN store'
      PROVE  OriginShows(k, store[k])' /\ (store[k].from <= now)'
  <2>1. CASE k = NewPair
    <3>1. store'[k] = record /\ origin'[k] = "hand" /\ now <= now'
      BY <1>3, <1>4, <1>5, <2>1 DEF StoreInv, TrustTypeOK
    <3> QED BY <1>2, <1>4, <3>1 DEF OriginShows
  <2>2. CASE k # NewPair
    <3>1. k \in DOMAIN store /\ k \in DOMAIN origin
      BY <1>3, <2>2 DEF StoreInv, TrustTypeOK
    <3> QED BY <1>3, <1>4, <1>5, <2>2, <3>1 DEF OriginShows, StoreInv
  <2> QED BY <2>1, <2>2
<1> QED BY <1>6, <1>7, <1>8 DEF StoreInv

(* An edit of a status, or of nothing: what rotations, revocations and     *)
(* expiries have in common.                                                *)
LEMMA EditSteps ==
    ASSUME StoreInv, UNCHANGED <<now, origin>>,
           revocations \subseteq revocations', revocations' \subseteq DOMAIN origin,
           NEW k \in DOMAIN store, NEW status \in Statuses,
           SetStatus(k, status) \/ store' = store,
           \/ status = "revoked"
           \/ store[k].status = "active" /\ status \in {"superseded", "expired"}
           \/ store[k].status = "superseded" /\ status = "expired"
    PROVE  StoreInv' /\ TrustKeeps
<1>1. CASE store' = store
  BY <1>1 DEF StoreInv, TrustTypeOK, TrustKeeps, SameTerms, StatusMoves, OriginShows
<1>2. CASE SetStatus(k, status)
  <2>1. /\ DOMAIN store' = DOMAIN store
        /\ \A l \in DOMAIN store \ {k} : store'[l] = store[l]
        /\ store'[k] = [store[k] EXCEPT !.status = status]
    BY <1>2 DEF SetStatus
  <2>2. store[k] \in KeyRecord
    BY DEF StoreInv, TrustTypeOK
  <2>3. /\ store'[k] \in KeyRecord /\ SameTerms(store[k], store'[k])
        /\ store'[k].status = status
    BY <2>1, <2>2 DEF KeyRecord, SameTerms
  <2>4. StatusMoves(store[k], store'[k])
    BY <2>3 DEF StatusMoves
  <2>5. TrustKeeps
    <3>1. \A l \in DOMAIN store : SameTerms(store[l], store'[l]) /\ StatusMoves(store[l], store'[l])
      BY <2>1, <2>3, <2>4 DEF SameTerms, StatusMoves
    <3> QED BY <2>1, <3>1 DEF TrustKeeps, StoreInv, TrustTypeOK
  <2>6. TrustTypeOK'
    BY <2>1, <2>3 DEF StoreInv, TrustTypeOK
  <2>7. \A l \in DOMAIN store' : OriginShows(l, store[l])' /\ (store[l].from <= now)'
    BY <2>1, <2>3 DEF OriginShows, SameTerms, StoreInv
  <2> QED BY <2>5, <2>6, <2>7 DEF StoreInv
<1> QED BY <1>1, <1>2

LEMMA EditableIsPublished == Editable \subseteq DOMAIN store
  BY DEF Editable, Retired

-----------------------------------------------------------------------------

LEMMA TrustStarts ==
    ASSUME TrustAssumption, TrustInit
    PROVE  StoreInv
<1>1. DOMAIN store = {} /\ DOMAIN origin = {}
  BY DEF TrustInit
<1> QED BY <1>1 DEF TrustInit, StoreInv, TrustTypeOK, TrustAssumption

(* Whatever happens to the store, a published key keeps what it was        *)
(* published with, a key that has left never comes back, and revocation    *)
(* and expiry stand (trust.py, signing_ceremony_dev.py and                 *)
(* signing_ceremony_prod.py).                                              *)
THEOREM TrustSteps ==
    ASSUME TrustAssumption, StoreInv, TrustNext
    PROVE  StoreInv' /\ TrustKeeps
<1>1. CASE Tick
  BY <1>1 DEF Tick, StoreInv, TrustTypeOK, TrustKeeps, SameTerms, StatusMoves, OriginShows, KeyRecord,
              TrustAssumption
<1>2. CASE RunCeremonyProd
  BY <1>2, ProdCeremonySteps
<1>3. CASE RunCeremonyDev
  BY <1>3, DevCeremonySteps
<1>4. CASE Publish
  BY <1>4, PublishSteps
<1>5. CASE Rotate
  <2>1. PICK k \in Editable : store[k].status = "active" /\ SetStatus(k, "superseded")
    BY <1>5 DEF Rotate
  <2>2. k \in DOMAIN store /\ UNCHANGED <<now, revocations, origin>>
    BY <1>5, EditableIsPublished DEF Rotate
  <2>3. "superseded" \in Statuses /\ revocations' \subseteq DOMAIN origin
    BY <2>2 DEF Statuses, StoreInv, TrustTypeOK
  <2> QED BY <2>1, <2>2, <2>3, EditSteps
<1>6. CASE Revoke
  <2>1. PICK k \in Editable : /\ revocations' = revocations \cup {k}
                              /\ SetStatus(k, "revoked") \/ store' = store
    BY <1>6 DEF Revoke
  <2>2. k \in DOMAIN store /\ UNCHANGED <<now, origin>>
    BY <1>6, EditableIsPublished DEF Revoke
  <2>3. "revoked" \in Statuses /\ revocations' \subseteq DOMAIN origin
    BY <2>1, <2>2 DEF Statuses, StoreInv, TrustTypeOK
  <2> QED BY <2>1, <2>2, <2>3, EditSteps
<1>7. CASE Expire
  <2>1. PICK k \in Editable : store[k].status \in {"active", "superseded"} /\ SetStatus(k, "expired")
    BY <1>7 DEF Expire
  <2>2. k \in DOMAIN store /\ UNCHANGED <<now, revocations, origin>>
    BY <1>7, EditableIsPublished DEF Expire
  <2>3. "expired" \in Statuses /\ revocations' \subseteq DOMAIN origin
    BY <2>2 DEF Statuses, StoreInv, TrustTypeOK
  <2> QED BY <2>1, <2>2, <2>3, EditSteps
<1> QED BY <1>1, <1>2, <1>3, <1>4, <1>5, <1>6, <1>7 DEF TrustNext

-----------------------------------------------------------------------------
(* What the policy says of a key, for the users of the store. *)

(* What the historical policy asks of a key. *)
Stands(id, at) ==
    /\ Published(id) /\ ~IsRevoked(id[1])
    /\ ~(at < store[id[1]].from) /\ ~(at > store[id[1]].until)
    /\ store[id[1]].status # "expired"

(* What production asks besides. *)
Serves(id, permitted) ==
    /\ Stands(id, now)
    /\ store[id[1]].role # "test" /\ ~DevOnly(store[id[1]])
    /\ store[id[1]].status # "superseded"
    /\ store[id[1]].role \in permitted

LEMMA ProductionPolicy ==
    \A id, permitted : KeyPolicy(id, "production", now, permitted) = "ok" <=> Serves(id, permitted)
  BY DEF KeyPolicy, Serves, Stands

LEMMA HistoricalPolicy ==
    \A id, at, permitted : KeyPolicy(id, "historical", at, permitted) = "ok" <=> Stands(id, at)
  BY DEF KeyPolicy, Stands

(* No policy approves of a key that is not published, or revoked. *)
LEMMA PolicyRefuses ==
    \A id, mode, at, permitted :
      KeyPolicy(id, mode, at, permitted) = "ok" => Published(id) /\ ~IsRevoked(id[1])
  BY DEF KeyPolicy

(* The record of a key that was and is published, in two consecutive states. *)
LEMMA KeyKeepsTerms ==
    ASSUME TrustKeeps, NEW k \in DOMAIN origin, k \in DOMAIN store'
    PROVE  /\ k \in DOMAIN store
           /\ SameTerms(store[k], store'[k]) /\ StatusMoves(store[k], store'[k])
           /\ IsRevoked(k) => IsRevoked(k)'
<1>1. /\ k \in DOMAIN store
      /\ SameTerms(store[k], store'[k]) /\ StatusMoves(store[k], store'[k])
      /\ k \in revocations => k \in revocations'
  BY DEF TrustKeeps
<1>2. store[k].status = "revoked" => store'[k].status = "revoked"
  BY <1>1 DEF StatusMoves
<1> QED BY <1>1, <1>2 DEF IsRevoked

(* A key pair that serves production now and was made before served it     *)
(* before: nothing gives a key back what production asks of it.            *)
LEMMA ServedBefore ==
    ASSUME StoreInv, StoreInv', TrustKeeps, NEW id, NEW permitted,
           id[1] \in DOMAIN origin, Serves(id, permitted)'
    PROVE  Serves(id, permitted)
<1> DEFINE k == id[1]
<1>1. /\ k \in DOMAIN store' /\ store'[k].mark = id[2] /\ ~IsRevoked(k)'
      /\ ~(now' > store'[k].until)
      /\ store'[k].status \notin {"expired", "superseded"}
      /\ store'[k].role # "test" /\ ~DevOnly(store'[k]) /\ store'[k].role \in permitted
  BY DEF Serves, Stands, Published
<1>2. /\ k \in DOMAIN store /\ ~IsRevoked(k)
      /\ SameTerms(store[k], store'[k]) /\ StatusMoves(store[k], store'[k])
  BY <1>1, KeyKeepsTerms
<1>3. store[k].status \notin {"expired", "superseded"}
  <2>1. store'[k].status # "revoked"
    BY <1>1 DEF IsRevoked
  <2> QED BY <1>1, <1>2, <2>1 DEF StatusMoves
<1>4. /\ now \in Int /\ now' \in Int /\ now <= now'
      /\ store[k].from \in Int /\ store[k].until \in Int /\ store[k].from <= now
  BY <1>2 DEF StoreInv, TrustTypeOK, KeyRecord, TrustKeeps
<1>5. ~(now < store[k].from) /\ ~(now > store[k].until)
  BY <1>1, <1>2, <1>4 DEF SameTerms
<1> QED BY <1>1, <1>2, <1>3, <1>5 DEF Serves, Stands, Published, SameTerms, DevOnly

-----------------------------------------------------------------------------
(* Signed scorecards. *)

(* Signed no earlier than the key was published. *)
SignedByPublished(e) ==
    /\ e \in Envelope
    /\ e.key \in DOMAIN origin /\ e.at <= now
    /\ e.key \in DOMAIN store => store[e.key].from <= e.at

(* Verified once: whole, under a known mark, and while the key was running. *)
WasVerified(e) ==
    /\ e.intact
    /\ e.key \in DOMAIN store => e.at <= store[e.key].until

SigningInv ==
    /\ StoreInv
    /\ \A e \in signed \cup relied : SignedByPublished(e)
    /\ \A e \in relied : WasVerified(e)

-----------------------------------------------------------------------------
(* What a verification says. *)

(* An envelope is accepted when it is whole, the policy has nothing against *)
(* its key, and its own interval runs.                                      *)
AcceptsWhen(e, mode) ==
    /\ e.intact
    /\ KeyPolicy(Id(e), mode, PolicyTime(mode, e.at), ScorecardSigningRoles) = "ok"
    /\ ~(now < e.at) /\ ~(now > e.until)

Verdicts(e) ==
    /\ \A mode \in Modes : Accepts(e, mode) => e.key \in DOMAIN store /\ ~IsRevoked(e.key)
    /\ Accepts(e, "production") <=> e.intact /\ ~(now < e.at) /\ ~(now > e.until)
                               /\ Serves(Id(e), ScorecardSigningRoles)
    /\ Accepts(e, "historical") <=> e.intact /\ ~(now < e.at) /\ ~(now > e.until)
                               /\ Stands(Id(e), e.at)

LEMMA AcceptsIs ==
    ASSUME NEW e \in Envelope, NEW mode \in Modes
    PROVE  Accepts(e, mode) <=> AcceptsWhen(e, mode)
<1>1. KeyIdMatches(e)
  BY DEF KeyIdMatches, Envelope
<1>2. /\ "payload_tamper" # "ok" /\ "not_yet_valid" # "ok" /\ "expired_key" # "ok"
      /\ <<"store">> # <<"nothing">> /\ <<"store">>[1] # "pem"
  OBVIOUS
<1> QED BY <1>1, <1>2 DEF Accepts, VerifyEnvelope, AcceptsWhen

(* The verdicts, in terms of the record the store has of the key. *)
LEMMA VerdictsAre == \A e \in Envelope : Verdicts(e)
<1> SUFFICES ASSUME NEW e \in Envelope PROVE Verdicts(e)
  OBVIOUS
<1>1. Id(e)[1] = e.key /\ Id(e)[2] = e.mark
  BY DEF Id
<1>2. ASSUME NEW mode \in Modes, Accepts(e, mode)
      PROVE  e.key \in DOMAIN store /\ ~IsRevoked(e.key)
  <2>1. AcceptsWhen(e, mode)
    BY <1>2, AcceptsIs
  <2> QED BY <1>1, <2>1, PolicyRefuses DEF AcceptsWhen, Published
<1>3. /\ "production" \in Modes /\ PolicyTime("production", e.at) = now
      /\ "historical" \in Modes /\ PolicyTime("historical", e.at) = e.at
  BY DEF Modes, PolicyTime
<1>4. Accepts(e, "production") <=> e.intact /\ ~(now < e.at) /\ ~(now > e.until)
                                    /\ Serves(Id(e), ScorecardSigningRoles)
  <2>1. Accepts(e, "production") <=> AcceptsWhen(e, "production")
    BY <1>3, AcceptsIs
  <2>2. KeyPolicy(Id(e), "production", now, ScorecardSigningRoles) = "ok"
          <=> Serves(Id(e), ScorecardSigningRoles)
    BY ProductionPolicy
  <2> QED BY <1>3, <2>1, <2>2 DEF AcceptsWhen
<1>5. Accepts(e, "historical") <=> e.intact /\ ~(now < e.at) /\ ~(now > e.until)
                                    /\ Stands(Id(e), e.at)
  <2>1. Accepts(e, "historical") <=> AcceptsWhen(e, "historical")
    BY <1>3, AcceptsIs
  <2>2. KeyPolicy(Id(e), "historical", e.at, ScorecardSigningRoles) = "ok" <=> Stands(Id(e), e.at)
    BY HistoricalPolicy
  <2> QED BY <1>3, <2>1, <2>2 DEF AcceptsWhen
<1> QED BY <1>2, <1>4, <1>5 DEF Verdicts

(* The same after a step. *)
LEMMA VerdictsAfter == (\A e \in Envelope : Verdicts(e))'
  BY VerdictsAre, PTL

-----------------------------------------------------------------------------
(* The invariant. *)

(* A step of the store leaves what is known of an envelope true. *)
LEMMA StoreKeepsEnvelopes ==
    ASSUME StoreInv, StoreInv', TrustKeeps, NEW e, SignedByPublished(e)
    PROVE  /\ SignedByPublished(e)'
           /\ WasVerified(e) => WasVerified(e)'
<1>1. e.key \in DOMAIN origin /\ e.key \in DOMAIN origin' /\ e \in Envelope
  BY DEF TrustKeeps, SignedByPublished
<1>2. ASSUME e.key \in DOMAIN store'
      PROVE  /\ e.key \in DOMAIN store
             /\ store'[e.key].from = store[e.key].from /\ store'[e.key].until = store[e.key].until
  BY <1>1, <1>2 DEF TrustKeeps, SameTerms
<1>3. e.at <= now'
  <2>1. now \in Int /\ now' \in Int /\ e.at \in Int
    BY DEF StoreInv, TrustTypeOK, SignedByPublished, Envelope
  <2> QED BY <2>1 DEF TrustKeeps, SignedByPublished
<1> QED BY <1>1, <1>2, <1>3 DEF SignedByPublished, WasVerified

LEMMA SigningStarts == Init => SigningInv
<1> SUFFICES ASSUME Init PROVE SigningInv
  OBVIOUS
<1>1. StoreInv
  BY SigningAssumption, TrustStarts DEF Init
<1> QED BY <1>1 DEF Init, SigningInv

(* A key signs after it was published. *)
LEMMA SignerIsPublished ==
    ASSUME SigningInv, SignScorecard
    PROVE  SigningInv'
<1>1. PICK k \in DOMAIN origin, by \in SignMarks, until \in {now + 1, Never} :
        signed' = signed \cup
          {[key |-> k, at |-> now, until |-> until, intact |-> TRUE,
            mark |-> IF by = "own" /\ k \in DOMAIN store THEN store[k].mark ELSE "none"]}
  BY DEF SignScorecard
<1> DEFINE m == IF by = "own" /\ k \in DOMAIN store THEN store[k].mark ELSE "none"
           e == [key |-> k, at |-> now, until |-> until, intact |-> TRUE, mark |-> m]
<1>2. k \in KeyPairs /\ now \in Nat /\ until \in Nat
  BY SigningAssumption DEF SigningInv, StoreInv, TrustTypeOK, TrustAssumption, Never
<1>3. m \in Marks
  BY DEF SigningInv, StoreInv, TrustTypeOK, KeyRecord, Marks
<1>4. signed' = signed \cup {e} /\ UNCHANGED <<trustVars, relied>>
  BY <1>1 DEF SignScorecard
<1> HIDE DEF m
<1>5. e \in Envelope /\ e.key = k /\ e.at = now
  BY <1>2, <1>3 DEF Envelope
<1> HIDE DEF e
<1>6. SignedByPublished(e)
  BY <1>2, <1>5 DEF SignedByPublished, SigningInv, StoreInv
<1> QED BY <1>4, <1>6 DEF SigningInv, StoreInv, TrustTypeOK, OriginShows, SignedByPublished,
                          WasVerified, trustVars

(* What is verified was signed before its key lapsed. *)
LEMMA VerifiedInTime ==
    ASSUME SigningInv, VerifyScorecard
    PROVE  SigningInv'
<1>1. PICK e \in signed : Accepts(e, "production") /\ relied' = relied \cup {e}
  BY DEF VerifyScorecard
<1>2. SignedByPublished(e) /\ e \in Envelope
  BY DEF SigningInv, SignedByPublished
<1>3. WasVerified(e)
  <2>1. /\ e.intact /\ ~(now > store[e.key].until) /\ e.key \in DOMAIN store
    BY <1>1, <1>2, VerdictsAre DEF Verdicts, Serves, Stands, Published, Id
  <2>2. store[e.key].until \in Int /\ now \in Int /\ e.at \in Int
    BY <1>2, <2>1 DEF SigningInv, StoreInv, TrustTypeOK, KeyRecord, Envelope
  <2> QED BY <1>2, <2>1, <2>2 DEF WasVerified, SignedByPublished
<1>4. UNCHANGED <<trustVars, signed>>
  BY DEF VerifyScorecard
<1> QED BY <1>1, <1>2, <1>3, <1>4 DEF SigningInv, StoreInv, TrustTypeOK, OriginShows,
                                      SignedByPublished, WasVerified, trustVars

LEMMA DamageKeepsKeys ==
    ASSUME SigningInv, Damage
    PROVE  SigningInv'
<1>1. PICK e \in signed : signed' = (signed \ {e}) \cup {[e EXCEPT !.intact = FALSE]}
  BY DEF Damage
<1> DEFINE d == [e EXCEPT !.intact = FALSE]
<1>2. SignedByPublished(e)
  BY DEF SigningInv
<1>3. d \in Envelope /\ d.key = e.key /\ d.at = e.at
  BY <1>2 DEF SignedByPublished, Envelope
<1>4. signed' = (signed \ {e}) \cup {d} /\ UNCHANGED <<trustVars, relied>>
  BY <1>1 DEF Damage
<1> HIDE DEF d
<1>5. SignedByPublished(d)
  BY <1>2, <1>3 DEF SignedByPublished
<1> QED BY <1>4, <1>5 DEF SigningInv, StoreInv, TrustTypeOK, OriginShows, SignedByPublished,
                          WasVerified, trustVars

LEMMA TrustStepKeepsSigning ==
    ASSUME SigningInv, TrustNext, UNCHANGED <<signed, relied>>
    PROVE  SigningInv' /\ TrustKeeps
<1>1. StoreInv' /\ TrustKeeps
  BY SigningAssumption, TrustSteps DEF SigningInv
<1>2. \A e \in signed \cup relied : SignedByPublished(e)'
  BY <1>1, StoreKeepsEnvelopes DEF SigningInv
<1>3. \A e \in relied : WasVerified(e)'
  BY <1>1, StoreKeepsEnvelopes DEF SigningInv
<1> QED BY <1>1, <1>2, <1>3 DEF SigningInv

(* Every step, the stuttering one included, keeps the invariant and the    *)
(* terms of the published keys.                                            *)
LEMMA SigningSteps ==
    ASSUME SigningInv, [Next]_vars
    PROVE  SigningInv' /\ TrustKeeps
<1> DEFINE StoreRests == UNCHANGED trustVars
<1>1. ASSUME StoreRests PROVE TrustKeeps
  BY <1>1 DEF trustVars, TrustKeeps, SameTerms, StatusMoves, SigningInv, StoreInv, TrustTypeOK
<1>2. CASE TrustNext /\ UNCHANGED <<signed, relied>>
  BY <1>2, TrustStepKeepsSigning
<1>3. CASE SignScorecard
  BY <1>1, <1>3, SignerIsPublished DEF SignScorecard
<1>4. CASE VerifyScorecard
  BY <1>1, <1>4, VerifiedInTime DEF VerifyScorecard
<1>5. CASE Damage
  BY <1>1, <1>5, DamageKeepsKeys DEF Damage
<1>6. CASE UNCHANGED vars
  <2>1. StoreRests
    BY <1>6 DEF vars, trustVars
  <2>2. SigningInv'
    BY <1>6 DEF vars, SigningInv, StoreInv, TrustTypeOK, OriginShows, SignedByPublished, WasVerified
  <2> QED BY <1>1, <2>1, <2>2
<1> QED BY <1>2, <1>3, <1>4, <1>5, <1>6 DEF Next

LEMMA SigningHolds == Spec => []SigningInv
<1>1. SigningInv /\ [Next]_vars => SigningInv'
  BY SigningSteps
<1> QED BY SigningStarts, <1>1, PTL DEF Spec

-----------------------------------------------------------------------------
(* What follows in every state. *)

LEMMA IssuedIs == SigningInv => AcceptedWasIssued
<1> SUFFICES ASSUME SigningInv, NEW e \in signed, Accepts(e, "production")
             PROVE  IF HandRoles \cap ScorecardSigningRoles = {} THEN origin[e.key] = "production"
                    ELSE origin[e.key] \in {"production", "hand"}
  BY DEF AcceptedWasIssued
<1>1. e \in Envelope /\ e.key \in DOMAIN origin
  BY DEF SigningInv, SignedByPublished
<1>2. /\ e.key \in DOMAIN store
      /\ ~DevOnly(store[e.key]) /\ store[e.key].role \in ScorecardSigningRoles
  BY <1>1, VerdictsAre DEF Verdicts, Serves, Stands, Published, Id
<1>3. OriginShows(e.key, store[e.key]) /\ origin[e.key] \in {"production", "development", "hand"}
  BY <1>1, <1>2 DEF SigningInv, StoreInv, TrustTypeOK
<1>4. origin[e.key] # "development"
  BY <1>2, <1>3 DEF OriginShows, DevOnly
<1>5. origin[e.key] = "hand" => HandRoles \cap ScorecardSigningRoles # {}
  BY <1>2, <1>3 DEF OriginShows
<1> QED BY <1>3, <1>4, <1>5

LEMMA HistoryIs == SigningInv => HistoryHolds
<1> SUFFICES ASSUME SigningInv, NEW e \in relied,
                    Published(Id(e)), ~IsRevoked(e.key), store[e.key].status # "expired", now <= e.until
             PROVE  Accepts(e, "historical")
  BY DEF HistoryHolds
<1>1. SignedByPublished(e) /\ WasVerified(e) /\ e \in Envelope
  BY DEF SigningInv, SignedByPublished
<1>2. e.key \in DOMAIN store /\ store[e.key].mark = e.mark
  BY DEF Published, Id
<1>3. /\ store[e.key].from \in Int /\ store[e.key].until \in Int
      /\ now \in Int /\ e.at \in Int /\ e.until \in Int
  BY <1>1, <1>2 DEF SigningInv, StoreInv, TrustTypeOK, KeyRecord, Envelope
<1>4. Stands(Id(e), e.at)
  BY <1>1, <1>2, <1>3 DEF Stands, Published, Id, SignedByPublished, WasVerified
<1> QED BY <1>1, <1>3, <1>4, VerdictsAre DEF Verdicts, SignedByPublished, WasVerified

LEMMA KeysHoldIs == SigningInv => KeysHold
<1>1. SigningInv => TypeOK
  BY DEF SigningInv, StoreInv, TypeOK, SignedByPublished
<1> QED BY <1>1, IssuedIs, HistoryIs DEF KeysHold

(* In every reachable state, with any number of keys: what production      *)
(* accepts was issued by a ceremony or published for a role that may sign, *)
(* and what it once accepted verifies as history while its key is          *)
(* published and neither revoked nor expired (signing.py, trust.py).       *)
THEOREM KeysAlwaysHold == Spec => []KeysHold
  BY SigningHolds, KeysHoldIs, PTL

-----------------------------------------------------------------------------
(* What no step takes back. *)

(* No policy accepts a signature from the step after its key is revoked:   *)
(* the revocation stands while the key is published, and ceremonies never  *)
(* publish it again (TrustStore.is_revoked).                               *)
THEOREM RevocationStands == Spec => RevocationIsFinal
<1> DEFINE IsOut(e) == e.key \in DOMAIN store /\ (e.key \in revocations \/ store[e.key].status = "revoked")
           Final == \A e \in signed : IsOut(e) => \A mode \in Modes : ~Accepts(e, mode)'
<1>1. SigningInv /\ [Next]_vars => Final
  <2> SUFFICES ASSUME SigningInv, [Next]_vars, NEW e \in signed, IsOut(e), NEW mode \in Modes,
                      Accepts(e, mode)'
               PROVE  FALSE
    OBVIOUS
  <2>1. e \in Envelope /\ e.key \in DOMAIN origin
    BY DEF SigningInv, SignedByPublished
  <2>2. e.key \in DOMAIN store' /\ ~IsRevoked(e.key)'
    BY <2>1, VerdictsAfter DEF Verdicts, Envelope
  <2>3. TrustKeeps
    BY SigningSteps
  <2>4. IsRevoked(e.key)
    BY DEF IsRevoked
  <2> QED BY <2>1, <2>2, <2>3, <2>4, KeyKeepsTerms
<1>2. Final => \A e \in signed : IsOut(e) => \A mode \in Modes : ~Accepts(e, mode)'
  OBVIOUS
<1> QED BY <1>1, SigningHolds, PTL DEF Spec, RevocationIsFinal

(* What production relied on and refuses now it refuses ever after: the    *)
(* terms of the key are fixed, its status only worsens, its revocation     *)
(* stands, and the clock does not go back (evaluate_key_policy).           *)
THEOREM RefusalLasts == Spec => RefusalIsLasting
<1>1. ASSUME SigningInv, [Next]_vars, NEW e \in relied, Accepts(e, "production")'
      PROVE  Accepts(e, "production")
  <2>1. /\ SignedByPublished(e) /\ WasVerified(e)
        /\ e \in Envelope /\ e.key \in DOMAIN origin
    BY <1>1 DEF SigningInv, SignedByPublished
  <2>2. TrustKeeps /\ SigningInv'
    BY <1>1, SigningSteps
  <2>3. ~(now' > e.until) /\ Serves(Id(e), ScorecardSigningRoles)'
    BY <1>1, <2>1, VerdictsAfter DEF Verdicts, Envelope, Id
  <2>4. Serves(Id(e), ScorecardSigningRoles)
    <3>1. PICK id : id = <<e.key, e.mark>>
      OBVIOUS
    <3>2. id[1] \in DOMAIN origin /\ Serves(id, ScorecardSigningRoles)'
      BY <2>1, <2>3, <3>1 DEF Id
    <3>3. Serves(id, ScorecardSigningRoles)
      BY <1>1, <2>2, <3>2, ServedBefore DEF SigningInv
    <3> QED BY <3>1, <3>3 DEF Id
  <2>5. ~(now < e.at) /\ ~(now > e.until)
    <3>1. now \in Int /\ now' \in Int /\ now <= now' /\ e.at \in Int /\ e.until \in Int
      BY <1>1, <2>1, <2>2 DEF SigningInv, StoreInv, TrustTypeOK, TrustKeeps, Envelope
    <3> QED BY <2>1, <2>3, <3>1 DEF SignedByPublished
  <2> QED BY <2>1, <2>4, <2>5, VerdictsAre DEF Verdicts, WasVerified
<1>2. SigningInv /\ [Next]_vars =>
        \A e \in relied : ~Accepts(e, "production") => ~Accepts(e, "production")'
  BY <1>1
<1> QED BY <1>2, SigningHolds, PTL DEF Spec, RefusalIsLasting

-----------------------------------------------------------------------------
(* Claims about results: what is stored. *)

Named == envelopes \cup {Claims!NoEnvelope}

Manifest == [version : Nat, class : {"expert_natural", "live_private", "synthetic"},
             completeness : Claims!Completeness, prereqs : BOOLEAN, comparative : BOOLEAN,
             envelope : Named]

Auth == [scope : Claims!Scopes, verified : BOOLEAN, metrics : Seq(Claims!AuthorizedMetric)]

(* An authorization with the metrics of an incomplete reference withheld. *)
Resolved(auth, m) ==
    m.completeness \in Claims!IncompleteReference =>
      \A i \in DOMAIN auth.metrics :
        auth.metrics[i].status = "authorized" => auth.metrics[i].id \notin Claims!PrecisionCalibration

(* What a stored result says: public only by a verified decision on an expert-natural
   benchmark that meets the prerequisites, and flagged accordingly.                    *)
ResultOK(r) ==
    /\ r \in [manifest : Manifest, auth : Auth, envelope : Named, flag : BOOLEAN]
    /\ r.auth.scope \in Claims!PublicScopes =>
         r.auth.verified /\ r.manifest.class = "expert_natural" /\ r.manifest.prereqs
    /\ r.flag <=> Claims!PerformanceAuthorized(r.auth)
    /\ Resolved(r.auth, r.manifest)

CardOK(s) ==
    /\ s.result.auth \in Auth /\ s.result.flag \in BOOLEAN
    /\ s.rows \subseteq Claims!Rows /\ s.headline \in {"scientific", "private", "record"}
    /\ s.result.flag <=> s.headline = "scientific"
    /\ Resolved(s.result.auth, s.result.manifest)

EnvelopeOK(e) ==
    /\ e.metrics \in Seq(Claims!AuthorizedMetric) /\ e.scope \in Claims!PublicScopes
    /\ e.at \in Nat /\ e.until \in Nat

ClaimInv ==
    /\ StoreInv
    /\ manifest \in Manifest
    /\ \A e \in envelopes : EnvelopeOK(e)
    /\ \A r \in results : ResultOK(r)
    /\ \A s \in scorecards : CardOK(s)

LEMMA ClaimsStart == ASSUME Claims!ClaimAssumption PROVE Claims!Init => ClaimInv
<1> SUFFICES ASSUME Claims!Init PROVE ClaimInv
  OBVIOUS
<1>4. StoreInv
  BY TrustStarts, SigningAssumption DEF SigningAssumption, Claims!Init, Claims!TrustInit, TrustInit
<1>1. PICK b \in Benchmarks :
        manifest = [version |-> b.version, class |-> b.class, completeness |-> b.completeness,
                    prereqs |-> b.prereqs, comparative |-> b.comparative, envelope |-> Claims!NoEnvelope]
  BY DEF Claims!Init
<1>2. b \in Claims!Content
  BY DEF Claims!ClaimAssumption
<1>3. manifest \in Manifest
  BY <1>1, <1>2 DEF Claims!Content, Manifest, Named
<1> QED BY <1>3, <1>4 DEF Claims!Init, ClaimInv

(* Withholding keeps the form of a list and leaves no precision to an incomplete reference. *)
LEMMA Resolving ==
  ASSUME NEW ms \in Seq(Claims!AuthorizedMetric), NEW c \in Claims!Completeness
  PROVE  LET ns == Claims!ResolveMetrics(ms, c) IN
         /\ ns \in Seq(Claims!AuthorizedMetric)
         /\ c \in Claims!IncompleteReference =>
              \A i \in DOMAIN ns :
                ns[i].status = "authorized" => ns[i].id \notin Claims!PrecisionCalibration
<1> DEFINE Withheld(m) == [m EXCEPT !.status = "withheld"]
           ns == Claims!ResolveMetrics(ms, c)
<1>1. /\ Len(ms) \in Nat /\ DOMAIN ms = 1 .. Len(ms)
      /\ \A i \in DOMAIN ms : ms[i] \in Claims!AuthorizedMetric
  OBVIOUS
<1>2. \A m \in Claims!AuthorizedMetric :
        Withheld(m) \in Claims!AuthorizedMetric /\ Withheld(m).status = "withheld"
  BY DEF Claims!AuthorizedMetric
<1>3. /\ DOMAIN ns = DOMAIN ms
      /\ \A i \in DOMAIN ms :
           \/ ns[i] = Withheld(ms[i])
           \/ /\ ns[i] = ms[i]
              /\ ms[i].status = "authorized" =>
                   ~ (ms[i].id \in Claims!PrecisionCalibration /\ c \in Claims!IncompleteReference)
  BY DEF Claims!ResolveMetrics
<1>4. ns \in [1 .. Len(ms) -> Claims!AuthorizedMetric]
  <2>1. ns = [i \in 1 .. Len(ms) |-> ns[i]]
    BY <1>1 DEF Claims!ResolveMetrics
  <2> HIDE DEF ns, Withheld
  <2>2. \A i \in 1 .. Len(ms) : ns[i] \in Claims!AuthorizedMetric
    BY <1>1, <1>2, <1>3
  <2> QED BY <2>1, <2>2
<1> HIDE DEF ns, Withheld
<1>5. ns \in Seq(Claims!AuthorizedMetric)
  BY <1>1, <1>4, SeqDef
<1>6. ASSUME c \in Claims!IncompleteReference, NEW i \in DOMAIN ns, ns[i].status = "authorized"
      PROVE  ns[i].id \notin Claims!PrecisionCalibration
  <2>1. ns[i] # Withheld(ms[i])
    BY <1>1, <1>2, <1>3, <1>6
  <2> QED BY <1>3, <1>6, <2>1
<1> QED BY <1>5, <1>6 DEF ns

(* An authorization is public only by a verified decision about a natural benchmark. *)
AuthOK(auth, m) ==
    /\ auth \in Auth
    /\ auth.scope \in Claims!PublicScopes =>
         auth.verified /\ m.class = "expert_natural" /\ m.prereqs

LEMMA NoAuthIs == Claims!NoAuth \in Auth /\ Claims!NoAuth.scope = "none" /\ Claims!NoAuth.metrics = << >>
BY DEF Claims!NoAuth, Auth, Claims!Scopes

LEMMA Authorizing ==
  ASSUME ClaimInv, NEW m \in Manifest, NEW e \in Named, NEW mode, NEW haveStore
  PROVE  AuthOK(Claims!AuthorizationOf(m, e, mode, haveStore), m)
<1> DEFINE private == [Claims!NoAuth EXCEPT !.scope = "private_method_report"]
           derived == [scope |-> e.scope, verified |-> TRUE,
                       metrics |-> Claims!ResolveMetrics(e.metrics, m.completeness)]
<1>1. private \in Auth /\ private.scope = "private_method_report"
  BY NoAuthIs DEF Auth, Claims!Scopes
<1>2. m.completeness \in Claims!Completeness
  BY DEF Manifest
<1>3. ASSUME e \in envelopes PROVE derived \in Auth
  <2>1. e.metrics \in Seq(Claims!AuthorizedMetric) /\ e.scope \in Claims!Scopes
    BY <1>3 DEF ClaimInv, EnvelopeOK, Claims!PublicScopes, Claims!Scopes
  <2> QED BY <1>2, <2>1, Resolving DEF Auth
<1>4. derived.verified
  OBVIOUS
<1> DEFINE auth == Claims!AuthorizationOf(m, e, mode, haveStore)
<1>5. \/ auth = private
      \/ auth = Claims!NoAuth
      \/ auth = derived /\ m.class = "expert_natural" /\ m.prereqs /\ e # Claims!NoEnvelope
  BY DEF Claims!AuthorizationOf, Claims!DerivedAuthorization
<1> HIDE DEF auth, private, derived
<1>6. private.scope \notin Claims!PublicScopes /\ Claims!NoAuth.scope \notin Claims!PublicScopes
  BY <1>1, NoAuthIs DEF Claims!PublicScopes
<1>7. AuthOK(auth, m)
  BY <1>1, <1>3, <1>4, <1>5, <1>6, NoAuthIs DEF AuthOK, Named
<1> QED BY <1>7 DEF auth

(* The validation of a result only withholds. *)
LEMMA Syncing ==
  ASSUME NEW m \in Manifest, NEW e \in Named, NEW auth, AuthOK(auth, m)
  PROVE  ResultOK(Claims!Synced(m, auth, e))
<1> DEFINE metrics == Claims!ResolveMetrics(auth.metrics, m.completeness)
           resolved == [auth EXCEPT !.metrics = metrics]
<1>1. /\ metrics \in Seq(Claims!AuthorizedMetric)
      /\ m.completeness \in Claims!IncompleteReference =>
           \A i \in DOMAIN metrics :
             metrics[i].status = "authorized" => metrics[i].id \notin Claims!PrecisionCalibration
  BY Resolving DEF AuthOK, Auth, Manifest
<1> HIDE DEF metrics
<1>2. resolved \in Auth /\ resolved.scope = auth.scope /\ resolved.verified = auth.verified
      /\ resolved.metrics = metrics
  BY <1>1 DEF AuthOK, Auth
<1>3. AuthOK(resolved, m) /\ Resolved(resolved, m)
  BY <1>1, <1>2 DEF AuthOK, Resolved
<1>4. AuthOK(Claims!NoAuth, m) /\ Resolved(Claims!NoAuth, m)
  BY NoAuthIs DEF AuthOK, Resolved, Claims!PublicScopes
<1> DEFINE r == Claims!Synced(m, auth, e)
<1>5. PICK kept : /\ kept \in {resolved, Claims!NoAuth}
                  /\ r = [manifest |-> m, auth |-> kept, envelope |-> e,
                          flag |-> Claims!PerformanceAuthorized(kept)]
  BY DEF Claims!Synced, metrics
<1> HIDE DEF r, resolved
<1>6. AuthOK(kept, m) /\ Resolved(kept, m)
  BY <1>3, <1>4, <1>5
<1>7. Claims!PerformanceAuthorized(kept) \in BOOLEAN
  BY <1>6 DEF Claims!PerformanceAuthorized, Claims!AnyScientific, AuthOK, Auth
<1>8. ResultOK(r)
  BY <1>5, <1>6, <1>7 DEF ResultOK, AuthOK
<1> QED BY <1>8 DEF r

(* A scorecard's flag, headline and metrics follow from a verification made when it is built. *)
LEMMA Carding ==
  ASSUME NEW f, NEW shown \in SUBSET Claims!Rows, NEW h \in {"scientific", "private", "record"},
         f.auth \in Auth, f.flag \in BOOLEAN, f.flag <=> h = "scientific", Resolved(f.auth, f.manifest)
  PROVE  CardOK([result |-> f, rows |-> shown, headline |-> h])
BY DEF CardOK

LEMMA Scored ==
  ASSUME NEW r, ResultOK(r), NEW mode, NEW haveStore
  PROVE  LET s == Claims!Scorecard(r, mode, haveStore) IN
         /\ CardOK(s)
         /\ s.result.envelope = r.envelope /\ s.result.manifest = r.manifest
         /\ s.headline = "scientific" =>
              /\ r.auth.scope \in Claims!PublicScopes
              /\ Claims!VerifyClaim(r.envelope, r.manifest, mode, haveStore) = "ok"
<1> DEFINE public == r.auth.scope \in Claims!PublicScopes
           verified == public /\ Claims!ReportFor(r, mode, haveStore) = "ok"
           metrics == Claims!ResolveMetrics(r.auth.metrics, r.manifest.completeness)
           resolved == [r.auth EXCEPT !.metrics = metrics]
           applied == [r EXCEPT !.auth = resolved, !.flag = Claims!PerformanceAuthorized(resolved)]
           final == IF verified THEN applied ELSE IF public THEN Claims!Coerced(r) ELSE r
           rows == {row \in Claims!Rows : verified =>
                      Claims!IsAuthorized(final.auth.metrics, Claims!MetricOf(row, r.manifest.completeness))}
           headline == IF verified /\ Claims!AnyScientific(final.auth.metrics) THEN "scientific"
                       ELSE IF final.auth.scope = "private_method_report" THEN "private" ELSE "record"
           s == Claims!Scorecard(r, mode, haveStore)
<1>1. r \in [manifest : Manifest, auth : Auth, envelope : Named, flag : BOOLEAN]
  BY DEF ResultOK
<1>2. /\ metrics \in Seq(Claims!AuthorizedMetric)
      /\ r.manifest.completeness \in Claims!IncompleteReference =>
           \A i \in DOMAIN metrics :
             metrics[i].status = "authorized" => metrics[i].id \notin Claims!PrecisionCalibration
  <2>1. r.auth.metrics \in Seq(Claims!AuthorizedMetric) /\ r.manifest.completeness \in Claims!Completeness
    BY <1>1 DEF Auth, Manifest
  <2> QED BY <2>1, Resolving
<1>3. s = [result |-> final, rows |-> rows, headline |-> headline]
  BY DEF Claims!Scorecard, Claims!ApplyMetrics
<1>4. rows \in SUBSET Claims!Rows
  OBVIOUS
<1> HIDE DEF metrics, rows, s
<1>5. /\ resolved \in Auth /\ resolved.scope = r.auth.scope /\ resolved.verified = r.auth.verified
      /\ resolved.metrics = metrics
  BY <1>1, <1>2 DEF Auth
<1> HIDE DEF resolved
<1>6. /\ applied.auth = resolved /\ applied.envelope = r.envelope /\ applied.manifest = r.manifest
      /\ applied.flag = Claims!PerformanceAuthorized(resolved)
  BY <1>1
<1>7. /\ Claims!Coerced(r).auth = Claims!NoAuth /\ Claims!Coerced(r).flag = FALSE
      /\ Claims!Coerced(r).envelope = r.envelope /\ Claims!Coerced(r).manifest = r.manifest
  BY <1>1 DEF Claims!Coerced
<1>8. headline \in {"scientific", "private", "record"}
  OBVIOUS
<1>9. headline = "scientific" <=> verified /\ Claims!AnyScientific(final.auth.metrics)
  OBVIOUS
<1>10. /\ verified => final = applied
       /\ ~ verified /\ public => final = Claims!Coerced(r)
       /\ ~ verified /\ ~ public => final = r
  OBVIOUS
<1>11. verified => public /\ Claims!VerifyClaim(r.envelope, r.manifest, mode, haveStore) = "ok"
  BY DEF Claims!ReportFor
<1> HIDE DEF applied, final, headline, verified
<1>12. /\ final.auth \in Auth /\ final.flag \in BOOLEAN
       /\ final.flag <=> headline = "scientific"
       /\ Resolved(final.auth, final.manifest)
       /\ final.envelope = r.envelope /\ final.manifest = r.manifest
  <2>1. CASE verified
    <3>1. Claims!PerformanceAuthorized(resolved) <=> Claims!AnyScientific(resolved.metrics)
      BY <1>5, <1>11, <2>1 DEF Claims!PerformanceAuthorized, ResultOK
    <3>2. Claims!PerformanceAuthorized(resolved) \in BOOLEAN
      BY <1>5, <1>11, <2>1 DEF Claims!PerformanceAuthorized, Claims!AnyScientific, ResultOK
    <3>3. final = applied /\ final.auth = resolved /\ final.flag = Claims!PerformanceAuthorized(resolved)
      BY <1>6, <1>10, <2>1
    <3>4. final.flag <=> headline = "scientific"
      BY <1>9, <2>1, <3>1, <3>3
    <3>5. final.envelope = r.envelope /\ final.manifest = r.manifest
      BY <1>6, <3>3
    <3>6. Resolved(final.auth, final.manifest)
      BY <1>2, <1>5, <3>3, <3>5 DEF Resolved
    <3> QED BY <1>5, <3>2, <3>3, <3>4, <3>5, <3>6
  <2>2. CASE ~ verified /\ public
    <3>1. final.auth = Claims!NoAuth /\ final.flag = FALSE
          /\ final.envelope = r.envelope /\ final.manifest = r.manifest
      BY <1>7, <1>10, <2>2
    <3>2. Resolved(final.auth, final.manifest)
      BY <3>1, NoAuthIs DEF Resolved
    <3> QED BY <1>9, <2>2, <3>1, <3>2, NoAuthIs
  <2>3. CASE ~ verified /\ ~ public
    <3>1. final = r
      BY <1>10, <2>3
    <3>2. ~ r.flag
      BY <2>3 DEF ResultOK, Claims!PerformanceAuthorized
    <3>3. Resolved(r.auth, r.manifest) /\ r.auth \in Auth /\ r.flag \in BOOLEAN
      BY <1>1 DEF ResultOK
    <3> QED BY <1>9, <2>3, <3>1, <3>2, <3>3
  <2> QED BY <2>1, <2>2, <2>3
<1> HIDE DEF public
<1>13. CardOK([result |-> final, rows |-> rows, headline |-> headline])
  BY <1>4, <1>8, <1>12, Carding
<1>14. s.result = final /\ s.headline = headline
  BY <1>3
<1>15. CardOK(s)
  BY <1>3, <1>13
<1>16. s.headline = "scientific" =>
              /\ r.auth.scope \in Claims!PublicScopes
              /\ Claims!VerifyClaim(r.envelope, r.manifest, mode, haveStore) = "ok"
  BY <1>9, <1>11, <1>14 DEF public
<1>17. s.result.envelope = r.envelope /\ s.result.manifest = r.manifest
  BY <1>12, <1>14
<1> QED BY <1>15, <1>16, <1>17 DEF s

-----------------------------------------------------------------------------
(* Steps. *)

LEMMA SameTrust == Claims!TrustNext <=> TrustNext
<1>0. \A S : Claims!Cardinality(S) = Cardinality(S)
  BY DEF Claims!Cardinality, Cardinality
<1>1. Claims!Unmade = Unmade /\ Claims!NewPair = NewPair /\ Claims!NewRelease = NewRelease
  BY DEF Claims!Unmade, Unmade, Claims!NewPair, NewPair, Claims!NewRelease, NewRelease
<1>2. \A channel : Claims!Made(channel) = Made(channel)
  BY <1>0 DEF Claims!Made, Made
<1>3. \A new, kept : Claims!Over(new, kept) = Over(new, kept)
  BY DEF Claims!Over, Over
<1>4. \A pairs, channel : Claims!MadeFor(pairs, channel) = MadeFor(pairs, channel)
  BY DEF Claims!MadeFor, MadeFor
<1>5. \A role, channels, from, until, mark :
        Claims!BuildRecord(role, channels, from, until, mark) = BuildRecord(role, channels, from, until, mark)
  BY DEF Claims!BuildRecord, BuildRecord
<1>6. \A channel, marks : Claims!CeremonyKeys(channel, marks) = CeremonyKeys(channel, marks)
  BY <1>1, <1>5 DEF Claims!CeremonyKeys, CeremonyKeys
<1>7. \A keys, channel : Claims!Retained(keys, channel) = Retained(keys, channel)
  BY DEF Claims!Retained, Retained, Claims!Restrict, Restrict
<1>8. Claims!Retired = Retired /\ Claims!Editable = Editable
  BY <1>0 DEF Claims!Retired, Retired, Claims!Editable, Editable
<1>9. \A k, status : Claims!SetStatus(k, status) <=> SetStatus(k, status)
  BY DEF Claims!SetStatus, SetStatus
<1>10. Claims!RunCeremonyProd <=> RunCeremonyProd
  BY <1>0, <1>1, <1>2, <1>3, <1>4, <1>6, <1>7 DEF Claims!RunCeremonyProd, RunCeremonyProd
<1>11. Claims!RunCeremonyDev <=> RunCeremonyDev
  BY <1>0, <1>1, <1>2, <1>3, <1>4, <1>6 DEF Claims!RunCeremonyDev, RunCeremonyDev
<1>12. Claims!Publish <=> Publish
  BY <1>1, <1>3, <1>4, <1>5 DEF Claims!Publish, Publish, Claims!Never, Never
<1>13. Claims!Rotate <=> Rotate
  BY <1>8, <1>9 DEF Claims!Rotate, Rotate
<1>14. Claims!Revoke <=> Revoke
  BY <1>8, <1>9 DEF Claims!Revoke, Revoke
<1>15. Claims!Expire <=> Expire
  BY <1>8, <1>9 DEF Claims!Expire, Expire
<1>16. Claims!Tick <=> Tick
  BY DEF Claims!Tick, Tick
<1> QED BY <1>10, <1>11, <1>12, <1>13, <1>14, <1>15, <1>16 DEF Claims!TrustNext, TrustNext

(* What is stored stays as it should be when envelopes are added. *)
LEMMA Growing ==
  ASSUME ClaimInv, envelopes \subseteq envelopes'
  PROVE  /\ \A r : ResultOK(r) => ResultOK(r)'
         /\ \A s : CardOK(s) => CardOK(s)'
         /\ \A m \in Manifest : m \in Manifest'
<1>1. \A m \in Manifest : m \in Manifest'
  BY DEF Manifest, Named
<1>2. \A r : ResultOK(r) => ResultOK(r)'
  BY <1>1 DEF ResultOK, Named, Resolved
<1>3. \A s : CardOK(s) => CardOK(s)'
  BY DEF CardOK
<1> QED BY <1>1, <1>2, <1>3

LEMMA ClaimSteps ==
  ASSUME Claims!ClaimAssumption, ClaimInv, [Claims!Next]_Claims!vars
  PROVE  ClaimInv'
<1> DEFINE Rests == UNCHANGED trustVars
<1>1. ASSUME Rests PROVE StoreInv'
  BY <1>1 DEF ClaimInv, trustVars, StoreInv, TrustTypeOK, OriginShows
<1>2. ASSUME UNCHANGED <<manifest, envelopes, results, scorecards>>, StoreInv' PROVE ClaimInv'
  BY <1>2, Growing DEF ClaimInv, EnvelopeOK
<1>3. CASE Claims!TrustNext /\ UNCHANGED Claims!claimVars
  <2>1. StoreInv'
    BY <1>3, SameTrust, TrustSteps, SigningAssumption DEF SigningAssumption, ClaimInv
  <2> QED BY <1>2, <1>3, <2>1 DEF Claims!claimVars
<1>4. CASE Claims!SignDecision
  <2>1. PICK k \in DOMAIN store, scope \in Claims!PublicScopes, metrics \in Declarations :
          envelopes' = envelopes \cup
              {[key |-> k, mark |-> store[k].mark, at |-> now, until |-> now + DecisionLife,
                scope |-> scope, metrics |-> metrics, binds |-> Claims!ManifestHash(manifest)]}
    BY <1>4 DEF Claims!SignDecision
  <2>2. Rests /\ UNCHANGED <<manifest, results, scorecards>>
    BY <1>4 DEF Claims!SignDecision, Claims!trustVars, trustVars
  <2>3. now \in Nat /\ now + DecisionLife \in Nat /\ metrics \in Seq(Claims!AuthorizedMetric)
    BY SigningAssumption DEF SigningAssumption, TrustAssumption, Claims!ClaimAssumption, ClaimInv, StoreInv, TrustTypeOK
  <2>4. \A e \in envelopes' : EnvelopeOK(e)
    BY <2>1, <2>3 DEF ClaimInv, EnvelopeOK
  <2> QED BY <1>1, <2>1, <2>2, <2>4, Growing DEF ClaimInv, EnvelopeOK
<1>5. CASE Claims!NameEnvelope
  <2>1. PICK e \in envelopes : manifest' = [manifest EXCEPT !.envelope = e]
    BY <1>5 DEF Claims!NameEnvelope
  <2>2. Rests /\ UNCHANGED <<envelopes, results, scorecards>>
    BY <1>5 DEF Claims!NameEnvelope, Claims!trustVars, trustVars
  <2>3. manifest' \in Manifest
    BY <2>1 DEF ClaimInv, Manifest, Named
  <2> QED BY <1>1, <2>2, <2>3, Growing DEF ClaimInv, EnvelopeOK
<1>6. CASE Claims!Amend
  <2>1. manifest' = [manifest EXCEPT !.version = 1]
    BY <1>6 DEF Claims!Amend
  <2>2. Rests /\ UNCHANGED <<envelopes, results, scorecards>>
    BY <1>6 DEF Claims!Amend, Claims!trustVars, trustVars
  <2>3. manifest' \in Manifest
    BY <2>1 DEF ClaimInv, Manifest
  <2> QED BY <1>1, <2>2, <2>3, Growing DEF ClaimInv, EnvelopeOK
<1>7. ASSUME Rests, UNCHANGED <<manifest, envelopes, scorecards>>,
             NEW r, ResultOK(r), results' = results \cup {r}
      PROVE  ClaimInv'
  BY <1>1, <1>7, Growing DEF ClaimInv, EnvelopeOK
<1>8. manifest \in Manifest /\ manifest.envelope \in Named /\ Claims!NoEnvelope \in Named
  BY DEF ClaimInv, Manifest, Named
<1>9. CASE Claims!Evaluate
  <2>1. PICK auth : auth = Claims!AuthorizationOf(manifest, manifest.envelope, "production", FALSE)
    OBVIOUS
  <2>2. AuthOK(auth, manifest)
    BY <1>8, <2>1, Authorizing
  <2>3. ResultOK(Claims!Synced(manifest, auth, Claims!NoEnvelope))
    BY <1>8, <2>2, Syncing
  <2> QED BY <1>7, <1>9, <2>1, <2>3 DEF Claims!Evaluate, Claims!trustVars, trustVars
<1>10. CASE Claims!Authorize
  <2>1. PICK e \in envelopes, attached \in envelopes, mode \in VerifyModes :
          results' = results \cup
              {Claims!Synced(manifest, Claims!AuthorizationOf(manifest, e, mode, TRUE), attached)}
    BY <1>10 DEF Claims!Authorize
  <2>2. PICK auth : auth = Claims!AuthorizationOf(manifest, e, mode, TRUE)
    OBVIOUS
  <2>3. e \in Named /\ attached \in Named
    BY DEF Named
  <2>4. AuthOK(auth, manifest)
    BY <1>8, <2>2, <2>3, Authorizing
  <2>5. ResultOK(Claims!Synced(manifest, auth, attached))
    BY <1>8, <2>3, <2>4, Syncing
  <2> QED BY <1>7, <1>10, <2>1, <2>2, <2>5 DEF Claims!Authorize, Claims!trustVars, trustVars
<1>11. CASE Claims!BuildScorecard
  <2>1. PICK r \in results, mode \in VerifyModes, haveStore \in BOOLEAN :
          scorecards' = scorecards \cup {Claims!Scorecard(r, mode, haveStore)}
    BY <1>11 DEF Claims!BuildScorecard
  <2>2. Rests /\ UNCHANGED <<manifest, envelopes, results>>
    BY <1>11 DEF Claims!BuildScorecard, Claims!trustVars, trustVars
  <2>3. PICK s : s = Claims!Scorecard(r, mode, haveStore)
    OBVIOUS
  <2>4. CardOK(s)
    BY <2>3, Scored DEF ClaimInv
  <2> QED BY <1>1, <2>1, <2>2, <2>3, <2>4, Growing DEF ClaimInv, EnvelopeOK
<1>12. CASE UNCHANGED Claims!vars
  BY <1>1, <1>2, <1>12 DEF Claims!vars, trustVars
<1> QED BY <1>3, <1>4, <1>5, <1>6, <1>9, <1>10, <1>11, <1>12 DEF Claims!Next

LEMMA ClaimsHold == ASSUME Claims!ClaimAssumption PROVE Claims!Spec => []ClaimInv
<1>1. ClaimInv /\ [Claims!Next]_Claims!vars => ClaimInv'
  BY ClaimSteps
<1> QED BY ClaimsStart, <1>1, PTL DEF Claims!Spec

(* What a claim has in force behind it that production verified. *)
LEMMA VerifiedClaim ==
  ASSUME ClaimInv, NEW r \in results, NEW haveStore,
         Claims!VerifyClaim(r.envelope, r.manifest, "production", haveStore) = "ok"
  PROVE  LET e == r.envelope
             m == r.manifest
         IN  /\ e \in envelopes
             /\ e.at <= now /\ now <= e.until
             /\ [e.binds EXCEPT !.envelope = m.envelope] = m
             /\ e.key \in DOMAIN store /\ e.key \notin revocations
             /\ store[e.key].status = "active"
             /\ store[e.key].role \in {"claim_authority", "offline_root"}
<1> DEFINE e == r.envelope
           m == r.manifest
           id == <<e.key, e.mark>>
<1>1. e \in Named /\ m \in Manifest
  BY DEF ClaimInv, ResultOK
<1>2. /\ e # Claims!NoEnvelope
      /\ Claims!KeyPolicy(id, "production", Claims!PolicyTime("production", e.at),
                          Claims!ClaimRoles("production")) = "ok"
      /\ ~ (now < e.at) /\ ~ (now > e.until)
      /\ e.binds = Claims!ManifestHash(m)
  BY DEF Claims!VerifyClaim
<1>3. e \in envelopes /\ e.at \in Nat /\ e.until \in Nat /\ now \in Nat
  BY <1>1, <1>2, SigningAssumption
     DEF Named, ClaimInv, EnvelopeOK, StoreInv, TrustTypeOK, SigningAssumption, TrustAssumption
<1>4. [e.binds EXCEPT !.envelope = m.envelope] = m
  BY <1>1, <1>2 DEF Claims!ManifestHash, Manifest
<1>5. Claims!ClaimRoles("production") = {"claim_authority", "offline_root"}
  BY DEF Claims!ClaimRoles, Claims!ClaimAuthoritySigningRoles
<1>6. Claims!PolicyTime("production", e.at) = now
  BY DEF Claims!PolicyTime
<1>7. KeyPolicy(id, "production", now, {"claim_authority", "offline_root"}) = "ok"
  BY <1>2, <1>5, <1>6 DEF Claims!KeyPolicy, KeyPolicy, Claims!Published, Published,
                          Claims!DevOnly, DevOnly, Claims!IsRevoked, IsRevoked
<1>8. Serves(id, {"claim_authority", "offline_root"})
  BY <1>7, ProductionPolicy
<1>9. store[e.key].status \in Statuses
  BY <1>8 DEF Serves, Stands, Published, ClaimInv, StoreInv, TrustTypeOK, KeyRecord
<1>10. store[e.key].status = "active"
  BY <1>8, <1>9 DEF Serves, Stands, IsRevoked, Statuses
<1>11. e.at <= now /\ now <= e.until
  BY <1>2, <1>3
<1> QED BY <1>3, <1>4, <1>8, <1>10, <1>11 DEF Serves, Stands, Published, IsRevoked

(* Whoever is asked under the production policy, whatever is signed, amended,  *)
(* revoked or attached in between: a scientific headline is built only while a *)
(* decision about exactly that benchmark is in force, from a claim authority   *)
(* that the store then publishes (scorecard.py, claim_auth_verify.py).         *)
THEOREM ScientificNeedsAuthority ==
  ASSUME Claims!ClaimAssumption, VerifyModes \subseteq {"production"}
  PROVE  Claims!Spec => Claims!ScientificIsAuthorized
<1> DEFINE InForce(s) ==
             s.headline = "scientific" =>
               LET e == s.result.envelope
                   m == s.result.manifest
               IN  /\ e \in envelopes
                   /\ e.at <= now /\ now <= e.until
                   /\ [e.binds EXCEPT !.envelope = m.envelope] = m
                   /\ m.class = "expert_natural" /\ m.prereqs
                   /\ e.key \in DOMAIN store /\ e.key \notin revocations
                   /\ store[e.key].status = "active"
                   /\ store[e.key].role \in {"claim_authority", "offline_root"}
<1>1. ASSUME ClaimInv, Claims!BuildScorecard PROVE \A s \in scorecards' \ scorecards : InForce(s)
  <2>1. PICK r \in results, mode \in VerifyModes, haveStore \in BOOLEAN :
          scorecards' = scorecards \cup {Claims!Scorecard(r, mode, haveStore)}
    BY <1>1 DEF Claims!BuildScorecard
  <2>2. PICK s : s = Claims!Scorecard(r, mode, haveStore)
    OBVIOUS
  <2>3. ASSUME s.headline = "scientific" PROVE InForce(s)
    <3>1. /\ s.result.envelope = r.envelope /\ s.result.manifest = r.manifest
          /\ r.auth.scope \in Claims!PublicScopes
          /\ Claims!VerifyClaim(r.envelope, r.manifest, mode, haveStore) = "ok"
      BY <1>1, <2>2, <2>3, Scored DEF ClaimInv
    <3>2. mode = "production"
      OBVIOUS
    <3>3. r.manifest.class = "expert_natural" /\ r.manifest.prereqs
      BY <1>1, <3>1 DEF ClaimInv, ResultOK
    <3> QED BY <1>1, <3>1, <3>2, <3>3, VerifiedClaim
  <2> QED BY <2>1, <2>2, <2>3
<1>2. ASSUME [Claims!Next]_Claims!vars, ~ Claims!BuildScorecard PROVE scorecards' \ scorecards = {}
  BY <1>2 DEF Claims!Next, Claims!claimVars, Claims!vars, Claims!SignDecision, Claims!NameEnvelope,
              Claims!Amend, Claims!Evaluate, Claims!Authorize
<1>3. ClaimInv /\ [Claims!Next]_Claims!vars => \A s \in scorecards' \ scorecards : InForce(s)
  BY <1>1, <1>2
<1>4. Claims!Spec => []ClaimInv
  BY ClaimsHold
<1> QED BY <1>3, <1>4, PTL DEF Claims!Spec, Claims!ScientificIsAuthorized

(* What programs read off a scorecard, what people read, and what is listed    *)
(* agree under every policy mode, with any envelope attached: the flag goes    *)
(* with the headline, an incomplete reference set authorizes no precision, and *)
(* naming an envelope in the manifest does not invalidate it (models.py,       *)
(* metric_auth.py, scorecard.py).                                              *)
THEOREM ScorecardsAgree ==
  ASSUME Claims!ClaimAssumption
  PROVE  Claims!Spec => [](/\ Claims!TypeOK
                           /\ Claims!FlagMatchesHeadline
                           /\ Claims!PrecisionNeedsCompleteness
                           /\ Claims!NamingKeepsItValid)
<1>1. ClaimInv => Claims!FlagMatchesHeadline
  BY DEF ClaimInv, CardOK, Claims!FlagMatchesHeadline
<1>2. ClaimInv => Claims!PrecisionNeedsCompleteness
  BY DEF ClaimInv, CardOK, ResultOK, Resolved, Claims!IncompleteReference,
         Claims!PrecisionNeedsCompleteness
<1>3. ClaimInv => Claims!NamingKeepsItValid
  <2> SUFFICES ASSUME ClaimInv, NEW e \in envelopes
               PROVE  LET Naming(named) == [manifest EXCEPT !.envelope = named]
                      IN  Claims!VerifyClaim(e, Naming(Claims!NoEnvelope), "production", TRUE) = "ok"
                          => Claims!VerifyClaim(e, Naming(e), "production", TRUE) = "ok"
    BY DEF Claims!NamingKeepsItValid
  <2>1. /\ Claims!ManifestHash([manifest EXCEPT !.envelope = e])
             = Claims!ManifestHash([manifest EXCEPT !.envelope = Claims!NoEnvelope])
        /\ [manifest EXCEPT !.envelope = e].envelope = e
    BY DEF ClaimInv, Manifest, Claims!ManifestHash
  <2> QED BY <2>1 DEF Claims!VerifyClaim
<1>4. ClaimInv => Claims!TypeOK
  BY DEF ClaimInv, CardOK, ResultOK, Auth, StoreInv, TrustTypeOK, KeyRecord, Claims!TypeOK,
         Claims!TrustTypeOK, Claims!KeyRecord, Claims!Roles, Roles, Claims!Statuses, Statuses,
         Claims!Channels, Channels, Claims!Marks, Marks
<1>5. Claims!Spec => []ClaimInv
  BY ClaimsHold
<1> QED BY <1>1, <1>2, <1>3, <1>4, <1>5, PTL

-----------------------------------------------------------------------------
(* Release gates. *)

(* The instance has its own names for the trust store it shares. *)
LEMMA SameStore ==
  /\ Gates!TrustNext <=> TrustNext
  /\ Gates!TrustInit <=> TrustInit
  /\ Gates!TrustTypeOK <=> TrustTypeOK
  /\ UNCHANGED Gates!trustVars <=> UNCHANGED trustVars
<1>0. \A S : Gates!Cardinality(S) = Cardinality(S)
  BY DEF Gates!Cardinality, Cardinality
<1>1. Gates!TrustNext <=> TrustNext
  BY <1>0, Zenon
     DEF Gates!TrustNext, TrustNext, Gates!Tick, Tick, Gates!Unmade, Unmade, Gates!NewPair, NewPair,
       Gates!NewRelease, NewRelease, Gates!Made, Made, Gates!Over, Over, Gates!MadeFor, MadeFor,
       Gates!BuildRecord, BuildRecord, Gates!CeremonyKeys, CeremonyKeys, Gates!Retained, Retained,
       Gates!Restrict, Restrict, Gates!Retired, Retired, Gates!Editable, Editable,
       Gates!SetStatus, SetStatus, Gates!RunCeremonyProd, RunCeremonyProd,
       Gates!RunCeremonyDev, RunCeremonyDev, Gates!Publish, Publish, Gates!Never, Never,
       Gates!Rotate, Rotate, Gates!Revoke, Revoke, Gates!Expire, Expire
<1>2. Gates!TrustInit <=> TrustInit
  BY DEF Gates!TrustInit, TrustInit
<1>3. Gates!TrustTypeOK <=> TrustTypeOK
  BY DEF Gates!TrustTypeOK, TrustTypeOK, Gates!KeyRecord, KeyRecord, Gates!Roles, Roles,
         Gates!Statuses, Statuses, Gates!Channels, Channels, Gates!Marks, Marks
<1>4. UNCHANGED Gates!trustVars <=> UNCHANGED trustVars
  BY DEF Gates!trustVars, trustVars
<1> QED BY <1>1, <1>2, <1>3, <1>4

LEMMA SamePolicy ==
  /\ \A id, mode, at, permitted : Gates!KeyPolicy(id, mode, at, permitted) = KeyPolicy(id, mode, at, permitted)
  /\ \A r : Gates!DevOnly(r) <=> DevOnly(r)
  /\ Gates!EvidenceAuthoritySigningRoles = EvidenceAuthoritySigningRoles
BY DEF Gates!KeyPolicy, KeyPolicy, Gates!Published, Published, Gates!IsRevoked, IsRevoked,
       Gates!DevOnly, DevOnly, Gates!EvidenceAuthoritySigningRoles, EvidenceAuthoritySigningRoles

Assumptions == TrustAssumption /\ Gates!GatesAssumption

(* An envelope that was issued, whatever was done to the file since. *)
Attestation(a) ==
    /\ {"for", "count", "from", "until", "key", "damage"} \subseteq DOMAIN a
    /\ a.for \in Gates!AllSlots
    /\ a.for = "holdout" => a.count \in Nat
    /\ a.from \in Nat /\ a.until \in Nat
    /\ a.key[1] \in DOMAIN origin
    /\ a.damage \in {"none", "payload", "signature", "garbled"}

GatesInv ==
    /\ StoreInv
    /\ slot \in Slots
    /\ live \in Gates!EvidenceFor(slot)
    /\ envelope = Gates!Absent \/ Attestation(envelope)
    /\ issued \in 0 .. MaxEnvelopes

-----------------------------------------------------------------------------
(* The verdict of a gate, as a conjunction. *)
VerifiedWhen(s, e, a) ==
    /\ a # Gates!Absent /\ a.damage \notin {"garbled", "payload", "signature"}
    /\ Gates!Kind(a.for) = Gates!Kind(s)
    /\ a.status = "attested"
    /\ Serves(a.key, EvidenceAuthoritySigningRoles)
    /\ ~(now < a.from) /\ ~(now > a.until)
    /\ Gates!SubjectErrors(s, e, a) = {}

LEMMA VerifyIs == \A s, e, a : Gates!Verify(s, e, a) = "ok" <=> VerifiedWhen(s, e, a)
  BY ProductionPolicy, SamePolicy DEF Gates!Verify, VerifiedWhen

LEMMA VerifyIsAfter == (\A s, e, a : Gates!Verify(s, e, a) = "ok" <=> VerifiedWhen(s, e, a))'
  BY VerifyIs, PTL

-----------------------------------------------------------------------------
(* The invariant. *)

LEMMA GatesStart == Assumptions /\ Gates!Init => GatesInv
<1> SUFFICES ASSUME Assumptions, Gates!Init PROVE GatesInv
  OBVIOUS
<1>1. StoreInv
  BY TrustStarts, SameStore DEF Gates!Init, Assumptions
<1> QED BY <1>1 DEF Gates!Init, GatesInv, Assumptions, Gates!GatesAssumption

(* What each step leaves alone. *)
LEMMA GatesFrame ==
    ASSUME GatesInv, [Gates!Next]_Gates!vars
    PROVE  slot' = slot /\ (Gates!TrustNext \/ UNCHANGED Gates!trustVars)
  BY DEF Gates!Next, Gates!Issue, Gates!Damage, Gates!ChangeEvidence, Gates!Trust, Gates!vars, Gates!gateVars

LEMMA StoreStep ==
    ASSUME Assumptions, GatesInv, [Gates!Next]_Gates!vars
    PROVE  StoreInv' /\ TrustKeeps
<1>1. CASE Gates!TrustNext
  BY <1>1, TrustSteps, SameStore DEF GatesInv, Assumptions
<1>2. CASE UNCHANGED Gates!trustVars
  BY <1>2 DEF Gates!trustVars, GatesInv, StoreInv, TrustTypeOK, OriginShows, TrustKeeps, SameTerms, StatusMoves
<1> QED BY <1>1, <1>2, GatesFrame

LEMMA IssueStep ==
    ASSUME Assumptions, GatesInv, Gates!Issue
    PROVE  Attestation(envelope)'
<1>1. PICK for \in {slot} \cup (IF slot \in Gates!Exports THEN Gates!Exports ELSE {"independent"}),
           status \in {"attested", "pending", "blocked"}, k \in DOMAIN origin,
           count \in 0 .. HoldoutMinimum, complete \in BOOLEAN, contaminated \in BOOLEAN :
        LET a == [for |-> for, status |-> status, items |-> live.items,
                  count |-> IF for = "holdout" THEN count ELSE Gates!Cardinality(live.items),
                  complete |-> complete, contaminated |-> contaminated,
                  from |-> now, until |-> now + AttestationLife,
                  key |-> <<k, "none">>, damage |-> "none"]
        IN  /\ for # "holdout" => count = 0 /\ complete /\ ~contaminated
            /\ Gates!ValidAttestation(a)
            /\ envelope' \in {a, [a EXCEPT !.key =
                                  <<k, IF k \in DOMAIN store THEN store[k].mark ELSE "none">>]}
  BY Zenon DEF Gates!Issue
<1>2. for \in Gates!AllSlots
  BY DEF GatesInv, Assumptions, Gates!GatesAssumption, Gates!AllSlots, Gates!Exports
<1>3. now \in Nat /\ now + AttestationLife \in Nat /\ count \in Nat
  BY DEF GatesInv, StoreInv, TrustTypeOK, Assumptions, TrustAssumption, Gates!GatesAssumption
<1> DEFINE n == IF for = "holdout" THEN count ELSE Gates!Cardinality(live.items)
           m == IF k \in DOMAIN store THEN store[k].mark ELSE "none"
           a(mark) == [for |-> for, status |-> status, items |-> live.items, count |-> n,
                       complete |-> complete, contaminated |-> contaminated,
                       from |-> now, until |-> now + AttestationLife,
                       key |-> <<k, mark>>, damage |-> "none"]
<1>4. PICK mark : envelope' = a(mark)
  <2>1. [a("none") EXCEPT !.key = <<k, m>>] = a(m)
    OBVIOUS
  <2>2. envelope' \in {a("none"), [a("none") EXCEPT !.key = <<k, m>>]}
    BY <1>1
  <2> QED BY <2>1, <2>2
<1>5. /\ {"for", "count", "from", "until", "key", "damage"} \subseteq DOMAIN a(mark)
      /\ for = "holdout" => a(mark).count = count
      /\ a(mark).for = for /\ a(mark).from = now /\ a(mark).until = now + AttestationLife
      /\ a(mark).key[1] = k /\ a(mark).damage = "none"
  OBVIOUS
<1> HIDE DEF a
<1>6. origin' = origin
  BY DEF Gates!Issue, Gates!trustVars
<1> QED BY <1>2, <1>3, <1>4, <1>5, <1>6 DEF Attestation

LEMMA DamageStep ==
    ASSUME GatesInv, Gates!Damage
    PROVE  Attestation(envelope)'
<1>1. PICK d \in {"payload", "signature", "garbled"} : envelope' = [envelope EXCEPT !.damage = d]
  BY DEF Gates!Damage
<1>2. Attestation(envelope) /\ origin' = origin
  BY DEF Gates!Damage, GatesInv, Gates!trustVars
<1>3. /\ DOMAIN envelope' = DOMAIN envelope
      /\ envelope'.for = envelope.for /\ envelope'.count = envelope.count /\ envelope'.from = envelope.from
      /\ envelope'.until = envelope.until /\ envelope'.key = envelope.key
      /\ envelope'.damage = d
  BY <1>1, <1>2 DEF Attestation
<1> QED BY <1>2, <1>3 DEF Attestation

(* An envelope that is left alone stays one that was issued. *)
LEMMA FileStands ==
    ASSUME TrustKeeps, Attestation(envelope), envelope' = envelope
    PROVE  Attestation(envelope)'
  BY DEF Attestation, TrustKeeps

LEMMA GatesStep ==
    ASSUME Assumptions, GatesInv, [Gates!Next]_Gates!vars
    PROVE  GatesInv' /\ TrustKeeps
<1>1. StoreInv' /\ TrustKeeps /\ slot' = slot
  BY StoreStep, GatesFrame
<1>2. CASE Gates!Issue
  <2>1. issued' \in 0 .. MaxEnvelopes
    BY <1>2 DEF GatesInv, Gates!Issue, Assumptions, Gates!GatesAssumption
  <2>2. live' = live
    BY <1>2 DEF Gates!Issue
  <2> QED BY <1>1, <1>2, <2>1, <2>2, IssueStep DEF GatesInv
<1>3. CASE Gates!Damage
  BY <1>1, <1>3, DamageStep DEF GatesInv, Gates!Damage
<1>4. CASE Gates!ChangeEvidence
  BY <1>1, <1>4, FileStands DEF GatesInv, Gates!ChangeEvidence
<1>5. CASE Gates!Trust
  BY <1>1, <1>5, FileStands DEF GatesInv, Gates!Trust, Gates!gateVars
<1>6. CASE UNCHANGED Gates!vars
  BY <1>1, <1>6, FileStands DEF GatesInv, Gates!vars, Gates!gateVars
<1> QED BY <1>2, <1>3, <1>4, <1>5, <1>6 DEF Gates!Next

LEMMA GatesAlways == Assumptions => (Gates!Spec => []GatesInv)
<1>1. Assumptions /\ GatesInv /\ [Gates!Next]_Gates!vars => GatesInv'
  BY GatesStep
<1>2. ASSUME Assumptions PROVE Gates!Spec => []GatesInv
  <2>1. Gates!Init => GatesInv
    BY <1>2, GatesStart
  <2>2. GatesInv /\ [Gates!Next]_Gates!vars => GatesInv'
    BY <1>1, <1>2
  <2> QED BY <2>1, <2>2, PTL DEF Gates!Spec
<1> QED BY <1>2

-----------------------------------------------------------------------------
(* What a gate that passes means. *)

LEMMA PassedMeans == Gates!Passed <=> VerifiedWhen(slot, live, envelope) /\ Gates!VolumeMet(slot, live)
  BY VerifyIs DEF Gates!Passed, Gates!Report

LEMMA PassedMeansAfter == (Gates!Passed <=> VerifiedWhen(slot, live, envelope) /\ Gates!VolumeMet(slot, live))'
  BY PassedMeans, PTL

(* Kinds are those of the gates, but for the two exports. *)
LEMMA SameKind ==
    ASSUME NEW s \in Gates!AllSlots, NEW t \in Gates!AllSlots, Gates!Kind(s) = Gates!Kind(t)
    PROVE  s = t \/ (s \in Gates!Exports /\ t \in Gates!Exports)
  BY DEF Gates!AllSlots, Gates!Exports, Gates!Kind

LEMMA AuthorityIs == GatesInv => Gates!PassNeedsAuthority
<1> SUFFICES ASSUME GatesInv, Gates!Passed PROVE Gates!PassNeedsAuthority
  BY DEF Gates!PassNeedsAuthority
<1>1. VerifiedWhen(slot, live, envelope)
  BY PassedMeans
<1>2. Attestation(envelope)
  BY <1>1 DEF GatesInv, VerifiedWhen
<1>3. /\ envelope.key[1] \in DOMAIN store /\ ~IsRevoked(envelope.key[1])
      /\ store[envelope.key[1]] \in KeyRecord
  BY <1>1 DEF VerifiedWhen, Serves, Stands, Published, GatesInv, StoreInv, TrustTypeOK
<1>4. store[envelope.key[1]].status = "active"
  BY <1>1, <1>3 DEF VerifiedWhen, Serves, Stands, IsRevoked, KeyRecord, Statuses
<1>5. /\ store[envelope.key[1]].from \in Int /\ store[envelope.key[1]].until \in Int /\ now \in Int
      /\ envelope.from \in Int /\ envelope.until \in Int
  BY <1>2, <1>3 DEF KeyRecord, Attestation, GatesInv, StoreInv, TrustTypeOK
<1>6. /\ store[envelope.key[1]].from <= now /\ now <= store[envelope.key[1]].until
      /\ envelope.from <= now /\ now <= envelope.until
  BY <1>1, <1>5 DEF VerifiedWhen, Serves, Stands
<1>7. envelope.damage = "none"
  BY <1>1, <1>2 DEF VerifiedWhen, Attestation
<1> QED BY <1>1, <1>3, <1>4, <1>6, <1>7, SamePolicy
        DEF Gates!PassNeedsAuthority, VerifiedWhen, Serves, IsRevoked, EvidenceAuthoritySigningRoles

LEMMA EvidenceIs == GatesInv /\ Assumptions => Gates!ChangedEvidenceCloses
<1> SUFFICES ASSUME GatesInv, Assumptions, Gates!Passed, live.items # {} PROVE Gates!ChangedEvidenceCloses
  BY DEF Gates!ChangedEvidenceCloses
<1>1. VerifiedWhen(slot, live, envelope)
  BY PassedMeans
<1>2. envelope.for \in Gates!AllSlots /\ slot \in Gates!AllSlots
  BY <1>1 DEF GatesInv, VerifiedWhen, Attestation, Assumptions, Gates!GatesAssumption
<1>3. Gates!SubjectErrors(slot, live, envelope) = {}
  BY <1>1 DEF VerifiedWhen
<1>4. envelope.for = slot \/ (envelope.for \in Gates!Exports /\ slot \in Gates!Exports)
  BY <1>1, <1>2, SameKind DEF VerifiedWhen
<1>5. CASE envelope.for \in Gates!Exports
  <2>1. Gates!ExportErrors(slot, live, envelope) = {}
    BY <1>3, <1>5 DEF Gates!SubjectErrors, Gates!Exports, Gates!HoldoutBound
  <2>2. envelope.for = slot /\ envelope.items = live.items
    BY <2>1 DEF Gates!ExportErrors, Gates!ManifestBound
  <2> QED BY <1>5, <2>2 DEF Gates!ChangedEvidenceCloses, Gates!Exports
<1>6. CASE envelope.for = "natural"
  <2>1. Gates!NaturalErrors(live, envelope) = {}
    BY <1>3, <1>6 DEF Gates!SubjectErrors, Gates!Exports, Gates!HoldoutBound
  <2>2. envelope.items = live.items
    BY <2>1 DEF Gates!NaturalErrors, Gates!LedgerBound
  <2> QED BY <1>4, <1>6, <2>2 DEF Gates!ChangedEvidenceCloses, Gates!Exports
<1>7. CASE envelope.for = "staffing"
  <2>1. Gates!StaffingErrors(live, envelope) = {}
    BY <1>3, <1>7 DEF Gates!SubjectErrors, Gates!Exports, Gates!HoldoutBound
  <2>2. /\ Gates!People(envelope.items) = Gates!People(live.items)
        /\ Gates!Domain(envelope.items) = Gates!Domain(live.items)
    BY <2>1 DEF Gates!StaffingErrors, Gates!RosterBound
  <2> QED BY <1>4, <1>7, <2>2 DEF Gates!ChangedEvidenceCloses, Gates!Exports
<1>8. CASE envelope.for = "audit"
  <2>1. Gates!AuditErrors(live, envelope) = {}
    BY <1>3, <1>8 DEF Gates!SubjectErrors, Gates!Exports, Gates!HoldoutBound
  <2>2. envelope.items = live.items
    BY <2>1 DEF Gates!AuditErrors
  <2> QED BY <1>4, <1>8, <2>2 DEF Gates!ChangedEvidenceCloses, Gates!Exports
<1>9. CASE envelope.for = "independent"
  <2>1. Gates!IndependentErrors(live, envelope) = {}
    BY <1>3, <1>9 DEF Gates!SubjectErrors, Gates!Exports, Gates!HoldoutBound
  <2>2. envelope.items = live.items
    BY <2>1 DEF Gates!IndependentErrors, Gates!BenchmarksBound
  <2> QED BY <1>4, <1>9, <2>2 DEF Gates!ChangedEvidenceCloses, Gates!Exports
<1>10. CASE envelope.for = "holdout"
  <2>1. slot = "holdout"
    BY <1>4, <1>10 DEF Gates!Exports
  <2> QED BY <2>1 DEF GatesInv, Gates!EvidenceFor, Gates!ValidEvidence
<1> QED BY <1>2, <1>5, <1>6, <1>7, <1>8, <1>9, <1>10 DEF Gates!AllSlots

LEMMA VolumeIs == GatesInv /\ Assumptions => Gates!VolumeIsEarned
<1> SUFFICES ASSUME GatesInv, Assumptions, Gates!Passed PROVE Gates!VolumeIsEarned
  BY DEF Gates!VolumeIsEarned
<1>1. VerifiedWhen(slot, live, envelope) /\ Gates!VolumeMet(slot, live)
  BY PassedMeans
<1>2. envelope.for \in Gates!AllSlots /\ slot \in Gates!AllSlots
  BY <1>1 DEF GatesInv, VerifiedWhen, Attestation, Assumptions, Gates!GatesAssumption
<1>3. CASE slot = "holdout"
  <2>1. envelope.for = "holdout"
    BY <1>1, <1>2, <1>3, SameKind DEF VerifiedWhen, Gates!Exports
  <2>2. Gates!HoldoutErrors(envelope) = {}
    BY <1>1, <2>1 DEF VerifiedWhen, Gates!SubjectErrors, Gates!Exports, Gates!HoldoutBound
  <2>3. ~(envelope.count < HoldoutMinimum) /\ envelope.complete /\ ~envelope.contaminated
    BY <2>2 DEF Gates!HoldoutErrors
  <2>4. envelope.count \in Nat /\ HoldoutMinimum \in Nat
    BY <1>1, <2>1 DEF GatesInv, VerifiedWhen, Attestation, Assumptions, Gates!GatesAssumption
  <2> QED BY <1>3, <2>3, <2>4 DEF Gates!VolumeIsEarned
<1>4. CASE slot # "holdout"
  BY <1>1, <1>4 DEF Gates!VolumeIsEarned, Gates!VolumeMet
<1> QED BY <1>3, <1>4

(* A verdict that is one of the refusals for good does not become "ok".    *)
LEMMA RefusedIsRefused ==
    ASSUME Assumptions, GatesInv, [Gates!Next]_Gates!vars, envelope # Gates!Absent,
           envelope' = envelope, Gates!Passed'
    PROVE  Gates!Report \notin {"revoked_key", "expired_key", "decision_expired", "payload_tamper",
                          "attestation_blocked", "missing_attestation"}
<1>1. GatesInv' /\ TrustKeeps /\ slot' = slot
  BY GatesStep, GatesFrame
<1>2. VerifiedWhen(slot, live, envelope)'
  BY PassedMeansAfter
<1>3. Attestation(envelope)
  BY DEF GatesInv
<1> PICK a : a = envelope
  OBVIOUS
<1>4. /\ a # Gates!Absent /\ a.damage \notin {"garbled", "payload", "signature"}
      /\ Gates!Kind(a.for) = Gates!Kind(slot) /\ a.status = "attested"
      /\ Serves(a.key, EvidenceAuthoritySigningRoles)' /\ ~(now' > a.until)
  BY <1>1, <1>2 DEF VerifiedWhen
<1>5. Serves(a.key, EvidenceAuthoritySigningRoles)
  <2>1. PICK id : id = a.key
    OBVIOUS
  <2>2. id[1] \in DOMAIN origin /\ Serves(id, EvidenceAuthoritySigningRoles)'
    BY <1>3, <1>4, <2>1 DEF Attestation
  <2>3. Serves(id, EvidenceAuthoritySigningRoles)
    BY <1>1, <2>2, ServedBefore DEF GatesInv
  <2> QED BY <2>1, <2>3
<1>6. KeyPolicy(a.key, "production", now, EvidenceAuthoritySigningRoles) = "ok"
  BY <1>5, ProductionPolicy
<1>7. ~(now > a.until)
  <2>1. now \in Int /\ now' \in Int /\ now <= now' /\ a.until \in Int
    BY <1>1, <1>3 DEF GatesInv, StoreInv, TrustTypeOK, TrustKeeps, Attestation
  <2> QED BY <1>4, <2>1
<1>8. Gates!Report \in {"decision_not_yet_valid", "binding_mismatch", "ok"}
  BY <1>4, <1>6, <1>7, SamePolicy DEF Gates!Report, Gates!Verify
<1> QED BY <1>8

-----------------------------------------------------------------------------
(* In every reachable state, whatever the evidence and the keys: the tables *)
(* are well formed; a passing gate has an authority in force behind it      *)
(* (evidence_verify.py), attests the evidence that is there now             *)
(* (v09_gate_lib.py), and has the volume it reports.                        *)
THEOREM GatesAreSound ==
    Assumptions => (Gates!Spec => [](/\ Gates!TypeOK
                                     /\ Gates!PassNeedsAuthority
                                     /\ Gates!ChangedEvidenceCloses
                                     /\ Gates!VolumeIsEarned))
<1> SUFFICES ASSUME Assumptions
             PROVE  Gates!Spec => [](/\ Gates!TypeOK
                                     /\ Gates!PassNeedsAuthority
                                     /\ Gates!ChangedEvidenceCloses
                                     /\ Gates!VolumeIsEarned)
  OBVIOUS
<1>1. GatesInv => Gates!TypeOK
  BY SameStore DEF GatesInv, StoreInv, Gates!TypeOK, Attestation
<1>2. GatesInv => Gates!PassNeedsAuthority /\ Gates!ChangedEvidenceCloses /\ Gates!VolumeIsEarned
  BY AuthorityIs, EvidenceIs, VolumeIs
<1>3. Gates!Spec => []GatesInv
  BY GatesAlways
<1> QED BY <1>1, <1>2, <1>3, PTL

(* A gate closed by revocation, by time or by an edit of its envelope stays *)
(* closed while that envelope is there: no rotation, ceremony or import     *)
(* opens it again.                                                          *)
THEOREM ClosedGatesStayClosed == Assumptions => (Gates!Spec => Gates!ClosedStaysClosed)
<1> SUFFICES ASSUME Assumptions PROVE Gates!Spec => Gates!ClosedStaysClosed
  OBVIOUS
<1>1. GatesInv /\ [Gates!Next]_Gates!vars =>
        ((envelope # Gates!Absent /\ envelope' = envelope
            /\ Gates!Report \in {"revoked_key", "expired_key", "decision_expired", "payload_tamper",
                           "attestation_blocked", "missing_attestation"}) => ~Gates!Passed')
  BY RefusedIsRefused
<1>2. Gates!Spec => []GatesInv
  BY GatesAlways
<1> QED BY <1>1, <1>2, PTL DEF Gates!Spec, Gates!ClosedStaysClosed
=============================================================================
