--------------------------- MODULE ScorecardSigning ---------------------------
(***************************************************************************)
(* Signing public scorecards and verifying the envelopes                   *)
(* (opencritique_evaluation/signing.py and the sign-scorecard and          *)
(* verify-scorecard commands of cli.py) while the trust store is rotated,  *)
(* revoked and regenerated around them.                                    *)
(***************************************************************************)
EXTENDS TrustStore

CONSTANTS
    MaxSigned,      \* bound: envelopes
    SignMarks,      \* marks signers put before a key id: its own, or "none" (the command line)
    MayDamage       \* whether a file may be altered after it was signed

ASSUME SigningAssumption ==
    /\ TrustAssumption
    /\ MaxSigned \in Nat /\ SignMarks \subseteq {"own", "none"} /\ MayDamage \in BOOLEAN

VARIABLES
    signed,         \* envelopes: who signed, under which id, when, until when, and intact or not
    relied          \* the envelopes somebody verified under the production policy

vars == <<now, store, revocations, origin, signed, relied>>

Envelope == [key : KeyPairs, mark : Marks, at : Nat, until : Nat, intact : BOOLEAN]

Id(e) == <<e.key, e.mark>>

(* The verification of an envelope, in the order of the code. *)
KeyIdMatches(e) == e.mark \in Marks

VerifyEnvelope(e, mode, material) ==
    LET policy == KeyPolicy(Id(e), mode, PolicyTime(mode, e.at), ScorecardSigningRoles)
    IN  IF ~e.intact THEN "payload_tamper"
        ELSE IF ~KeyIdMatches(e) THEN "key_id_mismatch"
        ELSE IF material = <<"store">> /\ policy # "ok" THEN policy
        ELSE IF material[1] = "pem" /\ material # <<"pem", e.key>> THEN "public_key_mismatch"
        ELSE IF material = <<"nothing">> /\ mode # "test" THEN "unknown_key"
        ELSE IF now < e.at THEN "not_yet_valid"
        ELSE IF now > e.until THEN "expired_key"
        ELSE "ok"

Accepts(e, mode) == VerifyEnvelope(e, mode, <<"store">>) = "ok"

Init == TrustInit /\ signed = {} /\ relied = {}

(* The signer names the id the store publishes, or lets it be derived. *)
SignScorecard ==
    /\ Cardinality(signed) < MaxSigned
    /\ \E k \in DOMAIN origin, by \in SignMarks, until \in {now + 1, Never} :
         signed' = signed \cup
           {[key |-> k, at |-> now, until |-> until, intact |-> TRUE,
             mark |-> IF by = "own" /\ k \in DOMAIN store THEN store[k].mark ELSE "none"]}
    /\ UNCHANGED <<trustVars, relied>>

(* verify-scorecard against the published store, under its default policy. *)
VerifyScorecard ==
    /\ \E e \in signed : Accepts(e, "production") /\ relied' = relied \cup {e}
    /\ UNCHANGED <<trustVars, signed>>

Damage ==
    /\ MayDamage
    /\ \E e \in signed : signed' = (signed \ {e}) \cup {[e EXCEPT !.intact = FALSE]}
    /\ UNCHANGED <<trustVars, relied>>

Next ==
    \/ TrustNext /\ UNCHANGED <<signed, relied>>
    \/ SignScorecard \/ VerifyScorecard \/ Damage

Spec == Init /\ [][Next]_vars

-----------------------------------------------------------------------------

TypeOK ==
    /\ TrustTypeOK
    /\ \A e \in signed \cup relied : e \in Envelope

(* A scorecard somebody once verified under the production policy verifies *)
(* under the historical one ever after, whatever was rotated and however   *)
(* much time has passed, as long as its key is in the store, is neither    *)
(* revoked nor declared expired, and its own interval runs.                *)
HistoryHolds ==
    \A e \in relied :
      (/\ Published(Id(e)) /\ ~IsRevoked(e.key) /\ store[e.key].status # "expired"
       /\ now <= e.until)
      => Accepts(e, "historical")

(* From the step after its key is revoked on, no policy accepts what a key *)
(* signed: not after a rotation set the status again, not after a ceremony *)
(* wrote the store anew.                                                   *)
RevocationIsFinal ==
    [][\A e \in signed :
         (e.key \in DOMAIN store /\ (e.key \in revocations \/ store[e.key].status = "revoked"))
         => \A mode \in Modes : ~Accepts(e, mode)']_vars

(* What production relied on and then refused it never accepts again: no   *)
(* order of rotations, expiries, revocations and ceremonies brings a       *)
(* retired key back.                                                       *)
RefusalIsLasting ==
    [][\A e \in relied : ~Accepts(e, "production") => ~Accepts(e, "production")']_vars

(* Whatever production accepts was signed with a key pair that a           *)
(* production ceremony made, or that operators published by hand for a     *)
(* role that may sign; development and test keys never pass for one.       *)
AcceptedWasIssued ==
    \A e \in signed : Accepts(e, "production") =>
        IF HandRoles \cap ScorecardSigningRoles = {} THEN origin[e.key] = "production"
        ELSE origin[e.key] \in {"production", "hand"}

(* What the store vouches for was issued, and stays attributable through   *)
(* rotations.                                                              *)
KeysHold == TypeOK /\ AcceptedWasIssued /\ HistoryHolds
=============================================================================
