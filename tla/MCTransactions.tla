---------------------------- MODULE MCTransactions ----------------------------
(***************************************************************************)
(* Two instances of AdjudicationTx for TLC, as its theorems assume them:   *)
(* requests of three adjudicators on PostgreSQL, while one of two grants   *)
(* may be revoked and the other stays, and of two adjudicators on SQLite.  *)
(* Init chooses one of them.                                               *)
(***************************************************************************)
EXTENDS MCAdjudicationTx

VARIABLES part, tasksS, rowsS, determinationS, revokedS, requestS, heldS

Sqlite == INSTANCE AdjudicationTx WITH
    Requests <- {1, 2}, Adjudicators <- Two, Patient <- None, Grants <- {"g1"},
    Revocable <- {"g1"}, Decisions <- MajorOrCritical, RowLocks <- FALSE,
    tasks <- tasksS, rows <- rowsS, determination <- determinationS,
    revoked <- revokedS, request <- requestS, held <- heldS
ASSUME SqliteAssumption == Sqlite!TxAssumption

sqlite == <<tasksS, rowsS, determinationS, revokedS, requestS, heldS>>

InitParts == part \in {"claims", "sqlite"} /\ Init /\ Sqlite!Init

NextParts ==
    \/ part = "claims" /\ Next /\ UNCHANGED <<part, sqlite>>
    \/ part = "sqlite" /\ Sqlite!Next /\ UNCHANGED <<part, vars>>

SpecParts == InitParts /\ [][NextParts]_<<part, vars, sqlite>>

(* With a single writer the newest determination is what the policy makes of
   everything submitted, and a contested critical rating has its tie-break. *)
SqliteStaysCurrent == Sqlite!DeterminationCurrent /\ Sqlite!ContestedCriticalGetsTieBreak
=============================================================================
