------------------------- MODULE AdjudicationProofs -------------------------
(***************************************************************************)
(* Theorems about Adjudication for any number of cases, concerns,          *)
(* adjudicators, grants and requests: reviewers are independent and the    *)
(* core implements IndependentReview; and, in the second half, of the      *)
(* records it keeps: they always pass the registry's own audit, work and   *)
(* credit go together, once the policy decides a concern nobody works on   *)
(* it any more and nothing revises it, and every appeal can be traced to   *)
(* what it is about.                                                       *)
(***************************************************************************)
EXTENDS Adjudication, DeterminationProofs, SequenceTheorems

(* A concern's stored rows are what the policy expects. *)
LEMMA RowsWellFormed ==
  ASSUME NEW rows \in Seq(Submission)
  PROVE  WellFormed(rows)
<1>1. DOMAIN rows = 1 .. Len(rows) /\ Len(rows) \in Nat
  BY LenProperties
<1>2. \A i \in 1 .. Len(rows) : rows[i] \in Submission
  BY ElementOfSeq
<1> QED BY <1>1, <1>2 DEF Submission, WellFormed

LEMMA PolicyType ==
  ASSUME NEW rows \in Seq(Submission), OneRowPerSlot(rows)
  PROVE  Determine(rows) \in PolicyResult
BY RowsWellFormed, DetermineResult

LEMMA RowType ==
  ASSUME ConstantsAssumption, NEW a \in Adjudicators, NEW t \in TaskIds, NEW in \in Inputs
  PROVE  Row(a, t, in) \in Submission
BY DEF Row, Submission, ConstantsAssumption, Input, TaskIds

(* The rows of a concern keep at most one per slot when a claimed task submits:
   a row of that slot would mean that the task is completed already.           *)
LEMMA AppendedRows ==
  ASSUME IInv, ConstantsAssumption,
         NEW a \in Adjudicators, NEW t \in TaskIds, NEW in \in Inputs,
         tasks[t].status = "claimed"
  PROVE  LET rows == Append(submissions[t.concern], Row(a, t, in))
         IN  /\ rows \in Seq(Submission)
             /\ OneRowPerSlot(rows)
             /\ Len(rows) = Len(submissions[t.concern]) + 1
             /\ \A i \in DOMAIN submissions[t.concern] :
                  /\ i \in DOMAIN rows
                  /\ rows[i] = submissions[t.concern][i]
                  /\ rows[i].slot # t.slot
             /\ DOMAIN rows = DOMAIN submissions[t.concern] \cup {Len(rows)}
             /\ Len(rows) \notin DOMAIN submissions[t.concern]
             /\ rows[Len(rows)] = Row(a, t, in)
<1> DEFINE k == t.concern
           old == submissions[k]
           rows == Append(old, Row(a, t, in))
<1>1. k \in Concerns /\ t.case \in Cases /\ t.slot \in Slots
  BY DEF TaskIds
<1>2. old \in Seq(Submission)
  BY <1>1 DEF IInv, TypeOK
<1>3. Row(a, t, in) \in Submission
  BY RowType
<1>4. /\ rows \in Seq(Submission) /\ Len(rows) = Len(old) + 1
      /\ \A i \in 1 .. Len(old) : rows[i] = old[i]
      /\ rows[Len(rows)] = Row(a, t, in)
  BY <1>2, <1>3, AppendProperties
<1>5. \A i \in DOMAIN old : old[i].slot # t.slot
  <2> SUFFICES ASSUME NEW i \in DOMAIN old, old[i].slot = t.slot PROVE FALSE
    OBVIOUS
  <2>1. tasks[RowTask(k, i)].status = "completed"
    BY <1>1 DEF IInv, RowsAreWork
  <2>2. old[i].case = concernIndex[k] /\ t.case = concernIndex[k]
    BY <1>1 DEF IInv, ConcernKeepsItsCase
  <2>3. RowTask(k, i) = t
    BY <2>2 DEF RowTask, TaskIds
  <2> QED BY <2>1, <2>3
<1>6. DOMAIN old = 1 .. Len(old) /\ DOMAIN rows = 1 .. Len(rows) /\ Len(old) \in Nat
  BY <1>2, <1>4, LenProperties
<1>7. \A i, j \in DOMAIN old : old[i].slot = old[j].slot => i = j
  BY <1>1 DEF IInv, RowsAreWork
<1>8. Row(a, t, in).slot = t.slot
  BY DEF Row
<1>9. OneRowPerSlot(rows)
  <2> SUFFICES ASSUME NEW i \in DOMAIN rows, NEW j \in DOMAIN rows,
                      rows[i].slot = rows[j].slot
               PROVE  i = j
    BY DEF OneRowPerSlot
  <2>1. i \in DOMAIN old \/ i = Len(rows)
    BY <1>4, <1>6
  <2>2. j \in DOMAIN old \/ j = Len(rows)
    BY <1>4, <1>6
  <2> QED BY <2>1, <2>2, <1>4, <1>5, <1>6, <1>7, <1>8
<1> QED BY <1>4, <1>5, <1>6, <1>9

-----------------------------------------------------------------------------
(* Type correctness.  Submitting needs the row types above, hence IInv. *)

LEMMA InitIInv == ConstantsAssumption /\ Init => IInv
<1> SUFFICES ASSUME ConstantsAssumption, Init PROVE IInv
  OBVIOUS
<1>1. TypeOK
  BY EmptySeq DEF Init, TypeOK, NoTask, Task, TaskStatus, Standing
<1>2. BundlesIndexed /\ ConcernKeepsItsCase
  BY DEF Init, BundlesIndexed, ConcernKeepsItsCase, NoTask
<1>3. RowsAreWork /\ DistinctHolders /\ AbsentUnheld
  BY DEF Init, RowsAreWork, AbsentUnheld, DistinctHolders, NoTask, Held
<1>4. OpenWorkIsBacked /\ DeterminationsCurrent /\ TieBreakWhenContested
  BY DEF Init, OpenWorkIsBacked, DeterminationsCurrent, TieBreakWhenContested, NoTask, Open
<1> QED BY <1>1, <1>2, <1>3, <1>4 DEF IInv

LEMMA SubmitTypes ==
  ASSUME ConstantsAssumption, IInv,
         NEW a \in Adjudicators, NEW t \in TaskIds, NEW in \in Inputs,
         SubmitAdjudication(a, t, in)
  PROVE  TypeOK'
<1> DEFINE k == t.concern
           rows == Append(submissions[k], Row(a, t, in))
           det == [case |-> t.case, covers |-> Len(rows), result |-> Determine(rows)]
<1>1. k \in Concerns /\ t.case \in Cases
  BY DEF TaskIds
<1>2. rows \in Seq(Submission) /\ OneRowPerSlot(rows)
  BY AppendedRows DEF SubmitAdjudication
<1>3. det \in DeterminationRow
  BY <1>1, <1>2, PolicyType, LenProperties DEF DeterminationRow
<1>4. Append(determinations[k], det) \in Seq(DeterminationRow)
  BY <1>1, <1>3, AppendProperties DEF IInv, TypeOK
<1>5. submissions' \in [Concerns -> Seq(Submission)]
  BY <1>1, <1>2 DEF SubmitAdjudication, IInv, TypeOK
<1>6. determinations' \in [Concerns -> Seq(DeterminationRow)]
  BY <1>1, <1>4 DEF SubmitAdjudication, Recomputed, IInv, TypeOK
<1>7. tasks' \in [TaskIds -> Task]
  BY DEF SubmitAdjudication, IInv, TypeOK, Task, TaskStatus, Pending
<1>8. clock' \in Nat /\ credits' \subseteq Adjudicators \X TaskIds
  BY DEF SubmitAdjudication, IInv, TypeOK
<1> QED BY <1>5, <1>6, <1>7, <1>8 DEF SubmitAdjudication, IInv, TypeOK

LEMMA TypeStep ==
  ASSUME ConstantsAssumption, IInv, [Next]_vars
  PROVE  TypeOK'
<1> USE DEF IInv
<1>1. ASSUME NEW x \in Artifacts, PutArtifact(x) PROVE TypeOK'
  BY <1>1 DEF PutArtifact, reviewVars, TypeOK
<1>2. ASSUME NEW b \in Bundles, NEW n \in 0 .. MaxGrants,
             NEW gs \in [1 .. n -> GrantInputs], RegisterCase(b, gs)
      PROVE  TypeOK'
  <2> DEFINE new == [i \in DOMAIN gs |-> Issue(b.case, gs[i])]
  <2>1. b.case \in Cases
    BY DEF ConstantsAssumption, Bundle
  <2>2. \A i \in 1 .. n : Issue(b.case, gs[i]) \in Grant
    BY <2>1 DEF Issue, Grant, GrantInput, ConstantsAssumption
  <2>3. new \in [1 .. n -> Grant] /\ n \in Nat
    BY <2>2 DEF ConstantsAssumption
  <2>4. new \in Seq(Grant)
    BY <2>3
  <2>5. grants' \in Seq(Grant)
    BY <1>2, <2>4, ConcatProperties DEF RegisterCase, TypeOK
  <2> QED BY <1>2, <2>1, <2>5 DEF RegisterCase, reviewVars, TypeOK
<1>3. ASSUME NEW c \in Cases, NEW g \in GrantInputs, AddGrant(c, g) PROVE TypeOK'
  <2>1. Issue(c, g) \in Grant
    BY DEF Issue, Grant, GrantInput, ConstantsAssumption
  <2> QED BY <1>3, <2>1, AppendProperties DEF AddGrant, reviewVars, TypeOK
<1>4. ASSUME NEW i \in DOMAIN grants, RevokeGrant(i) PROVE TypeOK'
  <2>1. i \in 1 .. Len(grants) /\ grants[i] \in Grant /\ grants \in Seq(Grant)
    BY LenProperties, ElementOfSeq DEF TypeOK
  <2>2. [grants[i] EXCEPT !.status = "revoked"] \in Grant
    BY <2>1 DEF Grant
  <2>3. [grants EXCEPT ![i] = [grants[i] EXCEPT !.status = "revoked"]] \in Seq(Grant)
    BY <2>1, <2>2, ExceptSeq
  <2>4. grants' \in Seq(Grant)
    BY <1>4, <2>3 DEF RevokeGrant
  <2>5. tasks' \in [TaskIds -> Task]
    BY <1>4 DEF RevokeGrant, TypeOK, Task, TaskStatus
  <2> QED BY <1>4, <2>4, <2>5 DEF RevokeGrant, TypeOK
<1>5. ASSUME NEW i \in DOMAIN grants, GrantLapses(i) PROVE TypeOK'
  <2>1. i \in 1 .. Len(grants) /\ grants[i] \in Grant /\ grants \in Seq(Grant)
    BY LenProperties, ElementOfSeq DEF TypeOK
  <2>2. [grants[i] EXCEPT !.expiry = "behind"] \in Grant
    BY <2>1 DEF Grant, Expiries
  <2>3. [grants EXCEPT ![i] = [grants[i] EXCEPT !.expiry = "behind"]] \in Seq(Grant)
    BY <2>1, <2>2, ExceptSeq
  <2>4. grants' \in Seq(Grant)
    BY <1>5, <2>3 DEF GrantLapses
  <2> QED BY <1>5, <2>4 DEF GrantLapses, reviewVars, TypeOK
<1>6. ASSUME NEW c \in Cases, NEW K \in SUBSET Concerns, SeedTasks(c, K) PROVE TypeOK'
  BY <1>6 DEF SeedTasks, Pending, TypeOK, Task, TaskStatus
<1>7. ASSUME NEW a \in Adjudicators, ClaimTask(a) PROVE TypeOK'
  <2>1. PICK t \in TaskIds :
          /\ tasks' = [tasks EXCEPT ![t] = [@ EXCEPT !.status = "claimed", !.assignee = a]]
          /\ standing' = Expired(a, t)
          /\ UNCHANGED <<artifacts, cases, concernIndex, grants, submissions,
                         determinations, credits, appeals, clock>>
    BY <1>7 DEF ClaimTask
  <2>2. tasks[t] \in Task
    BY DEF TypeOK
  <2>3. tasks' \in [TaskIds -> Task]
    <3>1. [tasks[t] EXCEPT !.status = "claimed", !.assignee = a] \in Task
      BY <2>2 DEF Task, TaskStatus
    <3> QED BY <2>1, <3>1 DEF TypeOK
  <2>4. standing' \in [Adjudicators \X Domains -> Standing]
    BY <2>1 DEF TypeOK, Expired, Standing
  <2> QED BY <2>1, <2>3, <2>4 DEF TypeOK
<1>8. ASSUME NEW a \in Adjudicators, NEW t \in TaskIds, NEW in \in Inputs,
             SubmitAdjudication(a, t, in)
      PROVE  TypeOK'
  BY <1>8, SubmitTypes
<1>9. ASSUME NEW k \in Concerns, NEW p \in 0 .. MaxAppeals,
             NEW d \in DOMAIN determinations[k], CreateAppealRecord(k, d, p)
      PROVE  TypeOK'
  <2>1. determinations[k] \in Seq(DeterminationRow)
    BY DEF TypeOK
  <2>2. d \in Nat
    BY <2>1, LenProperties
  <2>3. [concern |-> k, determination |-> d, predecessor |-> p] \in AppealRow
    BY <2>2 DEF AppealRow, ConstantsAssumption
  <2> QED BY <1>9, <2>3, AppendProperties DEF CreateAppealRecord, reviewVars, TypeOK
<1>10. ASSUME NEW a \in Adjudicators, NEW d \in Domains,
              Qualify(a, d) \/ QualificationLapses(a, d)
       PROVE  TypeOK'
  BY <1>10 DEF Qualify, QualificationLapses, reviewVars, TypeOK, Standing
<1>11. CASE UNCHANGED vars
  BY <1>11 DEF vars, TypeOK
<1> QED
  BY <1>1, <1>2, <1>3, <1>4, <1>5, <1>6, <1>7, <1>8, <1>9, <1>10, <1>11
  DEF Next, Registration, Rights, Review, Appeal, Qualification, Submit

-----------------------------------------------------------------------------
(* The other conjuncts of IInv, request by request.  `Sound' is all of them. *)

Sound == /\ BundlesIndexed /\ ConcernKeepsItsCase /\ AbsentUnheld /\ RowsAreWork /\ DistinctHolders
         /\ OpenWorkIsBacked /\ DeterminationsCurrent /\ TieBreakWhenContested

(* Uploads, appeals, qualifications and stuttering touch none of it. *)
LEMMA QuietStep ==
  ASSUME IInv, UNCHANGED <<cases, concernIndex, grants, tasks, submissions, determinations>>
  PROVE  Sound'
<1>1. BundlesIndexed' /\ ConcernKeepsItsCase'
  BY DEF IInv, BundlesIndexed, ConcernKeepsItsCase
<1>2. RowsAreWork' /\ DistinctHolders' /\ AbsentUnheld'
  BY DEF IInv, RowsAreWork, DistinctHolders, AbsentUnheld, RowTask, Held
<1>3. OpenWorkIsBacked' /\ DeterminationsCurrent'
  BY DEF IInv, OpenWorkIsBacked, Open, DeterminationsCurrent, Latest
<1>4. TieBreakWhenContested'
  BY DEF IInv, TieBreakWhenContested, Latest
<1> QED BY <1>1, <1>2, <1>3, <1>4 DEF Sound

(* Work that does not change keeps every conjunct about work alone. *)
LEMMA SameWork ==
  ASSUME IInv, UNCHANGED <<tasks, submissions, determinations>>
  PROVE  /\ RowsAreWork' /\ DistinctHolders' /\ AbsentUnheld'
         /\ DeterminationsCurrent' /\ TieBreakWhenContested'
<1>1. RowsAreWork' /\ DistinctHolders' /\ AbsentUnheld'
  BY DEF IInv, RowsAreWork, DistinctHolders, AbsentUnheld, RowTask, Held
<1>2. DeterminationsCurrent'
  BY DEF IInv, DeterminationsCurrent, Latest
<1>3. TieBreakWhenContested'
  BY DEF IInv, TieBreakWhenContested, Latest
<1> QED BY <1>1, <1>2, <1>3

LEMMA RegisterStep ==
  ASSUME ConstantsAssumption, IInv, NEW b \in Bundles, NEW n \in 0 .. MaxGrants,
         NEW gs \in [1 .. n -> GrantInputs], RegisterCase(b, gs)
  PROVE  Sound'
<1>1. UNCHANGED <<tasks, submissions, determinations>>
  BY DEF RegisterCase, reviewVars
<1>2. \A k \in Concerns : concernIndex[k] # NoCase => concernIndex'[k] = concernIndex[k]
  BY DEF RegisterCase, Unindexed
<1>3. b.concerns \subseteq Concerns /\ b.case \in Cases
  BY DEF ConstantsAssumption, Bundle
<1>4. \A x \in cases : x.case \in Cases /\ x.concerns \subseteq Concerns
  BY DEF IInv, TypeOK, ConstantsAssumption, Bundle
<1>5. BundlesIndexed'
  <2> SUFFICES ASSUME NEW x \in cases', NEW k \in x.concerns
               PROVE  concernIndex'[k] = x.case
    BY DEF BundlesIndexed
  <2>1. CASE x = b
    BY <2>1, <1>3 DEF RegisterCase
  <2>2. CASE x \in cases
    <3>1. concernIndex[k] = x.case /\ x.case # NoCase /\ k \in Concerns
      BY <2>2, <1>4 DEF IInv, BundlesIndexed, ConstantsAssumption
    <3> QED BY <3>1, <1>2
  <2> QED BY <2>1, <2>2 DEF RegisterCase
<1>6. ConcernKeepsItsCase'
  <2>1. \A t \in TaskIds : t.case # NoCase /\ t.concern \in Concerns
    BY DEF TaskIds, ConstantsAssumption
  <2>2. ASSUME NEW k \in Concerns, NEW i \in DOMAIN submissions[k]
        PROVE  submissions[k][i].case # NoCase
    <3>1. submissions[k][i] \in Submission
      BY LenProperties, ElementOfSeq DEF IInv, TypeOK
    <3> QED BY <3>1 DEF Submission, ConstantsAssumption
  <2>3. ASSUME NEW k \in Concerns, NEW i \in DOMAIN determinations[k]
        PROVE  determinations[k][i].case # NoCase
    <3>1. determinations[k][i] \in DeterminationRow
      BY LenProperties, ElementOfSeq DEF IInv, TypeOK
    <3> QED BY <3>1 DEF DeterminationRow, ConstantsAssumption
  <2>4. \A t \in TaskIds : tasks[t].status # "absent" => concernIndex'[t.concern] = t.case
    <3> SUFFICES ASSUME NEW t \in TaskIds, tasks[t].status # "absent"
                 PROVE  concernIndex'[t.concern] = t.case
      OBVIOUS
    <3>1. concernIndex[t.concern] = t.case
      BY DEF IInv, ConcernKeepsItsCase
    <3> QED BY <3>1, <2>1, <1>2
  <2>5. \A k \in Concerns : \A i \in DOMAIN submissions[k] :
          submissions[k][i].case = concernIndex'[k]
    <3> SUFFICES ASSUME NEW k \in Concerns, NEW i \in DOMAIN submissions[k]
                 PROVE  submissions[k][i].case = concernIndex'[k]
      OBVIOUS
    <3>1. concernIndex[k] = submissions[k][i].case
      BY DEF IInv, ConcernKeepsItsCase
    <3> QED BY <3>1, <2>2, <1>2
  <2>6. \A k \in Concerns : \A i \in DOMAIN determinations[k] :
          determinations[k][i].case = concernIndex'[k]
    <3> SUFFICES ASSUME NEW k \in Concerns, NEW i \in DOMAIN determinations[k]
                 PROVE  determinations[k][i].case = concernIndex'[k]
      OBVIOUS
    <3>1. concernIndex[k] = determinations[k][i].case
      BY DEF IInv, ConcernKeepsItsCase
    <3> QED BY <3>1, <2>3, <1>2
  <2> QED BY <1>1, <2>4, <2>5, <2>6 DEF ConcernKeepsItsCase
<1>7. OpenWorkIsBacked'
  <2> DEFINE new == [i \in DOMAIN gs |-> Issue(b.case, gs[i])]
  <2>1. n \in Nat /\ \A i \in 1 .. n : Issue(b.case, gs[i]) \in Grant
    BY <1>3 DEF Issue, Grant, GrantInput, ConstantsAssumption
  <2>2. new \in [1 .. n -> Grant]
    BY <2>1
  <2>3. new \in Seq(Grant) /\ grants \in Seq(Grant)
    BY <2>1, <2>2 DEF IInv, TypeOK
  <2>4. \A i \in DOMAIN grants : i \in DOMAIN grants' /\ grants'[i] = grants[i]
    BY <2>3, ConcatProperties, LenProperties DEF RegisterCase
  <2> QED BY <1>1, <2>4 DEF IInv, OpenWorkIsBacked, Open
<1> QED BY <1>1, <1>5, <1>6, <1>7, SameWork DEF Sound

LEMMA GrantStep ==
  ASSUME ConstantsAssumption, IInv,
         \/ \E c \in Cases, g \in GrantInputs : AddGrant(c, g)
         \/ \E i \in DOMAIN grants : GrantLapses(i)
  PROVE  Sound'
<1>1. UNCHANGED <<cases, concernIndex, tasks, submissions, determinations>>
  BY DEF AddGrant, GrantLapses, reviewVars
<1>2. BundlesIndexed' /\ ConcernKeepsItsCase'
  BY <1>1 DEF IInv, BundlesIndexed, ConcernKeepsItsCase
<1>3. grants \in Seq(Grant)
  BY DEF IInv, TypeOK
<1>4. \A i \in DOMAIN grants : /\ i \in DOMAIN grants'
                               /\ grants'[i].case = grants[i].case
                               /\ grants'[i].use = grants[i].use
                               /\ grants'[i].status = grants[i].status
  <2>1. ASSUME NEW c \in Cases, NEW g \in GrantInputs, AddGrant(c, g)
        PROVE  \A i \in DOMAIN grants : i \in DOMAIN grants' /\ grants'[i] = grants[i]
    <3>1. Issue(c, g) \in Grant
      BY DEF Issue, Grant, GrantInput, ConstantsAssumption
    <3> QED BY <2>1, <3>1, <1>3, AppendProperties, LenProperties DEF AddGrant
  <2>2. ASSUME NEW j \in DOMAIN grants, GrantLapses(j) PROVE <1>4
    <3>1. \A i \in DOMAIN grants : grants[i] \in Grant
      BY <1>3, LenProperties, ElementOfSeq
    <3>2. grants' = [grants EXCEPT ![j].expiry = "behind"]
      BY <2>2 DEF GrantLapses
    <3> QED BY <3>1, <3>2 DEF Grant
  <2> QED BY <2>1, <2>2
<1>5. OpenWorkIsBacked'
  BY <1>1, <1>4 DEF IInv, OpenWorkIsBacked, Open
<1> QED BY <1>1, <1>2, <1>5, SameWork DEF Sound

(* Rows stay backed while completed tasks stay as they are. *)
LEMMA KeptRows ==
  ASSUME IInv, UNCHANGED submissions,
         \A t \in TaskIds : tasks[t].status = "completed" => tasks'[t] = tasks[t]
  PROVE  RowsAreWork'
<1> SUFFICES ASSUME NEW k \in Concerns, NEW i \in DOMAIN submissions[k]
             PROVE  /\ tasks'[RowTask(k, i)].status = "completed"
                    /\ tasks'[RowTask(k, i)].assignee = submissions[k][i].adjudicator
                    /\ \A j \in DOMAIN submissions[k] :
                         submissions[k][i].slot = submissions[k][j].slot => i = j
  BY DEF RowsAreWork, RowTask
<1>1. submissions[k][i] \in Submission
  BY LenProperties, ElementOfSeq DEF IInv, TypeOK
<1>2. RowTask(k, i) \in TaskIds
  BY <1>1 DEF RowTask, TaskIds, Submission
<1> QED BY <1>2 DEF IInv, RowsAreWork

(* So does the bond between tie-breaks and contested primaries, as long as no
   tie-break task comes or goes.                                             *)
LEMMA KeptTies ==
  ASSUME IInv, UNCHANGED determinations,
         \A t \in TaskIds : tasks[t].status = "completed" => tasks'[t] = tasks[t],
         \A t \in TaskIds : t.slot = TieBreak =>
            (tasks'[t].status = "absent" <=> tasks[t].status = "absent")
  PROVE  TieBreakWhenContested'
<1>1. ASSUME NEW t \in TaskIds, t.slot = TieBreak, tasks'[t].status # "absent",
             NEW s \in PrimarySlots
      PROVE  tasks'[[t EXCEPT !.slot = s]].status = "completed"
  <2>1. [t EXCEPT !.slot = s] \in TaskIds
    BY DEF TaskIds, PrimarySlots, Slots
  <2>2. tasks[[t EXCEPT !.slot = s]].status = "completed"
    BY <1>1 DEF IInv, TieBreakWhenContested
  <2> QED BY <2>1, <2>2
<1>2. ASSUME NEW k \in Concerns, determinations[k] # <<>>, Latest(k).result.tieBreak
      PROVE  \E t \in TaskIds : t.concern = k /\ t.slot = TieBreak
                               /\ tasks'[t].status # "absent"
  BY <1>2 DEF IInv, TieBreakWhenContested
<1>3. \A k \in Concerns : Latest(k)' = Latest(k)
  BY DEF Latest
<1> QED BY <1>1, <1>2, <1>3 DEF TieBreakWhenContested

(* A task that is absent after a step was so before it. *)
LEMMA KeptAbsence ==
  ASSUME IInv, \A t \in TaskIds : tasks'[t].status = "absent" => tasks'[t] = tasks[t]
  PROVE  AbsentUnheld'
BY DEF IInv, AbsentUnheld

LEMMA RevokeStep ==
  ASSUME ConstantsAssumption, IInv, NEW i \in DOMAIN grants, RevokeGrant(i)
  PROVE  Sound'
<1> DEFINE gs == [grants EXCEPT ![i].status = "revoked"]
           c  == grants[i].case
           stop == grants[i].use = ExpertUse /\ ~ActiveGrant(gs, c, ExpertUse)
<1>1. UNCHANGED <<cases, concernIndex, submissions, determinations>>
  BY DEF RevokeGrant
<1>2. grants' = gs
  BY DEF RevokeGrant
<1>3. \A t \in TaskIds : tasks'[t] = IF stop /\ t.case = c /\ Open(t)
                                       THEN [tasks[t] EXCEPT !.status = "cancelled"]
                                       ELSE tasks[t]
  BY DEF RevokeGrant
<1>4. \A t \in TaskIds : tasks[t] \in Task
  BY DEF IInv, TypeOK
<1>5. \A t \in TaskIds : /\ tasks'[t].assignee = tasks[t].assignee
                         /\ tasks[t].status = "completed" => tasks'[t] = tasks[t]
                         /\ tasks[t].status = "absent" => tasks'[t] = tasks[t]
                         /\ tasks'[t].status # tasks[t].status =>
                              tasks'[t].status = "cancelled" /\ Open(t)
                         /\ stop /\ t.case = c => tasks'[t].status \notin {"pending", "claimed"}
  <2> SUFFICES ASSUME NEW t \in TaskIds
               PROVE  /\ tasks'[t].assignee = tasks[t].assignee
                      /\ tasks[t].status = "completed" => tasks'[t] = tasks[t]
                      /\ tasks[t].status = "absent" => tasks'[t] = tasks[t]
                      /\ tasks'[t].status # tasks[t].status =>
                              tasks'[t].status = "cancelled" /\ Open(t)
                      /\ stop /\ t.case = c => tasks'[t].status \notin {"pending", "claimed"}
    OBVIOUS
  <2> HIDE DEF stop
  <2>1. CASE stop /\ t.case = c /\ Open(t)
    <3>1. tasks'[t] = [tasks[t] EXCEPT !.status = "cancelled"] /\ tasks[t] \in Task
      BY <2>1, <1>3, <1>4
    <3> QED BY <2>1, <3>1 DEF Task, Open
  <2>2. CASE ~(stop /\ t.case = c /\ Open(t))
    <3>1. tasks'[t] = tasks[t]
      BY <2>2, <1>3
    <3> QED BY <2>2, <3>1 DEF Open
  <2> QED BY <2>1, <2>2
<1> HIDE DEF gs, stop
<1>6. BundlesIndexed' /\ ConcernKeepsItsCase'
  <2>1. \A t \in TaskIds : tasks'[t].status # "absent" => tasks[t].status # "absent"
    BY <1>5 DEF Open
  <2> QED BY <1>1, <2>1 DEF IInv, BundlesIndexed, ConcernKeepsItsCase
<1>7. RowsAreWork'
  BY <1>1, <1>5, KeptRows
<1>8. DistinctHolders' /\ AbsentUnheld'
  <2>1. \A t \in TaskIds : tasks'[t].status = "absent" => tasks'[t] = tasks[t]
    BY <1>5
  <2> QED BY <1>5, <2>1, KeptAbsence DEF IInv, DistinctHolders, Held
<1>9. OpenWorkIsBacked'
  <2> SUFFICES ASSUME NEW t \in TaskIds, Open(t)'
               PROVE  \E j \in DOMAIN gs : /\ gs[j].case = t.case
                                           /\ gs[j].use = ExpertUse
                                           /\ gs[j].status = "active"
    BY <1>2 DEF OpenWorkIsBacked
  <2>1. Open(t) /\ ~(stop /\ t.case = c)
    BY <1>5 DEF Open
  <2>2. \A j \in DOMAIN grants : grants[j] \in Grant
    BY LenProperties, ElementOfSeq DEF IInv, TypeOK
  <2>3. PICK j \in DOMAIN grants : /\ grants[j].case = t.case
                                   /\ grants[j].use = ExpertUse
                                   /\ grants[j].status = "active"
    BY <2>1 DEF IInv, OpenWorkIsBacked
  <2>4. DOMAIN gs = DOMAIN grants /\ (j # i => gs[j] = grants[j])
    BY DEF gs
  <2>5. CASE j # i
    BY <2>3, <2>4, <2>5
  <2>6. CASE j = i
    <3>1. ActiveGrant(gs, c, ExpertUse) /\ c = t.case
      BY <2>1, <2>3, <2>6 DEF stop
    <3> QED BY <3>1 DEF ActiveGrant
  <2> QED BY <2>5, <2>6
<1>10. DeterminationsCurrent'
  BY <1>1 DEF IInv, DeterminationsCurrent, Latest
<1>11. TieBreakWhenContested'
  <2>1. \A t \in TaskIds : tasks'[t].status = "absent" <=> tasks[t].status = "absent"
    BY <1>5 DEF Open
  <2> QED BY <1>1, <1>5, <2>1, KeptTies
<1> QED BY <1>6, <1>7, <1>8, <1>9, <1>10, <1>11 DEF Sound

LEMMA SeedStep ==
  ASSUME ConstantsAssumption, IInv, NEW c \in Cases, NEW K \in SUBSET Concerns,
         SeedTasks(c, K)
  PROVE  Sound'
<1> DEFINE New(t) == /\ t.case = c /\ t.concern \in K /\ t.slot \in PrimarySlots
                     /\ tasks[t].status = "absent"
<1>1. UNCHANGED <<cases, concernIndex, grants, submissions, determinations>>
  BY DEF SeedTasks
<1>2. \A t \in TaskIds : tasks'[t] = IF New(t) THEN Pending ELSE tasks[t]
  BY DEF SeedTasks
<1>3. \A k \in K : concernIndex[k] = c
  BY DEF SeedTasks, IInv, BundlesIndexed
<1>4. Authorised(c)
  BY DEF SeedTasks
<1>5. \A t \in TaskIds : /\ New(t) => tasks'[t].status = "pending"
                         /\ ~New(t) => tasks'[t] = tasks[t]
                         /\ tasks[t].status # "absent" => tasks'[t] = tasks[t]
  BY <1>2 DEF Pending
<1>6. BundlesIndexed' /\ ConcernKeepsItsCase'
  BY <1>1, <1>3, <1>5 DEF IInv, BundlesIndexed, ConcernKeepsItsCase
<1>7. RowsAreWork'
  BY <1>1, <1>5, KeptRows
<1>8. DistinctHolders' /\ AbsentUnheld'
  <2>1. \A t \in TaskIds : tasks'[t].status = "absent" => tasks'[t] = tasks[t]
    BY <1>5
  <2> QED BY <1>5, <2>1, KeptAbsence DEF IInv, DistinctHolders, Held
<1>9. OpenWorkIsBacked'
  BY <1>1, <1>4, <1>5 DEF IInv, OpenWorkIsBacked, Open, Authorised, ActiveGrant
<1>10. DeterminationsCurrent'
  BY <1>1 DEF IInv, DeterminationsCurrent, Latest
<1>11. TieBreakWhenContested'
  <2>1. \A t \in TaskIds : t.slot = TieBreak => ~New(t)
    BY DEF PrimarySlots, Primary, Secondary, TieBreak
  <2> QED BY <1>1, <1>5, <2>1, KeptTies
<1> QED BY <1>6, <1>7, <1>8, <1>9, <1>10, <1>11 DEF Sound

(* What a claim does: one pending task, not blocked for the claimant, is taken. *)
LEMMA ClaimEffect ==
  ASSUME IInv, NEW a \in Adjudicators, ClaimTask(a)
  PROVE  \E t \in TaskIds :
           /\ tasks[t].status = "pending" /\ ~Blocked(a, t)
           /\ tasks'[t].status = "claimed" /\ tasks'[t].assignee = a
           /\ \A u \in TaskIds \ {t} : tasks'[u] = tasks[u]
           /\ UNCHANGED <<cases, concernIndex, grants, submissions, determinations>>
<1>1. PICK t \in TaskIds :
        /\ Eligible(a, t)
        /\ tasks' = [tasks EXCEPT ![t] = [@ EXCEPT !.status = "claimed", !.assignee = a]]
        /\ UNCHANGED <<cases, concernIndex, grants, submissions, determinations>>
  BY DEF ClaimTask
<1>2. tasks \in [TaskIds -> Task]
  BY DEF IInv, TypeOK
<1> QED BY <1>1, <1>2 DEF Eligible, Task

LEMMA ClaimStep ==
  ASSUME ConstantsAssumption, IInv, NEW a \in Adjudicators, ClaimTask(a)
  PROVE  Sound'
<1>1. PICK t \in TaskIds :
        /\ tasks[t].status = "pending" /\ ~Blocked(a, t)
        /\ tasks'[t].status = "claimed" /\ tasks'[t].assignee = a
        /\ \A u \in TaskIds \ {t} : tasks'[u] = tasks[u]
        /\ UNCHANGED <<cases, concernIndex, grants, submissions, determinations>>
  BY ClaimEffect
<1>2. BundlesIndexed' /\ ConcernKeepsItsCase'
  BY <1>1 DEF IInv, BundlesIndexed, ConcernKeepsItsCase
<1>3. RowsAreWork'
  BY <1>1, KeptRows
<1>4. DistinctHolders' /\ AbsentUnheld'
  <2>1. \A u \in TaskIds : tasks'[u].status = "absent" => tasks'[u] = tasks[u]
    BY <1>1
  <2> QED BY <1>1, <2>1, KeptAbsence DEF IInv, DistinctHolders, Held, Blocked
<1>5. OpenWorkIsBacked'
  BY <1>1 DEF IInv, OpenWorkIsBacked, Open
<1>6. DeterminationsCurrent'
  BY <1>1 DEF IInv, DeterminationsCurrent, Latest
<1>7. TieBreakWhenContested'
  BY <1>1, KeptTies
<1> QED BY <1>2, <1>3, <1>4, <1>5, <1>6, <1>7 DEF Sound

(* The two primaries of a contested concern are completed tasks of its case. *)
LEMMA ContestedPrimaries ==
  ASSUME IInv, NEW k \in Concerns,
         NEW rows \in Seq(Submission), OneRowPerSlot(rows), Determine(rows).tieBreak,
         NEW s \in PrimarySlots
  PROVE  \E i \in DOMAIN rows : rows[i].slot = s
<1>1. PICK i, j \in PrimaryRows(rows) : i # j
  BY RowsWellFormed, DetermineResult DEF TwoPrimaries
<1>2. rows[i].slot # rows[j].slot
  BY <1>1 DEF OneRowPerSlot, PrimaryRows
<1>3. rows[i].slot \in PrimarySlots /\ rows[j].slot \in PrimarySlots
  BY <1>1 DEF PrimaryRows
<1>4. rows[i].slot = s \/ rows[j].slot = s
  BY <1>2, <1>3 DEF PrimarySlots
<1> QED BY <1>1, <1>4 DEF PrimaryRows

LEMMA SubmitStep ==
  ASSUME ConstantsAssumption, IInv,
         NEW a \in Adjudicators, NEW t \in TaskIds, NEW in \in Inputs,
         SubmitAdjudication(a, t, in)
  PROVE  Sound'
<1> DEFINE k == t.concern
           old == submissions[k]
           rows == Append(old, Row(a, t, in))
           result == Determine(rows)
           det == [case |-> t.case, covers |-> Len(rows), result |-> result]
           opens(u) == u = TieTask(t) /\ result.tieBreak /\ tasks[u].status = "absent"
<1>1. /\ k \in Concerns /\ t.case \in Cases /\ t.slot \in Slots
      /\ TieTask(t) \in TaskIds /\ TieTask(t).concern = k
      /\ TieTask(t).case = t.case /\ TieTask(t).slot = TieBreak
  BY DEF TaskIds, TieTask, Slots
<1>2. /\ tasks[t].assignee = a /\ tasks[t].status = "claimed" /\ Authorised(t.case)
      /\ UNCHANGED <<cases, concernIndex, grants>>
  BY DEF SubmitAdjudication
<1>3. /\ rows \in Seq(Submission) /\ OneRowPerSlot(rows)
      /\ Len(rows) = Len(old) + 1
      /\ \A i \in DOMAIN old : i \in DOMAIN rows /\ rows[i] = old[i] /\ rows[i].slot # t.slot
      /\ DOMAIN rows = DOMAIN old \cup {Len(rows)}
      /\ rows[Len(rows)] = Row(a, t, in)
  BY <1>2, AppendedRows
<1>4. submissions'[k] = rows /\ \A x \in Concerns : x # k => submissions'[x] = submissions[x]
  BY <1>1 DEF SubmitAdjudication, IInv, TypeOK
<1>5. /\ determinations'[k] = Append(determinations[k], det)
      /\ \A x \in Concerns : x # k => determinations'[x] = determinations[x]
  BY <1>1 DEF SubmitAdjudication, Recomputed, IInv, TypeOK
<1>6. \A u \in TaskIds : tasks'[u] = IF u = t THEN [tasks[u] EXCEPT !.status = "completed"]
                                     ELSE IF opens(u) THEN Pending
                                     ELSE tasks[u]
  BY DEF SubmitAdjudication, Recomputed, Opens
<1>7. tasks'[t].status = "completed" /\ tasks'[t].assignee = a
  BY <1>2, <1>6 DEF IInv, TypeOK, Task
<1>8. \A u \in TaskIds : u # t /\ opens(u) => tasks'[u].status = "pending"
  <2>1. Pending.status = "pending"
    BY DEF Pending
  <2>2. \A u \in TaskIds : u # t /\ opens(u) => tasks'[u] = Pending
    <3> HIDE DEF opens
    <3> QED BY <1>6
  <2> QED BY <2>1, <2>2
<1>9. \A u \in TaskIds : u # t /\ ~opens(u) => tasks'[u] = tasks[u]
  BY <1>6
<1>10. Row(a, t, in).case = t.case /\ Row(a, t, in).slot = t.slot
       /\ Row(a, t, in).adjudicator = a
  BY DEF Row
<1>11. concernIndex[k] = t.case
  BY <1>1, <1>2 DEF IInv, ConcernKeepsItsCase
<1>12. determinations[k] \in Seq(DeterminationRow) /\ det \in DeterminationRow
  BY <1>1, <1>3, PolicyType, LenProperties DEF IInv, TypeOK, DeterminationRow
<1>13. Latest(k)' = det /\ determinations'[k] # <<>>
       /\ Len(determinations'[k]) = Len(determinations[k]) + 1
       /\ \A i \in 1 .. Len(determinations[k]) : determinations'[k][i] = determinations[k][i]
  BY <1>1, <1>5, <1>12, AppendProperties DEF Latest
<1>14. tasks[t].status # "absent" /\ ~opens(t)
  BY <1>2
<1>15. \A x \in Concerns : x # k => Latest(x)' = Latest(x)
  BY <1>5 DEF Latest
<1> HIDE DEF old, rows, result, det, opens
<1>16. BundlesIndexed'
  BY <1>2 DEF IInv, BundlesIndexed
<1>17. ConcernKeepsItsCase'
  <2>1. ASSUME NEW u \in TaskIds, tasks'[u].status # "absent"
        PROVE  concernIndex[u.concern] = u.case
    <3>1. CASE u = t
      BY <3>1, <1>11
    <3>2. CASE u # t /\ opens(u)
      BY <3>2, <1>1, <1>11 DEF opens
    <3>3. CASE u # t /\ ~opens(u)
      BY <3>3, <2>1, <1>9 DEF IInv, ConcernKeepsItsCase
    <3> QED BY <3>1, <3>2, <3>3
  <2>2. ASSUME NEW x \in Concerns, NEW i \in DOMAIN submissions'[x]
        PROVE  submissions'[x][i].case = concernIndex[x]
    <3>1. CASE x # k
      BY <3>1, <1>4, <2>2 DEF IInv, ConcernKeepsItsCase
    <3>2. CASE x = k /\ i \in DOMAIN old
      BY <3>2, <1>1, <1>3, <1>4 DEF IInv, ConcernKeepsItsCase, old
    <3>3. CASE x = k /\ i = Len(rows)
      BY <3>3, <1>3, <1>4, <1>10, <1>11
    <3> QED BY <3>1, <3>2, <3>3, <1>3, <1>4
  <2>3. ASSUME NEW x \in Concerns, NEW i \in DOMAIN determinations'[x]
        PROVE  determinations'[x][i].case = concernIndex[x]
    <3>1. CASE x # k
      BY <3>1, <1>5, <2>3 DEF IInv, ConcernKeepsItsCase
    <3>2. CASE x = k
      <4>1. determinations'[k] \in Seq(DeterminationRow)
        BY <1>5, <1>12, AppendProperties
      <4>2. i \in 1 .. Len(determinations[k]) \/ i = Len(determinations'[k])
        BY <3>2, <4>1, <1>12, <1>13, LenProperties
      <4>3. CASE i \in 1 .. Len(determinations[k])
        BY <4>3, <3>2, <1>1, <1>12, <1>13, LenProperties DEF IInv, ConcernKeepsItsCase
      <4>4. CASE i = Len(determinations'[k])
        BY <4>4, <3>2, <1>11, <1>13 DEF Latest, det
      <4> QED BY <4>2, <4>3, <4>4
    <3> QED BY <3>1, <3>2
  <2> QED BY <1>2, <2>1, <2>2, <2>3 DEF ConcernKeepsItsCase
<1>18. \A u \in TaskIds : tasks[u].status = "completed" => tasks'[u] = tasks[u]
  <2> SUFFICES ASSUME NEW u \in TaskIds, tasks[u].status = "completed"
               PROVE  tasks'[u] = tasks[u]
    OBVIOUS
  <2>1. u # t /\ ~opens(u)
    BY <1>2 DEF opens
  <2> QED BY <2>1, <1>9
<1>19. RowsAreWork'
  <2> SUFFICES ASSUME NEW x \in Concerns, NEW i \in DOMAIN submissions'[x]
               PROVE  /\ tasks'[RowTask(x, i)'].status = "completed"
                      /\ tasks'[RowTask(x, i)'].assignee = submissions'[x][i].adjudicator
                      /\ \A j \in DOMAIN submissions'[x] :
                           submissions'[x][i].slot = submissions'[x][j].slot => i = j
    BY DEF RowsAreWork
  <2>1. ASSUME i \in DOMAIN submissions[x], submissions'[x][i] = submissions[x][i]
        PROVE  /\ tasks'[RowTask(x, i)'].status = "completed"
               /\ tasks'[RowTask(x, i)'].assignee = submissions'[x][i].adjudicator
    <3>1. submissions[x][i] \in Submission
      BY <2>1, LenProperties, ElementOfSeq DEF IInv, TypeOK
    <3>2. RowTask(x, i)' = RowTask(x, i) /\ RowTask(x, i) \in TaskIds
      BY <2>1, <3>1 DEF RowTask, TaskIds, Submission
    <3> QED BY <2>1, <3>2, <1>18 DEF IInv, RowsAreWork
  <2>2. CASE x # k
    <3>1. submissions'[x] = submissions[x]
      BY <2>2, <1>4
    <3> QED BY <3>1, <2>1 DEF IInv, RowsAreWork
  <2>3. CASE x = k
    <3>1. submissions'[x] = rows
      BY <2>3, <1>4
    <3>2. \A j \in DOMAIN submissions'[x] :
            submissions'[x][i].slot = submissions'[x][j].slot => i = j
      BY <3>1, <1>3 DEF OneRowPerSlot
    <3>3. CASE i \in DOMAIN old
      BY <3>1, <3>2, <3>3, <2>1, <2>3, <1>3 DEF old
    <3>4. CASE i = Len(rows)
      <4>1. submissions'[x][i] = Row(a, t, in)
        BY <3>1, <3>4, <1>3
      <4>2. RowTask(x, i)' = t
        BY <4>1, <2>3, <1>10 DEF RowTask, TaskIds
      <4> QED BY <4>1, <4>2, <3>2, <1>7, <1>10
    <3> QED BY <3>1, <3>3, <3>4, <1>3
  <2> QED BY <2>2, <2>3
<1>20. DistinctHolders' /\ AbsentUnheld'
  <2>1. \A u \in TaskIds : Held(u)' => Held(u) /\ tasks'[u].assignee = tasks[u].assignee
    BY <1>2, <1>7, <1>8, <1>9 DEF Held
  <2>2. \A u \in TaskIds : tasks'[u].status = "absent" => tasks'[u] = tasks[u]
    BY <1>7, <1>8, <1>9
  <2> QED BY <2>1, <2>2, KeptAbsence DEF IInv, DistinctHolders
<1>21. OpenWorkIsBacked'
  <2> SUFFICES ASSUME NEW u \in TaskIds, Open(u)'
               PROVE  \E i \in DOMAIN grants : /\ grants[i].case = u.case
                                               /\ grants[i].use = ExpertUse
                                               /\ grants[i].status = "active"
    BY <1>2 DEF OpenWorkIsBacked
  <2>1. u # t
    BY <1>7 DEF Open
  <2>2. CASE opens(u)
    BY <2>2, <1>1, <1>2 DEF opens, Authorised, ActiveGrant
  <2>3. CASE ~opens(u)
    <3>1. Open(u)
      BY <2>1, <2>3, <1>9 DEF Open
    <3> QED BY <3>1 DEF IInv, OpenWorkIsBacked
  <2> QED BY <2>2, <2>3
<1>22. DeterminationsCurrent'
  <2> SUFFICES ASSUME NEW x \in Concerns
               PROVE  IF submissions'[x] = <<>>
                        THEN determinations'[x] = <<>>
                        ELSE /\ determinations'[x] # <<>>
                             /\ Latest(x)'.covers = Len(submissions'[x])
                             /\ Latest(x)'.result = Determine(submissions'[x])
    BY DEF DeterminationsCurrent
  <2>1. CASE x # k
    BY <2>1, <1>4, <1>5, <1>15 DEF IInv, DeterminationsCurrent
  <2>2. CASE x = k
    <3>1. rows # <<>>
      BY <1>3
    <3> QED BY <3>1, <2>2, <1>4, <1>13 DEF det, result
  <2> QED BY <2>1, <2>2
<1>23. TieBreakWhenContested'
  <2>1. ASSUME NEW u \in TaskIds, u.slot = TieBreak, tasks'[u].status # "absent",
               NEW s \in PrimarySlots
        PROVE  tasks'[[u EXCEPT !.slot = s]].status = "completed"
    <3>1. [u EXCEPT !.slot = s] \in TaskIds
      BY DEF TaskIds, PrimarySlots, Slots
    <3>2. CASE tasks[u].status # "absent"
      <4>1. tasks[[u EXCEPT !.slot = s]].status = "completed"
        BY <2>1, <3>2 DEF IInv, TieBreakWhenContested
      <4> QED BY <3>1, <4>1, <1>18
    <3>3. CASE tasks[u].status = "absent"
      <4>1. opens(u)
        BY <2>1, <3>3, <1>2, <1>9
      <4>2. PICK i \in DOMAIN rows : rows[i].slot = s
        BY <4>1, <1>1, <1>3, ContestedPrimaries DEF opens, result
      <4>3. rows[i].case = t.case
        BY <1>1, <1>4, <1>11, <1>17, <1>2 DEF ConcernKeepsItsCase
      <4>4. RowTask(k, i)' = [u EXCEPT !.slot = s]
        BY <4>1, <4>2, <4>3, <1>1, <1>4 DEF RowTask, TaskIds, opens
      <4> QED BY <4>4, <1>1, <1>4, <1>19 DEF RowsAreWork
    <3> QED BY <3>2, <3>3
  <2>2. ASSUME NEW x \in Concerns, determinations'[x] # <<>>, Latest(x)'.result.tieBreak
        PROVE  \E u \in TaskIds : /\ u.concern = x /\ u.slot = TieBreak
                                  /\ tasks'[u].status # "absent"
    <3>1. CASE x # k
      <4>1. PICK u \in TaskIds : /\ u.concern = x /\ u.slot = TieBreak
                                 /\ tasks[u].status # "absent"
        BY <2>2, <3>1, <1>5, <1>15 DEF IInv, TieBreakWhenContested
      <4>2. u # t /\ ~opens(u)
        BY <4>1, <3>1, <1>1 DEF opens
      <4> QED BY <4>1, <4>2, <1>9
    <3>2. CASE x = k
      <4>1. result.tieBreak
        BY <2>2, <3>2, <1>13 DEF det
      <4>2. tasks'[TieTask(t)].status # "absent"
        <5>1. CASE TieTask(t) = t
          BY <5>1, <1>7
        <5>2. CASE TieTask(t) # t /\ opens(TieTask(t))
          BY <5>2, <1>1, <1>8
        <5>3. CASE TieTask(t) # t /\ ~opens(TieTask(t))
          BY <5>3, <4>1, <1>1, <1>9 DEF opens
        <5> QED BY <5>1, <5>2, <5>3
      <4> QED BY <4>2, <3>2, <1>1
    <3> QED BY <3>1, <3>2
  <2> QED BY <2>1, <2>2 DEF TieBreakWhenContested
<1> QED BY <1>16, <1>17, <1>19, <1>20, <1>21, <1>22, <1>23 DEF Sound

-----------------------------------------------------------------------------
LEMMA IInvStep == ConstantsAssumption /\ IInv /\ [Next]_vars => IInv'
<1> SUFFICES ASSUME ConstantsAssumption, IInv, [Next]_vars PROVE IInv'
  OBVIOUS
<1> SUFFICES Sound'
  BY TypeStep DEF IInv, Sound
<1>2. ASSUME UNCHANGED <<cases, concernIndex, grants, tasks, submissions, determinations>>
      PROVE  Sound'
  BY <1>2, QuietStep
<1>3. CASE Registration
  <2>1. ASSUME NEW x \in Artifacts, PutArtifact(x) PROVE Sound'
    BY <2>1, <1>2 DEF PutArtifact, reviewVars
  <2>2. ASSUME NEW b \in Bundles, NEW n \in 0 .. MaxGrants,
               NEW gs \in [1 .. n -> GrantInputs], RegisterCase(b, gs)
        PROVE  Sound'
    BY <2>2, RegisterStep
  <2> QED BY <1>3, <2>1, <2>2 DEF Registration
<1>4. CASE Rights
  BY <1>4, GrantStep, RevokeStep DEF Rights
<1>5. CASE Review
  BY <1>5, SeedStep, ClaimStep, SubmitStep DEF Review, Submit
<1>6. CASE Appeal
  BY <1>6, <1>2 DEF Appeal, CreateAppealRecord, reviewVars
<1>7. CASE Qualification
  BY <1>7, <1>2 DEF Qualification, Qualify, QualificationLapses, reviewVars
<1>8. CASE UNCHANGED vars
  BY <1>8, <1>2 DEF vars
<1> QED BY <1>3, <1>4, <1>5, <1>6, <1>7, <1>8 DEF Next

(* The strengthening is an invariant of every execution. *)
THEOREM Inductive == Spec => []IInv
BY ConstantsAssumption, InitIInv, IInvStep, PTL DEF Spec

(* The tables only ever hold well-formed rows, whatever is requested. *)
THEOREM TypeCorrect == Spec => []TypeOK
<1>1. IInv => TypeOK
  BY DEF IInv
<1> QED BY <1>1, Inductive, PTL

(* Nobody ever reviews a concern twice: neither holds two live tasks of it nor
   stores two adjudications of it (claim_task, submit_adjudication).          *)
THEOREM ReviewersAreIndependent == Spec => []IndependentReviewers
<1>1. IInv => IndependentReviewers
  <2> SUFFICES ASSUME IInv PROVE IndependentReviewers
    OBVIOUS
  <2>1. ASSUME NEW k \in Concerns, NEW i \in DOMAIN submissions[k],
               NEW j \in DOMAIN submissions[k], i # j
        PROVE  submissions[k][i].adjudicator # submissions[k][j].adjudicator
    <3>1. submissions[k][i] \in Submission /\ submissions[k][j] \in Submission
      BY LenProperties, ElementOfSeq DEF IInv, TypeOK
    <3>2. submissions[k][i].slot # submissions[k][j].slot
      BY <2>1 DEF IInv, RowsAreWork
    <3>3. /\ RowTask(k, i) \in TaskIds /\ RowTask(k, j) \in TaskIds
          /\ RowTask(k, i) # RowTask(k, j)
          /\ RowTask(k, i).concern = k /\ RowTask(k, j).concern = k
      BY <3>1, <3>2 DEF RowTask, TaskIds, Submission
    <3>4. Held(RowTask(k, i)) /\ Held(RowTask(k, j))
      BY DEF Held, IInv, RowsAreWork
    <3>5. tasks[RowTask(k, i)].assignee # tasks[RowTask(k, j)].assignee
      BY <3>3, <3>4 DEF IInv, DistinctHolders
    <3> QED BY <3>5 DEF IInv, RowsAreWork
  <2>2. DistinctHolders
    BY DEF IInv
  <2> QED BY <2>1, <2>2 DEF IndependentReviewers, DistinctHolders
<1> QED BY <1>1, Inductive, PTL

(* The newest determination is always the policy's answer to all the stored
   adjudications of its concern (_recompute_determination).                *)
THEOREM DeterminationsStayCurrent == Spec => []DeterminationsCurrent
<1>1. IInv => DeterminationsCurrent
  BY DEF IInv
<1> QED BY <1>1, Inductive, PTL

(* A tie-break task exists only beside two finished primaries, and a result that
   asks for one never lacks it.                                                 *)
THEOREM TieBreaksAnswerContests == Spec => []TieBreakWhenContested
<1>1. IInv => TieBreakWhenContested
  BY DEF IInv
<1> QED BY <1>1, Inductive, PTL

(* A task is open only under an expert grant that was not revoked. *)
THEOREM OpenWorkStaysBacked == Spec => []OpenWorkIsBacked
<1>1. IInv => OpenWorkIsBacked
  BY DEF IInv
<1> QED BY <1>1, Inductive, PTL

(* Whatever belongs to a concern belongs to the case version that registered it. *)
THEOREM ConcernsKeepTheirCase == Spec => []ConcernKeepsItsCase
<1>1. IInv => ConcernKeepsItsCase
  BY DEF IInv
<1> QED BY <1>1, Inductive, PTL

(* Blinding: the holder of an unfinished primary or secondary task can be shown no
   prior decision, and the determination they may read is the empty one
   (task_payload, latest_determination).                                         *)
THEOREM ReviewsStayBlind == Spec => []BlindUntilSubmitted
<1>1. ConstantsAssumption /\ IInv => BlindUntilSubmitted
  <2> SUFFICES ASSUME ConstantsAssumption, IInv, NEW t \in TaskIds, NEW a \in Adjudicators,
                      t.slot \in PrimarySlots, tasks[t].status = "claimed",
                      tasks[t].assignee = a
               PROVE  /\ PriorsShown(a, t.concern) = {}
                      /\ determinations[t.concern] # <<>> =>
                           Latest(t.concern).result = Waiting
    BY DEF BlindUntilSubmitted
  <2> DEFINE k == t.concern
  <2>1. k \in Concerns /\ concernIndex[k] = t.case /\ a # Nobody
    BY DEF TaskIds, IInv, ConcernKeepsItsCase, ConstantsAssumption
  <2>2. ASSUME NEW u \in TaskIds, u.concern = k, tasks[u].assignee = a
        PROVE  PriorViews(u) = {}
    <3> SUFFICES ASSUME u.slot = TieBreak PROVE FALSE
      BY DEF PriorViews
    <3>1. tasks[u].status # "absent"
      BY <2>1, <2>2 DEF IInv, AbsentUnheld
    <3>2. tasks[[u EXCEPT !.slot = t.slot]].status = "completed"
      BY <3>1 DEF IInv, TieBreakWhenContested
    <3>3. u.case = t.case
      BY <2>1, <2>2, <3>1 DEF IInv, ConcernKeepsItsCase
    <3>4. [u EXCEPT !.slot = t.slot] = t
      BY <2>2, <3>3 DEF TaskIds
    <3> QED BY <3>2, <3>4
  <2>3. PriorsShown(a, k) = {}
    BY <2>2 DEF PriorsShown
  <2>4. ASSUME determinations[k] # <<>> PROVE Latest(k).result = Waiting
    <3>1. Latest(k).result = Determine(submissions[k])
      BY <2>1, <2>4 DEF IInv, DeterminationsCurrent
    <3>2. ~TwoPrimaries(submissions[k])
      <4> SUFFICES ASSUME NEW i \in PrimaryRows(submissions[k]),
                          NEW j \in PrimaryRows(submissions[k]), i # j
                   PROVE  FALSE
        BY DEF TwoPrimaries
      <4>1. i \in DOMAIN submissions[k] /\ j \in DOMAIN submissions[k]
        BY DEF PrimaryRows
      <4>2. submissions[k][i].slot # submissions[k][j].slot
        BY <2>1, <4>1 DEF IInv, RowsAreWork
      <4>3. submissions[k][i].slot = t.slot \/ submissions[k][j].slot = t.slot
        BY <4>2 DEF PrimaryRows, PrimarySlots
      <4>4. ASSUME NEW x \in DOMAIN submissions[k], submissions[k][x].slot = t.slot
            PROVE  FALSE
        <5>1. submissions[k][x].case = t.case
          BY <2>1 DEF IInv, ConcernKeepsItsCase
        <5>2. RowTask(k, x) = t
          BY <4>4, <5>1 DEF RowTask, TaskIds
        <5>3. tasks[RowTask(k, x)].status = "completed"
          BY <2>1, <4>4 DEF IInv, RowsAreWork
        <5> QED BY <5>2, <5>3
      <4> QED BY <4>1, <4>3, <4>4
    <3> QED BY <3>1, <3>2 DEF Determine
  <2> QED BY <2>3, <2>4
<1> QED BY <1>1, ConstantsAssumption, Inductive, PTL

LEMMA AppendExtends ==
  ASSUME NEW S, NEW q \in Seq(S), NEW e \in S
  PROVE  Extends(Append(q, e), q)
BY AppendProperties, LenProperties DEF Extends

LEMMA SameExtends == ASSUME NEW S, NEW q \in Seq(S) PROVE Extends(q, q)
BY LenProperties DEF Extends

LEMMA AppendOnlyStep ==
  ASSUME ConstantsAssumption, IInv, [Next]_vars
  PROVE  OnlyAppended
<1>1. \A k \in Concerns : Extends(submissions[k], submissions[k])
                         /\ Extends(determinations[k], determinations[k])
  BY SameExtends DEF IInv, TypeOK
<1>2. Extends(appeals, appeals)
  BY SameExtends DEF IInv, TypeOK
<1>3. ASSUME UNCHANGED <<tasks, submissions, determinations>> PROVE
        /\ \A k \in Concerns : /\ Extends(submissions'[k], submissions[k])
                               /\ Extends(determinations'[k], determinations[k])
        /\ \A t \in TaskIds : tasks[t].status = "completed" => tasks'[t] = tasks[t]
  BY <1>1, <1>3
<1>4. ASSUME UNCHANGED <<submissions, determinations, appeals>>,
             \A t \in TaskIds : tasks[t].status = "completed" => tasks'[t] = tasks[t]
      PROVE  OnlyAppended
  BY <1>1, <1>2, <1>4 DEF OnlyAppended
<1>5. ASSUME NEW i \in DOMAIN grants, RevokeGrant(i) PROVE OnlyAppended
  BY <1>4, <1>5 DEF RevokeGrant, Open
<1>6. ASSUME NEW c \in Cases, NEW K \in SUBSET Concerns, SeedTasks(c, K) PROVE OnlyAppended
  BY <1>4, <1>6 DEF SeedTasks
<1>7. ASSUME NEW a \in Adjudicators, ClaimTask(a) PROVE OnlyAppended
  <2>1. UNCHANGED appeals
    BY <1>7 DEF ClaimTask
  <2>2. \A t \in TaskIds : tasks[t].status = "completed" => tasks'[t] = tasks[t]
    BY <1>7, ClaimEffect
  <2>3. UNCHANGED <<submissions, determinations>>
    BY <1>7, ClaimEffect
  <2> QED BY <1>4, <2>1, <2>2, <2>3
<1>8. ASSUME NEW a \in Adjudicators, NEW t \in TaskIds, NEW in \in Inputs,
             SubmitAdjudication(a, t, in)
      PROVE  OnlyAppended
  <2> DEFINE rows == Append(submissions[t.concern], Row(a, t, in))
             det == [case |-> t.case, covers |-> Len(rows), result |-> Determine(rows)]
  <2>1. t.concern \in Concerns /\ t.case \in Cases
    BY DEF TaskIds
  <2>2. rows \in Seq(Submission) /\ OneRowPerSlot(rows)
    BY <1>8, AppendedRows DEF SubmitAdjudication
  <2>3. det \in DeterminationRow
    BY <2>1, <2>2, PolicyType, LenProperties DEF DeterminationRow
  <2>4. Extends(rows, submissions[t.concern])
    BY <2>1, RowType, AppendExtends DEF IInv, TypeOK
  <2>5. Extends(Append(determinations[t.concern], det), determinations[t.concern])
    BY <2>1, <2>3, AppendExtends DEF IInv, TypeOK
  <2> HIDE DEF rows, det
  <2>6. \A k \in Concerns :
          /\ submissions'[k] = IF k = t.concern THEN rows ELSE submissions[k]
          /\ determinations'[k] = IF k = t.concern THEN Append(determinations[k], det)
                                                  ELSE determinations[k]
    BY <1>8 DEF SubmitAdjudication, Recomputed, IInv, TypeOK, rows, det
  <2>7. \A k \in Concerns : /\ Extends(submissions'[k], submissions[k])
                            /\ Extends(determinations'[k], determinations[k])
    BY <1>1, <2>4, <2>5, <2>6
  <2>8. UNCHANGED appeals
    BY <1>8 DEF SubmitAdjudication
  <2>9. \A u \in TaskIds : tasks[u].status = "completed" => tasks'[u] = tasks[u]
    BY <1>8 DEF SubmitAdjudication, Opens
  <2> QED BY <1>2, <2>7, <2>8, <2>9 DEF OnlyAppended
<1>9. ASSUME NEW k \in Concerns, NEW p \in 0 .. MaxAppeals,
             NEW d \in DOMAIN determinations[k], CreateAppealRecord(k, d, p)
      PROVE  OnlyAppended
  <2>1. determinations[k] \in Seq(DeterminationRow)
    BY DEF IInv, TypeOK
  <2>2. [concern |-> k, determination |-> d, predecessor |-> p] \in AppealRow
    BY <2>1, LenProperties DEF AppealRow, ConstantsAssumption
  <2>3. Extends(appeals', appeals)
    BY <1>9, <2>2, AppendExtends DEF CreateAppealRecord, IInv, TypeOK
  <2> QED BY <1>3, <1>9, <2>3 DEF CreateAppealRecord, reviewVars, OnlyAppended
<1>10. CASE Registration
  BY <1>4, <1>10 DEF Registration, PutArtifact, RegisterCase, reviewVars
<1>11. CASE Rights
  BY <1>4, <1>5, <1>11 DEF Rights, AddGrant, GrantLapses, reviewVars
<1>12. CASE Qualification
  BY <1>4, <1>12 DEF Qualification, Qualify, QualificationLapses, reviewVars
<1>13. CASE UNCHANGED vars
  BY <1>4, <1>13 DEF vars
<1> QED BY <1>6, <1>7, <1>8, <1>9, <1>10, <1>11, <1>12, <1>13 DEF Next, Review, Submit, Appeal

(* Adjudications, determinations and appeals are never rewritten and a finished
   task never changes again, whatever is revoked afterwards (ADR-0004).        *)
THEOREM HistoryKept == Spec => HistoryIsAppendOnly
<1>1. ConstantsAssumption /\ IInv /\ [Next]_vars => [OnlyAppended]_vars
  BY AppendOnlyStep
<1> QED BY <1>1, ConstantsAssumption, Inductive, PTL DEF Spec, HistoryIsAppendOnly

-----------------------------------------------------------------------------
(* The registry implements IndependentReview: every request maps to a step of
   the panel or to none.                                                      *)

LEMMA PanelUnchanged == UNCHANGED tasks => UNCHANGED Panel!vars
BY DEF Panel!vars

LEMMA PanelSeats == Panel!Seats = TaskIds
BY DEF Panel!Seats, TaskIds, Slots, Primary, Secondary, TieBreak,
       Panel!Slots, Panel!Primary, Panel!Secondary, Panel!TieBreak

LEMMA PanelInit == Init => Panel!Init
BY PanelSeats DEF Init, NoTask, Panel!Init

LEMMA PanelClaim ==
  ASSUME IInv, NEW a \in Adjudicators, ClaimTask(a)
  PROVE  Panel!Next
<1>1. PICK t \in TaskIds :
        /\ Eligible(a, t)
        /\ tasks' = [tasks EXCEPT ![t] = [@ EXCEPT !.status = "claimed", !.assignee = a]]
  BY DEF ClaimTask
<1>2. tasks \in [TaskIds -> Task]
  BY DEF IInv, TypeOK
<1>3. t \in Panel!Seats /\ Panel!Seats = TaskIds
  BY PanelSeats
<1>4. /\ tasks[t].status = "pending"
      /\ \A u \in TaskIds \ {t} :
           u.concern = t.concern => ~(Held(u) /\ tasks[u].assignee = a)
  BY <1>1 DEF Eligible, Blocked
<1>5. [u \in TaskIds |-> tasks'[u].status]
        = [[u \in TaskIds |-> tasks[u].status] EXCEPT ![t] = "claimed"]
  BY <1>1, <1>2 DEF Task
<1>6. [u \in TaskIds |-> tasks'[u].assignee]
        = [[u \in TaskIds |-> tasks[u].assignee] EXCEPT ![t] = a]
  BY <1>1, <1>2 DEF Task
<1>7. Panel!Assign(t, a)
  BY <1>3, <1>4, <1>5, <1>6 DEF Panel!Assign, Panel!Panel, Panel!Taken, Held
<1> QED BY <1>3, <1>7 DEF Panel!Next

LEMMA PanelWithdraw ==
  ASSUME IInv, NEW i \in DOMAIN grants, RevokeGrant(i)
  PROVE  Panel!Next
<1> DEFINE c == grants[i].case
           stop == grants[i].use = ExpertUse
                     /\ ~ActiveGrant([grants EXCEPT ![i].status = "revoked"], c, ExpertUse)
           T == {t \in TaskIds : stop /\ t.case = c /\ Open(t)}
<1> PICK S \in SUBSET TaskIds : S = T
  OBVIOUS
<1>1. \A t \in TaskIds : tasks'[t] = IF t \in S THEN [tasks[t] EXCEPT !.status = "cancelled"]
                                     ELSE tasks[t]
  BY DEF RevokeGrant
<1>2. \A t \in S : tasks[t].status \in {"pending", "claimed"}
  BY DEF Open
<1>3. S \in SUBSET TaskIds
  OBVIOUS
<1>4. \A t \in TaskIds : tasks[t] \in Task
  BY DEF IInv, TypeOK
<1>5. \A t \in TaskIds : /\ tasks'[t].status = IF t \in S THEN "cancelled" ELSE tasks[t].status
                         /\ tasks'[t].assignee = tasks[t].assignee
  BY <1>1, <1>4 DEF Task
<1>6. [t \in TaskIds |-> tasks'[t].status]
        = [t \in TaskIds |-> IF t \in S THEN "cancelled"
                             ELSE [u \in TaskIds |-> tasks[u].status][t]]
  BY <1>5
<1>7. [t \in TaskIds |-> tasks'[t].assignee] = [t \in TaskIds |-> tasks[t].assignee]
  BY <1>5
<1>8. Panel!Withdraw(S)
  BY <1>2, <1>3, <1>6, <1>7, PanelSeats DEF Panel!Withdraw
<1>9. S \in SUBSET Panel!Seats
  BY <1>3, PanelSeats
<1> QED BY <1>8, <1>9 DEF Panel!Next

LEMMA PanelOpen ==
  ASSUME IInv, NEW c \in Cases, NEW K \in SUBSET Concerns, SeedTasks(c, K)
  PROVE  Panel!Next
<1> DEFINE T == {t \in TaskIds : /\ t.case = c /\ t.concern \in K
                                 /\ t.slot \in PrimarySlots
                                 /\ tasks[t].status = "absent"}
<1> PICK S \in SUBSET TaskIds : S = T
  OBVIOUS
<1>1. \A t \in TaskIds : tasks'[t] = IF t \in S THEN Pending ELSE tasks[t]
  BY DEF SeedTasks
<1>2. \A t \in S : tasks[t].status = "absent" /\ t.slot # Panel!TieBreak
  BY DEF PrimarySlots, Primary, Secondary, Panel!TieBreak
<1>3. S \in SUBSET TaskIds
  OBVIOUS
<1>4. \A t \in S : tasks[t].assignee = Nobody
  BY DEF IInv, AbsentUnheld
<1>5. \A t \in TaskIds : /\ tasks'[t].status = IF t \in S THEN "pending" ELSE tasks[t].status
                         /\ tasks'[t].assignee = tasks[t].assignee
  BY <1>1, <1>4 DEF Pending
<1>6. [t \in TaskIds |-> tasks'[t].status]
        = [t \in TaskIds |-> IF t \in S THEN "pending"
                             ELSE [u \in TaskIds |-> tasks[u].status][t]]
  BY <1>5
<1>7. [t \in TaskIds |-> tasks'[t].assignee] = [t \in TaskIds |-> tasks[t].assignee]
  BY <1>5
<1>8. Panel!Opened(S, Panel!Reported)
  BY <1>2, <1>3, PanelSeats DEF Panel!Opened
<1>9. Panel!Open(S)
  BY <1>6, <1>7, <1>8, PanelSeats DEF Panel!Open
<1>10. S \in SUBSET Panel!Seats
  BY <1>3, PanelSeats
<1> QED BY <1>9, <1>10 DEF Panel!Next

LEMMA PanelReport ==
  ASSUME ConstantsAssumption, IInv, TieBreakWhenContested',
         NEW a \in Adjudicators, NEW t \in TaskIds, NEW in \in Inputs,
         SubmitAdjudication(a, t, in)
  PROVE  Panel!Next
<1> DEFINE result == Determine(Append(submissions[t.concern], Row(a, t, in)))
           T == {u \in TaskIds : u # t /\ u = TieTask(t) /\ result.tieBreak
                                       /\ tasks[u].status = "absent"}
<1> PICK S \in SUBSET TaskIds : S = T
  OBVIOUS
<1>1. tasks[t].status = "claimed"
  BY DEF SubmitAdjudication
<1>2. \A u \in TaskIds : tasks'[u] = IF u = t THEN [tasks[u] EXCEPT !.status = "completed"]
                                     ELSE IF u \in S THEN Pending
                                     ELSE tasks[u]
  BY DEF SubmitAdjudication, Recomputed, Opens
<1>3. S \in SUBSET TaskIds /\ t \notin S /\ \A u \in S : tasks[u].status = "absent"
  OBVIOUS
<1>4. /\ \A u \in S : tasks[u].assignee = Nobody
      /\ \A u \in TaskIds : tasks[u] \in Task
  BY DEF IInv, AbsentUnheld, TypeOK
<1>5. \A u \in TaskIds : /\ tasks'[u].status = IF u = t THEN "completed"
                                                ELSE IF u \in S THEN "pending"
                                                ELSE tasks[u].status
                         /\ tasks'[u].assignee = tasks[u].assignee
  <2> SUFFICES ASSUME NEW u \in TaskIds
               PROVE  /\ tasks'[u].status = IF u = t THEN "completed"
                                            ELSE IF u \in S THEN "pending"
                                            ELSE tasks[u].status
                      /\ tasks'[u].assignee = tasks[u].assignee
    OBVIOUS
  <2>1. CASE u = t
    <3>1. tasks'[u] = [tasks[u] EXCEPT !.status = "completed"] /\ tasks[u] \in Task
      BY <2>1, <1>2, <1>4
    <3> QED BY <2>1, <3>1 DEF Task
  <2>2. CASE u # t /\ u \in S
    <3>1. tasks'[u] = Pending
      BY <2>2, <1>2
    <3> QED BY <2>2, <3>1, <1>4 DEF Pending
  <2>3. CASE u # t /\ u \notin S
    <3>1. tasks'[u] = tasks[u]
      BY <2>3, <1>2
    <3> QED BY <2>3, <3>1
  <2> QED BY <2>1, <2>2, <2>3
<1>6. [u \in TaskIds |-> tasks'[u].status]
        = [u \in TaskIds |-> IF u = t THEN "completed"
                             ELSE IF u \in S THEN "pending"
                             ELSE [v \in TaskIds |-> tasks[v].status][u]]
  BY <1>5
<1>7. [u \in TaskIds |-> tasks'[u].assignee] = [u \in TaskIds |-> tasks[u].assignee]
  BY <1>5
<1>8. Panel!Opened(S, Panel!Reported \cup {t})
  <2> SUFFICES ASSUME NEW u \in S, u.slot = Panel!TieBreak, NEW v \in Panel!Primaries(u)
               PROVE  v \in Panel!Reported \cup {t}
    BY <1>3, PanelSeats DEF Panel!Opened
  <2>1. /\ v \in TaskIds /\ v.concern = u.concern /\ v.case = u.case
        /\ v.slot \in PrimarySlots /\ u \in TaskIds /\ u.slot = TieBreak
    BY <1>3, PanelSeats
       DEF Panel!Primaries, Panel!Panel, Panel!PrimarySlots, Panel!Primary, Panel!Secondary,
           Panel!TieBreak, PrimarySlots, Primary, Secondary, TieBreak
  <2>2. [u EXCEPT !.slot = v.slot] = v
    BY <2>1 DEF TaskIds
  <2>3. tasks'[u].status = "pending"
    BY <1>3, <1>5, <2>1
  <2>4. tasks'[v].status = "completed"
    BY <2>1, <2>2, <2>3 DEF TieBreakWhenContested
  <2>5. v = t \/ tasks[v].status = "completed"
    BY <1>5, <2>1, <2>4
  <2> QED BY <2>1, <2>5, PanelSeats DEF Panel!Reported
<1>9. Panel!Report(t, S)
  BY <1>1, <1>3, <1>6, <1>7, <1>8, PanelSeats DEF Panel!Report
<1>10. t \in Panel!Seats /\ S \in SUBSET Panel!Seats
  BY <1>3, PanelSeats
<1> QED BY <1>9, <1>10 DEF Panel!Next

LEMMA PanelStep ==
  ASSUME ConstantsAssumption, IInv, IInv', [Next]_vars
  PROVE  [Panel!Next]_(Panel!vars)
<1>1. CASE UNCHANGED tasks
  BY <1>1, PanelUnchanged
<1>2. CASE Registration \/ Appeal \/ Qualification
  BY <1>2, <1>1 DEF Registration, PutArtifact, RegisterCase, Appeal, CreateAppealRecord,
                    Qualification, Qualify, QualificationLapses, reviewVars
<1>3. CASE Rights
  <2>1. ASSUME NEW c \in Cases, NEW g \in GrantInputs, AddGrant(c, g)
        PROVE  UNCHANGED tasks
    BY <2>1 DEF AddGrant, reviewVars
  <2>2. ASSUME NEW i \in DOMAIN grants, GrantLapses(i) PROVE UNCHANGED tasks
    BY <2>2 DEF GrantLapses, reviewVars
  <2> QED BY <1>1, <1>3, <2>1, <2>2, PanelWithdraw DEF Rights
<1>4. CASE Review
  <2>1. TieBreakWhenContested'
    BY DEF IInv
  <2> QED BY <1>4, <2>1, PanelOpen, PanelClaim, PanelReport DEF Review, Submit
<1>5. CASE UNCHANGED vars
  BY <1>1, <1>5 DEF vars
<1> QED BY <1>2, <1>3, <1>4, <1>5 DEF Next

(* Every history of the registry's requests is a history of an independent review
   panel: seats are taken by different people, a tie-break seat opens only on two
   reports, a report is final.                                                   *)
THEOREM Implements == Spec => RefinesReview
<1>1. Init => Panel!Init
  BY PanelInit
<1>2. ConstantsAssumption /\ IInv /\ IInv' /\ [Next]_vars => [Panel!Next]_(Panel!vars)
  BY PanelStep
<1> QED BY <1>1, <1>2, ConstantsAssumption, Inductive, PTL DEF Spec, RefinesReview, Panel!Spec

-----------------------------------------------------------------------------
(* The audit, and decisions that are final. *)

(* A completed task has its submission, an open one the holder it should. *)
TasksAudited == \A t \in TaskIds : CheckTaskState(t)

DeterminationsAudited ==
    \A k \in Concerns : \A i \in DOMAIN determinations[k] :
        CheckDetermination(k, determinations[k][i])

CreditsMatch ==
    \A t \in TaskIds, a \in Adjudicators :
        <<a, t>> \in credits <=> tasks[t].status = "completed" /\ tasks[t].assignee = a

(* How a task may change in one request. *)
Created(t)   == tasks[t].status = "absent" /\ tasks'[t].status = "pending" /\ tasks'[t].assignee = Nobody
Taken(t)     == /\ tasks[t].status = "pending" /\ tasks'[t].status = "claimed"
                /\ tasks'[t].assignee # Nobody
Cancelled(t) == Open(t) /\ tasks'[t].status = "cancelled"
Done(t)      == /\ tasks[t].status = "claimed" /\ tasks'[t].status = "completed"
                /\ tasks'[t].assignee = tasks[t].assignee /\ Submitted(t)'
Changes(t) == tasks'[t] = tasks[t] \/ Created(t) \/ Taken(t) \/ Cancelled(t) \/ Done(t)

(* What a submission writes. *)
LEMMA SubmitEffect ==
  ASSUME ConstantsAssumption, IInv,
         NEW a \in Adjudicators, NEW t \in TaskIds, NEW in \in Inputs,
         SubmitAdjudication(a, t, in)
  PROVE  /\ Done(t) /\ tasks[t].assignee = a
         /\ \A u \in TaskIds \ {t} : tasks'[u] = tasks[u] \/ Created(u)
         /\ credits' = credits \cup {<<a, t>>}
         /\ \E d : \A k \in Concerns :
              determinations'[k] = IF k = t.concern THEN Append(determinations[k], d)
                                   ELSE determinations[k]
<1> DEFINE rows == Append(submissions[t.concern], Row(a, t, in))
<1>1. t.concern \in Concerns /\ t \in TaskIds
  BY DEF TaskIds
<1>2. tasks[t].assignee = a /\ tasks[t].status = "claimed"
  BY DEF SubmitAdjudication
<1>3. submissions'[t.concern] = rows
  BY <1>1 DEF SubmitAdjudication, IInv, TypeOK
<1>4. Len(rows) \in DOMAIN rows /\ rows[Len(rows)] = Row(a, t, in)
  BY <1>2, AppendedRows
<1>5. Submitted(t)'
  BY <1>3, <1>4 DEF Submitted, Row
<1>6. /\ tasks'[t] = [tasks[t] EXCEPT !.status = "completed"]
      /\ \A u \in TaskIds \ {t} :
           \/ tasks'[u] = tasks[u]
           \/ tasks'[u] = Pending /\ tasks[u].status = "absent"
  BY DEF SubmitAdjudication, Opens
<1>7. tasks[t] \in Task
  BY DEF IInv, TypeOK
<1>8. Done(t)
  BY <1>2, <1>5, <1>6, <1>7 DEF Done, Task
<1>9. \A u \in TaskIds \ {t} : tasks'[u] = tasks[u] \/ Created(u)
  BY <1>6 DEF Created, Pending
<1>10. \E d : \A k \in Concerns :
          determinations'[k] = IF k = t.concern THEN Append(determinations[k], d)
                               ELSE determinations[k]
  <2>1. \A k \in Concerns :
          determinations'[k] = IF k = t.concern THEN Append(determinations[k], Recomputed(t, rows))
                               ELSE determinations[k]
    BY DEF SubmitAdjudication, IInv, TypeOK
  <2> QED BY <2>1
<1>11. credits' = credits \cup {<<a, t>>}
  BY DEF SubmitAdjudication
<1> QED BY <1>2, <1>8, <1>9, <1>10, <1>11

(* Every request but a submission leaves credits and determinations alone, and
   changes a task only by creating, handing out or cancelling it.            *)
LEMMA OtherEffect ==
  ASSUME ConstantsAssumption, IInv, [Next]_vars,
         ~ \E a \in Adjudicators, t \in TaskIds, in \in Inputs : SubmitAdjudication(a, t, in)
  PROVE  /\ UNCHANGED <<credits, determinations>>
         /\ \A t \in TaskIds : tasks'[t] = tasks[t] \/ Created(t) \/ Taken(t) \/ Cancelled(t)
<1> DEFINE Goal == /\ UNCHANGED <<credits, determinations>>
                   /\ \A t \in TaskIds :
                        tasks'[t] = tasks[t] \/ Created(t) \/ Taken(t) \/ Cancelled(t)
<1> SUFFICES Goal
  OBVIOUS
<1>1. ASSUME UNCHANGED <<tasks, credits, determinations>> PROVE Goal
  BY <1>1
<1>2. ASSUME NEW i \in DOMAIN grants, RevokeGrant(i) PROVE Goal
  <2>1. UNCHANGED <<credits, determinations>>
    BY <1>2 DEF RevokeGrant
  <2>2. \A t \in TaskIds : \/ tasks'[t] = tasks[t]
                           \/ Open(t) /\ tasks'[t] = [tasks[t] EXCEPT !.status = "cancelled"]
    BY <1>2 DEF RevokeGrant
  <2>3. \A t \in TaskIds : tasks[t] \in Task
    BY DEF IInv, TypeOK
  <2>4. \A t \in TaskIds : tasks'[t] = tasks[t] \/ Cancelled(t)
    BY <2>2, <2>3 DEF Cancelled, Task
  <2> QED BY <2>1, <2>4
<1>3. ASSUME NEW c \in Cases, NEW K \in SUBSET Concerns, SeedTasks(c, K) PROVE Goal
  BY <1>3 DEF SeedTasks, Created, Pending
<1>4. ASSUME NEW a \in Adjudicators, ClaimTask(a) PROVE Goal
  <2>1. UNCHANGED <<credits, determinations>>
    BY <1>4 DEF ClaimTask
  <2>2. PICK t \in TaskIds : /\ tasks[t].status = "pending"
                             /\ tasks'[t].status = "claimed" /\ tasks'[t].assignee = a
                             /\ \A u \in TaskIds \ {t} : tasks'[u] = tasks[u]
    BY <1>4, ClaimEffect
  <2>3. a # Nobody
    BY DEF ConstantsAssumption
  <2> QED BY <2>1, <2>2, <2>3 DEF Taken
<1>5. CASE Registration \/ Appeal \/ Qualification
  BY <1>1, <1>5 DEF Registration, PutArtifact, RegisterCase, Appeal, CreateAppealRecord,
                    Qualification, Qualify, QualificationLapses, reviewVars
<1>6. CASE Rights
  BY <1>1, <1>2, <1>6 DEF Rights, AddGrant, GrantLapses, reviewVars
<1>7. CASE Review
  BY <1>3, <1>4, <1>7 DEF Review, Submit
<1>8. CASE UNCHANGED vars
  BY <1>1, <1>8 DEF vars, reviewVars
<1> QED BY <1>5, <1>6, <1>7, <1>8 DEF Next

(* Whatever is requested, a task changes in one of five ways. *)
LEMMA TaskChanges ==
  ASSUME ConstantsAssumption, IInv, [Next]_vars
  PROVE  \A t \in TaskIds : Changes(t)
BY OtherEffect, SubmitEffect DEF Changes

(* Rows stay, so a task whose submission is stored keeps it. *)
LEMMA SubmittedStays ==
  ASSUME OnlyAppended, NEW t \in TaskIds, Submitted(t)
  PROVE  Submitted(t)'
BY DEF OnlyAppended, Extends, Submitted, TaskIds

(* A stored row belongs to the completed task of its case, concern and slot. *)
LEMMA SubmittedIsCompleted ==
  ASSUME IInv, NEW t \in TaskIds, NEW i \in DOMAIN submissions[t.concern],
         submissions[t.concern][i].slot = t.slot, submissions[t.concern][i].case = t.case
  PROVE  /\ tasks[t].status = "completed"
         /\ submissions[t.concern][i].adjudicator = tasks[t].assignee
<1>1. t.concern \in Concerns /\ RowTask(t.concern, i) = t
  BY DEF TaskIds, RowTask
<1> QED BY <1>1 DEF IInv, RowsAreWork

-----------------------------------------------------------------------------
(* A task that passes the audit passes it after any request. *)
LEMMA TasksAuditedStep ==
  ASSUME ConstantsAssumption, IInv, IInv', TasksAudited, [Next]_vars
  PROVE  TasksAudited'
<1>1. OnlyAppended /\ \A t \in TaskIds : Changes(t)
  BY AppendOnlyStep, TaskChanges
<1> SUFFICES ASSUME NEW t \in TaskIds PROVE CheckTaskState(t)'
  BY DEF TasksAudited
<1>2. CheckTaskState(t) /\ Changes(t)
  BY <1>1 DEF TasksAudited
<1>3. (tasks[t].status = "pending" => tasks[t].assignee = Nobody)'
  BY <1>2 DEF CheckTaskState, Changes, Created, Taken, Cancelled, Done
<1>4. (tasks[t].status = "claimed" => tasks[t].assignee # Nobody)'
  BY <1>2 DEF CheckTaskState, Changes, Created, Taken, Cancelled, Done
<1>5. tasks'[t].status = "completed" => Submitted(t)'
  <2>1. tasks'[t].status = "completed" => tasks'[t] = tasks[t] \/ Done(t)
    BY <1>2 DEF Changes, Created, Taken, Cancelled
  <2>2. tasks[t].status = "completed" => Submitted(t)'
    BY <1>1, <1>2, SubmittedStays DEF CheckTaskState
  <2> QED BY <2>1, <2>2 DEF Done
<1>6. Submitted(t)' => tasks'[t].status = "completed"
  <2> SUFFICES ASSUME NEW i \in DOMAIN submissions'[t.concern],
                      submissions'[t.concern][i].slot = t.slot,
                      submissions'[t.concern][i].case = t.case
               PROVE  tasks'[t].status = "completed"
    BY DEF Submitted
  <2>1. t.concern \in Concerns /\ RowTask(t.concern, i)' = t
    BY DEF TaskIds, RowTask
  <2>2. RowsAreWork'
    BY DEF IInv
  <2>3. (tasks[RowTask(t.concern, i)].status = "completed")'
    BY <2>1, <2>2 DEF RowsAreWork, RowTask
  <2> QED BY <2>1, <2>3
<1> QED BY <1>3, <1>4, <1>5, <1>6 DEF CheckTaskState

(* A determination that was right about what was stored stays right, and the new
   one is the newest, of which IInv tells.                                       *)
LEMMA DeterminationsAuditedStep ==
  ASSUME ConstantsAssumption, IInv, IInv', DeterminationsAudited, [Next]_vars
  PROVE  DeterminationsAudited'
<1>1. OnlyAppended /\ \A t \in TaskIds : Changes(t)
  BY AppendOnlyStep, TaskChanges
<1> SUFFICES ASSUME NEW k \in Concerns, NEW i \in DOMAIN determinations'[k]
             PROVE  CheckDetermination(k, determinations[k][i])'
  BY DEF DeterminationsAudited
<1>2. /\ submissions[k] \in Seq(Submission) /\ submissions'[k] \in Seq(Submission)
      /\ determinations[k] \in Seq(DeterminationRow)
      /\ determinations'[k] \in Seq(DeterminationRow)
  BY DEF IInv, TypeOK
<1>3. /\ Len(submissions[k]) \in Nat /\ Len(submissions'[k]) \in Nat
      /\ Len(submissions[k]) <= Len(submissions'[k])
      /\ Len(determinations[k]) \in Nat /\ Len(determinations'[k]) \in Nat
      /\ DOMAIN determinations[k] = 1 .. Len(determinations[k])
      /\ DOMAIN determinations'[k] = 1 .. Len(determinations'[k])
  BY <1>1, <1>2, LenProperties DEF OnlyAppended, Extends
<1>4. CASE i \in DOMAIN determinations[k]
  <2>1. determinations'[k][i] = determinations[k][i]
    BY <1>1, <1>4 DEF OnlyAppended, Extends
  <2>2. CheckDetermination(k, determinations[k][i])
    BY <1>4 DEF DeterminationsAudited
  <2>3. determinations[k][i].covers \in Nat
    <3>1. determinations[k][i] \in DeterminationRow
      BY <1>2, <1>4
    <3> QED BY <3>1 DEF DeterminationRow
  <2>4. \A t \in TaskIds : tasks[t].status # "absent" => tasks'[t].status # "absent"
    BY <1>1 DEF Changes, Created, Taken, Cancelled, Done
  <2>5. determinations[k][i].covers <= Len(submissions'[k])
    BY <1>3, <2>2, <2>3 DEF CheckDetermination
  <2> QED BY <2>1, <2>2, <2>4, <2>5 DEF CheckDetermination
<1>5. CASE i \notin DOMAIN determinations[k]
  <2>1. Len(determinations'[k]) <= Len(determinations[k]) + 1
    <3>1. CASE \E a \in Adjudicators, t \in TaskIds, in \in Inputs : SubmitAdjudication(a, t, in)
      <4>1. PICK t \in TaskIds : \E d :
              determinations'[k] = IF k = t.concern THEN Append(determinations[k], d)
                                   ELSE determinations[k]
        BY <3>1, SubmitEffect
      <4>2. PICK d : determinations'[k] = IF k = t.concern THEN Append(determinations[k], d)
                                          ELSE determinations[k]
        BY <4>1
      <4>3. Len(Append(determinations[k], d)) = Len(determinations[k]) + 1
        BY <1>2
      <4> QED BY <1>3, <4>2, <4>3
    <3>2. CASE ~ \E a \in Adjudicators, t \in TaskIds, in \in Inputs : SubmitAdjudication(a, t, in)
      BY <1>3, <3>2, OtherEffect
    <3> QED BY <3>1, <3>2
  <2>2. i = Len(determinations'[k]) /\ determinations'[k] # << >>
    BY <1>2, <1>3, <1>5, <2>1
  <2>3. determinations'[k][i] = Latest(k)'
    BY <2>2 DEF Latest
  <2>4. Latest(k)'.covers <= Len(submissions'[k])
    <3>1. submissions'[k] # << >> /\ Latest(k)'.covers = Len(submissions'[k])
      BY <2>2 DEF IInv, DeterminationsCurrent
    <3> QED BY <3>1, <1>3
  <2>5. Latest(k)'.result.tieBreak =>
          \E t \in TaskIds : t.concern = k /\ t.slot = TieBreak /\ tasks'[t].status # "absent"
    BY <2>2 DEF IInv, TieBreakWhenContested
  <2> QED BY <2>3, <2>4, <2>5 DEF CheckDetermination
<1> QED BY <1>4, <1>5

(* A credit is given exactly where a task is completed. *)
LEMMA CreditsStep ==
  ASSUME ConstantsAssumption, IInv, CreditsMatch, [Next]_vars
  PROVE  CreditsMatch'
<1>1. CASE \E a \in Adjudicators, t \in TaskIds, in \in Inputs : SubmitAdjudication(a, t, in)
  <2>1. PICK a \in Adjudicators, t \in TaskIds :
          /\ Done(t) /\ tasks[t].assignee = a
          /\ \A u \in TaskIds \ {t} : tasks'[u] = tasks[u] \/ Created(u)
          /\ credits' = credits \cup {<<a, t>>}
    BY <1>1, SubmitEffect
  <2> SUFFICES ASSUME NEW u \in TaskIds, NEW b \in Adjudicators
               PROVE  <<b, u>> \in credits' <=>
                        tasks'[u].status = "completed" /\ tasks'[u].assignee = b
    BY DEF CreditsMatch
  <2>2. <<b, u>> \in credits <=> tasks[u].status = "completed" /\ tasks[u].assignee = b
    BY DEF CreditsMatch
  <2>3. CASE u = t
    <3>1. <<b, u>> \notin credits
      BY <2>1, <2>2, <2>3 DEF Done
    <3>2. <<b, u>> \in credits' <=> b = a
      BY <2>1, <2>3, <3>1
    <3> QED BY <2>1, <2>3, <3>2 DEF Done
  <2>4. CASE u # t
    <3>1. <<b, u>> \in credits' <=> <<b, u>> \in credits
      BY <2>1, <2>4
    <3>2. tasks'[u] = tasks[u] \/ Created(u)
      BY <2>1, <2>4
    <3> QED BY <2>2, <3>1, <3>2 DEF Created
  <2> QED BY <2>3, <2>4
<1>2. CASE ~ \E a \in Adjudicators, t \in TaskIds, in \in Inputs : SubmitAdjudication(a, t, in)
  <2>1. credits' = credits
    BY <1>2, OtherEffect
  <2>2. \A t \in TaskIds : tasks'[t] = tasks[t] \/ Created(t) \/ Taken(t) \/ Cancelled(t)
    BY <1>2, OtherEffect
  <2>3. \A t \in TaskIds : tasks'[t].status = "completed" \/ tasks[t].status = "completed"
                             => tasks'[t] = tasks[t]
    BY <2>2 DEF Created, Taken, Cancelled, Open
  <2> QED BY <2>1, <2>3 DEF CreditsMatch
<1> QED BY <1>1, <1>2

-----------------------------------------------------------------------------
AInv == IInv /\ TasksAudited /\ DeterminationsAudited /\ CreditsMatch

(* The audited records start empty. *)
LEMMA AuditInit == ConstantsAssumption /\ Init => AInv
<1> SUFFICES ASSUME ConstantsAssumption, Init PROVE AInv
  OBVIOUS
<1>1. IInv
  BY InitIInv
<1>2. TasksAudited
  BY DEF Init, TasksAudited, CheckTaskState, Submitted, NoTask, TaskIds
<1>3. DeterminationsAudited
  BY DEF Init, DeterminationsAudited
<1>4. CreditsMatch
  BY DEF Init, CreditsMatch, NoTask
<1> QED BY <1>1, <1>2, <1>3, <1>4 DEF AInv

(* One request keeps everything the audit asks for. *)
LEMMA AuditStep == ConstantsAssumption /\ AInv /\ [Next]_vars => AInv'
<1> SUFFICES ASSUME ConstantsAssumption, AInv, [Next]_vars PROVE AInv'
  OBVIOUS
<1>1. IInv'
  BY IInvStep DEF AInv
<1> QED BY <1>1, TasksAuditedStep, DeterminationsAuditedStep, CreditsStep DEF AInv

(* AInv holds in every reachable state. *)
LEMMA Audited == Spec => []AInv
BY ConstantsAssumption, AuditInit, AuditStep, PTL DEF Spec

(* Whatever is requested, in whatever order, the registry's own audit finds no
   fault in its tasks, submissions and determinations (audit_registry).       *)
THEOREM AuditsPass == Spec => []AuditPasses
<1>1. AInv => AuditPasses
  BY DEF AInv, TasksAudited, DeterminationsAudited, AuditPasses
<1> QED BY <1>1, Audited, PTL

(* Work, its record and its credit go together (submit_adjudication): a task is
   completed exactly when its assignee's adjudication of it is stored, once, and
   exactly its assignee is credited with it.                                    *)
THEOREM WorkRecordedOnce == Spec => []WorkIsRecordedOnce
<1>1. AInv => WorkIsRecordedOnce
  <2> SUFFICES ASSUME AInv PROVE WorkIsRecordedOnce
    OBVIOUS
  <2>1. IInv /\ TasksAudited /\ CreditsMatch
    BY DEF AInv
  <2>2. ASSUME NEW t \in TaskIds
        PROVE  tasks[t].status = "completed" <=> \E i \in DOMAIN submissions[t.concern] : RowOf(t, i)
    <3>1. tasks[t].status = "completed" <=> Submitted(t)
      BY <2>1 DEF TasksAudited, CheckTaskState
    <3>2. \A i \in DOMAIN submissions[t.concern] :
             submissions[t.concern][i].slot = t.slot /\ submissions[t.concern][i].case = t.case
               => submissions[t.concern][i].adjudicator = tasks[t].assignee
      BY <2>1, SubmittedIsCompleted
    <3> QED BY <3>1, <3>2 DEF Submitted, RowOf
  <2>3. \A k \in Concerns : \A i, j \in DOMAIN submissions[k] :
          submissions[k][i].slot = submissions[k][j].slot => i = j
    BY <2>1 DEF IInv, RowsAreWork
  <2> QED BY <2>1, <2>2, <2>3 DEF WorkIsRecordedOnce, CreditsMatch
<1> QED BY <1>1, Audited, PTL

-----------------------------------------------------------------------------
(* A decision is final. *)

(* The two primaries of these rows disagree; a tie-break may have come. *)
Contested(rows) == Determine(rows).tieBreak \/ TieRows(rows) # {}

(* A tie-break task is there only because its primaries disagree. *)
TieTasksContested ==
    \A t \in TaskIds : t.slot = TieBreak /\ tasks[t].status # "absent"
                         => Contested(submissions[t.concern])

FInv == AInv /\ TieTasksContested /\ AppealsTraceable

-----------------------------------------------------------------------------
(* Tie-break tasks *)

(* One more row does not settle a contest, and only a tie-break can follow. *)
LEMMA ContestedStays ==
  ASSUME ConstantsAssumption, IInv,
         NEW a \in Adjudicators, NEW t \in TaskIds, NEW in \in Inputs,
         SubmitAdjudication(a, t, in), Contested(submissions[t.concern])
  PROVE  Contested(submissions'[t.concern])
<1> DEFINE old == submissions[t.concern]
           rows == Append(old, Row(a, t, in))
<1>1. t.concern \in Concerns /\ t.slot \in Slots /\ tasks[t].status = "claimed"
  BY DEF TaskIds, SubmitAdjudication
<1>2. /\ \A i \in DOMAIN old : i \in DOMAIN rows /\ rows[i] = old[i] /\ rows[i].slot # t.slot
      /\ Len(rows) \in DOMAIN rows /\ rows[Len(rows)] = Row(a, t, in)
  BY <1>1, AppendedRows
<1>3. submissions'[t.concern] = rows
  BY <1>1 DEF SubmitAdjudication, IInv, TypeOK
<1>4. old \in Seq(Submission) /\ OneRowPerSlot(old)
  BY <1>1 DEF IInv, TypeOK, RowsAreWork, OneRowPerSlot
<1>5. CASE TieRows(old) # {}
  BY <1>2, <1>3, <1>5 DEF TieRows, Contested
<1>6. CASE Determine(old).tieBreak
  <2>1. \A s \in PrimarySlots : \E i \in DOMAIN old : old[i].slot = s
    BY <1>4, <1>6, ContestedPrimaries, <1>1
  <2>2. t.slot = TieBreak
    BY <1>1, <1>2, <2>1 DEF Slots, PrimarySlots
  <2>3. Len(rows) \in TieRows(rows)
    BY <1>2, <2>2 DEF TieRows, Row
  <2> QED BY <1>3, <2>3 DEF Contested
<1> QED BY <1>5, <1>6 DEF Contested

(* Rows are added by submissions alone. *)
LEMMA RowsOfStep ==
  ASSUME [Next]_vars, NEW k \in Concerns, IInv
  PROVE  \/ submissions'[k] = submissions[k]
         \/ \E a \in Adjudicators, t \in TaskIds, in \in Inputs :
              t.concern = k /\ SubmitAdjudication(a, t, in)
<1>1. ASSUME NEW a \in Adjudicators, NEW t \in TaskIds, NEW in \in Inputs,
             SubmitAdjudication(a, t, in), t.concern # k
      PROVE  submissions'[k] = submissions[k]
  BY <1>1 DEF SubmitAdjudication, IInv, TypeOK
<1>2. CASE \E a \in Adjudicators, t \in TaskIds, in \in Inputs : SubmitAdjudication(a, t, in)
  BY <1>1, <1>2
<1>3. CASE ~ \E a \in Adjudicators, t \in TaskIds, in \in Inputs : SubmitAdjudication(a, t, in)
  <2>1. CASE Registration \/ Rights
    BY <2>1 DEF Registration, PutArtifact, RegisterCase, Rights, AddGrant, RevokeGrant,
                GrantLapses, reviewVars
  <2>2. CASE Review
    BY <1>3, <2>2 DEF Review, SeedTasks, ClaimTask, Submit
  <2>3. CASE Appeal \/ Qualification \/ UNCHANGED vars
    BY <2>3 DEF Appeal, CreateAppealRecord, Qualification, Qualify, QualificationLapses,
                reviewVars, vars
  <2> QED BY <2>1, <2>2, <2>3 DEF Next
<1> QED BY <1>2, <1>3

(* A tie-break task is opened by the submission that finds the contest. *)
LEMMA TieOpens ==
  ASSUME ConstantsAssumption, IInv, [Next]_vars, NEW t \in TaskIds, t.slot = TieBreak,
         tasks[t].status = "absent", tasks'[t].status # "absent"
  PROVE  Contested(submissions'[t.concern])
<1>1. ASSUME NEW a \in Adjudicators, NEW u \in TaskIds, NEW in \in Inputs,
             SubmitAdjudication(a, u, in)
      PROVE  Contested(submissions'[t.concern])
  <2> DEFINE rows == Append(submissions[u.concern], Row(a, u, in))
  <2>1. t # u /\ u.concern \in Concerns
    BY <1>1 DEF SubmitAdjudication, TaskIds
  <2>2. tasks'[t] = IF Opens(t, u, Recomputed(u, rows).result) THEN Pending ELSE tasks[t]
    BY <1>1, <2>1 DEF SubmitAdjudication
  <2>3. Opens(t, u, Recomputed(u, rows).result)
    BY <2>2
  <2>4. t = TieTask(u) /\ Determine(rows).tieBreak
    BY <2>3 DEF Opens, Recomputed
  <2>5. t.concern = u.concern
    BY <2>4 DEF TieTask, TaskIds
  <2>6. submissions'[u.concern] = rows
    BY <1>1, <2>1 DEF SubmitAdjudication, IInv, TypeOK
  <2> QED BY <2>4, <2>5, <2>6 DEF Contested
<1>2. ASSUME ~ \E a \in Adjudicators, u \in TaskIds, in \in Inputs : SubmitAdjudication(a, u, in)
      PROVE  FALSE
  <2>1. CASE Registration
    BY <2>1 DEF Registration, PutArtifact, RegisterCase, reviewVars
  <2>2. CASE Rights
    BY <2>2 DEF Rights, AddGrant, RevokeGrant, GrantLapses, Open, reviewVars
  <2>3. CASE Review
    <3>1. ASSUME NEW c \in Cases, NEW K \in SUBSET Concerns, SeedTasks(c, K) PROVE FALSE
      BY <3>1 DEF SeedTasks, PrimarySlots, Primary, Secondary, TieBreak
    <3>2. ASSUME NEW a \in Adjudicators, ClaimTask(a) PROVE FALSE
      <4>1. PICK u \in TaskIds : tasks[u].status = "pending"
                                 /\ \A v \in TaskIds \ {u} : tasks'[v] = tasks[v]
        BY <3>2, ClaimEffect
      <4> QED BY <4>1
    <3> QED BY <1>2, <2>3, <3>1, <3>2 DEF Review, Submit
  <2>4. CASE Appeal \/ Qualification \/ UNCHANGED vars
    BY <2>4 DEF Appeal, CreateAppealRecord, Qualification, Qualify, QualificationLapses,
                reviewVars, vars
  <2> QED BY <2>1, <2>2, <2>3, <2>4 DEF Next
<1> QED BY <1>1, <1>2

(* Whatever is requested, tie-break tasks stay beside a contest. *)
LEMMA TieTasksStep ==
  ASSUME ConstantsAssumption, IInv, TieTasksContested, [Next]_vars
  PROVE  TieTasksContested'
<1> SUFFICES ASSUME NEW t \in TaskIds, t.slot = TieBreak, tasks'[t].status # "absent"
             PROVE  Contested(submissions'[t.concern])
  BY DEF TieTasksContested, Contested
<1>1. CASE tasks[t].status = "absent"
  BY <1>1, TieOpens
<1>2. CASE tasks[t].status # "absent"
  <2>1. t.concern \in Concerns /\ Contested(submissions[t.concern])
    BY <1>2 DEF TieTasksContested, TaskIds
  <2>2. CASE submissions'[t.concern] = submissions[t.concern]
    BY <2>1, <2>2
  <2>3. ASSUME NEW a \in Adjudicators, NEW u \in TaskIds, NEW in \in Inputs,
               u.concern = t.concern, SubmitAdjudication(a, u, in)
        PROVE  Contested(submissions'[t.concern])
    BY <2>1, <2>3, ContestedStays
  <2> QED BY <2>1, <2>2, <2>3, RowsOfStep
<1> QED BY <1>1, <1>2

-----------------------------------------------------------------------------
(* Decisions *)

(* A decided concern has both primaries, and a tie-break if they disagree, so none
   of its tasks is open.                                                          *)
LEMMA DecidedIsDone == IInv /\ TieTasksContested => SettledMeansDone
<1> SUFFICES ASSUME IInv, TieTasksContested, NEW t \in TaskIds, DecidedK(t.concern), Open(t)
             PROVE  FALSE
  BY DEF SettledMeansDone
<1> DEFINE k == t.concern
           rows == submissions[k]
<1>1. k \in Concerns /\ t.slot \in Slots /\ tasks[t].status # "absent"
  BY DEF TaskIds, Open
<1>2. t.case = concernIndex[k]
  BY <1>1 DEF IInv, ConcernKeepsItsCase
<1>3. rows \in Seq(Submission) /\ OneRowPerSlot(rows)
  BY <1>1 DEF IInv, TypeOK, RowsAreWork, OneRowPerSlot
<1>4. Determine(rows).status # UnderReview
  BY <1>1 DEF DecidedK, IInv, DeterminationsCurrent
<1>5. TwoPrimaries(rows) /\ ~Determine(rows).tieBreak
  BY <1>3, <1>4, RowsWellFormed, DetermineResult
<1>6. \A i \in DOMAIN rows : rows[i].slot # t.slot
  <2> SUFFICES ASSUME NEW i \in DOMAIN rows, rows[i].slot = t.slot PROVE FALSE
    OBVIOUS
  <2>1. rows[i].case = t.case
    BY <1>1, <1>2 DEF IInv, ConcernKeepsItsCase
  <2>2. tasks[t].status = "completed"
    BY <2>1, SubmittedIsCompleted
  <2> QED BY <2>2 DEF Open
<1>7. t.slot = TieBreak
  <2>1. PICK i, j \in PrimaryRows(rows) : i # j
    BY <1>5 DEF TwoPrimaries
  <2>2. rows[i].slot # rows[j].slot /\ rows[i].slot \in PrimarySlots /\ rows[j].slot \in PrimarySlots
    BY <1>3, <2>1 DEF OneRowPerSlot, PrimaryRows
  <2> QED BY <1>1, <1>6, <2>1, <2>2 DEF PrimaryRows, PrimarySlots, Slots
<1>8. TieRows(rows) # {}
  BY <1>1, <1>5, <1>7 DEF TieTasksContested, Contested
<1> QED BY <1>6, <1>7, <1>8 DEF TieRows

(* Nothing recomputes a determination that decided. *)
LEMMA DecidedStep ==
  ASSUME ConstantsAssumption, IInv, TieTasksContested, [Next]_vars,
         NEW k \in Concerns, DecidedK(k)
  PROVE  determinations'[k] = determinations[k]
<1>1. CASE \E a \in Adjudicators, t \in TaskIds, in \in Inputs : SubmitAdjudication(a, t, in)
  <2>1. PICK a \in Adjudicators, t \in TaskIds, in \in Inputs : SubmitAdjudication(a, t, in)
    BY <1>1
  <2>2. Open(t)
    BY <2>1 DEF SubmitAdjudication, Open
  <2>3. t.concern # k
    BY <2>2, DecidedIsDone DEF SettledMeansDone
  <2> QED BY <2>1, <2>3, SubmitEffect
<1>2. CASE ~ \E a \in Adjudicators, t \in TaskIds, in \in Inputs : SubmitAdjudication(a, t, in)
  BY <1>2, OtherEffect
<1> QED BY <1>1, <1>2

-----------------------------------------------------------------------------
(* Appeals *)

(* What an appeal refers to is never removed, and a new one refers to what is there. *)
LEMMA AppealsStep ==
  ASSUME ConstantsAssumption, IInv, IInv', AppealsTraceable, [Next]_vars
  PROVE  AppealsTraceable'
<1>1. OnlyAppended
  BY AppendOnlyStep
<1>2. appeals \in Seq(AppealRow) /\ appeals' \in Seq(AppealRow)
  BY DEF IInv, TypeOK
<1>3. /\ Len(appeals) \in Nat /\ Len(appeals') \in Nat
      /\ DOMAIN appeals = 1 .. Len(appeals) /\ DOMAIN appeals' = 1 .. Len(appeals')
      /\ \A i \in DOMAIN appeals : appeals[i] \in AppealRow
  BY <1>2, LenProperties, ElementOfSeq
<1>4. /\ \A i \in DOMAIN appeals : i \in DOMAIN appeals' /\ appeals'[i] = appeals[i]
      /\ \A k \in Concerns : DOMAIN determinations[k] \subseteq DOMAIN determinations'[k]
  <2>1. \A k \in Concerns :
          /\ determinations[k] \in Seq(DeterminationRow)
          /\ determinations'[k] \in Seq(DeterminationRow)
    BY DEF IInv, TypeOK
  <2>2. \A k \in Concerns :
          /\ Len(determinations[k]) \in Nat /\ Len(determinations'[k]) \in Nat
          /\ DOMAIN determinations[k] = 1 .. Len(determinations[k])
          /\ DOMAIN determinations'[k] = 1 .. Len(determinations'[k])
    BY <2>1, LenProperties
  <2> QED BY <1>1, <1>3, <2>2 DEF OnlyAppended, Extends
<1>5. CASE appeals' = appeals
  BY <1>3, <1>4, <1>5 DEF AppealsTraceable, AppealRow
<1>6. ASSUME NEW k \in Concerns, NEW p \in 0 .. MaxAppeals, NEW d \in DOMAIN determinations[k],
             CreateAppealRecord(k, d, p)
      PROVE  AppealsTraceable'
  <2> DEFINE new == [concern |-> k, determination |-> d, predecessor |-> p]
  <2>1. appeals' = Append(appeals, new) /\ determinations' = determinations
    BY <1>6 DEF CreateAppealRecord, reviewVars
  <2>2. /\ DOMAIN appeals' = DOMAIN appeals \cup {Len(appeals) + 1}
        /\ appeals'[Len(appeals) + 1] = new
    BY <1>2, <1>3, <2>1
  <2>3. p # 0 => p \in DOMAIN appeals /\ p < Len(appeals) + 1 /\ appeals'[p].concern = k
    BY <1>3, <1>4, <1>6 DEF CreateAppealRecord
  <2>4. ASSUME NEW i \in DOMAIN appeals'
        PROVE  /\ appeals'[i].determination \in DOMAIN determinations'[appeals'[i].concern]
               /\ appeals'[i].predecessor # 0 =>
                    /\ appeals'[i].predecessor < i
                    /\ appeals'[appeals'[i].predecessor].concern = appeals'[i].concern
    <3>1. CASE i \in DOMAIN appeals
      <4>1. appeals'[i] = appeals[i] /\ appeals[i] \in AppealRow
        BY <1>3, <1>4, <3>1
      <4>2. appeals[i].predecessor # 0 =>
              appeals[i].predecessor \in DOMAIN appeals
        BY <1>3, <3>1, <4>1 DEF AppealsTraceable, AppealRow
      <4> QED BY <1>4, <2>1, <3>1, <4>1, <4>2 DEF AppealsTraceable
    <3>2. CASE i = Len(appeals) + 1
      BY <2>1, <2>2, <2>3, <3>2
    <3> QED BY <2>2, <3>1, <3>2
  <2> QED BY <2>4 DEF AppealsTraceable
<1>7. CASE Appeal
  BY <1>6, <1>7 DEF Appeal
<1>8. CASE ~Appeal
  <2>1. appeals' = appeals
    BY <1>8 DEF Next, Registration, PutArtifact, RegisterCase, Rights, AddGrant, RevokeGrant,
                GrantLapses, Review, SeedTasks, ClaimTask, Submit, SubmitAdjudication,
                Qualification, Qualify, QualificationLapses, vars
  <2> QED BY <1>5, <2>1
<1> QED BY <1>7, <1>8

-----------------------------------------------------------------------------
LEMMA FinalInit == ConstantsAssumption /\ Init => FInv
<1> SUFFICES ASSUME ConstantsAssumption, Init PROVE FInv
  OBVIOUS
<1>1. TieTasksContested
  BY DEF Init, NoTask, TieTasksContested
<1>2. AppealsTraceable
  BY DEF Init, AppealsTraceable
<1> QED BY <1>1, <1>2, AuditInit DEF FInv

LEMMA FinalStep == ConstantsAssumption /\ FInv /\ [Next]_vars => FInv'
<1> SUFFICES ASSUME ConstantsAssumption, FInv, [Next]_vars PROVE FInv'
  OBVIOUS
<1>1. AInv'
  BY AuditStep DEF FInv
<1> QED BY <1>1, TieTasksStep, AppealsStep DEF FInv, AInv

LEMMA Final == Spec => []FInv
BY ConstantsAssumption, FinalInit, FinalStep, PTL DEF Spec

(* No expert works on a settled question: a decided concern has no pending or
   claimed task, a tie-break task included (_recompute_determination, claim_task). *)
THEOREM SettledIsDone == Spec => []SettledMeansDone
<1>1. FInv => SettledMeansDone
  BY DecidedIsDone DEF FInv, AInv
<1> QED BY <1>1, Final, PTL

(* A decision is never revised, whatever is submitted, revoked or appealed later. *)
THEOREM DecisionsAreFinal == Spec => DecidedStaysDecided
<1> DEFINE Kept == \A k \in Concerns : DecidedK(k) => DecidedK(k)' /\ Latest(k)'.result = Latest(k).result
<1>1. ConstantsAssumption /\ FInv /\ [Next]_vars => [Kept]_vars
  <2> SUFFICES ASSUME ConstantsAssumption, FInv, [Next]_vars, NEW k \in Concerns, DecidedK(k)
               PROVE  DecidedK(k)' /\ Latest(k)'.result = Latest(k).result
    OBVIOUS
  <2>1. determinations'[k] = determinations[k]
    BY DecidedStep DEF FInv, AInv
  <2> QED BY <2>1 DEF DecidedK, Latest
<1> QED BY <1>1, ConstantsAssumption, Final, PTL DEF Spec, DecidedStaysDecided

(* Every appeal names a determination of its concern, and its predecessors lead to
   older appeals of that concern (create_appeal_record).                          *)
THEOREM AppealsCanBeTraced == Spec => []AppealsTraceable
<1>1. FInv => AppealsTraceable
  BY DEF FInv
<1> QED BY <1>1, Final, PTL
=============================================================================
