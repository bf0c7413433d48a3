------------------------- MODULE AdjudicationTxProofs -------------------------
(***************************************************************************)
(* Theorems about concurrent requests in AdjudicationTx, for any number of *)
(* requests in flight, adjudicators and grants.                            *)
(*                                                                         *)
(* On both databases the tables and locks are well formed (Typed).  On     *)
(* SQLite the write lock keeps the determination up to date (SqliteInv).   *)
(* On PostgreSQL the row locks (LockInv) make a revocation stop the        *)
(* reviews, if revocations come one after the other (RevokeInv), and, as   *)
(* long as one grant stays, make claims final and keep work and tasks      *)
(* together (PgInv); if everybody also awaits their answers, reviewers     *)
(* stay apart and every commit is a step of IndependentReview (ApartInv).  *)
(***************************************************************************)
EXTENDS AdjudicationTx, DeterminationProofs

Claiming   == {"looking", "siblings", "taking"}
Submitting == {"rights", "flushing", "deciding", "committing"}
Revoking   == {"revoking", "counting", "cancelling"}

(* A submission is in its place. *)
Tables  == {R \in [Slots -> Row \cup {NoRow}] : \A s \in Slots : R[s] # NoRow => R[s].slot = s}
Results == {Waiting} \cup {Determine(RowsOf(R)) : R \in Tables}
Request == [pc : {"idle"} \cup Claiming \cup Submitting \cup Revoking,
            who : Adjudicators \cup {Nobody}, slot : Slots \cup {NoSlot},
            seen : SUBSET Slots, got : SUBSET Slots, left : SUBSET Slots,
            row : Row \cup Grants \cup {NoRow}, result : Results]

(* A request knows its task, and what it is going to write. *)
Sensible(q) ==
    /\ q.pc = "idle" => q = Idle
    /\ q.pc \in {"siblings", "taking"} => q.slot \in Slots
    /\ q.pc \in Submitting => q.slot \in Slots /\ q.row \in Row /\ q.row.slot = q.slot
    /\ q.pc \in Revoking => q.row \in Revocable

Exclusive == \A q, r \in Requests : q # r => held[q] \cap held[r] = {}
Released  == \A r \in Requests : request[r].pc = "idle" => held[r] = {}

Typed ==
    /\ tasks \in [Slots -> TaskRow]
    /\ rows \in Tables
    /\ determination \in Results \cup {NoRow}
    /\ revoked \subseteq Revocable
    /\ request \in [Requests -> Request]
    /\ held \in [Requests -> SUBSET Locks]
    /\ \A r \in Requests : Sensible(request[r])
    /\ Exclusive /\ Released

-----------------------------------------------------------------------------
(* The policy is fed with each stored adjudication once. *)

(* The list x holds the rows that the table R has of the slots S, one per slot. *)
Files(x, R, S) ==
    /\ x \in Seq(Row)
    /\ \A i \in DOMAIN x : x[i].slot \in S /\ x[i] = R[x[i].slot] /\ R[x[i].slot] # NoRow
    /\ \A i, j \in DOMAIN x : x[i].slot = x[j].slot => i = j
    /\ \A s \in S : R[s] # NoRow => \E i \in DOMAIN x : x[i] = R[s]

LEMMA FilesConcat ==
  ASSUME NEW R, NEW S, NEW T, S \cap T = {}, NEW x, NEW y, Files(x, R, S), Files(y, R, T)
  PROVE  Files(x \o y, R, S \cup T)
<1> DEFINE z == x \o y
<1>1. x \in Seq(Row) /\ y \in Seq(Row)
  BY DEF Files
<1>2. z \in Seq(Row) /\ Len(z) = Len(x) + Len(y)
      /\ \A i \in 1 .. Len(z) : z[i] = IF i <= Len(x) THEN x[i] ELSE y[i - Len(x)]
  BY <1>1
<1>3. DOMAIN x = 1 .. Len(x) /\ DOMAIN y = 1 .. Len(y) /\ DOMAIN z = 1 .. Len(z)
      /\ Len(x) \in Nat /\ Len(y) \in Nat
  BY <1>1, <1>2
<1> HIDE DEF z
<1>4. \A i \in DOMAIN z : \/ i \in DOMAIN x /\ z[i] = x[i]
                          \/ i - Len(x) \in DOMAIN y /\ z[i] = y[i - Len(x)]
  BY <1>2, <1>3
<1>5. /\ \A i \in DOMAIN x : i \in DOMAIN z /\ z[i] = x[i]
      /\ \A i \in DOMAIN y : i + Len(x) \in DOMAIN z /\ z[i + Len(x)] = y[i]
  BY <1>2, <1>3
<1>6. ASSUME NEW i \in DOMAIN z PROVE z[i].slot \in S \cup T /\ z[i] = R[z[i].slot] /\ R[z[i].slot] # NoRow
  BY <1>4 DEF Files
<1>7. ASSUME NEW i \in DOMAIN z, NEW j \in DOMAIN z, z[i].slot = z[j].slot PROVE i = j
  <2>1. CASE i \in DOMAIN x /\ j \in DOMAIN x /\ z[i] = x[i] /\ z[j] = x[j]
    BY <1>7, <2>1 DEF Files
  <2>2. CASE i - Len(x) \in DOMAIN y /\ j - Len(x) \in DOMAIN y /\ z[i] = y[i - Len(x)] /\ z[j] = y[j - Len(x)]
    <3>1. i - Len(x) = j - Len(x)
      BY <1>7, <2>2 DEF Files
    <3> QED BY <1>3, <3>1
  <2>3. ASSUME NEW k \in DOMAIN x, NEW l \in DOMAIN y PROVE x[k].slot # y[l].slot
    BY DEF Files
  <2> QED BY <1>4, <1>7, <2>1, <2>2, <2>3
<1>8. ASSUME NEW s \in S \cup T, R[s] # NoRow PROVE \E i \in DOMAIN z : z[i] = R[s]
  <2>1. CASE s \in S
    BY <1>5, <1>8, <2>1 DEF Files
  <2>2. CASE s \in T
    BY <1>5, <1>8, <2>2 DEF Files
  <2> QED BY <2>1, <2>2
<1> QED BY <1>2, <1>6, <1>7, <1>8 DEF Files, z

(* What the policy is fed: each stored adjudication once. *)
LEMMA RowsFiled == ASSUME NEW R \in Tables PROVE Files(RowsOf(R), R, Slots)
<1> DEFINE Filed(s) == IF R[s] = NoRow THEN <<>> ELSE <<R[s]>>
<1>1. ASSUME NEW s \in Slots PROVE Files(Filed(s), R, {s})
  <2>1. CASE R[s] = NoRow
    BY <2>1 DEF Files
  <2>2. CASE R[s] # NoRow
    <3>1. R[s] \in Row /\ R[s].slot = s
      BY <2>2 DEF Tables
    <3>2. Filed(s) = <<R[s]>> /\ <<R[s]>> \in Seq(Row) /\ DOMAIN <<R[s]>> = {1} /\ <<R[s]>>[1] = R[s]
      BY <2>2, <3>1
    <3> QED BY <2>2, <3>1, <3>2 DEF Files
  <2> QED BY <2>1, <2>2
<1>2. Files(Filed(Primary) \o Filed(Secondary), R, {Primary} \cup {Secondary})
  BY <1>1, FilesConcat DEF Slots, Primary, Secondary
<1>3. Files((Filed(Primary) \o Filed(Secondary)) \o Filed(TieBreak), R, ({Primary} \cup {Secondary}) \cup {TieBreak})
  BY <1>1, <1>2, FilesConcat DEF Slots, Primary, Secondary, TieBreak
<1>4. ({Primary} \cup {Secondary}) \cup {TieBreak} = Slots
  BY DEF Slots
<1> QED BY <1>3, <1>4 DEF RowsOf

LEMMA PolicyFed ==
  ASSUME NEW R \in Tables
  PROVE  /\ WellFormed(RowsOf(R)) /\ OneRowPerSlot(RowsOf(R))
         /\ TwoPrimaries(RowsOf(R)) <=> R[Primary] # NoRow /\ R[Secondary] # NoRow
         /\ TieRows(RowsOf(R)) = {} <=> R[TieBreak] = NoRow
<1> DEFINE x == RowsOf(R)
<1>1. Files(x, R, Slots) /\ DOMAIN x \subseteq Nat /\ \A i \in DOMAIN x : x[i] \in Row
  BY RowsFiled DEF Files
<1> HIDE DEF x
<1>2. WellFormed(x) /\ OneRowPerSlot(x)
  BY <1>1 DEF WellFormed, OneRowPerSlot, Files, Row
<1>3. \A s \in Slots : R[s] # NoRow => R[s].slot = s
  BY DEF Tables
<1>4. TwoPrimaries(x) => R[Primary] # NoRow /\ R[Secondary] # NoRow
  <2> SUFFICES ASSUME NEW i \in PrimaryRows(x), NEW j \in PrimaryRows(x), i # j
               PROVE  R[Primary] # NoRow /\ R[Secondary] # NoRow
    BY DEF TwoPrimaries
  <2>1. x[i].slot # x[j].slot /\ x[i].slot \in PrimarySlots /\ x[j].slot \in PrimarySlots
    BY <1>2 DEF PrimaryRows, OneRowPerSlot
  <2>2. R[x[i].slot] # NoRow /\ R[x[j].slot] # NoRow
    BY <1>1 DEF Files, PrimaryRows
  <2> QED BY <2>1, <2>2 DEF PrimarySlots
<1>5. ASSUME R[Primary] # NoRow, R[Secondary] # NoRow PROVE TwoPrimaries(x)
  <2>1. PICK i \in DOMAIN x : x[i] = R[Primary]
    BY <1>1, <1>5 DEF Files, Slots
  <2>2. PICK j \in DOMAIN x : x[j] = R[Secondary]
    BY <1>1, <1>5 DEF Files, Slots
  <2>3. x[i].slot = Primary /\ x[j].slot = Secondary
    BY <1>3, <1>5, <2>1, <2>2 DEF Slots
  <2> QED BY <2>3 DEF TwoPrimaries, PrimaryRows, PrimarySlots, Primary, Secondary
<1>6. TieRows(x) = {} <=> R[TieBreak] = NoRow
  <2>1. ASSUME NEW i \in TieRows(x) PROVE R[TieBreak] # NoRow
    BY <1>1 DEF Files, TieRows
  <2>2. ASSUME R[TieBreak] # NoRow PROVE TieRows(x) # {}
    <3>1. PICK i \in DOMAIN x : x[i] = R[TieBreak]
      BY <1>1, <2>2 DEF Files, Slots
    <3> QED BY <1>3, <2>2, <3>1 DEF TieRows, Slots
  <2> QED BY <2>1, <2>2
<1> QED BY <1>2, <1>4, <1>5, <1>6 DEF x

(* determination.py: a critical classification that the other primary does not share
   calls for a tie-break, unless there is one. *)
LEMMA ContestedAsksForTieBreak ==
  ASSUME NEW R \in Tables, R[Primary] # NoRow, R[Secondary] # NoRow, R[TieBreak] = NoRow,
         R[Primary].severity # R[Secondary].severity,
         Critical \in {R[Primary].severity, R[Secondary].severity}
  PROVE  Determine(RowsOf(R)).tieBreak
<1> DEFINE x == RowsOf(R)
           l == x[FirstPrimary(x)]
           r == x[SecondPrimary(x)]
<1>1. TwoPrimaries(x) /\ TieRows(x) = {}
  BY PolicyFed
<1>2. Determine(x) = Reconcile(l, r, x)
  BY <1>1 DEF Determine, FirstPrimary, SecondPrimary
<1>3. {l, r} = {R[Primary], R[Secondary]}
  <2>1. /\ FirstPrimary(x) \in PrimaryRows(x) /\ SecondPrimary(x) \in PrimaryRows(x)
        /\ FirstPrimary(x) # SecondPrimary(x)
    BY <1>1, PolicyFed, PrimariesChosen
  <2>2. l.slot \in PrimarySlots /\ r.slot \in PrimarySlots /\ l.slot # r.slot
    BY <2>1, PolicyFed DEF PrimaryRows, OneRowPerSlot
  <2>3. l = R[l.slot] /\ r = R[r.slot]
    BY <2>1, RowsFiled DEF Files, PrimaryRows
  <2> HIDE DEF l, r
  <2>4. \/ l.slot = Primary /\ r.slot = Secondary
        \/ l.slot = Secondary /\ r.slot = Primary
    BY <2>2 DEF PrimarySlots
  <2> QED BY <2>3, <2>4
<1> HIDE DEF l, r, x
<1>4. l.severity # r.severity /\ Critical \in {l.severity, r.severity}
  BY <1>3
<1>5. SeverityFromTwo(l.severity, r.severity).tie
  BY <1>4 DEF SeverityFromTwo
<1> QED BY <1>1, <1>2, <1>5 DEF Reconcile, x

LEMMA ResultTypes == Results \subseteq PolicyResult
<1>1. Waiting \in PolicyResult
  BY DEF Waiting, PolicyResult, UnderReview, NoSeverity
<1>2. \A R \in Tables : Determine(RowsOf(R)) \in PolicyResult
  BY PolicyFed, DetermineResult
<1> QED BY <1>1, <1>2 DEF Results

-----------------------------------------------------------------------------
(* One step changes one request and its locks. *)

Moves(r, new, locks) ==
    /\ request' = [request EXCEPT ![r] = new]
    /\ held' = [held EXCEPT ![r] = locks]

(* Such a step keeps the requests typed and the locks exclusive, provided it
   gives up locks or takes some that are free.                              *)
Orderly(r) ==
    \E new \in Request, locks \in SUBSET Locks :
        /\ Moves(r, new, locks)
        /\ Sensible(new)
        /\ new.pc = "idle" => locks = {}
        /\ \A q \in Requests \ {r} : held[q] \cap locks = {}

LEMMA OrderlyTyped ==
  ASSUME Typed, NEW r \in Requests, Orderly(r)
  PROVE  /\ request' \in [Requests -> Request] /\ held' \in [Requests -> SUBSET Locks]
         /\ \A q \in Requests : Sensible(request'[q])
         /\ Exclusive' /\ Released'
<1>1. PICK new \in Request, locks \in SUBSET Locks :
        /\ Moves(r, new, locks)
        /\ Sensible(new)
        /\ new.pc = "idle" => locks = {}
        /\ \A q \in Requests \ {r} : held[q] \cap locks = {}
  BY DEF Orderly
<1>2. request' \in [Requests -> Request] /\ held' \in [Requests -> SUBSET Locks]
  BY <1>1 DEF Typed, Moves
<1>3. /\ request'[r] = new /\ held'[r] = locks
      /\ \A q \in Requests \ {r} : request'[q] = request[q] /\ held'[q] = held[q]
  BY <1>1 DEF Typed, Moves
<1>4. \A q \in Requests : Sensible(request'[q])
  BY <1>1, <1>3 DEF Typed
<1>5. Exclusive' /\ Released'
  BY <1>1, <1>3 DEF Typed, Exclusive, Released
<1> QED BY <1>2, <1>4, <1>5

(* The request that is not there. *)
LEMMA IdleRequest == Idle \in Request /\ Idle.pc = "idle" /\ Idle.who = Nobody
BY DEF Idle, Request, Results

LEMMA FinishOrderly ==
  ASSUME Typed, NEW r \in Requests, NEW pc, Finish(r, pc)
  PROVE  Orderly(r)
<1>1. Moves(r, Idle, {})
  BY DEF Finish, Step, Moves
<1> QED BY <1>1, IdleRequest DEF Orderly, Sensible, Submitting, Revoking, Idle

(* A step that neither takes locks nor drops any. *)
LEMMA StepOrderly ==
  ASSUME Typed, NEW r \in Requests, NEW pc, NEW new \in Request, Step(r, pc, new), UNCHANGED held,
         Sensible(new), new.pc # "idle"
  PROVE  Orderly(r)
<1>1. Moves(r, new, held[r]) /\ held[r] \in SUBSET Locks
  BY DEF Step, Moves, Typed
<1>2. \A q \in Requests \ {r} : held[q] \cap held[r] = {}
  BY DEF Typed, Exclusive
<1> QED BY <1>1, <1>2 DEF Orderly

(* A step that takes a lock that is free. *)
LEMMA LockOrderly ==
  ASSUME Typed, NEW r \in Requests, NEW pc, NEW new \in Request, Step(r, pc, new),
         NEW x \in Slots \cup Grants, Free(r, x), held' = [held EXCEPT ![r] = @ \cup {LockOf(x)}],
         Sensible(new), new.pc # "idle"
  PROVE  Orderly(r)
<1>1. Moves(r, new, held[r] \cup {LockOf(x)})
  BY DEF Step, Moves, Typed
<1>2. held[r] \cup {LockOf(x)} \in SUBSET Locks
  BY DEF Typed, Locks, LockOf
<1>3. \A q \in Requests \ {r} : held[q] \cap (held[r] \cup {LockOf(x)}) = {}
  BY DEF Typed, Exclusive, Free
<1> QED BY <1>1, <1>2, <1>3 DEF Orderly

(* What a request that is there looks like. *)
LEMMA RequestFields ==
  ASSUME Typed, NEW r \in Requests
  PROVE  /\ request[r] \in Request /\ held[r] \in SUBSET Locks
         /\ request[r].seen \subseteq Slots /\ request[r].got \subseteq Slots
         /\ request[r].left \subseteq Slots
BY DEF Typed, Request

LEMMA BeginOrderly ==
  ASSUME TxAssumption, Typed, NEW r \in Requests, Begin(r)
  PROVE  Orderly(r)
<1>1. ASSUME NEW a \in Adjudicators, BeginClaim(r, a) PROVE Orderly(r)
  <2> DEFINE pending == {s \in Slots : tasks[s].status = "pending"}
             loaded == IF RowLocks THEN {} ELSE pending
             new == [Idle EXCEPT !.pc = "looking", !.who = a, !.seen = pending \ loaded,
                                 !.got = loaded, !.left = loaded]
  <2>1. pending \in SUBSET Slots /\ loaded \in SUBSET Slots /\ pending \ loaded \in SUBSET Slots
    OBVIOUS
  <2>2. new \in Request /\ new.pc = "looking"
    <3> HIDE DEF pending, loaded
    <3> QED BY <2>1 DEF Idle, Request, Results, Claiming
  <2>3. Step(r, "idle", new) /\ UNCHANGED held
    BY <1>1 DEF BeginClaim
  <2> HIDE DEF new
  <2> QED BY <2>2, <2>3, StepOrderly DEF Sensible, Submitting, Revoking
<1>2. ASSUME NEW a \in Adjudicators, NEW s \in Slots, NEW d \in Decisions, BeginSubmit(r, a, s, d)
      PROVE  Orderly(r)
  <2> DEFINE row == [slot |-> s, validity |-> d.validity, severity |-> d.severity, adjudicator |-> a]
             new == [Idle EXCEPT !.pc = "rights", !.who = a, !.slot = s, !.row = row]
  <2>1. row \in Row /\ row.slot = s
    BY DEF Row, TxAssumption
  <2>2. new \in Request /\ new.pc = "rights" /\ new.slot = s /\ new.row = row
    <3> HIDE DEF row
    <3> QED BY <2>1 DEF Idle, Request, Results, Submitting
  <2>3. Step(r, "idle", new) /\ UNCHANGED held
    BY <1>2 DEF BeginSubmit
  <2> HIDE DEF new, row
  <2> QED BY <2>1, <2>2, <2>3, StepOrderly DEF Sensible, Revoking
<1>3. ASSUME NEW g \in Revocable, BeginRevoke(r, g) PROVE Orderly(r)
  <2> DEFINE new == [Idle EXCEPT !.pc = "revoking", !.row = g]
  <2>1. new \in Request /\ new.pc = "revoking"
    BY DEF Idle, Request, Results, Revoking, TxAssumption
  <2>2. Step(r, "idle", new) /\ UNCHANGED held
    BY <1>3 DEF BeginRevoke
  <2>3. new.row = g
    BY DEF Idle
  <2> HIDE DEF new
  <2> QED BY <2>1, <2>2, <2>3, StepOrderly DEF Sensible, Submitting
<1> QED BY <1>1, <1>2, <1>3 DEF Begin

LEMMA ClaimOrderly ==
  ASSUME Typed, NEW r \in Requests, Claim(r)
  PROVE  Orderly(r)
<1> DEFINE q == request[r]
<1>0. q \in Request
  BY RequestFields
<1>1. CASE LockCandidate(r)
  <2>1. PICK s \in Slots : LockCandidate(r)!(s)
    BY <1>1 DEF LockCandidate
  <2> DEFINE rest == [q EXCEPT !.seen = @ \ {s}]
             more == [rest EXCEPT !.got = @ \cup {s}, !.left = @ \cup {s}]
  <2>2. rest \in Request /\ more \in Request /\ rest.pc = q.pc /\ more.pc = q.pc
    BY <1>0 DEF Request
  <2>3. q.pc = "looking"
    BY <2>1 DEF Step, At
  <2>4. \/ Step(r, "looking", more) /\ Free(r, s) /\ held' = [held EXCEPT ![r] = @ \cup {LockOf(s)}]
        \/ Step(r, "looking", rest) /\ UNCHANGED held
    BY <2>1 DEF Lockable
  <2> HIDE DEF more, rest
  <2> QED BY <2>2, <2>3, <2>4, LockOrderly, StepOrderly DEF Sensible, Submitting, Revoking
<1>2. CASE NoCandidate(r)
  BY <1>2, FinishOrderly DEF NoCandidate
<1>3. CASE ClaimRights(r)
  <2>1. PICK s \in Slots : ClaimRights(r)!(s)
    BY <1>3 DEF ClaimRights
  <2> DEFINE go == [q EXCEPT !.pc = "siblings", !.slot = s]
             skip == [q EXCEPT !.left = @ \ {s}]
  <2>2. /\ go \in Request /\ go.pc = "siblings" /\ go.slot = s
        /\ skip \in Request /\ skip.pc = q.pc
    BY <1>0 DEF Request, Claiming
  <2>3. Step(r, "looking", go) \/ Step(r, "looking", skip)
    BY <2>1
  <2>4. q.pc = "looking" /\ UNCHANGED held
    BY <2>1 DEF Step, At
  <2> HIDE DEF go, skip
  <2> QED BY <2>2, <2>3, <2>4, StepOrderly DEF Sensible, Submitting, Revoking
<1>4. CASE Siblings(r)
  <2> DEFINE skip == [q EXCEPT !.pc = "looking", !.left = @ \ {q.slot}]
             go == [q EXCEPT !.pc = "taking"]
  <2>1. /\ go \in Request /\ go.pc = "taking" /\ go.slot = q.slot
        /\ skip \in Request /\ skip.pc = "looking"
    BY <1>0 DEF Request, Claiming
  <2>2. Step(r, "siblings", go) \/ Step(r, "siblings", skip)
    BY <1>4 DEF Siblings
  <2>3. q.slot \in Slots /\ UNCHANGED held
    BY <1>4 DEF Siblings, Step, At, Typed, Sensible
  <2> HIDE DEF go, skip
  <2> QED BY <2>1, <2>2, <2>3, StepOrderly DEF Sensible, Submitting, Revoking
<1>5. CASE Take(r)
  BY <1>5, FinishOrderly DEF Take
<1> QED BY <1>1, <1>2, <1>3, <1>4, <1>5 DEF Claim

LEMMA SubmitOrderly ==
  ASSUME Typed, NEW r \in Requests, Submit(r)
  PROVE  Orderly(r)
<1> DEFINE q == request[r]
<1>0. q \in Request
  BY RequestFields
<1>1. q.slot \in Slots /\ q.row \in Row /\ q.row.slot = q.slot
  BY DEF Submit, SubmitRights, Flush, Decide, Commit, Finish, Step, At, Typed, Sensible, Submitting
<1>2. CASE SubmitRights(r)
  <2> DEFINE new == [q EXCEPT !.pc = "flushing"]
  <2>1. new \in Request /\ new.slot = q.slot /\ new.row = q.row /\ new.pc = "flushing"
    BY <1>0 DEF Request, Submitting
  <2>2. Finish(r, "rights") \/ (Step(r, "rights", new) /\ UNCHANGED held)
    BY <1>2 DEF SubmitRights
  <2> HIDE DEF new
  <2> QED BY <1>1, <2>1, <2>2, FinishOrderly, StepOrderly DEF Sensible, Revoking
<1>3. CASE Flush(r)
  <2> DEFINE new == [q EXCEPT !.pc = "deciding"]
  <2>1. new \in Request /\ new.slot = q.slot /\ new.row = q.row /\ new.pc = "deciding"
    BY <1>0 DEF Request, Submitting
  <2>2. \/ Finish(r, "flushing")
        \/ /\ Step(r, "flushing", new) /\ Free(r, q.slot)
           /\ held' = [held EXCEPT ![r] = @ \cup {LockOf(q.slot)}]
    BY <1>3 DEF Flush
  <2> HIDE DEF new
  <2> QED BY <1>1, <2>1, <2>2, FinishOrderly, LockOrderly DEF Sensible, Revoking
<1>4. CASE Decide(r)
  <2> DEFINE new == [q EXCEPT !.pc = "committing", !.result = Determine(RowsOf(Visible(r)))]
  <2>1. Visible(r) \in Tables
    BY <1>1 DEF Visible, Tables, Typed
  <2>2. Determine(RowsOf(Visible(r))) \in Results
    BY <2>1 DEF Results
  <2>3. new \in Request /\ new.slot = q.slot /\ new.row = q.row /\ new.pc = "committing"
    BY <1>0, <2>2 DEF Request, Submitting
  <2>4. Step(r, "deciding", new) /\ UNCHANGED held
    BY <1>4 DEF Decide
  <2> HIDE DEF new
  <2> QED BY <1>1, <2>3, <2>4, StepOrderly DEF Sensible, Revoking
<1>5. CASE Commit(r)
  BY <1>5, FinishOrderly DEF Commit
<1> QED BY <1>2, <1>3, <1>4, <1>5 DEF Submit

LEMMA RevokeOrderly ==
  ASSUME TxAssumption, Typed, NEW r \in Requests, Revoke(r)
  PROVE  Orderly(r)
<1> DEFINE q == request[r]
<1>0. q \in Request
  BY RequestFields
<1>1. q.row \in Revocable /\ q.row \in Grants
  BY TxAssumption DEF Revoke, FlushRevoke, CountGrants, LockOpen, Cancel, Finish, Step, At, Typed, Sensible, Revoking
<1>2. CASE FlushRevoke(r)
  <2> DEFINE new == [q EXCEPT !.pc = "counting"]
  <2>1. new \in Request /\ new.row = q.row /\ new.pc = "counting"
    BY <1>0 DEF Request, Revoking
  <2>2. /\ Step(r, "revoking", new) /\ Free(r, q.row)
        /\ held' = [held EXCEPT ![r] = @ \cup {LockOf(q.row)}]
    BY <1>2 DEF FlushRevoke
  <2> HIDE DEF new
  <2> QED BY <1>1, <2>1, <2>2, LockOrderly DEF Sensible, Submitting
<1>3. CASE CountGrants(r)
  <2> DEFINE open == IF revoked \cup {q.row} = Grants THEN OpenTasks ELSE {}
             new == [q EXCEPT !.pc = "cancelling", !.seen = open]
  <2>1. open \in SUBSET Slots
    BY DEF OpenTasks
  <2>2. new \in Request /\ new.row = q.row /\ new.pc = "cancelling"
    <3> HIDE DEF open
    <3> QED BY <1>0, <2>1 DEF Request, Revoking
  <2>3. Step(r, "counting", new) /\ UNCHANGED held
    BY <1>3 DEF CountGrants
  <2> HIDE DEF new
  <2> QED BY <1>1, <2>2, <2>3, StepOrderly DEF Sensible, Submitting
<1>4. CASE LockOpen(r)
  <2>1. PICK s \in q.seen : LockOpen(r)!(s)
    BY <1>4 DEF LockOpen
  <2>2. s \in Slots
    BY RequestFields
  <2>3. Sensible(q) /\ q.pc = "cancelling"
    BY <2>1 DEF Typed, At
  <2> QED BY <1>0, <2>1, <2>2, <2>3, LockOrderly
<1>5. CASE Cancel(r)
  BY <1>5, FinishOrderly DEF Cancel
<1> QED BY <1>2, <1>3, <1>4, <1>5 DEF Revoke

(* Whatever happens, one request moves, or none. *)
LEMMA NextOrderly ==
  ASSUME TxAssumption, Typed, [Next]_vars
  PROVE  (\E r \in Requests : Orderly(r)) \/ UNCHANGED <<request, held>>
<1>1. ASSUME NEW r \in Requests, Abort(r) PROVE Orderly(r)
  BY <1>1, FinishOrderly DEF Abort
<1> QED BY <1>1, BeginOrderly, ClaimOrderly, SubmitOrderly, RevokeOrderly DEF Next, Proceed, vars

(* Only these three change the tables, apart from revoked grants. *)
LEMMA TablesStep ==
  ASSUME [Next]_vars
  PROVE  \/ UNCHANGED <<tasks, rows, determination>>
         \/ \E r \in Requests : Take(r) \/ Commit(r) \/ Cancel(r)
BY DEF Next, Begin, BeginClaim, BeginSubmit, BeginRevoke, Proceed, Claim, LockCandidate, NoCandidate,
       ClaimRights, Siblings, Submit, SubmitRights, Flush, Decide, Revoke, FlushRevoke, CountGrants,
       LockOpen, Abort, vars, stored

LEMMA RevokedStep == ASSUME [Next]_vars
                     PROVE  UNCHANGED revoked \/ \E r \in Requests : Cancel(r)
BY DEF Next, Begin, BeginClaim, BeginSubmit, BeginRevoke, Proceed, Claim, LockCandidate, NoCandidate,
       ClaimRights, Siblings, Take, Submit, SubmitRights, Flush, Decide, Commit, Revoke, FlushRevoke,
       CountGrants, LockOpen, Abort, vars, stored

LEMMA TypedInit == TxAssumption /\ Init => Typed
<1> SUFFICES ASSUME TxAssumption, Init PROVE Typed
  OBVIOUS
<1>1. tasks \in [Slots -> TaskRow]
  BY DEF Init, TaskRow, Slots
<1>2. rows \in Tables
  BY DEF Init, Tables
<1>3. Sensible(Idle)
  BY IdleRequest DEF Sensible, Submitting, Revoking, Idle
<1> QED BY <1>1, <1>2, <1>3, IdleRequest DEF Init, Typed, Exclusive, Released

LEMMA TypedStep == TxAssumption /\ Typed /\ [Next]_vars => Typed'
<1> SUFFICES ASSUME TxAssumption, Typed, [Next]_vars PROVE Typed'
  OBVIOUS
<1>1. /\ request' \in [Requests -> Request] /\ held' \in [Requests -> SUBSET Locks]
      /\ \A q \in Requests : Sensible(request'[q])
      /\ Exclusive' /\ Released'
  <2>1. CASE UNCHANGED <<request, held>>
    BY <2>1 DEF Typed, Exclusive, Released
  <2> QED BY <2>1, NextOrderly, OrderlyTyped
<1>2. revoked' \subseteq Revocable
  <2>1. ASSUME NEW r \in Requests, Cancel(r) PROVE revoked' \subseteq Revocable
    BY <2>1 DEF Cancel, Finish, Step, At, Typed, Sensible, Revoking
  <2> QED BY <2>1, RevokedStep DEF Typed
<1> DEFINE Goal == tasks' \in [Slots -> TaskRow] /\ rows' \in Tables /\ determination' \in Results \cup {NoRow}
<1>3. Goal
  <2>1. CASE UNCHANGED <<tasks, rows, determination>>
    BY <2>1 DEF Typed
  <2>2. ASSUME NEW r \in Requests, Take(r) PROVE Goal
    BY <2>2, RequestFields DEF Take, Typed, TaskRow, Request
  <2>3. ASSUME NEW r \in Requests, Commit(r) PROVE Goal
    <3>1. request[r].row \in Row /\ request[r].row.slot = request[r].slot /\ request[r].slot \in Slots
      BY <2>3 DEF Commit, Finish, Step, At, Typed, Sensible, Submitting
    <3>2. rows' \in Tables
      BY <2>3, <3>1 DEF Commit, Typed, Tables
    <3>3. \A s \in Slots : tasks[s] \in TaskRow
      BY DEF Typed
    <3>4. \A s \in Slots : [tasks[s] EXCEPT !.status = "completed"] \in TaskRow
      BY <3>3 DEF TaskRow
    <3>5. [status |-> "pending", assignee |-> Nobody] \in TaskRow
      BY DEF TaskRow
    <3>6. tasks' \in [Slots -> TaskRow]
      BY <2>3, <3>3, <3>4, <3>5 DEF Commit
    <3>7. determination' \in Results
      BY <2>3, RequestFields DEF Commit, Request
    <3> QED BY <3>2, <3>6, <3>7
  <2>4. ASSUME NEW r \in Requests, Cancel(r) PROVE Goal
    <3>1. \A s \in Slots : tasks[s] \in TaskRow
      BY DEF Typed
    <3>2. \A s \in Slots : [tasks[s] EXCEPT !.status = "cancelled"] \in TaskRow
      BY <3>1 DEF TaskRow
    <3> QED BY <2>4, <3>1, <3>2 DEF Cancel, Typed
  <2> QED BY <2>1, <2>2, <2>3, <2>4, TablesStep
<1> QED BY <1>1, <1>2, <1>3 DEF Typed

(* Every request, row and lock has its type, and a lock has one holder at a time. *)
THEOREM AlwaysTyped == Spec => []Typed
BY TxAssumption, TypedInit, TypedStep, PTL DEF Spec

(* The tables are well formed and the newest determination is a result of the policy
   whatever is in flight; locks are exclusive, and a request that was answered or
   aborted has left nothing behind (auth.get_session).                              *)
THEOREM TypeCorrect == Spec => []TypeOK
<1>1. TxAssumption /\ Typed => TypeOK
  <2> SUFFICES ASSUME TxAssumption, Typed PROVE TypeOK
    OBVIOUS
  <2>1. determination \in PolicyResult \cup {NoRow} /\ revoked \subseteq Grants
    BY ResultTypes, TxAssumption DEF Typed
  <2>2. \A r \in Requests : /\ held[r] \subseteq Locks
                            /\ request[r].pc = "idle" => request[r] = Idle /\ held[r] = {}
    BY DEF Typed, Sensible, Released
  <2> QED BY <2>1, <2>2 DEF TypeOK, Typed, Tables, Exclusive
<1> QED BY <1>1, TxAssumption, AlwaysTyped, PTL

-----------------------------------------------------------------------------
(* What a step does to the others, and to itself. *)

Same(q) == request'[q] = request[q] /\ held'[q] = held[q]
OthersSame(r) == \A q \in Requests \ {r} : Same(q)

LEMMA ElsewhereSame ==
  ASSUME Typed, NEW r \in Requests, Begin(r) \/ Proceed(r) \/ Abort(r)
  PROVE  OthersSame(r)
<1> USE DEF Typed, OthersSame, Same, Step
<1>1. CASE Begin(r)
  BY <1>1 DEF Begin, BeginClaim, BeginSubmit, BeginRevoke
<1>2. CASE Claim(r)
  BY <1>2 DEF Claim, LockCandidate, NoCandidate, ClaimRights, Siblings, Take, Finish
<1>3. CASE Submit(r)
  BY <1>3 DEF Submit, SubmitRights, Flush, Decide, Commit, Finish
<1>4. CASE Revoke(r)
  BY <1>4 DEF Revoke, FlushRevoke, CountGrants, LockOpen, Cancel, Finish
<1>5. CASE Abort(r)
  BY <1>5 DEF Abort, Finish
<1> QED BY <1>1, <1>2, <1>3, <1>4, <1>5 DEF Proceed

(* What a step makes of the request it moves: it is over, or it goes from one point to
   another and is still the same person's, about the same row.                       *)
Over(r) == request'[r] = Idle /\ held'[r] = {}
Goes(r, from, to) ==
    /\ request[r].pc = from /\ request'[r].pc = to
    /\ request'[r].who = request[r].who /\ request'[r].row = request[r].row
Looks(r, got, left) == request'[r].got = got /\ request'[r].left = left
SameLocks(r) == held'[r] = held[r]
Locks1(r, x) == Free(r, x) /\ held'[r] = held[r] \cup {LockOf(x)}

ClaimMove(r) ==
    LET q == request[r] IN
    \/ \E s \in Slots : /\ Goes(r, "looking", "looking") /\ Looks(r, q.got \cup {s}, q.left \cup {s})
                        /\ tasks[s].status = "pending" /\ Locks1(r, s)
    \/ Goes(r, "looking", "looking") /\ Looks(r, q.got, q.left) /\ SameLocks(r)
    \/ \E s \in Slots : /\ Goes(r, "looking", "looking") /\ Looks(r, q.got, q.left \ {s})
                        /\ SameLocks(r)
    \/ /\ Goes(r, "looking", "siblings") /\ Looks(r, q.got, q.left) /\ SameLocks(r)
       /\ request'[r].slot \in q.left
    \/ Goes(r, "siblings", "looking") /\ Looks(r, q.got, q.left \ {q.slot}) /\ SameLocks(r)
    \/ /\ Goes(r, "siblings", "taking") /\ Looks(r, q.got, q.left) /\ SameLocks(r)
       /\ request'[r].slot = q.slot
       /\ ~\E u \in Slots \ {q.slot} : Blocks(r, u)

SubmitMove(r) ==
    LET q == request[r] IN
    /\ request'[r].slot = q.slot
    /\ \/ Goes(r, "rights", "flushing") /\ SameLocks(r)
       \/ Goes(r, "flushing", "deciding") /\ rows[q.slot] = NoRow /\ Locks1(r, q.slot)
       \/ /\ Goes(r, "deciding", "committing") /\ SameLocks(r)
          /\ request'[r].result = Determine(RowsOf(Visible(r)))

RevokeMove(r) ==
    LET q == request[r] IN
    \/ Goes(r, "revoking", "counting") /\ Locks1(r, q.row)
    \/ /\ Goes(r, "counting", "cancelling") /\ SameLocks(r)
       /\ request'[r].seen = IF revoked \cup {q.row} = Grants THEN OpenTasks ELSE {}
    \/ \E s \in Slots : /\ Goes(r, "cancelling", "cancelling") /\ Locks1(r, s)
                        /\ request'[r].seen = q.seen

LEMMA FinishOver ==
  ASSUME Typed, NEW r \in Requests, NEW pc, Finish(r, pc)
  PROVE  Over(r)
BY DEF Finish, Step, Over, Typed

LEMMA ClaimMoves ==
  ASSUME Typed, NEW r \in Requests, Claim(r)
  PROVE  Over(r) \/ ClaimMove(r)
<1> DEFINE q == request[r]
<1>0. q \in Request /\ request \in [Requests -> Request] /\ held \in [Requests -> SUBSET Locks]
  BY RequestFields DEF Typed
<1>1. CASE LockCandidate(r)
  <2>1. PICK s \in Slots : LockCandidate(r)!(s)
    BY <1>1 DEF LockCandidate
  <2> DEFINE rest == [q EXCEPT !.seen = @ \ {s}]
             more == [rest EXCEPT !.got = @ \cup {s}, !.left = @ \cup {s}]
  <2>2. /\ rest.pc = q.pc /\ rest.who = q.who /\ rest.row = q.row
        /\ rest.got = q.got /\ rest.left = q.left
        /\ more.pc = q.pc /\ more.who = q.who /\ more.row = q.row
        /\ more.got = q.got \cup {s} /\ more.left = q.left \cup {s}
    BY <1>0 DEF Request
  <2>3. q.pc = "looking"
    BY <2>1 DEF Step, At
  <2>4. \/ /\ request'[r] = more /\ tasks[s].status = "pending"
           /\ Free(r, s) /\ held'[r] = held[r] \cup {LockOf(s)}
        \/ request'[r] = rest /\ held'[r] = held[r]
    BY <1>0, <2>1 DEF Lockable, Step
  <2> HIDE DEF more, rest
  <2> QED BY <2>2, <2>3, <2>4 DEF ClaimMove, Goes, Looks, SameLocks, Locks1
<1>2. CASE NoCandidate(r)
  BY <1>2, FinishOver DEF NoCandidate
<1>3. CASE ClaimRights(r)
  <2>1. PICK s \in Slots : ClaimRights(r)!(s)
    BY <1>3 DEF ClaimRights
  <2> DEFINE go == [q EXCEPT !.pc = "siblings", !.slot = s]
             skip == [q EXCEPT !.left = @ \ {s}]
  <2>2. /\ go.pc = "siblings" /\ go.who = q.who /\ go.row = q.row
        /\ go.slot = s /\ go.got = q.got /\ go.left = q.left
        /\ skip.pc = q.pc /\ skip.who = q.who /\ skip.row = q.row
        /\ skip.got = q.got /\ skip.left = q.left \ {s}
    BY <1>0 DEF Request
  <2>3. request'[r] = go \/ request'[r] = skip
    BY <1>0, <2>1 DEF Step
  <2>4. q.pc = "looking" /\ held'[r] = held[r] /\ s \in q.left
    BY <2>1 DEF Step, At, IsOldest
  <2> HIDE DEF go, skip
  <2> QED BY <2>2, <2>3, <2>4 DEF ClaimMove, Goes, Looks, SameLocks
<1>4. CASE Siblings(r)
  <2> DEFINE skip == [q EXCEPT !.pc = "looking", !.left = @ \ {q.slot}]
             go == [q EXCEPT !.pc = "taking"]
  <2>1. /\ go.pc = "taking" /\ go.who = q.who /\ go.row = q.row
        /\ go.slot = q.slot /\ go.got = q.got /\ go.left = q.left
        /\ skip.pc = "looking" /\ skip.who = q.who /\ skip.row = q.row
        /\ skip.got = q.got /\ skip.left = q.left \ {q.slot}
    BY <1>0 DEF Request
  <2>2. \/ request'[r] = skip
        \/ request'[r] = go /\ ~\E u \in Slots \ {q.slot} : Blocks(r, u)
    BY <1>0, <1>4 DEF Siblings, Step
  <2>3. q.pc = "siblings" /\ held'[r] = held[r]
    BY <1>4 DEF Siblings, Step, At
  <2> HIDE DEF go, skip
  <2> QED BY <2>1, <2>2, <2>3 DEF ClaimMove, Goes, Looks, SameLocks
<1>5. CASE Take(r)
  BY <1>5, FinishOver DEF Take
<1> QED BY <1>1, <1>2, <1>3, <1>4, <1>5 DEF Claim

LEMMA SubmitMoves ==
  ASSUME Typed, NEW r \in Requests, Submit(r)
  PROVE  Over(r) \/ SubmitMove(r)
<1> DEFINE q == request[r]
<1>0. q \in Request /\ request \in [Requests -> Request] /\ held \in [Requests -> SUBSET Locks]
  BY RequestFields DEF Typed
<1> USE DEF SubmitMove, Goes, SameLocks, Locks1
<1>1. CASE SubmitRights(r)
  <2> DEFINE new == [q EXCEPT !.pc = "flushing"]
  <2>1. new.pc = "flushing" /\ new.who = q.who /\ new.slot = q.slot /\ new.row = q.row
    BY <1>0 DEF Request
  <2>2. Finish(r, "rights") \/ (q.pc = "rights" /\ request'[r] = new /\ held'[r] = held[r])
    BY <1>0, <1>1 DEF SubmitRights, Step, At
  <2> HIDE DEF new
  <2> QED BY <2>1, <2>2, FinishOver
<1>2. CASE Flush(r)
  <2> DEFINE new == [q EXCEPT !.pc = "deciding"]
  <2>1. new.pc = "deciding" /\ new.who = q.who /\ new.slot = q.slot /\ new.row = q.row
    BY <1>0 DEF Request
  <2>2. \/ Finish(r, "flushing")
        \/ /\ q.pc = "flushing" /\ request'[r] = new /\ rows[q.slot] = NoRow
           /\ Free(r, q.slot) /\ held'[r] = held[r] \cup {LockOf(q.slot)}
    BY <1>0, <1>2 DEF Flush, Step, At
  <2> HIDE DEF new
  <2> QED BY <2>1, <2>2, FinishOver
<1>3. CASE Decide(r)
  <2> DEFINE new == [q EXCEPT !.pc = "committing", !.result = Determine(RowsOf(Visible(r)))]
  <2>1. /\ new.pc = "committing" /\ new.who = q.who /\ new.slot = q.slot /\ new.row = q.row
        /\ new.result = Determine(RowsOf(Visible(r)))
    BY <1>0 DEF Request
  <2>2. q.pc = "deciding" /\ request'[r] = new /\ held'[r] = held[r]
    BY <1>0, <1>3 DEF Decide, Step, At
  <2> HIDE DEF new
  <2> QED BY <2>1, <2>2
<1>4. CASE Commit(r)
  BY <1>4, FinishOver DEF Commit
<1> QED BY <1>1, <1>2, <1>3, <1>4 DEF Submit

LEMMA RevokeMoves ==
  ASSUME Typed, NEW r \in Requests, Revoke(r)
  PROVE  Over(r) \/ RevokeMove(r)
<1> DEFINE q == request[r]
<1>0. q \in Request /\ request \in [Requests -> Request] /\ held \in [Requests -> SUBSET Locks]
  BY RequestFields DEF Typed
<1> USE DEF RevokeMove, Goes, SameLocks, Locks1
<1>1. CASE FlushRevoke(r)
  <2> DEFINE new == [q EXCEPT !.pc = "counting"]
  <2>1. new.pc = "counting" /\ new.who = q.who /\ new.row = q.row
    BY <1>0 DEF Request
  <2>2. /\ q.pc = "revoking" /\ request'[r] = new
        /\ Free(r, q.row) /\ held'[r] = held[r] \cup {LockOf(q.row)}
    BY <1>0, <1>1 DEF FlushRevoke, Step, At
  <2> HIDE DEF new
  <2> QED BY <2>1, <2>2
<1>2. CASE CountGrants(r)
  <2> DEFINE open == IF revoked \cup {q.row} = Grants THEN OpenTasks ELSE {}
             new == [q EXCEPT !.pc = "cancelling", !.seen = open]
  <2>1. q.pc = "counting" /\ request'[r] = new /\ held'[r] = held[r]
    BY <1>0, <1>2 DEF CountGrants, Step, At
  <2>2. new.pc = "cancelling" /\ new.who = q.who /\ new.row = q.row /\ new.seen = open
    <3> HIDE DEF open
    <3> QED BY <1>0 DEF Request
  <2> HIDE DEF new
  <2> QED BY <2>1, <2>2
<1>3. CASE LockOpen(r)
  <2>1. PICK s \in q.seen : LockOpen(r)!(s)
    BY <1>3 DEF LockOpen
  <2>2. s \in Slots
    BY RequestFields
  <2>3. q.pc = "cancelling" /\ request'[r] = q /\ Free(r, s) /\ held'[r] = held[r] \cup {LockOf(s)}
    BY <1>0, <2>1 DEF Step, At
  <2> QED BY <2>2, <2>3
<1>4. CASE Cancel(r)
  BY <1>4, FinishOver DEF Cancel
<1> QED BY <1>1, <1>2, <1>3, <1>4 DEF Revoke

(* A new request: a claim, a submission, or a revocation. *)
BeginMove(r) ==
    LET n == request'[r] IN
    /\ request[r].pc = "idle" /\ SameLocks(r)
    /\ \/ /\ n.pc = "looking" /\ n.who \in Adjudicators /\ MayAsk(n.who)
          /\ RowLocks => n.got = {} /\ n.left = {}
       \/ /\ n.pc = "rights" /\ n.who \in Adjudicators /\ MayAsk(n.who)
          /\ n.slot \in Slots /\ tasks[n.slot] = [status |-> "claimed", assignee |-> n.who]
          /\ n.row.slot = n.slot /\ n.row.adjudicator = n.who
       \/ n.pc = "revoking" /\ n.who = Nobody

LEMMA BeginMoves ==
  ASSUME Typed, NEW r \in Requests, Begin(r)
  PROVE  BeginMove(r)
<1>0. request \in [Requests -> Request]
  BY DEF Typed
<1> USE DEF BeginMove, SameLocks
<1>1. ASSUME NEW a \in Adjudicators, BeginClaim(r, a) PROVE BeginMove(r)
  <2> DEFINE pending == {s \in Slots : tasks[s].status = "pending"}
             loaded == IF RowLocks THEN {} ELSE pending
             new == [Idle EXCEPT !.pc = "looking", !.who = a, !.seen = pending \ loaded,
                                 !.got = loaded, !.left = loaded]
  <2>1. new.pc = "looking" /\ new.who = a /\ new.got = loaded /\ new.left = loaded
    <3> HIDE DEF pending, loaded
    <3> QED BY DEF Idle
  <2>2. request[r].pc = "idle" /\ request'[r] = new /\ MayAsk(a) /\ held'[r] = held[r]
    BY <1>0, <1>1 DEF BeginClaim, Step, At
  <2>3. RowLocks => loaded = {}
    OBVIOUS
  <2> HIDE DEF new, loaded
  <2> QED BY <2>1, <2>2, <2>3
<1>2. ASSUME NEW a \in Adjudicators, NEW s \in Slots, NEW d \in Decisions, BeginSubmit(r, a, s, d)
      PROVE  BeginMove(r)
  <2> DEFINE row == [slot |-> s, validity |-> d.validity, severity |-> d.severity, adjudicator |-> a]
             new == [Idle EXCEPT !.pc = "rights", !.who = a, !.slot = s, !.row = row]
  <2>1. row.slot = s /\ row.adjudicator = a
    OBVIOUS
  <2>2. new.pc = "rights" /\ new.who = a /\ new.slot = s /\ new.row = row
    <3> HIDE DEF row
    <3> QED BY DEF Idle
  <2>3. /\ request[r].pc = "idle" /\ request'[r] = new /\ MayAsk(a) /\ held'[r] = held[r]
        /\ tasks[s] = [status |-> "claimed", assignee |-> a]
    BY <1>0, <1>2 DEF BeginSubmit, Step, At
  <2> HIDE DEF new, row
  <2> QED BY <2>1, <2>2, <2>3
<1>3. ASSUME NEW g \in Revocable, BeginRevoke(r, g) PROVE BeginMove(r)
  <2>1. [Idle EXCEPT !.pc = "revoking", !.row = g].pc = "revoking"
        /\ [Idle EXCEPT !.pc = "revoking", !.row = g].who = Nobody
    BY DEF Idle
  <2>2. /\ request[r].pc = "idle" /\ request'[r] = [Idle EXCEPT !.pc = "revoking", !.row = g]
        /\ held'[r] = held[r]
    BY <1>0, <1>3 DEF BeginRevoke, Step, At
  <2> QED BY <2>1, <2>2
<1> QED BY <1>1, <1>2, <1>3 DEF Begin

LEMMA AbortOver == ASSUME Typed, NEW r \in Requests, Abort(r) PROVE Over(r)
BY FinishOver DEF Abort

(* What is stored changes with three kinds of commit only. *)
Commits(r) == Take(r) \/ Commit(r) \/ Cancel(r)

LEMMA StoredStep ==
  ASSUME Typed, NEW r \in Requests, Begin(r) \/ Proceed(r) \/ Abort(r)
  PROVE  UNCHANGED stored \/ (Over(r) /\ Commits(r))
<1>1. Commits(r) => Over(r)
  BY FinishOver DEF Commits, Take, Commit, Cancel
<1>2. UNCHANGED stored \/ Commits(r)
  BY DEF Begin, BeginClaim, BeginSubmit, BeginRevoke, Proceed, Claim, LockCandidate, NoCandidate,
         ClaimRights, Siblings, Submit, SubmitRights, Flush, Decide, Revoke, FlushRevoke, CountGrants,
         LockOpen, Abort, Commits
<1> QED BY <1>1, <1>2

(* A task that is there does not disappear. *)
LEMMA OpenedStays ==
  ASSUME Typed, [Next]_vars, NEW s \in Slots, tasks[s].status # "absent"
  PROVE  tasks'[s].status # "absent"
<1>0. tasks[s] \in TaskRow /\ tasks \in [Slots -> TaskRow]
  BY DEF Typed
<1>1. ASSUME NEW r \in Requests, Take(r) PROVE tasks'[s].status # "absent"
  BY <1>0, <1>1 DEF Take
<1>2. ASSUME NEW r \in Requests, Commit(r) PROVE tasks'[s].status # "absent"
  <2>1. \/ tasks'[s] = [tasks[s] EXCEPT !.status = "completed"]
        \/ tasks'[s] = [status |-> "pending", assignee |-> Nobody]
        \/ tasks'[s] = tasks[s]
    BY <1>2 DEF Commit
  <2> QED BY <1>0, <2>1 DEF TaskRow
<1>3. ASSUME NEW r \in Requests, Cancel(r) PROVE tasks'[s].status # "absent"
  <2>1. tasks'[s] = [tasks[s] EXCEPT !.status = "cancelled"] \/ tasks'[s] = tasks[s]
    BY <1>3 DEF Cancel
  <2> QED BY <1>0, <2>1 DEF TaskRow
<1> QED BY <1>0, <1>1, <1>2, <1>3, TablesStep

-----------------------------------------------------------------------------
(* SQLite *)

(* Who has flushed a submission holds the write lock, who has computed the
   determination computed it from what is stored, and whoever submits or has
   submitted an adjudication has a task for it.                              *)
Writes(r) ==
    LET q == request[r] IN
    /\ q.pc \in Submitting => tasks[q.slot].status # "absent"
    /\ q.pc \in {"deciding", "committing"} => "database" \in held[r]
    /\ q.pc = "committing" => q.result = Determine(RowsOf(Visible(r)))
RowsHaveTasks == \A s \in Slots : rows[s] # NoRow => tasks[s].status # "absent"

SqliteInv == /\ Typed
             /\ \A r \in Requests : Writes(r)
             /\ RowsHaveTasks
             /\ DeterminationCurrent /\ ContestedCriticalGetsTieBreak

(* What a submission will have stored is a table of submissions again. *)
LEMMA VisibleTables ==
  ASSUME Typed, NEW r \in Requests, request[r].pc \in Submitting
  PROVE  /\ Visible(r) \in Tables
         /\ \A s \in Slots : Visible(r)[s] = IF s = request[r].slot THEN request[r].row ELSE rows[s]
BY DEF Visible, Tables, Typed, Sensible

LEMMA CommitCurrent ==
  ASSUME TxAssumption, ~RowLocks, SqliteInv, NEW r \in Requests, Commit(r)
  PROVE  /\ RowsHaveTasks' /\ DeterminationCurrent' /\ ContestedCriticalGetsTieBreak'
         /\ \A q \in Requests : Writes(q)'
<1> DEFINE q0 == request[r]
<1>1. q0.pc = "committing" /\ q0.slot \in Slots /\ q0.row \in Row /\ [Next]_vars
  BY DEF Commit, Finish, Step, At, SqliteInv, Typed, Sensible, Submitting, Next, Proceed, Submit
<1>2. rows' = Visible(r) /\ determination' = Determine(RowsOf(rows')) /\ q0.result = determination'
  BY <1>1 DEF Commit, Visible, SqliteInv, Writes
<1>3. rows'[q0.slot] = q0.row /\ q0.row # NoRow
  BY <1>1, <1>2, VisibleTables DEF SqliteInv, Typed, TxAssumption, Row, Submitting
<1>4. DeterminationCurrent'
  <2>1. ~ \A s \in Slots : rows'[s] = NoRow
    BY <1>1, <1>3
  <2> QED BY <1>2, <2>1 DEF DeterminationCurrent
<1>5. RowsHaveTasks'
  <2> SUFFICES ASSUME NEW s \in Slots, rows'[s] # NoRow PROVE tasks[s].status # "absent"
    BY <1>1, OpenedStays DEF RowsHaveTasks, SqliteInv
  <2>1. CASE s = q0.slot
    BY <1>1, <2>1 DEF SqliteInv, Writes, Submitting
  <2>2. CASE s # q0.slot
    <3>1. rows'[s] = rows[s]
      BY <1>1, <1>2, <2>2, VisibleTables DEF SqliteInv, Submitting
    <3> QED BY <3>1 DEF SqliteInv, RowsHaveTasks
  <2> QED BY <2>1, <2>2
<1>6. ContestedCriticalGetsTieBreak'
  <2> SUFFICES ASSUME \A s \in PrimarySlots : rows'[s] # NoRow,
                      \E s, u \in PrimarySlots : rows'[s].severity = Critical /\ rows'[u].severity # Critical
               PROVE  tasks'[TieBreak].status # "absent"
    BY DEF ContestedCriticalGetsTieBreak
  <2>1. rows' \in Tables
    BY <1>1, <1>2, VisibleTables DEF SqliteInv, Submitting
  <2>2. CASE rows'[TieBreak] # NoRow
    BY <1>5, <2>2 DEF RowsHaveTasks, Slots
  <2>3. CASE rows'[TieBreak] = NoRow
    <3>1. /\ rows'[Primary] # NoRow /\ rows'[Secondary] # NoRow
          /\ rows'[Primary].severity # rows'[Secondary].severity
          /\ Critical \in {rows'[Primary].severity, rows'[Secondary].severity}
      BY DEF PrimarySlots
    <3>2. q0.result.tieBreak
      BY <1>2, <2>1, <2>3, <3>1, ContestedAsksForTieBreak
    <3>3. q0.slot # TieBreak
      BY <1>3, <2>3
    <3>4. tasks'[TieBreak] = IF tasks[TieBreak].status = "absent"
                               THEN [status |-> "pending", assignee |-> Nobody]
                               ELSE tasks[TieBreak]
      BY <3>2, <3>3 DEF Commit, Slots
    <3> QED BY <3>4
  <2> QED BY <2>2, <2>3
<1>7. ASSUME NEW q \in Requests \ {r} PROVE Writes(q)'
  <2>1. "database" \in held[r] /\ "database" \notin held[q]
    BY <1>1 DEF SqliteInv, Writes, Typed, Exclusive
  <2>2. request[q].pc \notin {"deciding", "committing"}
    BY <2>1 DEF SqliteInv, Writes
  <2>3. Same(q)
    BY ElsewhereSame DEF SqliteInv, OthersSame, Proceed, Submit
  <2>4. request[q].pc \in Submitting => request[q].slot \in Slots /\ tasks[request[q].slot].status # "absent"
    BY DEF SqliteInv, Typed, Sensible, Writes
  <2>5. request[q].pc \in Submitting => tasks'[request[q].slot].status # "absent"
    BY <1>1, <2>4, OpenedStays DEF SqliteInv
  <2> QED BY <2>2, <2>3, <2>5 DEF Writes, Same
<1>8. Writes(r)'
  BY FinishOver, IdleRequest DEF Commit, Over, Writes, SqliteInv, Submitting
<1> QED BY <1>4, <1>5, <1>6, <1>7, <1>8

LEMMA SqliteStep == TxAssumption /\ ~RowLocks /\ SqliteInv /\ [Next]_vars => SqliteInv'
<1> SUFFICES ASSUME TxAssumption, ~RowLocks, SqliteInv, [Next]_vars PROVE SqliteInv'
  OBVIOUS
<1>1. Typed' /\ Typed
  BY TypedStep DEF SqliteInv
<1> DEFINE Tabled == RowsHaveTasks /\ DeterminationCurrent /\ ContestedCriticalGetsTieBreak
<1>2. ASSUME UNCHANGED <<rows, determination>>
      PROVE  /\ Tabled'
             /\ \A q \in Requests : Same(q) => Writes(q)'
  <2>1. Tabled'
    BY <1>1, <1>2, OpenedStays
       DEF SqliteInv, RowsHaveTasks, DeterminationCurrent, ContestedCriticalGetsTieBreak, Slots
  <2>2. ASSUME NEW q \in Requests, Same(q) PROVE Writes(q)'
    <3>1. request[q].pc \in Submitting => request[q].slot \in Slots /\ tasks[request[q].slot].status # "absent"
      BY DEF SqliteInv, Typed, Sensible, Writes
    <3>2. request[q].pc \in Submitting => tasks'[request[q].slot].status # "absent"
      BY <1>1, <3>1, OpenedStays
    <3> QED BY <1>2, <2>2, <3>2 DEF SqliteInv, Writes, Same, Visible
  <2> QED BY <2>1, <2>2
<1>3. ASSUME NEW r \in Requests, Begin(r) \/ Proceed(r) \/ Abort(r), ~Commit(r)
      PROVE  Tabled' /\ \A q \in Requests : Writes(q)'
  <2>1. UNCHANGED <<rows, determination>>
    BY <1>1, <1>3, StoredStep DEF Commits, Take, Cancel, stored
  <2>2. Writes(r)'
    <3>1. CASE Begin(r)
      <4>1. BeginMove(r)
        BY <1>1, <3>1, BeginMoves
      <4>2. UNCHANGED tasks
        BY <3>1 DEF Begin, BeginClaim, BeginSubmit, BeginRevoke, stored
      <4> QED BY <4>1, <4>2 DEF BeginMove, Writes, Submitting
    <3>2. CASE Claim(r) \/ Revoke(r)
      BY <1>1, <3>2, ClaimMoves, RevokeMoves, IdleRequest
         DEF Over, ClaimMove, RevokeMove, Goes, Writes, Submitting
    <3>3. CASE Submit(r)
      <4>1. CASE Over(r)
        BY <4>1, IdleRequest DEF Over, Writes, Submitting
      <4>2. CASE SubmitMove(r)
        <5>1. /\ request[r].pc \in Submitting /\ request'[r].slot = request[r].slot
              /\ request'[r].row = request[r].row
          BY <4>2 DEF SubmitMove, Goes, Submitting
        <5>2. tasks'[request'[r].slot].status # "absent"
          BY <1>1, <5>1, OpenedStays DEF SqliteInv, Writes, Typed, Sensible
        <5>3. Visible(r)' = Visible(r)
          BY <2>1, <5>1 DEF Visible
        <5>4. request'[r].pc \in {"deciding", "committing"} => "database" \in held'[r]
          BY <4>2 DEF SubmitMove, Goes, SameLocks, Locks1, LockOf, SqliteInv, Writes
        <5>5. request'[r].pc = "committing" => request'[r].result = Determine(RowsOf(Visible(r)))
          BY <4>2 DEF SubmitMove, Goes
        <5> QED BY <5>2, <5>3, <5>4, <5>5 DEF Writes
      <4> QED BY <1>1, <3>3, <4>1, <4>2, SubmitMoves
    <3>4. CASE Abort(r)
      BY <1>1, <3>4, AbortOver, IdleRequest DEF Over, Writes, Submitting
    <3> QED BY <1>3, <3>1, <3>2, <3>3, <3>4 DEF Proceed
  <2> QED BY <1>1, <1>2, <1>3, <2>1, <2>2, ElsewhereSame DEF OthersSame
<1>4. ASSUME UNCHANGED vars PROVE Tabled' /\ \A q \in Requests : Writes(q)'
  BY <1>2, <1>4 DEF vars, Same
<1>5. ASSUME NEW r \in Requests, Commit(r) PROVE Tabled' /\ \A q \in Requests : Writes(q)'
  BY <1>5, CommitCurrent
<1> QED BY <1>1, <1>3, <1>4, <1>5 DEF SqliteInv, Next

(* On SQLite the newest determination answers all the stored adjudications, and two
   primaries that contest a critical rating have their tie-break task, however
   submissions, claims and revocations overlap (_recompute_determination).         *)
THEOREM SqliteStaysCurrent ==
  ASSUME ~RowLocks
  PROVE  Spec => [](DeterminationCurrent /\ ContestedCriticalGetsTieBreak)
<1>1. TxAssumption /\ Init => SqliteInv
  <2> SUFFICES ASSUME TxAssumption, Init PROVE SqliteInv
    OBVIOUS
  <2>1. \A r \in Requests : request[r].pc = "idle"
    BY IdleRequest DEF Init
  <2>2. \A s \in Slots : rows[s] = NoRow
    BY DEF Init
  <2>3. DeterminationCurrent /\ RowsHaveTasks /\ ContestedCriticalGetsTieBreak
    BY <2>2 DEF Init, DeterminationCurrent, RowsHaveTasks, ContestedCriticalGetsTieBreak, Slots, PrimarySlots
  <2> QED BY <2>1, <2>3, TypedInit DEF SqliteInv, Writes, Submitting
<1>2. SqliteInv => DeterminationCurrent /\ ContestedCriticalGetsTieBreak
  BY DEF SqliteInv
<1> QED BY <1>1, <1>2, TxAssumption, SqliteStep, PTL DEF Spec

-----------------------------------------------------------------------------
(* PostgreSQL: what the row locks keep, revocations or not. *)

(* A claim has locked its candidates and they stay pending; a submission holds the
   lock of its task from the flush to the commit.                                  *)
Locking(q, L) ==
    /\ q.pc \in Claiming => /\ q.left \subseteq q.got /\ q.got \subseteq L
                            /\ \A s \in q.got : tasks[s].status = "pending"
    /\ q.pc \in {"siblings", "taking"} => q.slot \in q.left
    /\ q.pc \in {"deciding", "committing"} => q.slot \in L
LockInv == Typed /\ \A r \in Requests : Locking(request[r], held[r])

LEMMA LockMoves ==
  ASSUME RowLocks, LockInv, NEW r \in Requests,
         BeginMove(r) \/ ClaimMove(r) \/ SubmitMove(r) \/ RevokeMove(r)
  PROVE  Locking(request'[r], held'[r])
<1> USE DEF Locking, Claiming, Goes, Looks, SameLocks, Locks1, LockOf
<1>0. Locking(request[r], held[r])
  BY DEF LockInv
<1>1. CASE BeginMove(r)
  BY <1>1 DEF BeginMove
<1>2. CASE ClaimMove(r)
  BY <1>0, <1>2 DEF ClaimMove
<1>3. CASE SubmitMove(r)
  BY <1>0, <1>3 DEF SubmitMove
<1>4. CASE RevokeMove(r)
  BY <1>4 DEF RevokeMove
<1> QED BY <1>1, <1>2, <1>3, <1>4

(* A commit changes only the tasks whose locks it holds, and opens the tie-break. *)
LEMMA OnlyLocked ==
  ASSUME RowLocks, LockInv, NEW r \in Requests, Commits(r), NEW s \in Slots
  PROVE  \/ tasks'[s] = tasks[s]
         \/ s \in held[r]
         \/ /\ s = TieBreak /\ tasks[s].status = "absent"
            /\ tasks'[s] = [status |-> "pending", assignee |-> Nobody]
<1>0. tasks \in [Slots -> TaskRow] /\ Locking(request[r], held[r])
  BY DEF LockInv, Typed
<1>1. CASE Take(r)
  BY <1>0, <1>1 DEF Take, At, Locking, Claiming
<1>2. CASE Commit(r)
  BY <1>0, <1>2 DEF Commit, Finish, Step, At, Locking
<1>3. CASE Cancel(r)
  BY <1>3 DEF Cancel, LockOf
<1> QED BY <1>1, <1>2, <1>3 DEF Commits

LEMMA StepCases ==
  ASSUME Typed, NEW r \in Requests, Begin(r) \/ Proceed(r) \/ Abort(r)
  PROVE  \/ Over(r) /\ Commits(r)
         \/ Over(r) /\ UNCHANGED stored
         \/ /\ BeginMove(r) \/ ClaimMove(r) \/ SubmitMove(r) \/ RevokeMove(r)
            /\ UNCHANGED stored
<1>1. \/ Over(r)
      \/ BeginMove(r) \/ ClaimMove(r) \/ SubmitMove(r) \/ RevokeMove(r)
  BY BeginMoves, ClaimMoves, SubmitMoves, RevokeMoves, AbortOver DEF Proceed
<1> QED BY <1>1, StoredStep

LEMMA LockStep == TxAssumption /\ RowLocks /\ LockInv /\ [Next]_vars => LockInv'
<1> SUFFICES ASSUME TxAssumption, RowLocks, LockInv, [Next]_vars PROVE LockInv'
  OBVIOUS
<1>1. Typed /\ Typed'
  BY TypedStep DEF LockInv
<1>2. ASSUME UNCHANGED vars PROVE LockInv'
  BY <1>1, <1>2 DEF vars, LockInv, Locking
<1>3. ASSUME NEW r \in Requests, Begin(r) \/ Proceed(r) \/ Abort(r) PROVE LockInv'
  <2>1. Locking(request[r], held[r])'
    <3>1. CASE Over(r)
      BY <3>1, IdleRequest DEF Over, Locking, Claiming
    <3>2. CASE UNCHANGED stored /\ Locking(request'[r], held'[r])
      BY <3>2 DEF stored, Locking
    <3> QED BY <1>1, <1>3, <3>1, <3>2, StepCases, LockMoves
  <2>2. ASSUME NEW q \in Requests \ {r} PROVE Locking(request[q], held[q])'
    <3>1. Same(q) /\ held[q] \cap held[r] = {} /\ Locking(request[q], held[q])
      BY <1>1, <1>3, ElsewhereSame DEF OthersSame, LockInv, Typed, Exclusive
    <3>2. ASSUME NEW s \in request[q].got, request[q].pc \in Claiming PROVE tasks'[s].status = "pending"
      <4>1. s \in Slots /\ s \in held[q] /\ tasks[s].status = "pending"
        BY <1>1, <3>1, <3>2, RequestFields DEF Locking
      <4>2. tasks'[s] = tasks[s]
        BY <1>1, <1>3, <3>1, <4>1, StepCases, OnlyLocked DEF stored
      <4> QED BY <4>1, <4>2
    <3> QED BY <3>1, <3>2 DEF Locking, Same
  <2> QED BY <1>1, <2>1, <2>2 DEF LockInv
<1> QED BY <1>2, <1>3 DEF Next

LEMMA LockInit == TxAssumption /\ Init => LockInv
BY TypedInit, IdleRequest DEF Init, LockInv, Locking, Claiming

-----------------------------------------------------------------------------
(* PostgreSQL: a revocation stops the reviews. *)

Open(s) == tasks[s].status \in {"pending", "claimed"}

(* The requests in flight revoke one grant only. *)
OneRevocation ==
    \A q, r \in Requests : request[q].pc \in Revoking /\ request[r].pc \in Revoking
                             => request[q].row = request[r].row

(* A revocation that has counted the grants has seen another one, or all the primary
   reviews that are open.                                                          *)
Counted(q) ==
    q.pc = "cancelling" =>
        \/ revoked \cup {q.row} # Grants
        \/ \A s \in PrimarySlots : Open(s) => s \in q.seen
RevokeInv == /\ LockInv
             /\ \A r \in Requests : Counted(request[r])
             /\ RevocationStopsReviews

(* A primary review that is over is not opened again. *)
LEMMA StaysClosed ==
  ASSUME RowLocks, LockInv, NEW r \in Requests, Begin(r) \/ Proceed(r) \/ Abort(r),
         NEW s \in PrimarySlots, ~Open(s)
  PROVE  ~Open(s)'
<1>0. /\ tasks \in [Slots -> TaskRow] /\ Locking(request[r], held[r]) /\ Typed
      /\ s \in Slots /\ s # TieBreak
  BY DEF LockInv, Typed, PrimarySlots, Slots, Primary, Secondary, TieBreak
<1>1. CASE Take(r)
  <2>1. tasks[request[r].slot].status = "pending"
    BY <1>0, <1>1 DEF Take, At, Locking, Claiming
  <2> QED BY <1>0, <1>1, <2>1 DEF Take, Open
<1>2. CASE Commit(r)
  <2>1. tasks'[s] = tasks[s] \/ tasks'[s] = [tasks[s] EXCEPT !.status = "completed"]
    BY <1>0, <1>2 DEF Commit
  <2>2. [tasks[s] EXCEPT !.status = "completed"].status = "completed"
    BY <1>0 DEF TaskRow
  <2> QED BY <2>1, <2>2 DEF Open
<1>3. CASE Cancel(r)
  <2>1. tasks'[s] = tasks[s] \/ tasks'[s] = [tasks[s] EXCEPT !.status = "cancelled"]
    BY <1>0, <1>3 DEF Cancel
  <2>2. [tasks[s] EXCEPT !.status = "cancelled"].status = "cancelled"
    BY <1>0 DEF TaskRow
  <2> QED BY <2>1, <2>2 DEF Open
<1>4. CASE UNCHANGED stored
  BY <1>4 DEF stored, Open
<1> QED BY <1>0, <1>1, <1>2, <1>3, <1>4, StoredStep DEF Commits

LEMMA RevokeStep ==
  TxAssumption /\ RowLocks /\ RevokeInv /\ OneRevocation /\ [Next]_vars => RevokeInv'
<1> SUFFICES ASSUME TxAssumption, RowLocks, RevokeInv, OneRevocation, [Next]_vars PROVE RevokeInv'
  OBVIOUS
<1>1. LockInv' /\ LockInv /\ Typed
  BY LockStep DEF RevokeInv, LockInv
<1>2. ASSUME UNCHANGED vars PROVE RevokeInv'
  BY <1>1, <1>2 DEF vars, RevokeInv, Counted, Open, RevocationStopsReviews
<1>3. ASSUME NEW r \in Requests, Begin(r) \/ Proceed(r) \/ Abort(r) PROVE RevokeInv'
  <2> DEFINE q0 == request[r]
  <2>1. \A s \in PrimarySlots : Open(s)' => Open(s)
    BY <1>1, <1>3, StaysClosed
  <2>2. \/ UNCHANGED revoked
        \/ Cancel(r) /\ revoked' = revoked \cup {q0.row} /\ q0.pc = "cancelling"
    BY <1>1, <1>3, StoredStep DEF Commits, Take, Commit, Cancel, Finish, Step, At, stored
  <2>3. RevocationStopsReviews'
    <3>1. CASE UNCHANGED revoked
      BY <2>1, <3>1 DEF RevokeInv, RevocationStopsReviews, Open
    <3>2. CASE Cancel(r) /\ revoked' = revoked \cup {q0.row} /\ q0.pc = "cancelling"
      <4> SUFFICES ASSUME revoked' = Grants, NEW s \in PrimarySlots PROVE ~Open(s)'
        BY DEF RevocationStopsReviews, Open
      <4>1. Open(s) => s \in q0.seen
        BY <3>2 DEF RevokeInv, Counted
      <4>2. CASE s \in q0.seen
        <5>1. tasks[s] \in TaskRow /\ s \in Slots
          BY <1>1 DEF Typed, PrimarySlots, Slots
        <5>2. tasks'[s] = [tasks[s] EXCEPT !.status = "cancelled"]
          BY <3>2, <4>2, <5>1 DEF Cancel
        <5> QED BY <5>1, <5>2 DEF TaskRow, Open
      <4> QED BY <2>1, <4>1, <4>2
    <3> QED BY <2>2, <3>1, <3>2
  <2>4. Counted(request[r])'
    <3>1. CASE Over(r)
      BY <3>1, IdleRequest DEF Over, Counted
    <3>2. CASE UNCHANGED stored /\ request'[r].pc # "cancelling"
      BY <3>2 DEF Counted
    <3>3. CASE UNCHANGED stored /\ RevokeMove(r)
      <4>1. CASE Goes(r, "counting", "cancelling")
                   /\ request'[r].seen = IF revoked \cup {q0.row} = Grants THEN OpenTasks ELSE {}
        BY <3>3, <4>1 DEF Goes, Counted, Open, OpenTasks, OpenStatuses, stored, PrimarySlots, Slots
      <4>2. CASE Goes(r, "cancelling", "cancelling") /\ request'[r].seen = q0.seen
        BY <3>3, <4>2 DEF Goes, Counted, RevokeInv, Open, stored
      <4>3. CASE request'[r].pc # "cancelling"
        BY <4>3 DEF Counted
      <4> QED BY <3>3, <4>1, <4>2, <4>3 DEF RevokeMove, Goes
    <3>4. BeginMove(r) \/ ClaimMove(r) \/ SubmitMove(r) => request'[r].pc # "cancelling"
      BY DEF BeginMove, ClaimMove, SubmitMove, Goes
    <3> QED BY <1>1, <1>3, <3>1, <3>2, <3>3, <3>4, StepCases
  <2>5. ASSUME NEW q \in Requests \ {r} PROVE Counted(request[q])'
    <3>1. request'[q] = request[q]
      BY <1>1, <1>3, ElsewhereSame DEF OthersSame, Same
    <3>2. request[q].pc = "cancelling" => revoked' \cup {request[q].row} = revoked \cup {request[q].row}
      BY <2>2 DEF OneRevocation, Revoking
    <3> QED BY <2>1, <3>1, <3>2 DEF RevokeInv, Counted
  <2> QED BY <1>1, <2>3, <2>4, <2>5 DEF RevokeInv
<1> QED BY <1>2, <1>3 DEF Next

LEMMA RevokeInit == TxAssumption /\ Grants # {} /\ Init => RevokeInv
BY LockInit, IdleRequest DEF Init, RevokeInv, Counted, RevocationStopsReviews

(* On PostgreSQL, if a case has grants and they are revoked one after the other,
   claims and submissions in flight or not: from the commit of the last revocation on
   no primary review is open (revoke_grant).  Without "one after the other" it fails:
   two revocations may each count the grant of the other.                           *)
THEOREM RevocationsInTurn ==
  ASSUME RowLocks, Grants # {} PROVE Spec /\ []OneRevocation => []RevocationStopsReviews
<1>1. RevokeInv => RevocationStopsReviews
  BY DEF RevokeInv
<1> QED BY <1>1, TxAssumption, RevokeInit, RevokeStep, PTL DEF Spec

(* In particular it holds of a case with one grant, however often its revocation is
   asked for at the same time.                                                      *)
THEOREM RevocationEndsReviews ==
  ASSUME NEW g, RowLocks, Grants = {g} PROVE Spec => []RevocationStopsReviews
<1>1. TxAssumption /\ Typed => OneRevocation
  BY DEF TxAssumption, Typed, Sensible, OneRevocation
<1>2. Spec /\ []OneRevocation => []RevocationStopsReviews
  <2>1. Grants # {}
    OBVIOUS
  <2> QED BY <2>1, RevocationsInTurn
<1> QED BY <1>1, <1>2, TxAssumption, AlwaysTyped, PTL

-----------------------------------------------------------------------------
(* Both databases: lock waits end. *)

(* The request cannot go on before another one has released a lock; a revocation may
   have to take its next task first.                                                 *)
Waits(r) ==
    LET q == request[r] IN
    \/ q.pc \in {"taking", "flushing"} /\ ~Free(r, q.slot)
    \/ q.pc = "revoking" /\ ~Free(r, q.row)
    \/ q.pc = "cancelling" /\ \E s \in q.seen : LockOf(s) \notin held[r] /\ ~Free(r, s)

SomebodyMoves ==
    (\E r \in Requests : request[r].pc # "idle")
        => \E r \in Requests : request[r].pc # "idle" /\ ~Waits(r)

(* Nobody holds a lock before their first statement that takes one, and a revocation
   keeps the lock of its grant while it cancels.                                    *)
Holding(q, L) ==
    /\ q.pc \in {"rights", "flushing", "revoking"} => L = {}
    /\ q.pc \in {"counting", "cancelling"} => q.row \in L
HoldInv == LockInv /\ \A r \in Requests : Holding(request[r], held[r])
WaitInv == Typed /\ (RowLocks => HoldInv)

InTurn == RowLocks => OneRevocation

LEMMA HoldMoves ==
  ASSUME RowLocks, HoldInv, NEW r \in Requests,
         BeginMove(r) \/ ClaimMove(r) \/ SubmitMove(r) \/ RevokeMove(r)
  PROVE  Holding(request'[r], held'[r])
<1> USE DEF Holding, Goes, SameLocks, Locks1, LockOf
<1>0. Holding(request[r], held[r]) /\ Typed
  BY DEF HoldInv, LockInv
<1>1. CASE BeginMove(r)
  BY <1>0, <1>1 DEF BeginMove, Typed, Released
<1>2. CASE ClaimMove(r)
  BY <1>0, <1>2 DEF ClaimMove
<1>3. CASE SubmitMove(r)
  BY <1>0, <1>3 DEF SubmitMove
<1>4. CASE RevokeMove(r)
  BY <1>0, <1>4 DEF RevokeMove
<1> QED BY <1>1, <1>2, <1>3, <1>4

LEMMA HoldStep == TxAssumption /\ RowLocks /\ HoldInv /\ [Next]_vars => HoldInv'
<1> SUFFICES ASSUME TxAssumption, RowLocks, HoldInv, [Next]_vars PROVE HoldInv'
  OBVIOUS
<1>1. LockInv /\ LockInv' /\ Typed
  BY LockStep DEF HoldInv, LockInv
<1>2. ASSUME UNCHANGED vars PROVE HoldInv'
  BY <1>1, <1>2 DEF vars, HoldInv, Holding
<1>3. ASSUME NEW r \in Requests, Begin(r) \/ Proceed(r) \/ Abort(r) PROVE HoldInv'
  <2>1. Over(r) => Holding(request'[r], held'[r])
    BY IdleRequest DEF Over, Holding
  <2>2. Holding(request'[r], held'[r])
    BY <1>1, <1>3, <2>1, StepCases, HoldMoves
  <2>3. ASSUME NEW q \in Requests \ {r} PROVE Holding(request'[q], held'[q])
    BY <1>1, <1>3, ElsewhereSame DEF OthersSame, Same, HoldInv
  <2> QED BY <1>1, <2>2, <2>3 DEF HoldInv, Holding
<1> QED BY <1>2, <1>3 DEF Next

(* Whoever waits waits for a request in flight that holds a lock. *)
LEMMA WaitsFor ==
  ASSUME Typed, NEW r \in Requests, Waits(r)
  PROVE  \E q \in Requests : request[q].pc # "idle" /\ held[q] # {} /\ (~RowLocks => "database" \in held[q])
<1>1. PICK x : ~Free(r, x)
  BY DEF Waits
<1>2. PICK q \in Requests \ {r} : LockOf(x) \in held[q]
  BY <1>1 DEF Free
<1> QED BY <1>2 DEF Typed, Released, LockOf

(* On SQLite nobody waits who holds the write lock; on PostgreSQL nobody who holds any
   lock, but a revocation.                                                            *)
LEMMA HolderMoves ==
  ASSUME WaitInv, NEW q \in Requests, held[q] # {},
         ~RowLocks => "database" \in held[q], Waits(q)
  PROVE  RowLocks /\ request[q].pc = "cancelling"
<1>1. CASE ~RowLocks
  BY <1>1 DEF WaitInv, Waits, Free, LockOf, Typed, Exclusive
<1>2. CASE RowLocks
  <2>1. Holding(request[q], held[q]) /\ Locking(request[q], held[q])
    BY <1>2 DEF WaitInv, HoldInv, LockInv
  <2>2. request[q].pc # "taking"
    <3>1. SUFFICES ASSUME request[q].pc = "taking" PROVE FALSE
      OBVIOUS
    <3>2. request[q].slot \in held[q]
      BY <2>1, <3>1 DEF Locking, Claiming
    <3> QED BY <1>2, <3>1, <3>2 DEF WaitInv, Waits, Free, LockOf, Typed, Exclusive
  <2> QED BY <1>2, <2>1, <2>2 DEF Holding, Waits
<1> QED BY <1>1, <1>2

(* The lock waits of claims, submissions and revocations form no circle, on either
   database: of the requests in flight one does not wait (claim_task skips what is
   locked, submit_adjudication locks one task, revoke_grant its grant before any).
   On PostgreSQL revocations come one after the other; two that both found no grant
   left would lock the same tasks.                                                 *)
THEOREM WaitsEnd == Spec /\ []InTurn => []SomebodyMoves
<1>1. TxAssumption /\ Init => WaitInv
  BY TypedInit, LockInit, IdleRequest DEF WaitInv, HoldInv, Holding, Init
<1>2. TxAssumption /\ WaitInv /\ [Next]_vars => WaitInv'
  BY TypedStep, HoldStep DEF WaitInv
<1>3. WaitInv /\ InTurn => SomebodyMoves
  <2> SUFFICES ASSUME WaitInv, InTurn,
                      NEW r \in Requests, request[r].pc # "idle",
                      \A q \in Requests : request[q].pc # "idle" => Waits(q)
               PROVE  FALSE
    BY DEF SomebodyMoves
  <2>1. PICK q \in Requests : /\ request[q].pc # "idle" /\ held[q] # {}
                              /\ ~RowLocks => "database" \in held[q]
    BY WaitsFor DEF WaitInv
  <2>2. RowLocks /\ request[q].pc = "cancelling" /\ Waits(q)
    BY <2>1, HolderMoves
  <2>3. PICK s \in request[q].seen : LockOf(s) \notin held[q] /\ ~Free(q, s)
    BY <2>2 DEF Waits
  <2>4. PICK p \in Requests \ {q} : LockOf(s) \in held[p]
    BY <2>3 DEF Free
  <2>5. request[p].pc = "cancelling"
    BY <2>2, <2>4, HolderMoves DEF WaitInv, Typed, Released
  <2>6. request[p].row = request[q].row /\ request[p].row \in held[p] /\ request[q].row \in held[q]
    BY <2>2, <2>5 DEF InTurn, OneRevocation, Revoking, WaitInv, HoldInv, Holding
  <2> QED BY <2>6 DEF WaitInv, Typed, Exclusive
<1> QED BY <1>1, <1>2, <1>3, TxAssumption, PTL DEF Spec

-----------------------------------------------------------------------------
(* PostgreSQL, while a grant stays that nobody revokes: the others come and go, and the
   reviews go on.                                                                      *)

(* What a request relies on: a submission is about a task of its author, from the flush
   to the commit nobody else completes the task, a tie-break is asked for when both
   primaries are there, and a revocation cancels nothing.                             *)
Author(q) ==
    q.pc \in Submitting =>
        Held(q.slot) /\ tasks[q.slot].assignee = q.who /\ q.row.adjudicator = q.who
Completes(q) ==
    q.pc \in {"deciding", "committing"} => tasks[q.slot].status = "claimed" /\ rows[q.slot] = NoRow
Justified(q) ==
    q.pc = "committing" /\ q.result.tieBreak =>
        \A s \in PrimarySlots : s = q.slot \/ rows[s] # NoRow
Asked(q) == q.pc \notin {"idle"} \cup Revoking => q.who \in Adjudicators
Harmless(q) == q.pc = "cancelling" => q.seen = {}

Relies(q) == Author(q) /\ Completes(q) /\ Justified(q) /\ Asked(q) /\ Harmless(q)

PgInv == /\ LockInv
         /\ \A r \in Requests : Relies(request[r])
         /\ WorkMatchesTask

LEMMA PgMoves ==
  ASSUME TxAssumption, RowLocks, ~(Grants \subseteq Revocable), PgInv, NEW r \in Requests,
         BeginMove(r) \/ ClaimMove(r) \/ SubmitMove(r) \/ RevokeMove(r)
  PROVE  Relies(request'[r])
<1> DEFINE q == request[r]
<1>0. Relies(q) /\ Typed
  BY DEF PgInv, LockInv
<1> USE DEF Relies, Author, Completes, Justified, Asked, Harmless, Claiming, Submitting, Revoking, Goes
<1>1. CASE BeginMove(r)
  BY <1>1 DEF BeginMove, Held
<1>2. CASE ClaimMove(r)
  <2>1. q.pc \in Claiming /\ request'[r].pc \in Claiming /\ request'[r].who = q.who
    BY <1>2 DEF ClaimMove
  <2> QED BY <1>0, <2>1
<1>3. CASE SubmitMove(r)
  <2>1. /\ q.pc \in Submitting /\ request'[r].pc \in Submitting
        /\ request'[r].slot = q.slot /\ request'[r].row = q.row /\ request'[r].who = q.who
    BY <1>3 DEF SubmitMove
  <2>2. Author(request'[r]) /\ Asked(request'[r]) /\ Harmless(request'[r])
    BY <1>0, <2>1
  <2>3. Completes(request'[r])
    <3>1. CASE q.pc = "flushing" /\ rows[q.slot] = NoRow
      <4>1. Held(q.slot) /\ q.slot \in Slots
        BY <1>0, <3>1 DEF Typed, Sensible
      <4>2. tasks[q.slot].status = "claimed"
        BY <3>1, <4>1 DEF PgInv, WorkMatchesTask, Held
      <4> QED BY <2>1, <3>1, <4>2
    <3>2. CASE q.pc = "deciding"
      BY <1>0, <2>1, <3>2
    <3>3. CASE q.pc = "rights" /\ request'[r].pc = "flushing"
      BY <3>3
    <3> QED BY <1>3, <3>1, <3>2, <3>3 DEF SubmitMove
  <2>4. Justified(request'[r])
    <3> SUFFICES ASSUME request'[r].pc = "committing", request'[r].result.tieBreak,
                        NEW s \in PrimarySlots, s # q.slot
                 PROVE  rows[s] # NoRow
      BY <2>1
    <3>1. request'[r].result = Determine(RowsOf(Visible(r)))
      BY <1>3 DEF SubmitMove
    <3>2. Visible(r) \in Tables /\ s \in Slots /\ Visible(r)[s] = rows[s]
      BY <1>0, <2>1, VisibleTables DEF PrimarySlots, Slots
    <3>3. TwoPrimaries(RowsOf(Visible(r)))
      BY <3>1, <3>2, PolicyFed, DetermineResult
    <3>4. Visible(r)[s] # NoRow
      BY <3>2, <3>3, PolicyFed DEF PrimarySlots
    <3> QED BY <3>2, <3>4
  <2> QED BY <2>2, <2>3, <2>4
<1>4. CASE RevokeMove(r)
  <2>1. q.pc \in Revoking /\ request'[r].pc \in Revoking
    BY <1>4 DEF RevokeMove
  <2>2. revoked \cup {q.row} # Grants
    BY <1>0, <2>1 DEF Typed, Sensible
  <2>3. Harmless(request'[r])
    BY <1>0, <1>4, <2>2 DEF RevokeMove
  <2> QED BY <2>1, <2>3
<1> QED BY <1>1, <1>2, <1>3, <1>4

(* What the three kinds of commit do to the tasks. *)
LEMMA TakeEffect ==
  ASSUME LockInv, NEW r \in Requests, Take(r)
  PROVE  LET s == request[r].slot IN
         /\ request[r].pc = "taking" /\ s \in Slots /\ tasks[s].status = "pending"
         /\ tasks'[s] = [status |-> "claimed", assignee |-> request[r].who]
         /\ \A u \in Slots \ {s} : tasks'[u] = tasks[u]
         /\ rows' = rows
<1>1. request[r].pc = "taking" /\ request[r].slot \in Slots /\ tasks[request[r].slot].status = "pending"
  BY DEF Take, At, LockInv, Typed, Sensible, Locking, Claiming
<1> QED BY <1>1 DEF Take, LockInv, Typed

LEMMA CommitEffect ==
  ASSUME TxAssumption, PgInv, NEW r \in Requests, Commit(r)
  PROVE  LET q == request[r] IN
         /\ q.pc = "committing" /\ q.slot \in Slots
         /\ tasks[q.slot].status = "claimed" /\ tasks[q.slot] \in TaskRow
         /\ rows'[q.slot] = q.row /\ q.row # NoRow /\ q.row.adjudicator = tasks[q.slot].assignee
         /\ \A s \in Slots \ {q.slot} : rows'[s] = rows[s]
         /\ tasks'[q.slot].status = "completed" /\ tasks'[q.slot].assignee = tasks[q.slot].assignee
         /\ \A s \in Slots \ {q.slot} :
              \/ tasks'[s] = tasks[s]
              \/ /\ tasks[s].status = "absent" /\ s = TieBreak /\ q.result.tieBreak
                 /\ tasks'[s] = [status |-> "pending", assignee |-> Nobody]
<1> DEFINE q == request[r]
<1>1. /\ q.pc = "committing" /\ q.slot \in Slots /\ q.row \in Row
      /\ tasks[q.slot].status = "claimed" /\ tasks[q.slot] \in TaskRow
      /\ q.row.adjudicator = tasks[q.slot].assignee
  BY DEF Commit, Finish, Step, At, PgInv, LockInv, Typed, Sensible, Relies, Author, Completes, Submitting
<1>2. /\ rows'[q.slot] = q.row /\ q.row # NoRow
      /\ \A s \in Slots \ {q.slot} : rows'[s] = rows[s]
  BY <1>1 DEF Commit, PgInv, LockInv, Typed, Tables, TxAssumption, Row
<1>3. tasks'[q.slot].status = "completed" /\ tasks'[q.slot].assignee = tasks[q.slot].assignee
  <2>1. tasks'[q.slot] = [tasks[q.slot] EXCEPT !.status = "completed"]
    BY <1>1 DEF Commit
  <2> QED BY <1>1, <2>1 DEF TaskRow
<1>4. \A s \in Slots \ {q.slot} :
        \/ tasks'[s] = tasks[s]
        \/ /\ tasks[s].status = "absent" /\ s = TieBreak /\ q.result.tieBreak
           /\ tasks'[s] = [status |-> "pending", assignee |-> Nobody]
  BY DEF Commit
<1> QED BY <1>1, <1>2, <1>3, <1>4

LEMMA CancelEffect ==
  ASSUME PgInv, NEW r \in Requests, Cancel(r)
  PROVE  tasks' = tasks /\ rows' = rows
<1>1. request[r].seen = {}
  BY DEF Cancel, Finish, Step, At, PgInv, Relies, Harmless
<1>2. tasks' = [s \in Slots |-> tasks[s]]
  BY <1>1 DEF Cancel
<1> QED BY <1>2 DEF Cancel, PgInv, LockInv, Typed

(* What is held stays held by the same person, what is filed stays filed, and a task is
   still completed exactly when its adjudication is stored.                            *)
LEMMA WorkKept ==
  ASSUME TxAssumption, PgInv, NEW r \in Requests, Begin(r) \/ Proceed(r) \/ Abort(r)
  PROVE  /\ \A s \in Slots : Held(s) => Held(s)' /\ tasks'[s].assignee = tasks[s].assignee
         /\ \A s \in Slots : rows[s] # NoRow => rows'[s] # NoRow
         /\ WorkMatchesTask'
<1>1. CASE UNCHANGED stored
  BY <1>1 DEF stored, Held, PgInv, WorkMatchesTask
<1>2. CASE Take(r)
  <2>1. LockInv
    BY DEF PgInv
  <2> PICK s \in Slots : s = request[r].slot
    BY <1>2, <2>1, TakeEffect
  <2>2. /\ tasks[s].status = "pending" /\ rows' = rows
        /\ tasks'[s] = [status |-> "claimed", assignee |-> request[r].who]
    BY <1>2, <2>1, TakeEffect
  <2>3. \A u \in Slots \ {s} : tasks'[u] = tasks[u]
    BY <1>2, <2>1, TakeEffect
  <2> QED BY <2>2, <2>3 DEF PgInv, Held, WorkMatchesTask
<1>3. CASE Commit(r)
  <2> PICK s \in Slots : s = request[r].slot
    BY <1>3, CommitEffect
  <2>1. /\ tasks[s].status = "claimed" /\ tasks'[s].status = "completed"
        /\ tasks'[s].assignee = tasks[s].assignee
        /\ rows'[s] # NoRow /\ rows'[s].adjudicator = tasks'[s].assignee
    BY <1>3, CommitEffect
  <2>2. \A u \in Slots \ {s} :
          /\ rows'[u] = rows[u]
          /\ \/ tasks'[u] = tasks[u]
             \/ tasks[u].status = "absent" /\ tasks'[u].status = "pending"
    BY <1>3, CommitEffect
  <2> QED BY <2>1, <2>2 DEF Held, PgInv, WorkMatchesTask
<1>4. CASE Cancel(r)
  BY <1>4, CancelEffect DEF Held, PgInv, WorkMatchesTask
<1> QED BY <1>1, <1>2, <1>3, <1>4, StoredStep DEF Commits, PgInv, LockInv

LEMMA PgStep ==
  TxAssumption /\ RowLocks /\ ~(Grants \subseteq Revocable) /\ PgInv /\ [Next]_vars => PgInv'
<1> SUFFICES ASSUME TxAssumption, RowLocks, ~(Grants \subseteq Revocable), PgInv, [Next]_vars
             PROVE  PgInv'
  OBVIOUS
<1>1. LockInv' /\ LockInv /\ Typed
  BY LockStep DEF PgInv, LockInv
<1>2. ASSUME UNCHANGED vars PROVE PgInv'
  BY <1>1, <1>2 DEF vars, PgInv, Relies, Author, Completes, Justified, Asked, Harmless, Held,
                    WorkMatchesTask
<1>3. ASSUME NEW r \in Requests, Begin(r) \/ Proceed(r) \/ Abort(r) PROVE PgInv'
  <2>1. Relies(request[r])'
    <3>1. CASE Over(r)
      BY <3>1, IdleRequest
         DEF Over, Relies, Author, Completes, Justified, Asked, Harmless, Submitting
    <3>2. CASE UNCHANGED stored /\ Relies(request'[r])
      BY <3>2 DEF stored, Relies, Author, Completes, Justified, Asked, Harmless, Held
    <3> QED BY <1>1, <1>3, <3>1, <3>2, StepCases, PgMoves
  <2>2. ASSUME NEW q \in Requests \ {r} PROVE Relies(request[q])'
    <3>1. Same(q) /\ Relies(request[q]) /\ Sensible(request[q]) /\ Locking(request[q], held[q])
      BY <1>1, <1>3, ElsewhereSame DEF OthersSame, PgInv, LockInv, Typed
    <3>2. Author(request[q])'
      BY <1>3, <3>1, WorkKept DEF Same, Relies, Author, Sensible
    <3>3. Completes(request[q])'
      <4> SUFFICES ASSUME request[q].pc \in {"deciding", "committing"}
                   PROVE  tasks'[request[q].slot].status = "claimed" /\ rows'[request[q].slot] = NoRow
        BY <3>1 DEF Same, Completes
      <4> PICK s \in Slots : s = request[q].slot
        BY <3>1 DEF Sensible, Submitting
      <4>1. tasks[s].status = "claimed" /\ s \notin held[r]
        BY <1>1, <3>1 DEF Relies, Completes, Locking, Typed, Exclusive
      <4>2. tasks'[s] = tasks[s]
        BY <1>1, <1>3, <4>1, StepCases, OnlyLocked DEF stored
      <4>3. WorkMatchesTask'
        BY <1>3, WorkKept
      <4> QED BY <4>1, <4>2, <4>3 DEF WorkMatchesTask
    <3>4. Justified(request[q])'
      BY <1>3, <3>1, WorkKept DEF Same, Relies, Justified, PrimarySlots, Slots
    <3> QED BY <3>1, <3>2, <3>3, <3>4 DEF Same, Relies, Asked, Harmless
  <2> QED BY <1>1, <1>3, <2>1, <2>2, WorkKept DEF PgInv
<1> QED BY <1>2, <1>3 DEF Next

LEMMA PgInit == TxAssumption /\ Init => PgInv
<1> SUFFICES ASSUME TxAssumption, Init PROVE PgInv
  OBVIOUS
<1>1. \A r \in Requests : Relies(request[r])
  BY IdleRequest DEF Init, Relies, Author, Completes, Justified, Asked, Harmless, Submitting
<1>2. WorkMatchesTask
  BY DEF Init, WorkMatchesTask, Slots
<1> QED BY <1>1, <1>2, LockInit DEF PgInv

(* On PostgreSQL, while a grant stays, a task is completed exactly when its adjudication
   is stored, by its assignee (submit_adjudication).                                   *)
THEOREM WorkAndTasksAgree ==
  ASSUME RowLocks, ~(Grants \subseteq Revocable) PROVE Spec => []WorkMatchesTask
<1>1. PgInv => WorkMatchesTask
  BY DEF PgInv
<1> QED BY <1>1, TxAssumption, PgInit, PgStep, PTL DEF Spec

(* On PostgreSQL, while a grant stays, whoever was given a task keeps it, whatever claims,
   submissions and revocations race with theirs (claim_task's FOR UPDATE).               *)
THEOREM ClaimsAreFinal ==
  ASSUME RowLocks, ~(Grants \subseteq Revocable) PROVE Spec => ClaimsHold
<1> DEFINE Kept == \A s \in Slots : Held(s) => Held(s)' /\ tasks'[s].assignee = tasks[s].assignee
<1>1. TxAssumption /\ PgInv /\ [Next]_vars => [Kept]_vars
  BY WorkKept DEF Next
<1> QED BY <1>1, TxAssumption, PgInit, PgStep, PTL DEF Spec, ClaimsHold

-----------------------------------------------------------------------------
(* PostgreSQL, when in addition everybody awaits the answer to a request before the
   next one: claims by one adjudicator do not overlap, so that the siblings read by
   a claim are still those of its commit.                                          *)

OneAtATime ==
    \A q, r \in Requests : q # r /\ request[q].who = request[r].who => request[r].who = Nobody
Outsider(r) ==
    request[r].pc = "taking" =>
        \A u \in Slots \ {request[r].slot} : Held(u) => tasks[u].assignee # request[r].who
SeatsApart ==
    \A s, u \in Slots : s # u /\ Held(s) /\ Held(u) => tasks[s].assignee # tasks[u].assignee
AbsentUnheld == \A s \in Slots : tasks[s].status = "absent" => tasks[s].assignee = Nobody

ApartInv == /\ PgInv
            /\ OneAtATime /\ (\A r \in Requests : Outsider(r))
            /\ SeatsApart /\ AbsentUnheld

(* Whose request it is does not change while it runs. *)
LEMMA WhoMoves ==
  ASSUME Typed, Patient = Adjudicators, NEW r \in Requests, Begin(r) \/ Proceed(r) \/ Abort(r)
  PROVE  \/ request'[r].who \in {request[r].who, Nobody}
         \/ \A q \in Requests : request[q].who # request'[r].who
<1>1. CASE Over(r)
  BY <1>1, IdleRequest DEF Over
<1>2. CASE BeginMove(r)
  BY <1>2 DEF BeginMove, MayAsk
<1>3. CASE ClaimMove(r) \/ SubmitMove(r) \/ RevokeMove(r)
  BY <1>3 DEF ClaimMove, SubmitMove, RevokeMove, Goes
<1> QED BY <1>1, <1>2, <1>3, StepCases

(* A claim comes to the UPDATE of its task only by way of the siblings, of which none is
   its claimant's.                                                                     *)
LEMMA OnlyOutsiders ==
  ASSUME RowLocks, LockInv, NEW r \in Requests, Begin(r) \/ Proceed(r) \/ Abort(r), UNCHANGED tasks
  PROVE  Outsider(r)'
<1>1. Typed /\ Locking(request[r], held[r])
  BY DEF LockInv
<1>2. CASE Over(r)
  BY <1>2, IdleRequest DEF Over, Outsider
<1>3. CASE BeginMove(r) \/ SubmitMove(r) \/ RevokeMove(r)
  BY <1>3 DEF BeginMove, SubmitMove, RevokeMove, Goes, Outsider
<1>4. CASE ClaimMove(r)
  <2> SUFFICES ASSUME request'[r].pc = "taking", NEW u \in Slots \ {request'[r].slot}, Held(u)
               PROVE  tasks[u].assignee # request'[r].who
    BY DEF Outsider, Held
  <2>1. /\ request[r].pc = "siblings" /\ request'[r].slot = request[r].slot
        /\ request'[r].who = request[r].who /\ ~Blocks(r, u)
    BY <1>4 DEF ClaimMove, Goes
  <2>2. u \notin request[r].got
    BY <1>1, <2>1 DEF Locking, Claiming, Held
  <2> QED BY <2>1, <2>2 DEF Blocks
<1> QED BY <1>1, <1>2, <1>3, <1>4, StepCases

LEMMA ApartStep ==
  TxAssumption /\ RowLocks /\ ~(Grants \subseteq Revocable) /\ Patient = Adjudicators
    /\ ApartInv /\ [Next]_vars => ApartInv'
<1> SUFFICES ASSUME TxAssumption, RowLocks, ~(Grants \subseteq Revocable), Patient = Adjudicators,
                    ApartInv, [Next]_vars
             PROVE  ApartInv'
  OBVIOUS
<1>1. PgInv' /\ PgInv /\ LockInv /\ Typed
  BY PgStep DEF ApartInv, PgInv, LockInv
<1>2. CASE UNCHANGED vars
  BY <1>1, <1>2 DEF vars, ApartInv, OneAtATime, Outsider, SeatsApart, AbsentUnheld, Held
<1>3. ASSUME NEW r \in Requests, Begin(r) \/ Proceed(r) \/ Abort(r) PROVE ApartInv'
  <2> DEFINE q0 == request[r]
  <2>1. \A q \in Requests \ {r} : request'[q] = request[q]
    BY <1>1, <1>3, ElsewhereSame DEF OthersSame, Same
  <2>2. OneAtATime'
    BY <1>1, <1>3, <2>1, WhoMoves DEF ApartInv, OneAtATime
  <2>3. ASSUME UNCHANGED tasks PROVE ApartInv'
    <3>1. SeatsApart' /\ AbsentUnheld'
      BY <2>3 DEF ApartInv, SeatsApart, AbsentUnheld, Held
    <3>2. \A q \in Requests \ {r} : Outsider(q)'
      BY <2>1, <2>3 DEF ApartInv, Outsider, Held
    <3>3. Outsider(r)'
      BY <1>1, <1>3, <2>3, OnlyOutsiders
    <3> QED BY <1>1, <2>2, <3>1, <3>2, <3>3 DEF ApartInv
  <2>4. CASE Take(r)
    <3>1. q0.pc = "taking" /\ q0.slot \in Slots /\ q0.who \in Adjudicators /\ q0.who # Nobody
      BY <1>1, <2>4, TakeEffect DEF TxAssumption, PgInv, Relies, Asked, Revoking
    <3>2. /\ tasks'[q0.slot] = [status |-> "claimed", assignee |-> q0.who]
          /\ \A s \in Slots \ {q0.slot} : tasks'[s] = tasks[s]
      BY <1>1, <2>4, TakeEffect
    <3>3. SeatsApart'
      <4>1. \A u \in Slots \ {q0.slot} : Held(u) => tasks[u].assignee # q0.who
        BY <3>1 DEF ApartInv, Outsider
      <4> QED BY <3>2, <4>1 DEF ApartInv, SeatsApart, Held
    <3>4. AbsentUnheld'
      BY <3>2 DEF ApartInv, AbsentUnheld
    <3>5. \A q \in Requests : Outsider(q)'
      <4>1. Idle.pc # "taking" /\ request'[r] = Idle
        BY <1>1, <2>4 DEF Take, Finish, Step, Typed, Idle
      <4>2. ASSUME NEW q \in Requests \ {r} PROVE Outsider(q)'
        <5>1. request[q].who # q0.who
          BY <3>1 DEF ApartInv, OneAtATime
        <5> QED BY <2>1, <3>2, <5>1 DEF ApartInv, Outsider, Held
      <4> QED BY <4>1, <4>2 DEF Outsider
    <3> QED BY <1>1, <2>2, <3>3, <3>4, <3>5 DEF ApartInv
  <2>5. CASE Commit(r)
    <3> PICK s0 \in Slots : s0 = q0.slot
      BY <1>1, <2>5, CommitEffect
    <3>0. /\ tasks[s0].status = "claimed" /\ tasks'[s0].status = "completed"
          /\ tasks'[s0].assignee = tasks[s0].assignee
          /\ \A s \in Slots \ {s0} :
               \/ tasks'[s] = tasks[s]
               \/ tasks[s].status = "absent" /\ tasks'[s] = [status |-> "pending", assignee |-> Nobody]
      BY <1>1, <2>5, CommitEffect
    <3>1. /\ \A s \in Slots : Held(s)' <=> Held(s)
          /\ \A s \in Slots : Held(s) => tasks'[s].assignee = tasks[s].assignee
      BY <3>0 DEF Held
    <3>2. SeatsApart'
      BY <3>1 DEF ApartInv, SeatsApart
    <3>3. AbsentUnheld'
      BY <3>0 DEF ApartInv, AbsentUnheld
    <3>4. \A q \in Requests : Outsider(q)'
      <4>1. Idle.pc # "taking" /\ request'[r] = Idle
        BY <1>1, <2>5 DEF Commit, Finish, Step, Typed, Idle
      <4>2. ASSUME NEW q \in Requests \ {r} PROVE Outsider(q)'
        BY <2>1, <3>1 DEF ApartInv, Outsider
      <4> QED BY <4>1, <4>2 DEF Outsider
    <3> QED BY <1>1, <2>2, <3>2, <3>3, <3>4 DEF ApartInv
  <2>6. CASE Cancel(r)
    BY <1>1, <2>3, <2>6, CancelEffect
  <2> QED BY <1>1, <1>3, <2>3, <2>4, <2>5, <2>6, StoredStep DEF Commits, stored
<1> QED BY <1>2, <1>3 DEF Next

LEMMA ApartInit == TxAssumption /\ Init => ApartInv
<1> SUFFICES ASSUME TxAssumption, Init PROVE ApartInv
  OBVIOUS
<1>1. \A r \in Requests : request[r].pc = "idle" /\ request[r].who = Nobody
  BY IdleRequest DEF Init
<1>2. SeatsApart /\ AbsentUnheld
  BY DEF Init, SeatsApart, AbsentUnheld, Held
<1> QED BY <1>1, <1>2, PgInit DEF ApartInv, OneAtATime, Outsider

(* On PostgreSQL, while a grant stays and everybody awaits their answers, nobody
   ever holds or has written two of the concern's reviews: the check of the siblings
   is not defeated by requests in flight (claim_task).                                *)
THEOREM ReviewersStayApart ==
  ASSUME RowLocks, ~(Grants \subseteq Revocable), Patient = Adjudicators PROVE Spec => []IndependentReviewers
<1>1. ApartInv => IndependentReviewers
  <2> SUFFICES ASSUME ApartInv, NEW s \in Slots, NEW u \in Slots, s # u
               PROVE  /\ Held(s) /\ Held(u) => tasks[s].assignee # tasks[u].assignee
                      /\ rows[s] # NoRow /\ rows[u] # NoRow => rows[s].adjudicator # rows[u].adjudicator
    BY DEF IndependentReviewers
  <2>1. Held(s) /\ Held(u) => tasks[s].assignee # tasks[u].assignee
    BY DEF ApartInv, SeatsApart
  <2>2. \A v \in Slots : rows[v] # NoRow => Held(v) /\ rows[v].adjudicator = tasks[v].assignee
    BY DEF ApartInv, PgInv, WorkMatchesTask, Held
  <2> QED BY <2>1, <2>2
<1> QED BY <1>1, TxAssumption, ApartInit, ApartStep, PTL DEF Spec

-----------------------------------------------------------------------------
(* Under the same conditions every commit is a step of IndependentReview. *)

LEMMA PanelSeats == Panel!Seats = TheSeats
BY DEF Panel!Seats, TheSeats, Slots, Primary, Secondary, TieBreak,
       Panel!Slots, Panel!Primary, Panel!Secondary, Panel!TieBreak

(* The seats are the slots. *)
Seat(s) == [case |-> "case", concern |-> 1, slot |-> s]

LEMMA SeatSlots ==
  /\ \A s \in Slots : Seat(s) \in TheSeats /\ Seat(s).slot = s
  /\ \A t \in TheSeats : t.slot \in Slots /\ t = Seat(t.slot)
BY DEF Seat, TheSeats

LEMMA PanelUnchanged == UNCHANGED tasks => UNCHANGED Panel!vars
BY DEF Panel!vars

LEMMA PanelTake ==
  ASSUME TxAssumption, RowLocks, ~(Grants \subseteq Revocable), ApartInv, NEW r \in Requests, Take(r)
  PROVE  Panel!Next
<1>0. request[r].slot \in Slots /\ request[r].who \in Adjudicators /\ Seat(request[r].slot) \in TheSeats
  BY SeatSlots, TakeEffect DEF ApartInv, PgInv, Relies, Asked, Revoking
<1> PICK s \in Slots, a \in Adjudicators, t \in TheSeats :
      s = request[r].slot /\ a = request[r].who /\ t = Seat(s)
  BY <1>0
<1>1. request[r].pc = "taking" /\ s \in Slots /\ a \in Adjudicators /\ tasks[s].status = "pending"
  BY TakeEffect DEF ApartInv, PgInv
<1>2. /\ tasks'[s] = [status |-> "claimed", assignee |-> a]
      /\ \A u \in Slots \ {s} : tasks'[u] = tasks[u]
  BY TakeEffect DEF ApartInv, PgInv
<1>3. t \in TheSeats /\ t.slot = s /\ \A u \in TheSeats : u.slot \in Slots /\ (u # t => u.slot # s)
  BY <1>1, SeatSlots
<1>4. \A u \in Slots \ {s} : Held(u) => tasks[u].assignee # a
  BY <1>1 DEF ApartInv, Outsider
<1>5. \A u \in TheSeats : /\ tasks'[u.slot].status = IF u = t THEN "claimed" ELSE tasks[u.slot].status
                          /\ tasks'[u.slot].assignee = IF u = t THEN a ELSE tasks[u.slot].assignee
  BY <1>2, <1>3
<1>6. [u \in TheSeats |-> tasks'[u.slot].status]
        = [[u \in TheSeats |-> tasks[u.slot].status] EXCEPT ![t] = "claimed"]
  BY <1>3, <1>5
<1>7. [u \in TheSeats |-> tasks'[u.slot].assignee]
        = [[u \in TheSeats |-> tasks[u.slot].assignee] EXCEPT ![t] = a]
  BY <1>3, <1>5
<1>8. Panel!Assign(t, a)
  BY <1>1, <1>3, <1>4, <1>6, <1>7, PanelSeats DEF Panel!Assign, Panel!Panel, Panel!Taken, Held
<1>9. t \in Panel!Seats /\ a \in Adjudicators
  BY <1>1, <1>3, PanelSeats
<1> QED BY <1>8, <1>9 DEF Panel!Next

LEMMA PanelCommit ==
  ASSUME TxAssumption, RowLocks, ~(Grants \subseteq Revocable), ApartInv, NEW r \in Requests, Commit(r)
  PROVE  Panel!Next
<1> DEFINE q == request[r]
<1>0. q.slot \in Slots /\ Seat(q.slot) \in TheSeats
  BY SeatSlots, CommitEffect DEF ApartInv
<1> PICK s \in Slots, t \in TheSeats : s = q.slot /\ t = Seat(s)
  BY <1>0
<1> DEFINE T == {u \in TheSeats : u # t /\ u.slot = TieBreak /\ q.result.tieBreak
                                        /\ tasks[u.slot].status = "absent"}
<1> PICK S \in SUBSET TheSeats : S = T
  OBVIOUS
<1>1. /\ q.pc = "committing" /\ s \in Slots /\ tasks[s].status = "claimed" /\ tasks[s] \in TaskRow
      /\ q.result.tieBreak => \A v \in PrimarySlots : v = s \/ rows[v] # NoRow
  BY CommitEffect DEF ApartInv, PgInv, Relies, Justified
<1>2. t \in TheSeats /\ t.slot = s /\ \A u \in TheSeats : u.slot \in Slots /\ (u # t <=> u.slot # s)
  BY <1>1, SeatSlots
<1>3. \A u \in Slots :
        tasks'[u] = IF u = s THEN [tasks[u] EXCEPT !.status = "completed"]
                    ELSE IF u = TieBreak /\ q.result.tieBreak /\ tasks[u].status = "absent"
                      THEN [status |-> "pending", assignee |-> Nobody]
                    ELSE tasks[u]
  BY DEF Commit
<1>4. \A u \in TheSeats : u \in S <=> /\ u # t /\ u.slot = TieBreak /\ q.result.tieBreak
                                      /\ tasks[u.slot].status = "absent"
  OBVIOUS
<1>5. \A v \in PrimarySlots : v \in Slots /\ (rows[v] # NoRow => tasks[v].status = "completed")
  BY DEF ApartInv, PgInv, WorkMatchesTask, PrimarySlots, Slots
<1> HIDE DEF q, T
<1>6. ASSUME NEW u \in TheSeats
      PROVE  /\ tasks'[u.slot].status = IF u = t THEN "completed"
                                        ELSE IF u \in S THEN "pending" ELSE tasks[u.slot].status
             /\ tasks'[u.slot].assignee = tasks[u.slot].assignee
  <2>1. CASE u = t
    <3>1. tasks'[s] = [tasks[s] EXCEPT !.status = "completed"]
      BY <1>1, <1>3
    <3>2. tasks'[s].status = "completed" /\ tasks'[s].assignee = tasks[s].assignee
      BY <1>1, <3>1 DEF TaskRow
    <3> QED BY <1>2, <2>1, <3>2
  <2>2. CASE u # t /\ u \in S
    <3>1. tasks'[u.slot] = [status |-> "pending", assignee |-> Nobody]
      BY <1>2, <1>3, <1>4, <2>2
    <3>2. tasks[u.slot].assignee = Nobody
      BY <1>2, <1>4, <2>2 DEF ApartInv, AbsentUnheld
    <3> QED BY <2>2, <3>1, <3>2
  <2>3. CASE u # t /\ u \notin S
    <3>1. tasks'[u.slot] = tasks[u.slot]
      BY <1>2, <1>3, <1>4, <2>3
    <3> QED BY <2>3, <3>1
  <2> QED BY <2>1, <2>2, <2>3
<1>7. [u \in TheSeats |-> tasks'[u.slot].status]
        = [u \in TheSeats |-> IF u = t THEN "completed"
                              ELSE IF u \in S THEN "pending"
                              ELSE [v \in TheSeats |-> tasks[v.slot].status][u]]
  BY <1>6
<1>8. [u \in TheSeats |-> tasks'[u.slot].assignee] = [u \in TheSeats |-> tasks[u.slot].assignee]
  BY <1>6
<1>9. Panel!Opened(S, Panel!Reported \cup {t})
  <2> SUFFICES ASSUME NEW u \in S, u.slot = Panel!TieBreak, NEW v \in Panel!Primaries(u)
               PROVE  v \in Panel!Reported \cup {t}
    BY <1>4, PanelSeats DEF Panel!Opened
  <2>1. v \in TheSeats /\ v.slot \in PrimarySlots /\ q.result.tieBreak
    BY <1>4, PanelSeats
       DEF Panel!Primaries, Panel!Panel, Panel!PrimarySlots, Panel!Primary, Panel!Secondary,
           PrimarySlots, Primary, Secondary
  <2>2. v.slot = s \/ tasks[v.slot].status = "completed"
    BY <1>1, <1>5, <2>1
  <2>3. v = t \/ tasks[v.slot].status = "completed"
    BY <1>2, <2>1, <2>2
  <2> QED BY <2>1, <2>3, PanelSeats DEF Panel!Reported
<1>10. t \notin S
  BY <1>4
<1>11. [u \in TheSeats |-> tasks[u.slot].status][t] = "claimed"
  BY <1>1, <1>2
<1>12. Panel!Report(t, S)
  BY <1>7, <1>8, <1>9, <1>10, <1>11, PanelSeats DEF Panel!Report
<1> QED BY <1>2, <1>12, PanelSeats DEF Panel!Next

(* Concurrency adds nothing to what a review panel may do: on PostgreSQL, while a
   grant stays and everybody awaits their answers, each transaction commits as one
   step of IndependentReview, or changes nothing of the panel.                    *)
THEOREM CommitsAreSteps ==
  ASSUME RowLocks, ~(Grants \subseteq Revocable), Patient = Adjudicators PROVE Spec => StepsOfAPanel
<1>1. TxAssumption /\ ApartInv /\ [Next]_vars => [Panel!Next]_(Panel!vars)
  <2> SUFFICES ASSUME TxAssumption, ApartInv, [Next]_vars, ~UNCHANGED tasks PROVE Panel!Next
    BY PanelUnchanged
  <2>1. ASSUME NEW r \in Requests, Cancel(r) PROVE FALSE
    BY <2>1, CancelEffect DEF ApartInv
  <2> QED BY <2>1, PanelTake, PanelCommit, TablesStep
<1> QED BY <1>1, TxAssumption, ApartInit, ApartStep, PTL DEF Spec, StepsOfAPanel
=============================================================================
