--------------------------- MODULE AdjudicationTx ---------------------------
(***************************************************************************)
(* Adjudication, one database statement at a time: claims, submissions and *)
(* revocations of one seeded concern as concurrent transactions (api.py    *)
(* runs its handlers in a thread pool, auth.get_session gives each request *)
(* a session of its own with autoflush off).                               *)
(*                                                                         *)
(* RowLocks tells the two supported databases apart.  PostgreSQL (READ     *)
(* COMMITTED) locks the rows it writes or selects FOR UPDATE.  SQLite has  *)
(* no FOR UPDATE, reads outside any transaction until the first write, and *)
(* then holds one write lock on the whole database until the commit.  Both *)
(* show a request the committed tables and its own writes only.            *)
(*                                                                         *)
(* The domain of the concern has no calibration set, so that everybody is  *)
(* qualified, and what submit_adjudication checks of its input is passed.  *)
(***************************************************************************)
EXTENDS Determination

CONSTANTS
    Requests,       \* places for requests in flight
    Adjudicators,
    Patient,        \* adjudicators who await an answer before they ask again
    Grants,         \* expert_adjudication grants of the case
    Revocable,      \* those a manager may revoke
    Decisions,      \* [validity, severity] that adjudicators may submit
    RowLocks,
    Nobody, NoRow

ASSUME TxAssumption ==
    /\ Patient \subseteq Adjudicators
    /\ Revocable \subseteq Grants
    /\ Decisions \subseteq [validity : Validities, severity : Severities]
    /\ RowLocks \in BOOLEAN
    /\ Nobody \notin Adjudicators
    /\ NoRow \notin [slot : Slots, validity : Validities, severity : Severities,
                     adjudicator : Adjudicators]

NoSlot == "no slot"

VARIABLES
    tasks,          \* adjudication_tasks of the concern, committed
    rows,           \* adjudication_submissions by task slot, committed
    determination,  \* the newest determination, or NoRow
    revoked,        \* grants whose revocation is committed
    request,        \* what each request in flight has read and will write
    held            \* locks each request holds

vars == <<tasks, rows, determination, revoked, request, held>>
stored == <<tasks, rows, determination, revoked>>

(* `row' is what the request is going to write: a submission, or a revoked grant. *)
Idle == [pc |-> "idle", who |-> Nobody, slot |-> NoSlot, seen |-> {}, got |-> {},
         left |-> {}, row |-> NoRow, result |-> Waiting]

(* The case is registered with its grants and the concern is seeded. *)
Init ==
    /\ tasks = [s \in Slots |->
                  [status   |-> IF s = TieBreak THEN "absent" ELSE "pending",
                   assignee |-> Nobody]]
    /\ rows = [s \in Slots |-> NoRow]
    /\ determination = NoRow
    /\ revoked = {}
    /\ request = [r \in Requests |-> Idle]
    /\ held = [r \in Requests |-> {}]

-----------------------------------------------------------------------------
(* Locks, and the frame of a transaction *)

LockOf(x)  == IF RowLocks THEN x ELSE "database"
Free(r, x) == \A q \in Requests \ {r} : LockOf(x) \notin held[q]

At(r, pc) == request[r].pc = pc
Step(r, pc, new) == /\ At(r, pc)
                    /\ request' = [request EXCEPT ![r] = new]

(* Commit or rollback: the request is answered and its locks are released. *)
Finish(r, pc) == Step(r, pc, Idle) /\ held' = [held EXCEPT ![r] = {}]

(* A request that never gets to commit: a failed statement, a lock wait that
   times out, a lost connection or a killed worker.                         *)
Abort(r) == /\ request[r].pc # "idle"
            /\ Finish(r, request[r].pc)
            /\ UNCHANGED stored

MayAsk(a) == a \in Patient => \A r \in Requests : request[r].who # a

(* require_use_grant, as a statement of its own *)
Authorised == revoked # Grants

-----------------------------------------------------------------------------
(* claim_task *)

SlotRank == [s \in Slots |-> CASE s = Primary -> 0 [] s = Secondary -> 1
                               [] s = TieBreak -> 2]
IsOldest(s, S) == s \in S /\ \A u \in S : SlotRank[s] <= SlotRank[u]
Held(s) == tasks[s].status \in {"claimed", "completed"}

(* The candidates of the statement's snapshot; SQLite simply returns them, as every
   database does in the variant, which forgets FOR UPDATE.                         *)
BeginClaimUnlocked(r, a) ==
    LET pending == {s \in Slots : tasks[s].status = "pending"}
    IN  /\ MayAsk(a)
        /\ Step(r, "idle", [Idle EXCEPT !.pc = "looking", !.who = a,
                              !.got = pending, !.left = pending])
        /\ UNCHANGED <<stored, held>>
BeginClaim(r, a) ==
    LET pending == {s \in Slots : tasks[s].status = "pending"}
        loaded  == IF RowLocks THEN {} ELSE pending
    IN  /\ MayAsk(a)
        /\ Step(r, "idle", [Idle EXCEPT !.pc = "looking", !.who = a,
                              !.seen = pending \ loaded, !.got = loaded, !.left = loaded])
        /\ UNCHANGED <<stored, held>>

(* FOR UPDATE SKIP LOCKED takes the rows one by one in the order of the query,
   and looks again at the condition on the newest version of each.  The variant
   returns a row that another request has locked.                              *)
LockableNoWait(r, s) == tasks[s].status = "pending"
Lockable(r, s)       == tasks[s].status = "pending" /\ Free(r, s)

LockCandidate(r) ==
    \E s \in Slots :
        /\ IsOldest(s, request[r].seen)
        /\ LET rest == [request[r] EXCEPT !.seen = @ \ {s}]
           IN  IF Lockable(r, s)
                 THEN /\ Step(r, "looking", [rest EXCEPT !.got = @ \cup {s}, !.left = @ \cup {s}])
                      /\ held' = [held EXCEPT ![r] = @ \cup {LockOf(s)}]
                 ELSE Step(r, "looking", rest) /\ UNCHANGED held
        /\ UNCHANGED stored

(* The loop over the candidates: rights first, then the siblings. *)
NoCandidate(r) == /\ request[r].seen = {} /\ request[r].left = {}
                  /\ Finish(r, "looking")
                  /\ UNCHANGED stored

ClaimRights(r) ==
    \E s \in Slots :
        /\ request[r].seen = {}
        /\ IsOldest(s, request[r].left)
        /\ Step(r, "looking",
                IF Authorised THEN [request[r] EXCEPT !.pc = "siblings", !.slot = s]
                              ELSE [request[r] EXCEPT !.left = @ \ {s}])
        /\ UNCHANGED <<stored, held>>

(* The siblings: candidates are in the session as they were loaded, pending, the
   other rows are read now.  Variant: only finished reviews block.              *)
BlocksWhenFinished(r, u) == /\ u \notin request[r].got
                            /\ tasks[u].status = "completed"
                            /\ tasks[u].assignee = request[r].who
Blocks(r, u) == /\ u \notin request[r].got
                /\ Held(u) /\ tasks[u].assignee = request[r].who

Siblings(r) ==
    LET s == request[r].slot
    IN  /\ Step(r, "siblings",
                IF \E u \in Slots \ {s} : Blocks(r, u)
                  THEN [request[r] EXCEPT !.pc = "looking", !.left = @ \ {s}]
                  ELSE [request[r] EXCEPT !.pc = "taking"])
        /\ UNCHANGED <<stored, held>>

(* UPDATE ... WHERE task_id = ?, then the commit. *)
Take(r) ==
    LET s == request[r].slot
    IN  /\ At(r, "taking") /\ Free(r, s)
        /\ Finish(r, "taking")
        /\ tasks' = [tasks EXCEPT ![s] = [status |-> "claimed", assignee |-> request[r].who]]
        /\ UNCHANGED <<rows, determination, revoked>>

-----------------------------------------------------------------------------
(* submit_adjudication *)

BeginSubmit(r, a, s, d) ==
    /\ MayAsk(a)
    /\ tasks[s] = [status |-> "claimed", assignee |-> a]
    /\ Step(r, "idle", [Idle EXCEPT !.pc = "rights", !.who = a, !.slot = s,
                          !.row = [slot |-> s, validity |-> d.validity,
                                   severity |-> d.severity, adjudicator |-> a]])
    /\ UNCHANGED <<stored, held>>

SubmitRights(r) ==
    /\ IF Authorised
         THEN Step(r, "rights", [request[r] EXCEPT !.pc = "flushing"]) /\ UNCHANGED held
         ELSE Finish(r, "rights")
    /\ UNCHANGED stored

(* The flush updates the task row, which waits for its lock, and inserts the
   submission, whose task_id is unique: a second one is an IntegrityError.   *)
Flush(r) ==
    LET s == request[r].slot
    IN  /\ At(r, "flushing") /\ Free(r, s)
        /\ IF rows[s] # NoRow
             THEN Finish(r, "flushing")
             ELSE /\ Step(r, "flushing", [request[r] EXCEPT !.pc = "deciding"])
                  /\ held' = [held EXCEPT ![r] = @ \cup {LockOf(s)}]
        /\ UNCHANGED stored

(* _recompute_determination reads the committed submissions and its own.  The
   policy does not depend on their order (PolicyArrivals, OrderIrrelevant).  *)
RowsOf(R) ==
    LET Filed(s) == IF R[s] = NoRow THEN <<>> ELSE <<R[s]>>
    IN  Filed(Primary) \o Filed(Secondary) \o Filed(TieBreak)

(* Variants: the flush is forgotten, so that the new row is not seen; the other
   tasks of the concern are locked first, one after the other.                 *)
VisibleUnflushed(r) == rows
Visible(r) == [rows EXCEPT ![request[r].slot] = request[r].row]

DecideLocked(r) ==
    /\ At(r, "deciding") /\ \A s \in PrimarySlots : Free(r, s)
    /\ Step(r, "deciding", [request[r] EXCEPT !.pc = "committing",
                              !.result = Determine(RowsOf(Visible(r)))])
    /\ UNCHANGED <<stored, held>>
Decide(r) ==
    /\ Step(r, "deciding", [request[r] EXCEPT !.pc = "committing",
                              !.result = Determine(RowsOf(Visible(r)))])
    /\ UNCHANGED <<stored, held>>

(* The determination row, the tie-break task it calls for, and the commit. *)
Commit(r) ==
    LET s == request[r].slot
    IN  /\ Finish(r, "committing")
        /\ rows' = [rows EXCEPT ![s] = request[r].row]
        /\ determination' = request[r].result
        /\ tasks' = [u \in Slots |->
              IF u = s THEN [tasks[u] EXCEPT !.status = "completed"]
              ELSE IF u = TieBreak /\ request[r].result.tieBreak /\ tasks[u].status = "absent"
                THEN [status |-> "pending", assignee |-> Nobody]
              ELSE tasks[u]]
        /\ UNCHANGED revoked

-----------------------------------------------------------------------------
(* revoke_grant *)

BeginRevoke(r, g) ==
    /\ g \notin revoked
    /\ Step(r, "idle", [Idle EXCEPT !.pc = "revoking", !.row = g])
    /\ UNCHANGED <<stored, held>>

(* The flush of status = revoked. *)
FlushRevoke(r) ==
    /\ At(r, "revoking") /\ Free(r, request[r].row)
    /\ Step(r, "revoking", [request[r] EXCEPT !.pc = "counting"])
    /\ held' = [held EXCEPT ![r] = @ \cup {LockOf(request[r].row)}]
    /\ UNCHANGED stored

(* Is another expert grant active?  If not, which tasks are open now?  (Two
   statements, but once no grant is active none ever is again here.)  The
   variant forgets the claimed ones.                                         *)
PendingOnly   == {"pending"}
OpenStatuses  == {"pending", "claimed"}
OpenTasks     == {s \in Slots : tasks[s].status \in OpenStatuses}

CountGrants(r) ==
    /\ Step(r, "counting", [request[r] EXCEPT !.pc = "cancelling",
                              !.seen = IF revoked \cup {request[r].row} = Grants
                                         THEN OpenTasks ELSE {}])
    /\ UNCHANGED <<stored, held>>

(* UPDATE ... SET status = 'cancelled' WHERE task_id = ?, once per task, in the
   order of the random task ids; then the commit, of the revocation alone when
   another grant was active.                                                   *)
LockOpen(r) ==
    \E s \in request[r].seen :
        /\ At(r, "cancelling")
        /\ LockOf(s) \notin held[r] /\ Free(r, s)
        /\ Step(r, "cancelling", request[r])
        /\ held' = [held EXCEPT ![r] = @ \cup {LockOf(s)}]
        /\ UNCHANGED stored

Cancel(r) ==
    /\ \A s \in request[r].seen : LockOf(s) \in held[r]
    /\ Finish(r, "cancelling")
    /\ tasks' = [s \in Slots |-> IF s \in request[r].seen
                                   THEN [tasks[s] EXCEPT !.status = "cancelled"]
                                   ELSE tasks[s]]
    /\ revoked' = revoked \cup {request[r].row}
    /\ UNCHANGED <<rows, determination>>

-----------------------------------------------------------------------------
Claim(r)  == \/ LockCandidate(r) \/ NoCandidate(r) \/ ClaimRights(r)
             \/ Siblings(r) \/ Take(r)
Submit(r) == SubmitRights(r) \/ Flush(r) \/ Decide(r) \/ Commit(r)
Revoke(r) == FlushRevoke(r) \/ CountGrants(r) \/ LockOpen(r) \/ Cancel(r)
Proceed(r) == Claim(r) \/ Submit(r) \/ Revoke(r)

Begin(r) ==
    \/ \E a \in Adjudicators : BeginClaim(r, a)
    \/ \E a \in Adjudicators, s \in Slots, d \in Decisions : BeginSubmit(r, a, s, d)
    \/ \E g \in Revocable : BeginRevoke(r, g)

Next == \E r \in Requests : Begin(r) \/ Proceed(r) \/ Abort(r)

Spec == Init /\ [][Next]_vars

-----------------------------------------------------------------------------
(* Properties *)

TaskRow == [status : {"absent", "pending", "claimed", "completed", "cancelled"},
            assignee : Adjudicators \cup {Nobody}]
Row == [slot : Slots, validity : Validities, severity : Severities, adjudicator : Adjudicators]
Locks == Slots \cup Grants \cup {"database"}

(* Well-formed tables; a request that is not in flight holds nothing, and no lock
   is held twice.                                                                *)
TypeOK ==
    /\ tasks \in [Slots -> TaskRow]
    /\ rows \in [Slots -> Row \cup {NoRow}]
    /\ determination \in PolicyResult \cup {NoRow}
    /\ revoked \subseteq Grants
    /\ \A r \in Requests : /\ held[r] \subseteq Locks
                           /\ request[r].pc = "idle" => request[r] = Idle /\ held[r] = {}
    /\ \A q, r \in Requests : q # r => held[q] \cap held[r] = {}

(* A claim is final: whoever was told that a task is theirs keeps it, whatever
   the requests racing with the claim do (the lock taken by claim_task's query).  *)
ClaimsHold == [][\A s \in Slots : Held(s) => Held(s)' /\ tasks'[s].assignee = tasks[s].assignee]_vars

(* Nobody holds two tasks of the concern, nor wrote two of its adjudications. *)
IndependentReviewers ==
    \A s, u \in Slots : s # u =>
        /\ Held(s) /\ Held(u) => tasks[s].assignee # tasks[u].assignee
        /\ rows[s] # NoRow /\ rows[u] # NoRow => rows[s].adjudicator # rows[u].adjudicator

(* A task is completed exactly when its adjudication is stored, and its assignee
   is the author (submit_adjudication checks both before it writes either).      *)
WorkMatchesTask ==
    \A s \in Slots :
        /\ tasks[s].status = "completed" <=> rows[s] # NoRow
        /\ rows[s] # NoRow => rows[s].adjudicator = tasks[s].assignee

(* While nobody revokes anything, every commit is a step of IndependentReview. *)
TheSeats == [case : {"case"}, concern : {1}, slot : Slots]
Panel == INSTANCE IndependentReview
           WITH Cases <- {"case"}, Concerns <- {1}, Reviewers <- Adjudicators,
                phase  <- [t \in TheSeats |-> tasks[t.slot].status],
                holder <- [t \in TheSeats |-> tasks[t.slot].assignee]
StepsOfAPanel == [][Panel!Next]_(Panel!vars)

(* The newest determination answers all the stored adjudications, also when two of
   them were submitted at the same time (_recompute_determination).               *)
DeterminationCurrent ==
    determination = IF \A s \in Slots : rows[s] = NoRow THEN NoRow ELSE Determine(RowsOf(rows))

(* determination.py: "Any contested critical classification requires tie-break
   adjudication."  Two stored primaries of which one is critical have a tie-break
   task.                                                                          *)
ContestedCriticalGetsTieBreak ==
    /\ \A s \in PrimarySlots : rows[s] # NoRow
    /\ \E s, u \in PrimarySlots : rows[s].severity = Critical /\ rows[u].severity # Critical
    => tasks[TieBreak].status # "absent"

(* Once the last grant is revoked no primary review is open, whatever was claimed or
   submitted meanwhile: no claim slips past the revocation and leaves a task behind
   (revoke_grant).                                                                 *)
RevocationStopsReviews ==
    revoked = Grants => \A s \in PrimarySlots : tasks[s].status \notin {"pending", "claimed"}

(* The locks of claims, submissions and revocations are taken in orders that never
   deadlock: some request in flight can always proceed without being aborted.      *)
NobodyWaitsForever ==
    (\E r \in Requests : request[r].pc # "idle") => \E r \in Requests : ENABLED Proceed(r)
=============================================================================
