------------------------------ MODULE Vouchers ------------------------------
(***************************************************************************)
(* Voucher batches (backend/vouchers, and the voucher half of              *)
(* subscribers/radius.py, accounting/services.py and accounting/control.py)*)
(* under concurrent requests: RADIUS authorization and post-auth,          *)
(* accounting, live policy enforcement, the operator's disable and delete, *)
(* and the Celery task that expires vouchers.                              *)
(*                                                                         *)
(* Each request runs at READ COMMITTED and takes PostgreSQL row locks: a   *)
(* SELECT ... FOR UPDATE with select_related locks the joined rows too, in *)
(* the order of the join.  Writes become visible when the request commits; *)
(* a cycle of waiting requests is broken by aborting one of them.  Time is *)
(* the single fact whether a voucher's duration is over.                   *)
(***************************************************************************)
EXTENDS FiniteSets, Naturals

CONSTANTS
  Vouchers,
  Batches,
  BatchOf,   \* the batch of a voucher
  Workers,   \* request threads
  Beat       \* the Celery worker that runs vouchers.expire_due

Processes == Workers \cup {Beat}
Rows == Vouchers \cup Batches
VouchersOf(b) == {v \in Vouchers : BatchOf[v] = b}

ASSUME BatchAssumption == BatchOf \in [Vouchers -> Batches]
ASSUME RowsAssumption == Vouchers \cap Batches = {} /\ Beat \notin Workers

VARIABLES
  status,       \* Voucher.status, or "deleted"
  enabled,      \* VoucherBatch.enabled
  due,          \* expires_at is set and past
  quota,        \* what the effective policy says of a voucher's usage
  activations,  \* history: Generated -> Active transitions of a voucher
  late,         \* history: vouchers activated while a deletion that had found
                \* their batch unused was under way
  accepted,     \* vouchers FreeRADIUS holds an authorization for (external)
  pc,           \* the next statement of each process
  target,       \* the voucher or batch a request is about
  todo,         \* rows a multi-row statement has still to visit
  held          \* row locks

history == <<activations, late>>
vars == <<status, enabled, due, quota, history, accepted, pc, target, todo, held>>
data == <<status, enabled, history>>
env == <<due, quota, accepted>>

Statuses == {"generated", "active", "consumed", "expired", "disabled", "deleted"}
Usable == {"generated", "active"}
Quotas == {"open", "period_block", "subscription_block"}
Steps == {"idle", "authorize", "authorize_batch", "activate", "account_activate",
          "consume", "disable", "disable_rows", "expire_rows", "delete_check",
          "delete_rows", "delete_batch"}

Init ==
  /\ status = [v \in Vouchers |-> "generated"]
  /\ enabled = [b \in Batches |-> TRUE]
  /\ due = [v \in Vouchers |-> FALSE]
  /\ quota = [v \in Vouchers |-> "open"]
  /\ activations = [v \in Vouchers |-> 0]
  /\ late = {}
  /\ accepted = {}
  /\ pc = [p \in Processes |-> "idle"]
  /\ target = [p \in Processes |-> Beat]
  /\ todo = [p \in Processes |-> {}]
  /\ held = [p \in Processes |-> {}]

-----------------------------------------------------------------------------
(* Row locks and transactions.                                             *)

INSTANCE RowLocks

Begin(p, step, t) ==
  /\ pc[p] = "idle"
  /\ pc' = [pc EXCEPT ![p] = step]
  /\ target' = [target EXCEPT ![p] = t]

\* Commit or rollback: the locks go, the request is answered.
Finish(p) ==
  /\ pc' = [pc EXCEPT ![p] = "idle"]
  /\ target' = [target EXCEPT ![p] = Beat]
  /\ todo' = [todo EXCEPT ![p] = {}]
  /\ held' = [held EXCEPT ![p] = {}]

Goto(p, step) == pc' = [pc EXCEPT ![p] = step] /\ UNCHANGED target

\* The rows the next statement of a process may have to wait for.
Wanted(p) ==
  CASE pc[p] \in {"authorize", "activate", "account_activate", "consume", "disable",
                  "delete_batch"} -> {target[p]}
    [] pc[p] = "authorize_batch" -> {BatchOf[target[p]]}
    [] pc[p] \in {"disable_rows", "expire_rows", "delete_rows"} -> todo[p]
    [] OTHER -> {}

\* PostgreSQL aborts one transaction of a cycle; the request fails.
DeadlockAbort(p) ==
  /\ Deadlocked(p, [q \in Processes |-> Wanted(q)])
  /\ Finish(p)
  /\ UNCHANGED <<data, env>>

-----------------------------------------------------------------------------
(* authorize_radius -> _voucher_authorization.                             *)

BeginAuthorize(p, v) ==
  /\ status[v] # "deleted"
  /\ Begin(p, "authorize", v)
  /\ UNCHANGED <<data, env, todo, held>>

\* The join locks the voucher row first, then its batch.
LockVoucher(p) ==
  LET v == target[p] IN
  /\ pc[p] = "authorize"
  /\ Free(p, v)
  /\ IF status[v] = "deleted"
       THEN Finish(p)
       ELSE /\ held' = [held EXCEPT ![p] = @ \cup {v}]
            /\ Goto(p, "authorize_batch")
            /\ UNCHANGED todo
  /\ UNCHANGED <<data, env>>

StatusAuthorized(v) ==
  CASE status[v] = "active" /\ due[v] -> "expired"
    [] status[v] = "active" /\ ~due[v] /\ quota[v] = "subscription_block" -> "consumed"
    [] OTHER -> status[v]

Accepts(v) ==
  \/ status[v] = "generated"
  \/ status[v] = "active" /\ ~due[v] /\ quota[v] = "open"

\* A disabled batch or package rejects before anything is written.
Authorize(p) ==
  LET v == target[p] IN
  /\ pc[p] = "authorize_batch"
  /\ Free(p, BatchOf[v])
  /\ \E package_enabled \in BOOLEAN :
       IF enabled[BatchOf[v]] /\ package_enabled
         THEN /\ status' = [status EXCEPT ![v] = StatusAuthorized(v)]
              /\ accepted' = IF Accepts(v) THEN accepted \cup {v} ELSE accepted
         ELSE UNCHANGED <<status, accepted>>
  /\ Finish(p)
  /\ UNCHANGED <<enabled, history, due, quota>>

-----------------------------------------------------------------------------
(* activate_voucher, from post-auth and from accounting.                   *)

Deleting(b) ==
  \E p \in Processes : /\ pc[p] \in {"delete_check", "delete_rows", "delete_batch"}
                       /\ target[p] = b

CountActivation(v) ==
  /\ activations' = [activations EXCEPT ![v] = @ + 1]
  /\ late' = IF Deleting(BatchOf[v]) THEN late \cup {v} ELSE late

\* FreeRADIUS accepted the password and reports it.
BeginPostAuth(p, v) ==
  /\ v \in accepted
  /\ status[v] # "deleted"
  /\ Begin(p, "activate", v)
  /\ UNCHANGED <<data, env, todo, held>>

\* _resolve_identity reads the voucher and activates a Generated one.
BeginAccounting(p, v) ==
  /\ v \in accepted
  /\ status[v] = "generated"
  /\ Begin(p, "account_activate", v)
  /\ UNCHANGED <<data, env, todo, held>>

\* Mutant of Activate: accounting trusts the status it read before the lock.
ActivateStale(p) ==
  LET v == target[p]
      first == pc[p] = "account_activate" \/ status[v] = "generated"
  IN
  /\ pc[p] \in {"activate", "account_activate"}
  /\ Free(p, v)
  /\ status' = [status EXCEPT ![v] = IF first THEN "active" ELSE @]
  /\ IF first THEN CountActivation(v) ELSE UNCHANGED history
  /\ Finish(p)
  /\ UNCHANGED <<enabled, env>>

\* Mutant of Activate: a login on a voucher that is over starts it again.
ActivateAgain(p) ==
  LET v == target[p] IN
  /\ pc[p] \in {"activate", "account_activate"}
  /\ Free(p, v)
  /\ status' = [status EXCEPT ![v] = IF @ \in {"generated", "expired"} THEN "active" ELSE @]
  /\ IF status[v] = "generated" THEN CountActivation(v) ELSE UNCHANGED history
  /\ Finish(p)
  /\ UNCHANGED <<enabled, env>>

\* The row is locked and read again.  An Active voucher keeps its period; of
\* one that is over, the Expired status written here is rolled back by the
\* exception raised in the same transaction.
Activate(p) ==
  LET v == target[p] IN
  /\ pc[p] \in {"activate", "account_activate"}
  /\ Free(p, v)
  /\ IF status[v] = "generated"
       THEN status' = [status EXCEPT ![v] = "active"] /\ CountActivation(v)
       ELSE UNCHANGED <<status, history>>
  /\ Finish(p)
  /\ UNCHANGED <<enabled, env>>

-----------------------------------------------------------------------------
(* refresh_session_policy -> _sync_identity_state: no transaction, no lock, *)
(* and a voucher object read before the policy was calculated.             *)

BeginRefresh(p, v) ==
  /\ status[v] = "active"
  /\ quota[v] = "subscription_block"
  /\ Begin(p, "consume", v)
  /\ UNCHANGED <<data, env, todo, held>>

\* save(update_fields=["status"]): fails when the row is gone.
SaveConsumed(p) ==
  LET v == target[p] IN
  /\ pc[p] = "consume"
  /\ Free(p, v)
  /\ status' = [status EXCEPT ![v] = IF @ = "deleted" THEN @ ELSE "consumed"]
  /\ Finish(p)
  /\ UNCHANGED <<enabled, history, env>>

-----------------------------------------------------------------------------
(* disable_batch: the batch row, then one UPDATE of its usable vouchers.   *)

\* The vouchers of a batch are created with it and deleted with it.
Exists(b) == \E v \in VouchersOf(b) : status[v] # "deleted"

BeginDisable(p, b) ==
  /\ Exists(b)
  /\ Begin(p, "disable", b)
  /\ UNCHANGED <<data, env, todo, held>>

LockBatch(p) ==
  LET b == target[p] IN
  /\ pc[p] = "disable"
  /\ Free(p, b)
  /\ IF Exists(b)
       THEN /\ held' = [held EXCEPT ![p] = @ \cup {b}]
            /\ todo' = [todo EXCEPT ![p] = {v \in VouchersOf(b) : status[v] \in Usable}]
            /\ Goto(p, "disable_rows")
       ELSE Finish(p)
  /\ UNCHANGED <<data, env>>

\* A multi-row statement visits its rows one by one: it waits for the lock and
\* evaluates its WHERE clause again on the row it finds.
VisitRow(p, step, matching) ==
  /\ pc[p] = step
  /\ \E v \in todo[p] :
       /\ Free(p, v)
       /\ todo' = [todo EXCEPT ![p] = @ \ {v}]
       /\ held' = [held EXCEPT ![p] = IF v \in matching THEN @ \cup {v} ELSE @]
  /\ UNCHANGED <<data, env, pc, target>>

\* Mutant of VisitUsable: the UPDATE disables the unused vouchers only.
VisitGenerated(p) == VisitRow(p, "disable_rows", {v \in Vouchers : status[v] = "generated"})

VisitUsable(p) == VisitRow(p, "disable_rows", {v \in Vouchers : status[v] \in Usable})

CommitDisable(p) ==
  LET b == target[p] IN
  /\ pc[p] = "disable_rows"
  /\ todo[p] = {}
  /\ enabled' = [enabled EXCEPT ![b] = FALSE]
  /\ status' = [v \in Vouchers |-> IF v \in held[p] THEN "disabled" ELSE status[v]]
  /\ Finish(p)
  /\ UNCHANGED <<history, env>>

-----------------------------------------------------------------------------
(* expire_due_vouchers: one UPDATE, every minute.                          *)

Due == {v \in Vouchers : status[v] = "active" /\ due[v]}

BeginExpire(p) ==
  /\ Due # {}
  /\ Begin(p, "expire_rows", p)
  /\ todo' = [todo EXCEPT ![p] = Due]
  /\ UNCHANGED <<data, env, held>>

VisitDue(p) == VisitRow(p, "expire_rows", {v \in Vouchers : status[v] = "active"})

CommitExpire(p) ==
  /\ pc[p] = "expire_rows"
  /\ todo[p] = {}
  /\ status' = [v \in Vouchers |-> IF v \in held[p] THEN "expired" ELSE status[v]]
  /\ Finish(p)
  /\ UNCHANGED <<enabled, history, env>>

-----------------------------------------------------------------------------
(* VoucherBatchViewSet.destroy: the check is one query, the delete another. *)

\* Mutant of BeginDelete: disabled batches may go.
BeginDeleteDisabled(p, b) ==
  /\ Exists(b)
  /\ \A v \in VouchersOf(b) : status[v] \in {"generated", "disabled", "deleted"}
  /\ Begin(p, "delete_check", b)
  /\ UNCHANGED <<data, env, todo, held>>

BeginDelete(p, b) ==
  /\ Exists(b)
  /\ \A v \in VouchersOf(b) : status[v] \in {"generated", "deleted"}
  /\ Begin(p, "delete_check", b)
  /\ UNCHANGED <<data, env, todo, held>>

\* batch.delete() collects the vouchers of the batch and deletes them by key.
CollectRows(p) ==
  /\ pc[p] = "delete_check"
  /\ todo' = [todo EXCEPT ![p] = {v \in VouchersOf(target[p]) : status[v] # "deleted"}]
  /\ Goto(p, "delete_rows")
  /\ UNCHANGED <<data, env, held>>

VisitDeleted(p) == VisitRow(p, "delete_rows", {v \in Vouchers : status[v] # "deleted"})

DeleteBatchRow(p) ==
  /\ pc[p] = "delete_rows"
  /\ todo[p] = {}
  /\ Goto(p, "delete_batch")
  /\ UNCHANGED <<data, env, todo, held>>

CommitDelete(p) ==
  /\ pc[p] = "delete_batch"
  /\ Free(p, target[p])
  /\ status' = [v \in Vouchers |-> IF v \in held[p] THEN "deleted" ELSE status[v]]
  /\ Finish(p)
  /\ UNCHANGED <<enabled, history, env>>

-----------------------------------------------------------------------------
(* Time and usage (external).                                              *)

DurationEnds(v) ==
  /\ activations[v] > 0
  /\ ~due[v]
  /\ due' = [due EXCEPT ![v] = TRUE]
  /\ UNCHANGED <<data, quota, accepted, pc, target, todo, held>>

\* Usage grows, a period ends, or the package's stages are edited.
QuotaMoves(v) ==
  /\ activations[v] > 0
  /\ \E q \in Quotas \ {quota[v]} : quota' = [quota EXCEPT ![v] = q]
  /\ UNCHANGED <<data, due, accepted, pc, target, todo, held>>

-----------------------------------------------------------------------------
Request(p) ==
  \/ \E v \in Vouchers : \/ BeginAuthorize(p, v) \/ BeginPostAuth(p, v)
                         \/ BeginAccounting(p, v) \/ BeginRefresh(p, v)
  \/ \E b \in Batches : BeginDisable(p, b) \/ BeginDelete(p, b)

Work(p) ==
  \/ LockVoucher(p) \/ Authorize(p) \/ Activate(p) \/ SaveConsumed(p)
  \/ LockBatch(p) \/ VisitUsable(p) \/ CommitDisable(p)
  \/ CollectRows(p) \/ VisitDeleted(p) \/ DeleteBatchRow(p) \/ CommitDelete(p)

Expire(p) == BeginExpire(p) \/ VisitDue(p) \/ CommitExpire(p)

Environment == \E v \in Vouchers : DurationEnds(v) \/ QuotaMoves(v)

Next ==
  \/ \E p \in Workers : Request(p) \/ Work(p)
  \/ Expire(Beat)
  \/ \E p \in Processes : DeadlockAbort(p)
  \/ Environment

Spec == Init /\ [][Next]_vars

-----------------------------------------------------------------------------
TypeOK ==
  /\ status \in [Vouchers -> Statuses]
  /\ enabled \in [Batches -> BOOLEAN]
  /\ due \in [Vouchers -> BOOLEAN]
  /\ quota \in [Vouchers -> Quotas]
  /\ activations \in [Vouchers -> Nat]
  /\ late \subseteq Vouchers
  /\ accepted \subseteq Vouchers
  /\ pc \in [Processes -> Steps]
  /\ target \in [Processes -> Rows \cup {Beat}]
  /\ todo \in [Processes -> SUBSET Vouchers]
  /\ held \in [Processes -> SUBSET Rows]

\* Two first logins, or a login and an accounting packet, racing for one
\* voucher start its paid period once: activate_voucher reads again under lock.
ActivatedOnce == \A v \in Vouchers : activations[v] <= 1

\* disable_batch leaves nothing usable behind, although activations and
\* authorizations were under way: its UPDATE re-reads the rows it waited for.
DisabledBatchIsUnusable ==
  \A v \in Vouchers : ~enabled[BatchOf[v]] => status[v] \notin Usable

\* docs/phase-5: a batch is deleted only while all of it is unused.  No voucher
\* that was sold and used goes with its batch, but for one activated after the
\* check and before the DELETE, which are separate queries.
OnlyUnusedDeleted ==
  \A v \in Vouchers : status[v] = "deleted" /\ activations[v] > 0 => v \in late

\* Refinement: a voucher is unused, runs once and then is over for good.
CardOf(v) ==
  CASE status[v] = "generated" -> "unused"
    [] status[v] = "active"    -> "running"
    [] OTHER                   -> "over"
Cards == [v \in Vouchers |-> CardOf(v)]
Card == INSTANCE VoucherCard WITH card <- Cards
ImplementsCard == Card!Spec
=============================================================================
