--------------------------- MODULE VouchersProofs ---------------------------
(***************************************************************************)
(* What a voucher is worth, for every set of vouchers, batches and         *)
(* requests.                                                               *)
(***************************************************************************)
EXTENDS Vouchers, TLAPS

AboutVoucher == {"authorize", "authorize_batch", "activate", "account_activate", "consume"}
Deletes == {"delete_check", "delete_rows", "delete_batch"}
AboutBatch == {"disable", "disable_rows"} \cup Deletes

\* A request is about a voucher or about a batch; the UPDATE of disable_batch has
\* locked every usable voucher of the batch, or will still visit it; a deletion
\* has locked and will visit vouchers of its batch only.
Job(p) ==
  /\ pc[p] \in AboutVoucher => target[p] \in Vouchers
  /\ pc[p] \in AboutBatch => target[p] \in Batches
  /\ pc[p] = "disable_rows" =>
       \A v \in VouchersOf(target[p]) : status[v] \in Usable => v \in todo[p] \cup held[p]
  /\ pc[p] = "idle" => held[p] = {}
  /\ pc[p] \in Deletes => held[p] \subseteq VouchersOf(target[p])
  /\ pc[p] = "delete_rows" => todo[p] \subseteq VouchersOf(target[p])

\* A voucher that has not run has not been activated.
Unused == \A v \in Vouchers : status[v] = "generated" => activations[v] = 0

\* A deletion found its batch unused: what has run of it since then is known.
DeletionsCheck == \A v \in Vouchers : Deleting(BatchOf[v]) /\ activations[v] > 0 => v \in late

IInv ==
  /\ TypeOK
  /\ \A p \in Processes : Job(p)
  /\ Unused
  /\ ActivatedOnce
  /\ DisabledBatchIsUnusable
  /\ DeletionsCheck
  /\ OnlyUnusedDeleted

LEMMA InitIInv == Init => IInv
  BY BatchAssumption DEF Init, IInv, TypeOK, Job, Unused, ActivatedOnce, DisabledBatchIsUnusable,
     DeletionsCheck, OnlyUnusedDeleted, Deleting, Statuses, Quotas, Steps, AboutVoucher, AboutBatch,
     Deletes

-----------------------------------------------------------------------------
(* How requests begin and end.                                             *)

\* What a process other than p is doing is as it was.
OthersKeep(p) ==
  \A q \in Processes \ {p} :
    pc'[q] = pc[q] /\ target'[q] = target[q] /\ todo'[q] = todo[q] /\ held'[q] = held[q]

JobTypes ==
  /\ pc \in [Processes -> Steps]
  /\ target \in [Processes -> Rows \cup {Beat}]
  /\ todo \in [Processes -> SUBSET Vouchers]
  /\ held \in [Processes -> SUBSET Rows]

LEMMA BeginStep ==
  ASSUME JobTypes, NEW p \in Processes, NEW step \in Steps, NEW t \in Rows \cup {Beat},
         Begin(p, step, t), UNCHANGED <<todo, held>>
  PROVE  /\ JobTypes' /\ OthersKeep(p)
         /\ pc[p] = "idle" /\ pc'[p] = step /\ target'[p] = t /\ held'[p] = held[p]
  BY DEF JobTypes, Begin, OthersKeep

LEMMA FinishStep ==
  ASSUME JobTypes, NEW p \in Processes, Finish(p)
  PROVE  JobTypes' /\ OthersKeep(p) /\ pc'[p] = "idle" /\ held'[p] = {}
  BY DEF JobTypes, Finish, OthersKeep, Steps

\* No step makes a voucher usable, so the others' duties stay discharged.
LEMMA OthersJobs ==
  ASSUME IInv, NEW p \in Processes, OthersKeep(p),
         \A v \in Vouchers : status'[v] \in Usable => status[v] \in Usable
  PROVE  \A q \in Processes \ {p} : Job(q)'
  BY DEF IInv, OthersKeep, Job, VouchersOf

\* No deletion begins, and what has been activated is as it was.
LEMMA SameDeletions ==
  ASSUME IInv, NEW p \in Processes, OthersKeep(p), UNCHANGED history,
         pc'[p] \in Deletes => pc[p] \in Deletes /\ target'[p] = target[p]
  PROVE  DeletionsCheck'
<1>1. \A b \in Batches : Deleting(b)' => Deleting(b)
  BY DEF Deleting, OthersKeep, Deletes
<1> QED
  BY <1>1, BatchAssumption DEF IInv, DeletionsCheck, history

\* A step of the environment touches no voucher and no request.
LEMMA EnvironmentKeeps == IInv /\ Environment => IInv'
<1> SUFFICES ASSUME IInv, Environment PROVE IInv'
  OBVIOUS
<1>1. PICK v \in Vouchers : DurationEnds(v) \/ QuotaMoves(v)
  BY DEF Environment
<1>2. UNCHANGED <<status, enabled, activations, late, accepted, pc, target, todo, held>>
  BY <1>1 DEF DurationEnds, QuotaMoves, data, history
<1>3. due' \in [Vouchers -> BOOLEAN] /\ quota' \in [Vouchers -> Quotas]
  BY <1>1 DEF DurationEnds, QuotaMoves, IInv, TypeOK
<1> QED
  BY <1>2, <1>3 DEF IInv, TypeOK, Job, Unused, ActivatedOnce, DisabledBatchIsUnusable, VouchersOf,
     DeletionsCheck, Deleting, OnlyUnusedDeleted

\* A step that writes no voucher: reads, locks, visits and failures.
LEMMA QuietStep ==
  ASSUME IInv, NEW p \in Processes, JobTypes', OthersKeep(p), Job(p)', DeletionsCheck',
         UNCHANGED <<data, due, quota>>, accepted' \subseteq Vouchers
  PROVE  IInv'
<1>1. \A q \in Processes : Job(q)'
  BY OthersJobs DEF data
<1> QED
  BY <1>1 DEF data, history, IInv, JobTypes, TypeOK, Unused, ActivatedOnce, DisabledBatchIsUnusable,
     OnlyUnusedDeleted

\* A step that ends a request and vouchers with it.
LEMMA EndingStep ==
  ASSUME IInv, NEW p \in Processes, Finish(p),
         status' \in [Vouchers -> Statuses],
         \A v \in Vouchers : status'[v] = status[v] \/ status'[v] \notin Usable,
         \A v \in Vouchers :
           status'[v] = "deleted" => status[v] = "deleted" \/ Deleting(BatchOf[v]),
         UNCHANGED <<enabled, history, due, quota>>, accepted' \subseteq Vouchers
  PROVE  IInv'
<1>1. JobTypes' /\ OthersKeep(p) /\ pc'[p] = "idle" /\ held'[p] = {}
  BY FinishStep DEF IInv, TypeOK, JobTypes
<1>2. \A q \in Processes : Job(q)'
  <2>1. Job(p)'
    BY <1>1 DEF Job, AboutVoucher, AboutBatch, Deletes
  <2> QED
    BY <1>1, <2>1, OthersJobs
<1>3. Unused' /\ ActivatedOnce' /\ DisabledBatchIsUnusable'
  BY DEF history, IInv, Unused, ActivatedOnce, DisabledBatchIsUnusable, Usable
<1>4. OnlyUnusedDeleted'
  BY DEF history, IInv, DeletionsCheck, OnlyUnusedDeleted
<1>5. DeletionsCheck'
  BY <1>1, SameDeletions DEF Deletes
<1> QED
  BY <1>1, <1>2, <1>3, <1>4, <1>5 DEF history, IInv, JobTypes, TypeOK

-----------------------------------------------------------------------------
LEMMA RequestKeeps ==
  ASSUME IInv, NEW p \in Workers, Request(p)
  PROVE  IInv'
<1>p. p \in Processes
  BY DEF Processes
<1>1. PICK step \in AboutVoucher \cup {"disable", "delete_check"}, t \in Rows :
        /\ step \in AboutVoucher => t \in Vouchers
        /\ step \notin AboutVoucher => t \in Batches
        /\ Begin(p, step, t)
        /\ step = "delete_check" =>
             \A v \in VouchersOf(t) : status[v] \in {"generated", "deleted"}
        /\ UNCHANGED <<data, env, todo, held>>
  BY DEF Request, BeginAuthorize, BeginPostAuth, BeginAccounting, BeginRefresh, BeginDisable,
     BeginDelete, AboutVoucher, Rows
<1>2. /\ JobTypes' /\ OthersKeep(p)
      /\ pc[p] = "idle" /\ pc'[p] = step /\ target'[p] = t /\ held'[p] = held[p]
  BY <1>p, <1>1, BeginStep DEF IInv, TypeOK, JobTypes, AboutVoucher, Steps
<1>3. Job(p)'
  <2>1. held'[p] = {}
    BY <1>p, <1>2 DEF IInv, Job
  <2> QED
    BY <1>1, <1>2, <2>1 DEF Job, AboutVoucher, AboutBatch, Deletes
<1>4. DeletionsCheck'
  <2>1. CASE step # "delete_check"
    BY <1>p, <1>1, <1>2, <2>1, SameDeletions DEF AboutVoucher, Deletes, data
  <2>2. CASE step = "delete_check"
    <3> SUFFICES ASSUME NEW v \in Vouchers, Deleting(BatchOf[v])', activations[v] > 0
                 PROVE  v \in late
      BY <1>1 DEF DeletionsCheck, data, history
    <3>1. CASE Deleting(BatchOf[v])
      BY <3>1 DEF IInv, DeletionsCheck
    <3>2. CASE ~Deleting(BatchOf[v])
      <4>1. BatchOf[v] = t
        BY <1>2, <3>2 DEF Deleting, OthersKeep
      <4>2. status[v] \in {"generated", "deleted"}
        BY <1>1, <2>2, <4>1 DEF VouchersOf
      <4> QED
        BY <4>2 DEF IInv, Unused, OnlyUnusedDeleted
    <3> QED
      BY <3>1, <3>2
  <2> QED
    BY <2>1, <2>2
<1> QED
  BY <1>p, <1>1, <1>2, <1>3, <1>4, QuietStep DEF env, IInv, TypeOK

LEMMA AbortKeeps ==
  ASSUME IInv, NEW p \in Processes, DeadlockAbort(p)
  PROVE  IInv'
  BY EndingStep DEF DeadlockAbort, data, env, IInv, TypeOK

LEMMA LockVoucherKeeps ==
  ASSUME IInv, NEW p \in Processes, LockVoucher(p)
  PROVE  IInv'
<1>1. CASE status[target[p]] = "deleted"
  BY <1>1, EndingStep DEF LockVoucher, data, env, IInv, TypeOK
<1>2. CASE status[target[p]] # "deleted"
  <2>1. target[p] \in Vouchers
    BY DEF LockVoucher, IInv, Job, AboutVoucher
  <2>2. /\ held' = [held EXCEPT ![p] = @ \cup {target[p]}]
        /\ pc' = [pc EXCEPT ![p] = "authorize_batch"]
        /\ UNCHANGED <<target, todo, data, env>>
    BY <1>2 DEF LockVoucher, Goto
  <2>3. JobTypes' /\ OthersKeep(p) /\ pc'[p] = "authorize_batch"
    BY <2>1, <2>2 DEF IInv, TypeOK, JobTypes, OthersKeep, Rows, Steps
  <2>4. Job(p)' /\ DeletionsCheck'
    BY <2>1, <2>2, <2>3, SameDeletions DEF Job, AboutVoucher, AboutBatch, Deletes, data
  <2> QED
    BY <2>2, <2>3, <2>4, QuietStep DEF env, IInv, TypeOK
<1> QED
  BY <1>1, <1>2

LEMMA AuthorizeKeeps ==
  ASSUME IInv, NEW p \in Processes, Authorize(p)
  PROVE  IInv'
<1>1. target[p] \in Vouchers
  BY DEF Authorize, IInv, Job, AboutVoucher
<1>2. /\ Finish(p)
      /\ UNCHANGED <<enabled, history, due, quota>>
  BY DEF Authorize
<1>3. StatusAuthorized(target[p]) \in {"expired", "consumed", status[target[p]]}
  BY DEF StatusAuthorized
<1>4. /\ status' \in [Vouchers -> Statuses]
      /\ \A v \in Vouchers : status'[v] = status[v] \/ status'[v] \notin Usable
      /\ \A v \in Vouchers : status'[v] = "deleted" => status[v] = "deleted"
      /\ accepted' \subseteq Vouchers
  <2>1. CASE UNCHANGED <<status, accepted>>
    BY <2>1 DEF IInv, TypeOK
  <2>2. CASE /\ status' = [status EXCEPT ![target[p]] = StatusAuthorized(target[p])]
             /\ accepted' = IF Accepts(target[p]) THEN accepted \cup {target[p]} ELSE accepted
    <3>1. status' \in [Vouchers -> Statuses]
      BY <1>1, <1>3, <2>2 DEF IInv, TypeOK, Statuses
    <3> QED
      BY <1>1, <1>3, <2>2, <3>1 DEF IInv, TypeOK, Usable
  <2> QED
    BY <2>1, <2>2 DEF Authorize
<1> QED
  BY <1>2, <1>4, EndingStep

LEMMA ActivateKeeps ==
  ASSUME IInv, NEW p \in Processes, Activate(p)
  PROVE  IInv'
<1> DEFINE v == target[p]
<1>1. v \in Vouchers
  BY DEF Activate, IInv, Job, AboutVoucher
<1>2. Finish(p) /\ UNCHANGED <<enabled, due, quota, accepted>>
  BY DEF Activate, env
<1>3. CASE status[v] # "generated"
  BY <1>2, <1>3, EndingStep DEF Activate, history, IInv, TypeOK
<1>4. CASE status[v] = "generated"
  <2>1. /\ status' = [status EXCEPT ![v] = "active"]
        /\ CountActivation(v)
    BY <1>4 DEF Activate
  <2>2. JobTypes' /\ OthersKeep(p) /\ pc'[p] = "idle" /\ held'[p] = {}
    BY <1>2, FinishStep DEF IInv, TypeOK, JobTypes
  <2>3. /\ status' \in [Vouchers -> Statuses] /\ status'[v] = "active"
        /\ \A u \in Vouchers \ {v} : status'[u] = status[u]
    BY <1>1, <2>1 DEF IInv, TypeOK, Statuses
  <2>4. /\ activations' \in [Vouchers -> Nat] /\ activations'[v] = 1
        /\ \A u \in Vouchers \ {v} : activations'[u] = activations[u]
    BY <1>1, <1>4, <2>1 DEF CountActivation, IInv, TypeOK, Unused
  <2>5. \A q \in Processes : Job(q)'
    <3>1. Job(p)'
      BY <2>2 DEF Job, AboutVoucher, AboutBatch, Deletes
    <3>2. \A u \in Vouchers : status'[u] \in Usable => status[u] \in Usable
      BY <1>4, <2>3 DEF Usable
    <3> QED
      BY <2>2, <3>1, <3>2, OthersJobs
  <2>6. Unused' /\ ActivatedOnce'
    BY <2>3, <2>4 DEF IInv, Unused, ActivatedOnce
  <2>7. DisabledBatchIsUnusable'
    BY <1>1, <1>2, <1>4, <2>3 DEF IInv, DisabledBatchIsUnusable, Usable
  <2>8. /\ late' \subseteq Vouchers /\ late \subseteq late'
        /\ Deleting(BatchOf[v]) => v \in late'
    BY <1>1, <2>1 DEF CountActivation, IInv, TypeOK
  <2>9. DeletionsCheck'
    <3>1. \A b \in Batches : Deleting(b)' => Deleting(b)
      BY <2>2 DEF Deleting, OthersKeep
    <3> QED
      BY <2>4, <2>8, <3>1, BatchAssumption DEF IInv, DeletionsCheck
  <2>10. OnlyUnusedDeleted'
    BY <2>3, <2>4, <2>8 DEF IInv, OnlyUnusedDeleted
  <2> QED
    BY <1>2, <2>2, <2>3, <2>4, <2>5, <2>6, <2>7, <2>8, <2>9, <2>10 DEF IInv, JobTypes, TypeOK
<1> QED
  BY <1>3, <1>4

LEMMA SaveConsumedKeeps ==
  ASSUME IInv, NEW p \in Processes, SaveConsumed(p)
  PROVE  IInv'
<1>1. target[p] \in Vouchers
  BY DEF SaveConsumed, IInv, Job, AboutVoucher
<1>2. /\ status' \in [Vouchers -> Statuses]
      /\ \A v \in Vouchers : status'[v] = status[v] \/ status'[v] \notin Usable
      /\ \A v \in Vouchers : status'[v] = "deleted" => status[v] = "deleted"
  BY <1>1 DEF SaveConsumed, IInv, TypeOK, Statuses, Usable
<1> QED
  BY <1>2, EndingStep DEF SaveConsumed, env, IInv, TypeOK

LEMMA LockBatchKeeps ==
  ASSUME IInv, NEW p \in Processes, LockBatch(p)
  PROVE  IInv'
<1> DEFINE b == target[p]
<1>1. CASE ~Exists(b)
  BY <1>1, EndingStep DEF LockBatch, data, env, IInv, TypeOK
<1>2. CASE Exists(b)
  <2>1. b \in Batches
    BY DEF LockBatch, IInv, Job, AboutBatch
  <2>2. /\ held' = [held EXCEPT ![p] = @ \cup {b}]
        /\ todo' = [todo EXCEPT ![p] = {v \in VouchersOf(b) : status[v] \in Usable}]
        /\ pc' = [pc EXCEPT ![p] = "disable_rows"]
        /\ UNCHANGED <<target, data, env>>
    BY <1>2 DEF LockBatch, Goto
  <2>3. /\ JobTypes' /\ OthersKeep(p) /\ pc'[p] = "disable_rows"
        /\ todo'[p] = {v \in VouchersOf(b) : status[v] \in Usable}
    BY <2>1, <2>2 DEF IInv, TypeOK, JobTypes, OthersKeep, Rows, Steps, VouchersOf
  <2>4. Job(p)' /\ DeletionsCheck'
    BY <2>1, <2>2, <2>3, SameDeletions DEF Job, AboutVoucher, AboutBatch, Deletes, data, VouchersOf
  <2> QED
    BY <2>2, <2>3, <2>4, QuietStep DEF env, IInv, TypeOK
<1> QED
  BY <1>1, <1>2

\* A visited row is locked, or is not one the statement is about.
LEMMA VisitRowKeeps ==
  ASSUME IInv, NEW p \in Processes, NEW step \in {"disable_rows", "expire_rows", "delete_rows"},
         NEW matching \in SUBSET Vouchers, VisitRow(p, step, matching),
         step = "disable_rows" => matching = {v \in Vouchers : status[v] \in Usable}
  PROVE  IInv'
<1>1. PICK v \in todo[p] :
        /\ todo' = [todo EXCEPT ![p] = @ \ {v}]
        /\ held' = [held EXCEPT ![p] = IF v \in matching THEN @ \cup {v} ELSE @]
  BY DEF VisitRow
<1>2. pc[p] = step /\ UNCHANGED <<data, env, pc, target>>
  BY DEF VisitRow
<1>3. v \in Vouchers /\ v \in Rows
  BY DEF IInv, TypeOK, Rows
<1>4. JobTypes' /\ OthersKeep(p)
  BY <1>1, <1>2, <1>3 DEF IInv, TypeOK, JobTypes, OthersKeep
<1>5. /\ todo'[p] = todo[p] \ {v}
      /\ held[p] \subseteq held'[p] /\ held'[p] \subseteq held[p] \cup {v}
      /\ v \in matching => v \in held'[p]
  BY <1>1 DEF IInv, TypeOK
<1>6. Job(p)'
  <2>1. Job(p)
    BY DEF IInv
  <2>2. step = "disable_rows" /\ status[v] \in Usable => v \in held'[p]
    BY <1>3, <1>5
  <2> QED
    BY <1>1, <1>2, <1>5, <2>1, <2>2 DEF Job, AboutVoucher, AboutBatch, Deletes, data, VouchersOf
<1>7. DeletionsCheck'
  BY <1>2, <1>4, SameDeletions DEF data
<1> QED
  BY <1>2, <1>4, <1>6, <1>7, QuietStep DEF env, IInv, TypeOK

\* The batch is disabled, and no voucher of it is usable any more.
LEMMA CommitDisableKeeps ==
  ASSUME IInv, NEW p \in Processes, CommitDisable(p)
  PROVE  IInv'
<1> DEFINE b == target[p]
<1>1. /\ pc[p] = "disable_rows" /\ todo[p] = {} /\ Finish(p)
      /\ enabled' = [enabled EXCEPT ![b] = FALSE]
      /\ UNCHANGED <<activations, late, due, quota, accepted>>
  BY DEF CommitDisable, env, history
<1>2. /\ status' \in [Vouchers -> Statuses]
      /\ \A v \in Vouchers : status'[v] = IF v \in held[p] THEN "disabled" ELSE status[v]
  BY DEF CommitDisable, IInv, TypeOK, Statuses
<1>3. b \in Batches /\ \A v \in VouchersOf(b) : status[v] \in Usable => v \in held[p]
  BY <1>1 DEF IInv, Job, AboutBatch
<1>4. \A v \in Vouchers : status'[v] = status[v] \/ status'[v] \notin Usable
  BY <1>2 DEF Usable
<1>5. JobTypes' /\ OthersKeep(p) /\ pc'[p] = "idle" /\ held'[p] = {}
  BY <1>1, FinishStep DEF IInv, TypeOK, JobTypes
<1>6. \A q \in Processes : Job(q)'
  <2>1. Job(p)'
    BY <1>5 DEF Job, AboutVoucher, AboutBatch, Deletes
  <2> QED
    BY <1>4, <1>5, <2>1, OthersJobs
<1>7. Unused' /\ ActivatedOnce'
  BY <1>1, <1>2 DEF IInv, Unused, ActivatedOnce
<1>8. DisabledBatchIsUnusable'
  <2> SUFFICES ASSUME NEW v \in Vouchers, ~enabled'[BatchOf[v]]
               PROVE  status'[v] \notin Usable
    BY DEF DisabledBatchIsUnusable
  <2>1. CASE BatchOf[v] = b
    BY <1>2, <1>3, <2>1 DEF VouchersOf, Usable
  <2>2. CASE BatchOf[v] # b
    BY <1>1, <1>4, <2>2, BatchAssumption DEF IInv, TypeOK, DisabledBatchIsUnusable
  <2> QED
    BY <2>1, <2>2
<1>9. DeletionsCheck' /\ OnlyUnusedDeleted'
  <2>1. DeletionsCheck'
    BY <1>1, <1>5, SameDeletions DEF Deletes, history
  <2> QED
    BY <1>1, <1>2, <2>1 DEF IInv, OnlyUnusedDeleted
<1> QED
  BY <1>1, <1>2, <1>5, <1>6, <1>7, <1>8, <1>9 DEF IInv, JobTypes, TypeOK

\* The other multi-row statements end the vouchers they have locked.
LEMMA CommitRowsKeeps ==
  ASSUME IInv, NEW p \in Processes, CommitExpire(p) \/ CommitDelete(p)
  PROVE  IInv'
<1>1. PICK over \in {"expired", "deleted"} :
        /\ status' = [v \in Vouchers |-> IF v \in held[p] THEN over ELSE status[v]]
        /\ over = "deleted" => pc[p] \in Deletes
  BY DEF CommitExpire, CommitDelete, Deletes
<1>2. /\ status' \in [Vouchers -> Statuses]
      /\ \A v \in Vouchers : status'[v] = status[v] \/ status'[v] \notin Usable
  BY <1>1 DEF IInv, TypeOK, Statuses, Usable
<1>3. ASSUME NEW v \in Vouchers, status'[v] = "deleted", status[v] # "deleted"
      PROVE  Deleting(BatchOf[v])
  <2>1. pc[p] \in Deletes /\ v \in held[p]
    BY <1>1, <1>3
  <2>2. target[p] = BatchOf[v]
    BY <2>1 DEF IInv, Job, VouchersOf
  <2> QED
    BY <2>1, <2>2 DEF Deleting, Deletes
<1> QED
  BY <1>2, <1>3, EndingStep DEF CommitExpire, CommitDelete, env, IInv, TypeOK

LEMMA BeginExpireKeeps ==
  ASSUME IInv, NEW p \in Processes, p = Beat, BeginExpire(p)
  PROVE  IInv'
<1>1. /\ pc' = [pc EXCEPT ![p] = "expire_rows"]
      /\ target' = [target EXCEPT ![p] = p]
      /\ todo' = [todo EXCEPT ![p] = Due]
      /\ UNCHANGED <<data, env, held>>
  BY DEF BeginExpire, Begin
<1>2. Due \subseteq Vouchers
  BY DEF Due
<1>3. JobTypes' /\ OthersKeep(p) /\ pc'[p] = "expire_rows"
  BY <1>1, <1>2 DEF IInv, TypeOK, JobTypes, OthersKeep, Steps
<1>4. Job(p)' /\ DeletionsCheck'
  BY <1>1, <1>3, SameDeletions DEF Job, AboutVoucher, AboutBatch, Deletes, data
<1> QED
  BY <1>1, <1>3, <1>4, QuietStep DEF env, IInv, TypeOK

LEMMA DeleteKeeps ==
  ASSUME IInv, NEW p \in Processes, CollectRows(p) \/ DeleteBatchRow(p)
  PROVE  IInv'
<1>1. PICK step \in {"delete_rows", "delete_batch"}, rows \in SUBSET Vouchers :
        /\ pc[p] \in {"delete_check", "delete_rows"}
        /\ step = "delete_rows" => rows \subseteq VouchersOf(target[p])
        /\ pc' = [pc EXCEPT ![p] = step]
        /\ todo' = [todo EXCEPT ![p] = rows]
        /\ UNCHANGED <<target, data, env, held>>
  <2>1. CASE CollectRows(p)
    BY <2>1 DEF CollectRows, Goto, VouchersOf
  <2>2. CASE DeleteBatchRow(p)
    BY <2>2 DEF DeleteBatchRow, Goto, IInv, TypeOK
  <2> QED
    BY <2>1, <2>2
<1>2. JobTypes' /\ OthersKeep(p) /\ pc'[p] = step /\ target'[p] = target[p]
  BY <1>1 DEF IInv, TypeOK, JobTypes, OthersKeep, Steps
<1>3. todo'[p] = rows /\ held'[p] = held[p]
  BY <1>1 DEF IInv, TypeOK
<1>4. Job(p)'
  <2>1. Job(p)
    BY DEF IInv
  <2> QED
    BY <1>1, <1>2, <1>3, <2>1 DEF Job, AboutVoucher, AboutBatch, Deletes, VouchersOf
<1>5. DeletionsCheck'
  BY <1>1, <1>2, SameDeletions DEF Deletes, data
<1> QED
  BY <1>1, <1>2, <1>4, <1>5, QuietStep DEF env, IInv, TypeOK

-----------------------------------------------------------------------------
LEMMA NextIInv == IInv /\ [Next]_vars => IInv'
<1> SUFFICES ASSUME IInv, [Next]_vars PROVE IInv'
  OBVIOUS
<1>1. ASSUME NEW p \in Workers, Work(p) PROVE IInv'
  <2>1. p \in Processes
    BY DEF Processes
  <2>2. CASE VisitUsable(p)
    BY <2>1, <2>2, VisitRowKeeps DEF VisitUsable
  <2>3. CASE VisitDeleted(p)
    BY <2>1, <2>3, VisitRowKeeps DEF VisitDeleted
  <2> QED
    BY <1>1, <2>1, <2>2, <2>3, LockVoucherKeeps, AuthorizeKeeps, ActivateKeeps,
       SaveConsumedKeeps, LockBatchKeeps, CommitDisableKeeps, CommitRowsKeeps, DeleteKeeps DEF Work
<1>2. CASE Expire(Beat)
  <2>1. Beat \in Processes
    BY DEF Processes
  <2>2. CASE VisitDue(Beat)
    BY <2>1, <2>2, VisitRowKeeps DEF VisitDue
  <2> QED
    BY <1>2, <2>1, <2>2, BeginExpireKeeps, CommitRowsKeeps DEF Expire
<1>3. CASE UNCHANGED vars
  BY <1>3 DEF vars, history, IInv, TypeOK, Job, Unused, ActivatedOnce, DisabledBatchIsUnusable,
     VouchersOf, DeletionsCheck, Deleting, OnlyUnusedDeleted
<1> QED
  BY <1>1, <1>2, <1>3, RequestKeeps, AbortKeeps, EnvironmentKeeps DEF Next

LEMMA Invariance == Spec => []IInv
  BY InitIInv, NextIInv, PTL DEF Spec

\* Every variable keeps its type.
THEOREM TypeCorrect == Spec => []TypeOK
<1>1. IInv => TypeOK
  BY DEF IInv
<1> QED
  BY <1>1, Invariance, PTL

\* activate_voucher starts a voucher's paid period once, however many first
\* logins and accounting packets race for it.
THEOREM ActivatedOnceHolds == Spec => []ActivatedOnce
<1>1. IInv => ActivatedOnce
  BY DEF IInv
<1> QED
  BY <1>1, Invariance, PTL

\* disable_batch leaves no usable voucher behind, and none comes back.
THEOREM DisabledBatchIsUnusableHolds == Spec => []DisabledBatchIsUnusable
<1>1. IInv => DisabledBatchIsUnusable
  BY DEF IInv
<1> QED
  BY <1>1, Invariance, PTL

\* A voucher that ran is deleted with its batch only when it was activated
\* between the check of the deletion and its DELETE.
THEOREM OnlyUnusedDeletedHolds == Spec => []OnlyUnusedDeleted
<1>1. IInv => OnlyUnusedDeleted
  BY DEF IInv
<1> QED
  BY <1>1, Invariance, PTL

-----------------------------------------------------------------------------
(* The abstract card: one voucher starts, or some are over.                *)

Starts(v) ==
  /\ status[v] = "generated" /\ status'[v] = "active"
  /\ \A u \in Vouchers \ {v} : status'[u] = status[u]

NoneStarts == \A v \in Vouchers : status'[v] = status[v] \/ status'[v] \notin Usable

LEMMA StartsOrNot ==
  ASSUME IInv, [Next]_vars
  PROVE  NoneStarts \/ \E v \in Vouchers : Starts(v)
<1>1. ASSUME NEW p \in Workers, Work(p)
      PROVE  NoneStarts \/ \E v \in Vouchers : Starts(v)
  <2>1. CASE UNCHANGED status
    BY <2>1 DEF NoneStarts
  <2>2. CASE Authorize(p)
    <3>1. StatusAuthorized(target[p]) \in {"expired", "consumed", status[target[p]]}
      BY DEF StatusAuthorized
    <3> QED
      BY <2>2, <3>1 DEF Authorize, IInv, TypeOK, NoneStarts, Usable
  <2>3. CASE Activate(p)
    <3>1. target[p] \in Vouchers
      BY <2>3 DEF Activate, IInv, Job, AboutVoucher, Processes
    <3> QED
      BY <2>3, <3>1 DEF Activate, IInv, TypeOK, NoneStarts, Starts
  <2>4. CASE SaveConsumed(p)
    BY <2>4 DEF SaveConsumed, IInv, TypeOK, NoneStarts, Usable
  <2>5. CASE CommitDisable(p) \/ CommitDelete(p)
    BY <2>5 DEF CommitDisable, CommitDelete, NoneStarts, Usable
  <2> QED
    BY <1>1, <2>1, <2>2, <2>3, <2>4, <2>5 DEF Work, LockVoucher, LockBatch, VisitUsable,
       VisitDeleted, VisitRow, CollectRows, DeleteBatchRow, data
<1>2. CASE Expire(Beat)
  BY <1>2 DEF Expire, BeginExpire, VisitDue, VisitRow, CommitExpire, data, NoneStarts, Usable
<1>3. ASSUME NEW p \in Processes, DeadlockAbort(p) PROVE NoneStarts
  BY <1>3 DEF DeadlockAbort, data, NoneStarts
<1>4. ASSUME NEW p \in Workers, Request(p) PROVE NoneStarts
  BY <1>4 DEF Request, BeginAuthorize, BeginPostAuth, BeginAccounting, BeginRefresh, BeginDisable,
     BeginDelete, data, NoneStarts
<1>5. CASE Environment \/ UNCHANGED vars
  BY <1>5 DEF Environment, DurationEnds, QuotaMoves, data, vars, NoneStarts
<1> QED
  BY <1>1, <1>2, <1>3, <1>4, <1>5 DEF Next

\* Every voucher is used as its card says, whatever requests overlap, wait for
\* each other or are aborted: over is for good, and running is once.
THEOREM CardImplemented == Spec => ImplementsCard
<1>1. Init => Card!Init
  BY DEF Init, Card!Init, Cards, CardOf
<1>2. IInv /\ [Next]_vars => [Card!Next]_Cards
  <2> SUFFICES ASSUME IInv, [Next]_vars PROVE Card!Next \/ UNCHANGED Cards
    OBVIOUS
  <2>1. ASSUME NEW v \in Vouchers, Starts(v) PROVE Card!Run(v)
    <3>1. Cards[v] = "unused"
      BY <2>1 DEF Cards, CardOf, Starts
    <3>2. Cards' = [Cards EXCEPT ![v] = "running"]
      BY <2>1 DEF Cards, CardOf, Starts
    <3> QED
      BY <3>1, <3>2 DEF Card!Run
  <2>2. CASE NoneStarts
    <3> DEFINE V == {v \in Vouchers : Cards[v] # "over" /\ Cards'[v] = "over"}
    <3>1. \A v \in Vouchers : Cards'[v] = Cards[v] \/ Cards'[v] = "over"
      BY <2>2 DEF NoneStarts, Cards, CardOf, Usable
    <3>2. Cards' = [v \in Vouchers |-> IF v \in V THEN "over" ELSE Cards[v]]
      BY <3>1 DEF Cards
    <3>3. Card!End(V)
      BY <3>2 DEF Card!End
    <3> QED
      BY <3>3 DEF Card!Next
  <2> QED
    BY <2>1, <2>2, StartsOrNot DEF Card!Next
<1> QED
  BY <1>1, <1>2, Invariance, PTL DEF Spec, ImplementsCard, Card!Spec
=============================================================================
