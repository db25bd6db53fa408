---------------------------- MODULE Subscribers -----------------------------
(***************************************************************************)
(* A subscriber and its subscriptions (backend/subscribers/services.py, the*)
(* subscriber half of radius.py, and accounting/control.py's state sync)   *)
(* under concurrent requests: RADIUS authorization, package assignment and *)
(* renewal, the operator's edits, expiry by Celery and by a request, and   *)
(* the policy refresh that follows an accounting packet.                   *)
(*                                                                         *)
(* Row <<s, 0>> is the subscriber, row <<s, i>> its i-th subscription in   *)
(* the order of started_at.  Requests run at READ COMMITTED and wait for   *)
(* row locks (RowLocks); what they write becomes visible when they commit. *)
(***************************************************************************)
EXTENDS FiniteSets, Naturals, Sequences

CONSTANTS
  Subscribers,
  Workers,            \* request threads
  Beat,               \* the Celery worker that runs subscribers.expire_due
  MaxSubscriptions    \* bound: subscriptions a subscriber ever has

ASSUME ProcessAssumption == Beat \notin Workers
ASSUME BoundAssumption == MaxSubscriptions \in Nat \ {0}

Processes == Workers \cup {Beat}
Indexes == 1 .. MaxSubscriptions
Rows == Subscribers \X (0 .. MaxSubscriptions)
NoRow == <<>>

Statuses == {"active", "disabled", "expired", "suspended", "quota_exhausted"}
Admitted == {"active", "quota_exhausted"}
Steps == {"idle", "authorize", "authorize_locked", "expire_next", "expire",
          "expire_locked", "assign", "assign_rows", "update", "refresh", "save_status"}

VARIABLES
  status,     \* Subscriber.status
  command,    \* history: the status an operator last chose, "none" once lifted
  subs,       \* the statuses of a subscriber's subscriptions
  over,       \* subscriptions whose expires_at is past
  exhausted,  \* subscriptions whose effective policy blocks
  pc, target, \* the next statement of each process and the row it is about
  seen,       \* the subscriber status a process holds in memory, or will write
  todo,       \* rows a statement or a task has still to visit
  held        \* row locks

vars == <<status, command, subs, over, exhausted, pc, target, seen, todo, held>>
data == <<status, command, subs>>
env == <<over, exhausted>>

INSTANCE RowLocks

Init ==
  /\ status = [s \in Subscribers |-> "active"]
  /\ command = [s \in Subscribers |-> "none"]
  /\ subs = [s \in Subscribers |-> <<>>]
  /\ over = {}
  /\ exhausted = {}
  /\ pc = [p \in Processes |-> "idle"]
  /\ target = [p \in Processes |-> NoRow]
  /\ seen = [p \in Processes |-> "active"]
  /\ todo = [p \in Processes |-> {}]
  /\ held = [p \in Processes |-> {}]

-----------------------------------------------------------------------------
Live(s) == {i \in DOMAIN subs[s] : subs[s][i] = "active"}
LiveRows(s) == {<<s, i>> : i \in Live(s)}
Latest(s) == CHOOSE i \in Live(s) : \A j \in Live(s) : j <= i
Due == {r \in UNION {LiveRows(s) : s \in Subscribers} : r \in over}

Owner(p) == target[p][1]
Index(p) == target[p][2]
SubscriberRow(p) == <<Owner(p), 0>>

Begin(p, step, row, copy) ==
  /\ pc[p] = "idle"
  /\ pc' = [pc EXCEPT ![p] = step]
  /\ target' = [target EXCEPT ![p] = row]
  /\ seen' = [seen EXCEPT ![p] = copy]

Goto(p, step) == pc' = [pc EXCEPT ![p] = step]

Lock(p, row) ==
  /\ Free(p, row)
  /\ held' = [held EXCEPT ![p] = @ \cup {row}]

\* Commit or rollback: the locks go, the request is answered.
Finish(p) ==
  /\ pc' = [pc EXCEPT ![p] = "idle"]
  /\ target' = [target EXCEPT ![p] = NoRow]
  /\ seen' = [seen EXCEPT ![p] = "active"]
  /\ todo' = [todo EXCEPT ![p] = {}]
  /\ held' = [held EXCEPT ![p] = {}]

Wanted(p) ==
  CASE pc[p] \in {"authorize", "assign", "update", "save_status", "expire_locked"}
                                                   -> {SubscriberRow(p)}
    [] pc[p] \in {"authorize_locked", "expire"}    -> {target[p]}
    [] pc[p] = "assign_rows"                       -> todo[p]
    [] OTHER                                       -> {}

\* PostgreSQL aborts one transaction of a cycle; the request, or the rest of
\* the task, fails.
DeadlockAbort(p) ==
  /\ Deadlocked(p, [q \in Processes |-> Wanted(q)])
  /\ Finish(p)
  /\ UNCHANGED <<data, env>>

-----------------------------------------------------------------------------
(* authorize_radius -> _subscriber_authorization: subscriber, then          *)
(* subscription.                                                           *)

BeginAuthorize(p, s) ==
  /\ Begin(p, "authorize", <<s, 0>>, "active")
  /\ UNCHANGED <<data, env, todo, held>>

\* Mutant of LockSubscriber: the credential query takes no lock.
ReadSubscriber(p) ==
  LET s == Owner(p) IN
  /\ pc[p] = "authorize"
  /\ status[s] \in Admitted /\ Live(s) # {}
  /\ Goto(p, "authorize_locked")
  /\ target' = [target EXCEPT ![p] = <<s, Latest(s)>>]
  /\ seen' = [seen EXCEPT ![p] = status[s]]
  /\ UNCHANGED <<data, env, todo, held>>

\* The credential query locks the joined subscriber; the status is read here.
LockSubscriber(p) ==
  LET s == Owner(p) IN
  /\ pc[p] = "authorize"
  /\ IF status[s] \in Admitted /\ Live(s) # {}
       THEN /\ Lock(p, <<s, 0>>)
            /\ Goto(p, "authorize_locked")
            /\ target' = [target EXCEPT ![p] = <<s, Latest(s)>>]
            /\ seen' = [seen EXCEPT ![p] = status[s]]
            /\ UNCHANGED todo
       ELSE Free(p, <<s, 0>>) /\ Finish(p)
  /\ UNCHANGED <<data, env>>

\* The subscription is read again under its lock, and decides together with the
\* status read before.
StatusAuthorized(p, package_enabled, station_allowed) ==
  LET s == Owner(p) IN
  IF target[p] \in Due THEN "expired"
  ELSE IF subs[s][Index(p)] # "active" \/ ~package_enabled THEN status[s]
  ELSE IF target[p] \in exhausted THEN "quota_exhausted"
  ELSE IF seen[p] = "quota_exhausted" /\ station_allowed THEN "active"
  ELSE status[s]

\* An unexpected station (a MAC lock) rolls the lifted quota back.
Authorize(p) ==
  LET s == Owner(p)
      i == Index(p)
  IN
  /\ pc[p] = "authorize_locked"
  /\ Free(p, target[p])
  /\ \E package_enabled, station_allowed \in BOOLEAN :
       status' = [status EXCEPT ![s] =
                    StatusAuthorized(p, package_enabled, station_allowed)]
  /\ subs' = IF target[p] \in Due THEN [subs EXCEPT ![s][i] = "expired"] ELSE subs
  /\ Finish(p)
  /\ UNCHANGED <<command, env>>

-----------------------------------------------------------------------------
(* expire_subscription: subscription, then subscriber.                      *)

\* active_subscription, from a request for the effective policy.
BeginExpireOne(p, r) ==
  /\ r \in Due
  /\ Begin(p, "expire", r, "active")
  /\ UNCHANGED <<data, env, todo, held>>

\* expire_due_subscriptions lists what is due, then takes them one by one.
BeginExpireDue(p) ==
  /\ Due # {}
  /\ Begin(p, "expire_next", NoRow, "active")
  /\ todo' = [todo EXCEPT ![p] = Due]
  /\ UNCHANGED <<data, env, held>>

\* Mutant of ExpireNext: the last row of the list is left out.
ExpireNextButOne(p) ==
  /\ pc[p] = "expire_next"
  /\ IF Cardinality(todo[p]) <= 1
       THEN Finish(p)
       ELSE \E r \in todo[p] : /\ target' = [target EXCEPT ![p] = r]
                               /\ todo' = [todo EXCEPT ![p] = @ \ {r}]
                               /\ Goto(p, "expire")
                               /\ UNCHANGED <<seen, held>>
  /\ UNCHANGED <<data, env>>

ExpireNext(p) ==
  /\ pc[p] = "expire_next"
  /\ IF todo[p] = {}
       THEN Finish(p)
       ELSE \E r \in todo[p] : /\ target' = [target EXCEPT ![p] = r]
                               /\ todo' = [todo EXCEPT ![p] = @ \ {r}]
                               /\ Goto(p, "expire")
                               /\ UNCHANGED <<seen, held>>
  /\ UNCHANGED <<data, env>>

LockSubscription(p) ==
  /\ pc[p] = "expire"
  /\ Lock(p, target[p])
  /\ Goto(p, "expire_locked")
  /\ UNCHANGED <<data, env, target, seen, todo>>

EndExpiry(p) ==
  IF p = Beat THEN /\ Goto(p, "expire_next")
                   /\ held' = [held EXCEPT ![p] = {}]
                   /\ UNCHANGED <<target, seen, todo>>
              ELSE Finish(p)

\* Mutant of Expire: the subscription is not looked at again under its lock.
ExpireStale(p) ==
  LET s == Owner(p) IN
  /\ pc[p] = "expire_locked"
  /\ Free(p, SubscriberRow(p))
  /\ subs' = [subs EXCEPT ![s][Index(p)] = "expired"]
  /\ status' = [status EXCEPT ![s] = IF @ = "active" THEN "expired" ELSE @]
  /\ EndExpiry(p)
  /\ UNCHANGED <<command, env>>

\* Mutant of Expire: whatever the subscriber's status, it becomes expired.
ExpireAnyStatus(p) ==
  LET s == Owner(p) IN
  /\ pc[p] = "expire_locked"
  /\ Free(p, SubscriberRow(p))
  /\ IF target[p] \in Due
       THEN /\ subs' = [subs EXCEPT ![s][Index(p)] = "expired"]
            /\ status' = [status EXCEPT ![s] = "expired"]
       ELSE UNCHANGED <<subs, status>>
  /\ EndExpiry(p)
  /\ UNCHANGED <<command, env>>

\* Both rows are locked and read again: a subscription that was closed or
\* expired meanwhile is left alone.
Expire(p) ==
  LET s == Owner(p) IN
  /\ pc[p] = "expire_locked"
  /\ Free(p, SubscriberRow(p))
  /\ IF target[p] \in Due
       THEN /\ subs' = [subs EXCEPT ![s][Index(p)] = "expired"]
            /\ status' = [status EXCEPT ![s] = IF @ = "active" THEN "expired" ELSE @]
       ELSE UNCHANGED <<subs, status>>
  /\ EndExpiry(p)
  /\ UNCHANGED <<command, env>>

-----------------------------------------------------------------------------
(* assign_package and renew_subscription, which assigns the last package    *)
(* again under a lock on the same row.                                      *)

BeginAssign(p, s) ==
  /\ Begin(p, "assign", <<s, 0>>, "active")
  /\ UNCHANGED <<data, env, todo, held>>

\* A disabled package, or nothing to renew, ends the request.
RefuseAssign(p) ==
  /\ pc[p] = "assign"
  /\ Free(p, SubscriberRow(p))
  /\ Finish(p)
  /\ UNCHANGED <<data, env>>

\* Mutant of LockAssign: the subscriber is read without FOR UPDATE.
AssignUnlocked(p) ==
  /\ pc[p] = "assign"
  /\ Len(subs[Owner(p)]) < MaxSubscriptions
  /\ todo' = [todo EXCEPT ![p] = LiveRows(Owner(p))]
  /\ Goto(p, "assign_rows")
  /\ UNCHANGED <<data, env, target, seen, held>>

LockAssign(p) ==
  /\ pc[p] = "assign"
  /\ Len(subs[Owner(p)]) < MaxSubscriptions
  /\ Lock(p, SubscriberRow(p))
  /\ todo' = [todo EXCEPT ![p] = LiveRows(Owner(p))]
  /\ Goto(p, "assign_rows")
  /\ UNCHANGED <<data, env, target, seen>>

\* The UPDATE that closes them waits for each row and reads it again.
VisitLive(p) ==
  /\ pc[p] = "assign_rows"
  /\ \E r \in todo[p] :
       /\ Free(p, r)
       /\ todo' = [todo EXCEPT ![p] = @ \ {r}]
       /\ held' = [held EXCEPT ![p] = IF r \in LiveRows(r[1]) THEN @ \cup {r} ELSE @]
  /\ UNCHANGED <<data, env, pc, target, seen>>

Assign(p) ==
  LET s == Owner(p)
      lifted == status[s] \in {"expired", "quota_exhausted"}
  IN
  /\ pc[p] = "assign_rows"
  /\ todo[p] = {}
  /\ subs' = [subs EXCEPT ![s] =
       Append([i \in DOMAIN @ |-> IF <<s, i>> \in held[p] THEN "closed" ELSE @[i]],
              "active")]
  /\ status' = [status EXCEPT ![s] = IF lifted THEN "active" ELSE @]
  /\ command' = [command EXCEPT ![s] = IF lifted THEN "none" ELSE @]
  /\ Finish(p)
  /\ UNCHANGED env

-----------------------------------------------------------------------------
(* update_subscriber: the operator chooses a status.                        *)

BeginUpdate(p, s, choice) ==
  /\ Begin(p, "update", <<s, 0>>, choice)
  /\ UNCHANGED <<data, env, todo, held>>

Update(p) ==
  LET s == Owner(p) IN
  /\ pc[p] = "update"
  /\ Free(p, SubscriberRow(p))
  /\ status' = [status EXCEPT ![s] = seen[p]]
  /\ command' = [command EXCEPT ![s] = seen[p]]
  /\ Finish(p)
  /\ UNCHANGED <<subs, env>>

-----------------------------------------------------------------------------
(* refresh_session_policy -> _sync_identity_state: no transaction, no lock. *)

\* The session is read with its subscriber.  Its subscription is the one that
\* was active when the session started.
BeginRefresh(p, s, i) ==
  /\ i \in DOMAIN subs[s]
  /\ status[s] \in Admitted
  /\ Begin(p, "refresh", <<s, i>>, status[s])
  /\ UNCHANGED <<data, env, todo, held>>

Desired(p) == IF target[p] \in exhausted THEN "quota_exhausted" ELSE "active"

Decide(p) ==
  /\ pc[p] = "refresh"
  /\ IF seen[p] = Desired(p)
       THEN Finish(p)
       ELSE /\ seen' = [seen EXCEPT ![p] = Desired(p)]
            /\ Goto(p, "save_status")
            /\ UNCHANGED <<target, todo, held>>
  /\ UNCHANGED <<data, env>>

\* save(update_fields=["status"]) of the object read at the beginning.
SaveStatus(p) ==
  /\ pc[p] = "save_status"
  /\ Free(p, SubscriberRow(p))
  /\ status' = [status EXCEPT ![Owner(p)] = seen[p]]
  /\ Finish(p)
  /\ UNCHANGED <<command, subs, env>>

-----------------------------------------------------------------------------
(* Time and usage (external).                                               *)

SubscriptionEnds(r) ==
  /\ r \in LiveRows(r[1]) \ over
  /\ over' = over \cup {r}
  /\ UNCHANGED <<data, exhausted, pc, target, seen, todo, held>>

\* A threshold is crossed, a period ends, or the package's stages are edited.
QuotaMoves(r) ==
  /\ r[2] \in DOMAIN subs[r[1]]
  /\ exhausted' = IF r \in exhausted THEN exhausted \ {r} ELSE exhausted \cup {r}
  /\ UNCHANGED <<data, over, pc, target, seen, todo, held>>

-----------------------------------------------------------------------------
Request(p) ==
  \/ \E s \in Subscribers :
       \/ BeginAuthorize(p, s)
       \/ BeginAssign(p, s)
       \/ \E choice \in Statuses : BeginUpdate(p, s, choice)
       \/ \E i \in Indexes : BeginRefresh(p, s, i)
  \/ \E r \in Rows : BeginExpireOne(p, r)

Work(p) ==
  \/ LockSubscriber(p) \/ Authorize(p) \/ LockSubscription(p) \/ Expire(p)
  \/ RefuseAssign(p) \/ LockAssign(p) \/ VisitLive(p) \/ Assign(p)
  \/ Update(p) \/ Decide(p) \/ SaveStatus(p)

ExpireDue == \/ BeginExpireDue(Beat) \/ ExpireNext(Beat)
             \/ LockSubscription(Beat) \/ Expire(Beat)

Environment == \E s \in Subscribers, i \in Indexes :
                 SubscriptionEnds(<<s, i>>) \/ QuotaMoves(<<s, i>>)

Next ==
  \/ \E p \in Workers : Request(p) \/ Work(p)
  \/ ExpireDue
  \/ \E p \in Processes : DeadlockAbort(p)
  \/ Environment

Spec == Init /\ [][Next]_vars

\* Requests run on, a waiter gets the row lock in its turn although others keep
\* coming, PostgreSQL breaks every cycle of waiting transactions, and Celery
\* Beat starts the task each minute.
Fairness ==
  /\ \A p \in Workers : SF_vars(Work(p)) /\ SF_vars(Authorize(p)) /\ SF_vars(VisitLive(p))
  /\ \A p \in Processes : SF_vars(Expire(p))
  /\ SF_vars(ExpireDue)
  /\ WF_vars(\E p \in Processes : DeadlockAbort(p))

FairSpec == Spec /\ Fairness

-----------------------------------------------------------------------------
TypeOK ==
  /\ status \in [Subscribers -> Statuses]
  /\ command \in [Subscribers -> Statuses \cup {"none"}]
  /\ subs \in [Subscribers -> Seq({"active", "expired", "closed"})]
  /\ \A s \in Subscribers : Len(subs[s]) <= MaxSubscriptions
  /\ over \subseteq Rows
  /\ exhausted \subseteq Rows
  /\ pc \in [Processes -> Steps]
  /\ target \in [Processes -> Rows \cup {NoRow}]
  /\ seen \in [Processes -> Statuses]
  /\ todo \in [Processes -> SUBSET Rows]
  /\ held \in [Processes -> SUBSET Rows]

\* Whatever assignments, renewals and expiries overlap, a subscriber has one
\* active subscription: the INSERT of assign_package never meets the partial
\* unique index one_active_subscription_per_subscriber.
OneActive == \A s \in Subscribers : Cardinality(Live(s)) <= 1

\* An authorization that has locked its subscriber decides on the status the
\* database holds, also while it waits for the subscription: no subscriber is
\* admitted on a status that a committed request has replaced.
NoStaleDecision ==
  \A p \in Processes : pc[p] = "authorize_locked" => seen[p] = status[Owner(p)]

\* A renewal is never lost to an expiry that was under way: nobody is expired
\* by the system while holding a subscription that still runs.
RenewalNotLost ==
  \A s \in Subscribers :
    status[s] = "expired" /\ command[s] # "expired" => LiveRows(s) \subseteq over

\* Renewal, expiry and authorization leave a disabled or suspended subscriber
\* as it is: besides the operator only a policy refresh changes its status,
\* and one that read the row before the operator's command.
DisabledIsKept ==
  [][\A s \in Subscribers :
       /\ command[s] \in {"disabled", "suspended"}
       /\ command'[s] = command[s]
       /\ status[s] = command[s]
       /\ status'[s] # status[s]
       => \E p \in Workers : pc[p] = "save_status" /\ pc'[p] = "idle" /\ Owner(p) = s
     ]_vars

\* A subscription whose time is over is expired or closed, although the task
\* takes the rows in the opposite order of authorization and assignment and
\* may be the one a deadlock aborts.
OverIsEnded ==
  \A s \in Subscribers, i \in Indexes : (<<s, i>> \in Due) ~> (<<s, i>> \notin Due)
=============================================================================
