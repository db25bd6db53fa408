-------------------------- MODULE SubscribersProofs --------------------------
(***************************************************************************)
(* One active subscription, current decisions and kept renewals, for every *)
(* set of subscribers and requests and any number of subscriptions.        *)
(***************************************************************************)
EXTENDS Subscribers, SequenceTheorems, FiniteSetTheorems, TLAPS

SubStatuses == {"active", "expired", "closed"}

\* A row of a subscription that exists.
There(r) == r \in Rows /\ r[2] \in DOMAIN subs[r[1]]

OnSubscription == {"authorize_locked", "expire", "expire_locked", "refresh", "save_status"}

\* An authorization that has locked its subscriber knows its status; an assignment
\* that has locked its subscriber has locked every active subscription, or will
\* still visit it.
Job(p) ==
  /\ pc[p] \notin {"idle", "expire_next"} => target[p] \in Rows
  /\ pc[p] \in OnSubscription => There(target[p])
  /\ \A r \in todo[p] : There(r)
  /\ pc[p] = "authorize_locked" => /\ SubscriberRow(p) \in held[p]
                                   /\ seen[p] = status[Owner(p)]
                                   /\ seen[p] \in Admitted
  /\ pc[p] = "save_status" => seen[p] \in Admitted
  /\ pc[p] = "assign_rows" => /\ SubscriberRow(p) \in held[p]
                              /\ LiveRows(Owner(p)) \subseteq todo[p] \cup held[p]
                              /\ Len(subs[Owner(p)]) < MaxSubscriptions

\* A row lock is exclusive.
Exclusive == \A p, q \in Processes : p # q => held[p] \cap held[q] = {}

\* OneActive, without counting.
Unique == \A s \in Subscribers : \A i, j \in Live(s) : i = j

IInv ==
  /\ TypeOK
  /\ \A p \in Processes : Job(p)
  /\ Exclusive
  /\ Unique
  /\ RenewalNotLost

LEMMA InitIInv == Init => IInv
  BY BoundAssumption DEF Init, IInv, TypeOK, Job, Exclusive, Unique, RenewalNotLost, Live, LiveRows,
     Statuses, Steps, OnSubscription

-----------------------------------------------------------------------------
(* Processes.                                                              *)

JobTypes ==
  /\ pc \in [Processes -> Steps]
  /\ target \in [Processes -> Rows \cup {NoRow}]
  /\ seen \in [Processes -> Statuses]
  /\ todo \in [Processes -> SUBSET Rows]
  /\ held \in [Processes -> SUBSET Rows]

\* What a process other than p is doing is as it was.
OthersKeep(p) ==
  \A q \in Processes \ {p} :
    /\ pc'[q] = pc[q] /\ target'[q] = target[q] /\ seen'[q] = seen[q]
    /\ todo'[q] = todo[q] /\ held'[q] = held[q]

LEMMA BeginStep ==
  ASSUME JobTypes, NEW p \in Processes, NEW step \in Steps, NEW row \in Rows \cup {NoRow},
         NEW copy \in Statuses, Begin(p, step, row, copy), UNCHANGED <<todo, held>>
  PROVE  /\ JobTypes' /\ OthersKeep(p)
         /\ pc'[p] = step /\ target'[p] = row /\ seen'[p] = copy
  BY DEF JobTypes, Begin, OthersKeep

LEMMA FinishStep ==
  ASSUME JobTypes, NEW p \in Processes, Finish(p)
  PROVE  /\ JobTypes' /\ OthersKeep(p)
         /\ pc'[p] = "idle" /\ todo'[p] = {} /\ held'[p] = {}
  BY DEF JobTypes, Finish, OthersKeep, Steps, Statuses

\* A process that locks free rows and drops others leaves locks exclusive.
LEMMA LocksStayExclusive ==
  ASSUME Exclusive, JobTypes, NEW p \in Processes, OthersKeep(p),
         \A r \in held'[p] : r \in held[p] \/ Free(p, r)
  PROVE  Exclusive'
  BY DEF Exclusive, JobTypes, OthersKeep, Free, Holders

\* What a step of p may do to a subscriber that another process has locked.
Respects(p) ==
  \A s \in Subscribers :
    /\ DOMAIN subs[s] \subseteq DOMAIN subs'[s]
    /\ \/ Free(p, <<s, 0>>)
       \/ /\ status'[s] = status[s]
          /\ Live(s)' \subseteq Live(s)
          /\ Len(subs'[s]) = Len(subs[s])

LEMMA OthersJobs ==
  ASSUME TypeOK, NEW p \in Processes, NEW q \in Processes \ {p}, Job(q),
         OthersKeep(p), Respects(p)
  PROVE  Job(q)'
<1>1. /\ pc'[q] = pc[q] /\ target'[q] = target[q] /\ seen'[q] = seen[q]
      /\ todo'[q] = todo[q] /\ held'[q] = held[q]
  BY DEF OthersKeep
<1>2. \A r : There(r) => There(r)'
  BY DEF Respects, There, Rows
<1>3. Owner(q)' = Owner(q) /\ SubscriberRow(q)' = SubscriberRow(q)
  BY <1>1 DEF Owner, SubscriberRow
<1>4. /\ pc'[q] \notin {"idle", "expire_next"} => target'[q] \in Rows
      /\ pc'[q] \in OnSubscription => There(target[q])'
      /\ \A r \in todo'[q] : There(r)'
  BY <1>1, <1>2 DEF Job
<1>5. ASSUME NEW s \in Subscribers, s = Owner(q), pc[q] \in {"authorize_locked", "assign_rows"}
      PROVE  /\ status'[s] = status[s]
             /\ LiveRows(s)' \subseteq LiveRows(s)
             /\ Len(subs'[s]) = Len(subs[s])
  <2>1. ~Free(p, <<s, 0>>)
    BY <1>5 DEF Free, Holders, Job, SubscriberRow
  <2> QED
    BY <2>1 DEF Respects, LiveRows
<1>6. pc[q] \in {"authorize_locked", "assign_rows"} => Owner(q) \in Subscribers
  BY DEF Job, Owner, Rows
<1>7. pc'[q] = "authorize_locked" => /\ SubscriberRow(q)' \in held'[q]
                                     /\ seen'[q] = status'[Owner(q)']
                                     /\ seen'[q] \in Admitted
  BY <1>1, <1>3, <1>5, <1>6 DEF Job
<1>8. pc'[q] = "assign_rows" => /\ SubscriberRow(q)' \in held'[q]
                                /\ LiveRows(Owner(q))' \subseteq todo'[q] \cup held'[q]
                                /\ Len(subs'[Owner(q)']) < MaxSubscriptions
  <2> SUFFICES ASSUME pc[q] = "assign_rows"
               PROVE  /\ SubscriberRow(q) \in held[q]
                      /\ LiveRows(Owner(q))' \subseteq todo[q] \cup held[q]
                      /\ Len(subs'[Owner(q)]) < MaxSubscriptions
    BY <1>1, <1>3
  <2>1. PICK s \in Subscribers : s = Owner(q)
    BY <1>6
  <2>2. LiveRows(Owner(q))' = LiveRows(s)'
    BY <1>3, <2>1 DEF LiveRows, Live
  <2> QED
    BY <1>5, <2>1, <2>2 DEF Job
<1> QED
  BY <1>1, <1>4, <1>7, <1>8 DEF Job

DataTypes ==
  /\ status \in [Subscribers -> Statuses]
  /\ command \in [Subscribers -> Statuses \cup {"none"}]
  /\ subs \in [Subscribers -> Seq(SubStatuses)]
  /\ \A s \in Subscribers : Len(subs[s]) <= MaxSubscriptions

\* A step of one process.
LEMMA ProcessStep ==
  ASSUME IInv, NEW p \in Processes, JobTypes', OthersKeep(p), Job(p)',
         \A r \in held'[p] : r \in held[p] \/ Free(p, r),
         Respects(p), DataTypes', Unique', RenewalNotLost', UNCHANGED env
  PROVE  IInv'
<1>1. \A q \in Processes : Job(q)'
  BY OthersJobs DEF IInv
<1>2. Exclusive'
  BY LocksStayExclusive DEF IInv, TypeOK, JobTypes
<1> QED
  BY <1>1, <1>2 DEF IInv, TypeOK, JobTypes, DataTypes, SubStatuses, env

LEMMA NothingWritten ==
  ASSUME IInv, NEW p \in Processes, UNCHANGED <<data, env>>
  PROVE  Respects(p) /\ DataTypes' /\ Unique' /\ RenewalNotLost' /\ UNCHANGED env
  BY DEF IInv, TypeOK, Respects, DataTypes, SubStatuses, Unique, RenewalNotLost, Live, LiveRows,
     data, env

LEMMA QuietStep ==
  ASSUME IInv, NEW p \in Processes, JobTypes', OthersKeep(p), Job(p)',
         \A r \in held'[p] : r \in held[p] \/ Free(p, r), UNCHANGED <<data, env>>
  PROVE  IInv'
  BY NothingWritten, ProcessStep

LEMMA IdleJob ==
  ASSUME NEW p \in Processes, pc[p] \in {"idle", "expire_next"}, \A r \in todo[p] : There(r)
  PROVE  Job(p)
  BY DEF Job, OnSubscription

\* A step that ends a request.
LEMMA EndingStep ==
  ASSUME IInv, NEW p \in Processes, Finish(p),
         Respects(p), DataTypes', Unique', RenewalNotLost', UNCHANGED env
  PROVE  IInv'
<1>1. /\ JobTypes' /\ OthersKeep(p)
      /\ pc'[p] = "idle" /\ todo'[p] = {} /\ held'[p] = {}
  BY FinishStep DEF IInv, TypeOK, JobTypes
<1>2. Job(p)'
  BY <1>1 DEF Job, OnSubscription
<1> QED
  BY <1>1, <1>2, ProcessStep

LEMMA GivesUp ==
  ASSUME IInv, NEW p \in Processes, Finish(p), UNCHANGED <<data, env>>
  PROVE  IInv'
  BY NothingWritten, EndingStep

-----------------------------------------------------------------------------
(* Steps that write nothing.                                               *)

LEMMA RequestKeeps ==
  ASSUME IInv, NEW p \in Workers, Request(p)
  PROVE  IInv'
<1>p. p \in Processes
  BY DEF Processes
<1>1. PICK step \in {"authorize", "assign", "update", "refresh", "expire"}, row \in Rows,
           copy \in Statuses :
        /\ step \in OnSubscription => There(row)
        /\ Begin(p, step, row, copy)
        /\ UNCHANGED <<data, env, todo, held>>
  <2>1. ASSUME NEW s \in Subscribers, NEW i \in Indexes, BeginRefresh(p, s, i)
        PROVE  /\ <<s, i>> \in Rows /\ There(<<s, i>>) /\ status[s] \in Statuses
               /\ Begin(p, "refresh", <<s, i>>, status[s])
               /\ UNCHANGED <<data, env, todo, held>>
    BY <2>1 DEF BeginRefresh, There, Rows, Indexes, IInv, TypeOK
  <2>2. CASE \E r \in Rows : BeginExpireOne(p, r)
    BY <2>2 DEF BeginExpireOne, There, Due, LiveRows, Live, Statuses
  <2>3. ASSUME NEW s \in Subscribers,
               \/ BeginAuthorize(p, s) \/ BeginAssign(p, s)
               \/ \E choice \in Statuses : BeginUpdate(p, s, choice)
        PROVE  /\ <<s, 0>> \in Rows
               /\ \E step \in {"authorize", "assign", "update"}, copy \in Statuses :
                    Begin(p, step, <<s, 0>>, copy)
               /\ UNCHANGED <<data, env, todo, held>>
    BY <2>3, BoundAssumption DEF BeginAuthorize, BeginAssign, BeginUpdate, Rows, Statuses
  <2> QED
    BY <2>1, <2>2, <2>3 DEF Request, OnSubscription
<1>2. /\ JobTypes' /\ OthersKeep(p)
      /\ pc'[p] = step /\ target'[p] = row /\ seen'[p] = copy
  BY <1>p, <1>1, BeginStep DEF IInv, TypeOK, JobTypes, Steps
<1>3. Job(p)'
  <2>1. There(row)' <=> There(row)
    BY <1>1 DEF There, data
  <2>2. \A r \in todo'[p] : There(r)'
    BY <1>p, <1>1 DEF IInv, Job, There, data
  <2> QED
    BY <1>1, <1>2, <2>1, <2>2 DEF Job, OnSubscription, There
<1> QED
  BY <1>p, <1>1, <1>2, <1>3, QuietStep

LEMMA AbortKeeps ==
  ASSUME IInv, NEW p \in Processes, DeadlockAbort(p)
  PROVE  IInv'
  BY GivesUp DEF DeadlockAbort

\* What a subscriber's sequence of subscriptions may contain.
LEMMA SubsType ==
  ASSUME TypeOK, NEW s \in Subscribers
  PROVE  /\ Len(subs[s]) \in Nat /\ DOMAIN subs[s] = 1 .. Len(subs[s])
         /\ Len(subs[s]) <= MaxSubscriptions
         /\ \A i \in DOMAIN subs[s] : i \in Nat \ {0} /\ subs[s][i] \in SubStatuses
         /\ \A i \in DOMAIN subs[s] : <<s, i>> \in Rows /\ There(<<s, i>>)
<1>1. subs[s] \in Seq(SubStatuses) /\ Len(subs[s]) <= MaxSubscriptions
  BY DEF TypeOK, SubStatuses
<1>2. /\ Len(subs[s]) \in Nat /\ DOMAIN subs[s] = 1 .. Len(subs[s])
      /\ \A i \in DOMAIN subs[s] : subs[s][i] \in SubStatuses
  BY <1>1
<1> QED
  BY <1>1, <1>2, BoundAssumption DEF There, Rows

LEMMA LatestIsLive ==
  ASSUME TypeOK, Unique, NEW s \in Subscribers, Live(s) # {}
  PROVE  Latest(s) \in Live(s)
<1>1. PICK i : i \in Live(s)
  OBVIOUS
<1>2. i \in Nat
  BY <1>1, SubsType DEF Live
<1>3. \A j \in Live(s) : j <= i
  BY <1>1, <1>2 DEF Unique
<1> QED
  BY <1>1, <1>3 DEF Latest

LEMMA LockSubscriberKeeps ==
  ASSUME IInv, NEW p \in Processes, LockSubscriber(p)
  PROVE  IInv'
<1> DEFINE s == Owner(p)
<1>1. s \in Subscribers /\ <<s, 0>> \in Rows
  BY BoundAssumption DEF LockSubscriber, IInv, Job, Owner, Rows
<1>2. CASE ~(status[s] \in Admitted /\ Live(s) # {})
  BY <1>2, GivesUp DEF LockSubscriber
<1>3. CASE status[s] \in Admitted /\ Live(s) # {}
  <2> DEFINE r == <<s, Latest(s)>>
  <2>1. /\ Free(p, <<s, 0>>)
        /\ held' = [held EXCEPT ![p] = @ \cup {<<s, 0>>}]
        /\ pc' = [pc EXCEPT ![p] = "authorize_locked"]
        /\ target' = [target EXCEPT ![p] = r]
        /\ seen' = [seen EXCEPT ![p] = status[s]]
        /\ UNCHANGED <<todo, data, env>>
    BY <1>3 DEF LockSubscriber, Lock, Goto
  <2>2. There(r) /\ r \in Rows
    BY <1>1, <1>3, LatestIsLive, SubsType DEF IInv, Live
  <2>3. /\ JobTypes' /\ OthersKeep(p)
        /\ pc'[p] = "authorize_locked" /\ target'[p] = r /\ seen'[p] = status[s]
        /\ held'[p] = held[p] \cup {<<s, 0>>} /\ todo'[p] = todo[p]
    BY <1>1, <2>1, <2>2 DEF IInv, TypeOK, JobTypes, OthersKeep, Steps
  <2>4. Job(p)'
    <3>1. \A t \in todo'[p] : There(t)'
      BY <2>1, <2>2, <2>3 DEF IInv, Job, There, data
    <3>2. target'[p][1] = s
      BY <2>3
    <3>3. There(target[p])'
      BY <2>2, <2>3, <2>1 DEF There, data
    <3> QED
      BY <1>3, <2>1, <2>2, <2>3, <3>1, <3>2, <3>3 DEF Job, Owner, SubscriberRow, data
  <2> QED
    BY <2>1, <2>3, <2>4, QuietStep
<1> QED
  BY <1>2, <1>3

LEMMA LockSubscriptionKeeps ==
  ASSUME IInv, NEW p \in Processes, LockSubscription(p)
  PROVE  IInv'
<1>1. /\ pc[p] = "expire" /\ Free(p, target[p])
      /\ held' = [held EXCEPT ![p] = @ \cup {target[p]}]
      /\ pc' = [pc EXCEPT ![p] = "expire_locked"]
      /\ UNCHANGED <<data, env, target, seen, todo>>
  BY DEF LockSubscription, Lock, Goto
<1>2. target[p] \in Rows
  BY <1>1 DEF IInv, Job
<1>3. /\ JobTypes' /\ OthersKeep(p)
      /\ pc'[p] = "expire_locked" /\ held'[p] = held[p] \cup {target[p]}
  BY <1>1, <1>2 DEF IInv, TypeOK, JobTypes, OthersKeep, Steps
<1>4. Job(p)'
  BY <1>1, <1>3 DEF IInv, Job, OnSubscription, There, data
<1> QED
  BY <1>1, <1>3, <1>4, QuietStep

\* What is due exists.
LEMMA DueIsThere ==
  ASSUME TypeOK
  PROVE  \A r \in Due : There(r)
  BY SubsType DEF Due, LiveRows, Live

LEMMA BeginExpireDueKeeps ==
  ASSUME IInv, NEW p \in Processes, BeginExpireDue(p)
  PROVE  IInv'
<1>1. /\ pc' = [pc EXCEPT ![p] = "expire_next"]
      /\ target' = [target EXCEPT ![p] = NoRow]
      /\ seen' = [seen EXCEPT ![p] = "active"]
      /\ todo' = [todo EXCEPT ![p] = Due]
      /\ UNCHANGED <<data, env, held>>
  BY DEF BeginExpireDue, Begin
<1>2. \A r \in Due : There(r) /\ r \in Rows
  BY DueIsThere DEF IInv, There
<1>3. /\ JobTypes' /\ OthersKeep(p)
      /\ pc'[p] = "expire_next" /\ todo'[p] = Due
  BY <1>1, <1>2 DEF IInv, TypeOK, JobTypes, OthersKeep, Steps, Statuses
<1>4. Job(p)'
  BY <1>1, <1>2, <1>3, IdleJob DEF Job, OnSubscription, There, data
<1> QED
  BY <1>1, <1>3, <1>4, QuietStep DEF IInv, TypeOK

LEMMA ExpireNextKeeps ==
  ASSUME IInv, NEW p \in Processes, ExpireNext(p)
  PROVE  IInv'
<1>1. CASE todo[p] = {}
  BY <1>1, GivesUp DEF ExpireNext
<1>2. CASE todo[p] # {}
  <2>1. PICK r \in todo[p] :
          /\ target' = [target EXCEPT ![p] = r]
          /\ todo' = [todo EXCEPT ![p] = @ \ {r}]
          /\ pc' = [pc EXCEPT ![p] = "expire"]
          /\ UNCHANGED <<seen, held, data, env>>
    BY <1>2 DEF ExpireNext, Goto
  <2>2. There(r) /\ r \in Rows
    BY DEF IInv, Job, There
  <2>3. /\ JobTypes' /\ OthersKeep(p)
        /\ pc'[p] = "expire" /\ target'[p] = r /\ todo'[p] = todo[p] \ {r}
    BY <2>1, <2>2 DEF IInv, TypeOK, JobTypes, OthersKeep, Steps
  <2>4. Job(p)'
    BY <2>1, <2>2, <2>3 DEF IInv, Job, There, data
  <2> QED
    BY <2>1, <2>3, <2>4, QuietStep DEF IInv, TypeOK
<1> QED
  BY <1>1, <1>2

LEMMA LockAssignKeeps ==
  ASSUME IInv, NEW p \in Processes, LockAssign(p)
  PROVE  IInv'
<1> DEFINE s == Owner(p)
<1>1. /\ pc[p] = "assign" /\ Len(subs[s]) < MaxSubscriptions
      /\ Free(p, <<s, 0>>)
      /\ held' = [held EXCEPT ![p] = @ \cup {<<s, 0>>}]
      /\ todo' = [todo EXCEPT ![p] = LiveRows(s)]
      /\ pc' = [pc EXCEPT ![p] = "assign_rows"]
      /\ UNCHANGED <<data, env, target, seen>>
  BY DEF LockAssign, Lock, Goto, SubscriberRow
<1>2. s \in Subscribers /\ <<s, 0>> \in Rows /\ target[p] \in Rows
  BY <1>1, BoundAssumption DEF IInv, Job, Owner, Rows
<1>3. \A r \in LiveRows(s) : There(r) /\ r \in Rows
  BY <1>2, SubsType DEF IInv, LiveRows, Live
<1>4. /\ JobTypes' /\ OthersKeep(p)
      /\ pc'[p] = "assign_rows" /\ todo'[p] = LiveRows(s) /\ held'[p] = held[p] \cup {<<s, 0>>}
  BY <1>1, <1>2, <1>3 DEF IInv, TypeOK, JobTypes, OthersKeep, Steps
<1>5. /\ Owner(p)' = s /\ SubscriberRow(p)' = <<s, 0>> /\ LiveRows(Owner(p))' = LiveRows(s)
  BY <1>1 DEF Owner, SubscriberRow, LiveRows, Live, data
<1>6. Job(p)'
  <2>1. \A r \in todo'[p] : There(r)'
    BY <1>1, <1>3, <1>4 DEF There, data
  <2> QED
    BY <1>1, <1>2, <1>4, <1>5, <2>1 DEF Job, OnSubscription, data
<1> QED
  BY <1>1, <1>4, <1>6, QuietStep

LEMMA VisitLiveKeeps ==
  ASSUME IInv, NEW p \in Processes, VisitLive(p)
  PROVE  IInv'
<1>1. PICK r \in todo[p] :
        /\ Free(p, r)
        /\ todo' = [todo EXCEPT ![p] = @ \ {r}]
        /\ held' = [held EXCEPT ![p] = IF r \in LiveRows(r[1]) THEN @ \cup {r} ELSE @]
  BY DEF VisitLive
<1>2. pc[p] = "assign_rows" /\ UNCHANGED <<data, env, pc, target, seen>>
  BY DEF VisitLive
<1>3. r \in Rows
  BY DEF IInv, TypeOK
<1>4. JobTypes' /\ OthersKeep(p)
  BY <1>1, <1>2, <1>3 DEF IInv, TypeOK, JobTypes, OthersKeep
<1>5. /\ todo'[p] = todo[p] \ {r}
      /\ held[p] \subseteq held'[p] /\ held'[p] \subseteq held[p] \cup {r}
      /\ r \in LiveRows(r[1]) => r \in held'[p]
  BY <1>1 DEF IInv, TypeOK
<1>6. /\ Owner(p)' = Owner(p) /\ SubscriberRow(p)' = SubscriberRow(p)
      /\ LiveRows(Owner(p))' = LiveRows(Owner(p))
  BY <1>2 DEF Owner, SubscriberRow, LiveRows, Live, data
<1>7. LiveRows(Owner(p)) \subseteq todo'[p] \cup held'[p]
  <2>1. LiveRows(Owner(p)) \subseteq todo[p] \cup held[p]
    BY <1>2 DEF IInv, Job
  <2>2. r \in LiveRows(Owner(p)) => r \in LiveRows(r[1])
    BY DEF LiveRows
  <2> QED
    BY <1>5, <2>1, <2>2
<1>8. Job(p)'
  BY <1>2, <1>5, <1>6, <1>7 DEF IInv, Job, OnSubscription, There, data
<1> QED
  BY <1>1, <1>2, <1>4, <1>5, <1>8, QuietStep

LEMMA DecideKeeps ==
  ASSUME IInv, NEW p \in Processes, Decide(p)
  PROVE  IInv'
<1>1. CASE seen[p] = Desired(p)
  BY <1>1, GivesUp DEF Decide
<1>2. CASE seen[p] # Desired(p)
  <2>1. /\ pc[p] = "refresh"
        /\ seen' = [seen EXCEPT ![p] = Desired(p)]
        /\ pc' = [pc EXCEPT ![p] = "save_status"]
        /\ UNCHANGED <<target, todo, held, data, env>>
    BY <1>2 DEF Decide, Goto
  <2>2. Desired(p) \in Admitted /\ Desired(p) \in Statuses
    BY DEF Desired, Admitted, Statuses
  <2>3. /\ JobTypes' /\ OthersKeep(p)
        /\ pc'[p] = "save_status" /\ seen'[p] = Desired(p)
    BY <2>1, <2>2 DEF IInv, TypeOK, JobTypes, OthersKeep, Steps
  <2>4. Job(p)'
    BY <2>1, <2>2, <2>3 DEF IInv, Job, OnSubscription, There, data
  <2> QED
    BY <2>1, <2>3, <2>4, QuietStep
<1> QED
  BY <1>1, <1>2

-----------------------------------------------------------------------------
(* Steps that write one subscriber, whose row is free.                     *)

LEMMA OneWritten ==
  ASSUME IInv, NEW p \in Processes, NEW s \in Subscribers, Free(p, <<s, 0>>), UNCHANGED env,
         status' \in [Subscribers -> Statuses],
         command' \in [Subscribers -> Statuses \cup {"none"}],
         subs' \in [Subscribers -> Seq(SubStatuses)],
         \A t \in Subscribers \ {s} :
           status'[t] = status[t] /\ command'[t] = command[t] /\ subs'[t] = subs[t],
         DOMAIN subs[s] \subseteq DOMAIN subs'[s], Len(subs'[s]) <= MaxSubscriptions,
         \A i, j \in Live(s)' : i = j,
         status'[s] = "expired" /\ command'[s] # "expired" => LiveRows(s)' \subseteq over
  PROVE  Respects(p) /\ DataTypes' /\ Unique' /\ RenewalNotLost'
<1>1. \A t \in Subscribers \ {s} : Live(t)' = Live(t) /\ LiveRows(t)' = LiveRows(t)
  BY DEF Live, LiveRows
<1>2. Respects(p)
  BY <1>1 DEF Respects
<1>3. DataTypes'
  BY DEF IInv, TypeOK, DataTypes
<1>4. Unique'
  BY <1>1 DEF IInv, Unique
<1>5. RenewalNotLost'
  BY <1>1 DEF IInv, RenewalNotLost, env
<1> QED
  BY <1>2, <1>3, <1>4, <1>5

\* Only the status is written.
LEMMA StatusWritten ==
  ASSUME IInv, NEW p \in Processes, NEW s \in Subscribers, Free(p, <<s, 0>>), UNCHANGED env,
         NEW x \in Statuses, status' = [status EXCEPT ![s] = x],
         command' \in [Subscribers -> Statuses \cup {"none"}],
         \A t \in Subscribers \ {s} : command'[t] = command[t],
         UNCHANGED subs,
         x = "expired" /\ command'[s] # "expired" =>
           status[s] = "expired" /\ command[s] # "expired"
  PROVE  Respects(p) /\ DataTypes' /\ Unique' /\ RenewalNotLost'
<1>1. Live(s)' = Live(s) /\ LiveRows(s)' = LiveRows(s)
  BY DEF Live, LiveRows
<1>2. /\ status' \in [Subscribers -> Statuses] /\ status'[s] = x
      /\ \A t \in Subscribers \ {s} : status'[t] = status[t]
      /\ subs \in [Subscribers -> Seq(SubStatuses)] /\ Len(subs[s]) <= MaxSubscriptions
  BY DEF IInv, TypeOK, SubStatuses
<1>3. \A i, j \in Live(s) : i = j
  BY DEF IInv, Unique
<1>4. x = "expired" /\ command'[s] # "expired" => LiveRows(s) \subseteq over
  BY DEF IInv, RenewalNotLost
<1> QED
  BY <1>1, <1>2, <1>3, <1>4, OneWritten

\* The active subscription expires: there was no other.
LEMMA SubscriptionExpired ==
  ASSUME IInv, NEW p \in Processes, NEW s \in Subscribers, Free(p, <<s, 0>>), UNCHANGED env,
         NEW i \in Live(s), subs' = [subs EXCEPT ![s][i] = "expired"],
         NEW x \in Statuses, status' = [status EXCEPT ![s] = x], UNCHANGED command
  PROVE  Respects(p) /\ DataTypes' /\ Unique' /\ RenewalNotLost'
<1>1. i \in 1 .. Len(subs[s]) /\ subs[s] \in Seq(SubStatuses) /\ "expired" \in SubStatuses
  BY SubsType DEF IInv, TypeOK, Live, SubStatuses
<1>2. subs'[s] = [subs[s] EXCEPT ![i] = "expired"]
  BY DEF IInv, TypeOK
<1>3. /\ subs'[s] \in Seq(SubStatuses) /\ Len(subs'[s]) = Len(subs[s])
      /\ DOMAIN subs'[s] = DOMAIN subs[s]
  BY <1>1, <1>2
<1>4. /\ subs' \in [Subscribers -> Seq(SubStatuses)]
      /\ \A t \in Subscribers \ {s} : subs'[t] = subs[t]
  BY <1>3 DEF IInv, TypeOK, SubStatuses
<1>5. /\ status' \in [Subscribers -> Statuses] /\ status'[s] = x
      /\ \A t \in Subscribers \ {s} : status'[t] = status[t]
      /\ command \in [Subscribers -> Statuses \cup {"none"}] /\ Len(subs[s]) <= MaxSubscriptions
  BY DEF IInv, TypeOK
<1>6. Live(s)' = {} /\ LiveRows(s)' = {}
  BY <1>1, <1>2, <1>3 DEF IInv, Unique, Live, LiveRows
<1> QED
  BY <1>3, <1>4, <1>5, <1>6, OneWritten

LEMMA DueIsLive ==
  ASSUME NEW s \in Subscribers, NEW i
  PROVE  <<s, i>> \in Due <=> i \in Live(s) /\ <<s, i>> \in over
  BY DEF Due, LiveRows

LEMMA RowParts ==
  ASSUME NEW p \in Processes, target[p] \in Rows
  PROVE  /\ Owner(p) \in Subscribers /\ target[p] = <<Owner(p), Index(p)>>
         /\ SubscriberRow(p) = <<Owner(p), 0>>
  BY DEF Owner, Index, SubscriberRow, Rows

LEMMA AuthorizeKeeps ==
  ASSUME IInv, NEW p \in Processes, Authorize(p)
  PROVE  IInv'
<1>1. /\ pc[p] = "authorize_locked" /\ There(target[p]) /\ <<Owner(p), 0>> \in held[p]
      /\ Finish(p) /\ UNCHANGED <<command, env>>
  BY DEF Authorize, IInv, Job, OnSubscription, SubscriberRow
<1>2. PICK s \in Subscribers, i \in Nat :
        /\ i \in DOMAIN subs[s] /\ s = Owner(p) /\ i = Index(p)
        /\ target[p] = <<s, i>>
  BY <1>1, RowParts DEF There, Owner, Index, Rows
<1>3. Free(p, <<s, 0>>)
  BY <1>1, <1>2 DEF IInv, Exclusive, Free, Holders
<1>5. CASE target[p] \in Due
  <2>1. i \in Live(s) /\ target[p] \in over
    BY <1>2, <1>5, DueIsLive
  <2>2. /\ status' = [status EXCEPT ![s] = "expired"]
        /\ subs' = [subs EXCEPT ![s][i] = "expired"]
    BY <1>2, <1>5 DEF Authorize, StatusAuthorized
  <2> QED
    BY <1>1, <1>3, <2>1, <2>2, SubscriptionExpired, EndingStep DEF Statuses
<1>6. CASE target[p] \notin Due
  <2>2. UNCHANGED subs
    BY <1>6 DEF Authorize
  <2>3. PICK x \in {status[s], "quota_exhausted", "active"} : status' = [status EXCEPT ![s] = x]
    BY <1>2, <1>6 DEF Authorize, StatusAuthorized
  <2>4. x \in Statuses /\ (x = "expired" => status[s] = "expired")
    BY <2>3 DEF IInv, TypeOK, Statuses
  <2> QED
    BY <1>1, <1>3, <2>2, <2>3, <2>4, StatusWritten, EndingStep DEF IInv, TypeOK
<1> QED
  BY <1>5, <1>6

LEMMA EndExpiryStep ==
  ASSUME IInv, NEW p \in Processes, EndExpiry(p), Respects(p)
  PROVE  JobTypes' /\ OthersKeep(p) /\ Job(p)' /\ held'[p] = {}
<1>1. \A r : There(r) => There(r)'
  BY DEF Respects, There, Rows
<1>2. CASE p = Beat
  <2>1. /\ pc' = [pc EXCEPT ![p] = "expire_next"]
        /\ held' = [held EXCEPT ![p] = {}]
        /\ UNCHANGED <<target, seen, todo>>
    BY <1>2 DEF EndExpiry, Goto
  <2>2. /\ JobTypes' /\ OthersKeep(p) /\ held'[p] = {}
        /\ pc'[p] = "expire_next" /\ todo'[p] = todo[p]
    BY <2>1 DEF IInv, TypeOK, JobTypes, OthersKeep, Steps
  <2>3. Job(p)'
    BY <1>1, <2>2 DEF IInv, Job, OnSubscription
  <2> QED
    BY <2>2, <2>3
<1>3. CASE p # Beat
  <2>1. /\ JobTypes' /\ OthersKeep(p)
        /\ pc'[p] = "idle" /\ todo'[p] = {} /\ held'[p] = {}
    BY <1>3, FinishStep DEF EndExpiry, IInv, TypeOK, JobTypes
  <2>2. Job(p)'
    BY <2>1 DEF Job, OnSubscription
  <2> QED
    BY <2>1, <2>2
<1> QED
  BY <1>2, <1>3

LEMMA ExpireKeeps ==
  ASSUME IInv, NEW p \in Processes, Expire(p)
  PROVE  IInv'
<1>1. /\ pc[p] = "expire_locked" /\ There(target[p])
      /\ Free(p, SubscriberRow(p)) /\ EndExpiry(p) /\ UNCHANGED <<command, env>>
  BY DEF Expire, IInv, Job, OnSubscription
<1>2. PICK s \in Subscribers, i \in Nat :
        /\ i \in DOMAIN subs[s] /\ s = Owner(p) /\ i = Index(p)
        /\ target[p] = <<s, i>> /\ SubscriberRow(p) = <<s, 0>>
  BY <1>1, RowParts DEF There, Owner, Index, Rows
<1>3. Respects(p) /\ DataTypes' /\ Unique' /\ RenewalNotLost'
  <2>1. CASE target[p] \in Due
    <3>1. i \in Live(s)
      BY <1>2, <2>1, DueIsLive
    <3>2. PICK x \in Statuses : status' = [status EXCEPT ![s] = x]
      BY <1>2, <2>1 DEF Expire, IInv, TypeOK, Statuses
    <3>3. subs' = [subs EXCEPT ![s][i] = "expired"]
      BY <1>2, <2>1 DEF Expire
    <3> QED
      BY <1>1, <1>2, <3>1, <3>2, <3>3, SubscriptionExpired
  <2>2. CASE target[p] \notin Due
    BY <1>1, <2>2, NothingWritten DEF Expire, data
  <2> QED
    BY <2>1, <2>2
<1> QED
  BY <1>1, <1>3, EndExpiryStep, ProcessStep

LEMMA UpdateKeeps ==
  ASSUME IInv, NEW p \in Processes, Update(p)
  PROVE  IInv'
<1>1. /\ Finish(p) /\ UNCHANGED <<subs, env>> /\ seen[p] \in Statuses
      /\ status' = [status EXCEPT ![Owner(p)] = seen[p]]
      /\ command' = [command EXCEPT ![Owner(p)] = seen[p]]
  BY DEF Update, IInv, TypeOK
<1>2. Owner(p) \in Subscribers /\ Free(p, <<Owner(p), 0>>)
  BY RowParts DEF Update, IInv, Job
<1>3. /\ command' \in [Subscribers -> Statuses \cup {"none"}] /\ command'[Owner(p)] = seen[p]
      /\ \A t \in Subscribers \ {Owner(p)} : command'[t] = command[t]
  BY <1>1, <1>2 DEF IInv, TypeOK
<1> QED
  BY <1>1, <1>2, <1>3, StatusWritten, EndingStep

LEMMA SaveStatusKeeps ==
  ASSUME IInv, NEW p \in Processes, SaveStatus(p)
  PROVE  IInv'
<1>1. /\ Finish(p) /\ UNCHANGED <<subs, command, env>>
      /\ status' = [status EXCEPT ![Owner(p)] = seen[p]]
  BY DEF SaveStatus
<1>2. Owner(p) \in Subscribers /\ Free(p, <<Owner(p), 0>>)
  BY RowParts DEF SaveStatus, IInv, Job
<1>3. seen[p] \in Statuses /\ seen[p] # "expired"
  BY DEF SaveStatus, IInv, TypeOK, Job, Admitted
<1>4. command' \in [Subscribers -> Statuses \cup {"none"}]
  BY <1>1 DEF IInv, TypeOK
<1> QED
  BY <1>1, <1>2, <1>3, <1>4, StatusWritten, EndingStep

\* Every active subscription is closed and one is opened.
LEMMA AssignKeeps ==
  ASSUME IInv, NEW p \in Processes, Assign(p)
  PROVE  IInv'
<1>1. /\ pc[p] = "assign_rows" /\ todo[p] = {} /\ Finish(p) /\ UNCHANGED env
  BY DEF Assign
<1>2. PICK s \in Subscribers :
        /\ s = Owner(p) /\ <<s, 0>> \in held[p]
        /\ LiveRows(s) \subseteq held[p] /\ Len(subs[s]) < MaxSubscriptions
  BY <1>1, RowParts DEF IInv, Job
<1>3. Free(p, <<s, 0>>)
  BY <1>2 DEF IInv, Exclusive, Free, Holders
<1> DEFINE closed == [i \in DOMAIN subs[s] |->
                        IF <<s, i>> \in held[p] THEN "closed" ELSE subs[s][i]]
           n == Len(subs[s])
<1>4. n \in Nat /\ DOMAIN subs[s] = 1 .. n /\ \A i \in 1 .. n : subs[s][i] \in SubStatuses
  BY SubsType DEF IInv
<1>5. closed \in [1 .. n -> SubStatuses] /\ closed \in Seq(SubStatuses) /\ Len(closed) = n
  <2>1. closed \in [1 .. n -> SubStatuses]
    BY <1>4 DEF SubStatuses
  <2> QED
    BY <1>4, <2>1
<1>6. /\ subs'[s] = Append(closed, "active")
      /\ \A t \in Subscribers \ {s} : subs'[t] = subs[t]
      /\ DOMAIN subs' = Subscribers
  BY <1>2 DEF Assign, IInv, TypeOK
<1>7. /\ subs'[s] \in Seq(SubStatuses) /\ Len(subs'[s]) = n + 1 /\ DOMAIN subs'[s] = 1 .. n + 1
      /\ subs'[s][n + 1] = "active" /\ \A i \in 1 .. n : subs'[s][i] = closed[i]
  <2> HIDE DEF closed, n
  <2>1. "active" \in SubStatuses
    BY DEF SubStatuses
  <2> QED
    BY <1>4, <1>5, <1>6, <2>1
<1>8. subs' \in [Subscribers -> Seq(SubStatuses)]
  BY <1>6, <1>7 DEF Assign, IInv, TypeOK, SubStatuses
<1>9. \A i \in 1 .. n : closed[i] # "active"
  <2> SUFFICES ASSUME NEW i \in 1 .. n, closed[i] = "active" PROVE FALSE
    OBVIOUS
  <2>1. subs[s][i] = "active" /\ <<s, i>> \notin held[p]
    BY <1>4
  <2>2. <<s, i>> \in LiveRows(s)
    BY <1>4, <2>1 DEF LiveRows, Live
  <2> QED
    BY <1>2, <2>1, <2>2
<1>10. Live(s)' = {n + 1}
  <2> HIDE DEF closed, n
  <2> QED
    BY <1>4, <1>7, <1>9 DEF Live
<1>11. /\ status' \in [Subscribers -> Statuses] /\ status'[s] # "expired"
       /\ command' \in [Subscribers -> Statuses \cup {"none"}]
       /\ \A t \in Subscribers \ {s} : status'[t] = status[t] /\ command'[t] = command[t]
  BY <1>2 DEF Assign, IInv, TypeOK, Statuses
<1>12. \A i, j \in Live(s)' : i = j
  BY <1>10
<1>13. DOMAIN subs[s] \subseteq DOMAIN subs'[s] /\ Len(subs'[s]) <= MaxSubscriptions
  BY <1>2, <1>4, <1>7, BoundAssumption
<1> QED
  BY <1>1, <1>3, <1>6, <1>8, <1>11, <1>12, <1>13, OneWritten, EndingStep

\* Time and usage.
LEMMA EnvironmentKeeps == IInv /\ Environment => IInv'
<1> SUFFICES ASSUME IInv, Environment PROVE IInv'
  OBVIOUS
<1>1. PICK s \in Subscribers, i \in Indexes : SubscriptionEnds(<<s, i>>) \/ QuotaMoves(<<s, i>>)
  BY DEF Environment
<1>2. UNCHANGED <<data, pc, target, seen, todo, held>>
  BY <1>1 DEF SubscriptionEnds, QuotaMoves
<1>3. <<s, i>> \in Rows
  BY DEF Rows, Indexes
<1>4. over \subseteq over' /\ over' \subseteq Rows /\ exhausted' \subseteq Rows
  BY <1>1, <1>3 DEF SubscriptionEnds, QuotaMoves, IInv, TypeOK
<1>5. TypeOK' /\ Exclusive' /\ Unique'
  BY <1>2, <1>4 DEF IInv, TypeOK, Exclusive, Unique, Live, data
<1>6. RenewalNotLost'
  BY <1>2, <1>4 DEF IInv, RenewalNotLost, LiveRows, Live, data
<1>7. \A p \in Processes : Job(p)'
  BY <1>2 DEF IInv, Job, There, LiveRows, Live, Owner, SubscriberRow, data
<1> QED
  BY <1>5, <1>6, <1>7 DEF IInv

-----------------------------------------------------------------------------
LEMMA NextIInv == IInv /\ [Next]_vars => IInv'
<1> SUFFICES ASSUME IInv, [Next]_vars PROVE IInv'
  OBVIOUS
<1>1. ASSUME NEW p \in Workers, Work(p) PROVE IInv'
  <2>1. p \in Processes
    BY DEF Processes
  <2>2. CASE RefuseAssign(p)
    BY <2>1, <2>2, GivesUp DEF RefuseAssign
  <2> QED
    BY <1>1, <2>1, <2>2, LockSubscriberKeeps, AuthorizeKeeps, LockSubscriptionKeeps, ExpireKeeps,
       LockAssignKeeps, VisitLiveKeeps, AssignKeeps, UpdateKeeps, DecideKeeps, SaveStatusKeeps
       DEF Work
<1>2. CASE ExpireDue
  BY <1>2, BeginExpireDueKeeps, ExpireNextKeeps, LockSubscriptionKeeps, ExpireKeeps
     DEF ExpireDue, Processes
<1>3. CASE UNCHANGED vars
  <2>1. TypeOK' /\ Exclusive' /\ Unique' /\ RenewalNotLost'
    BY <1>3 DEF vars, IInv, TypeOK, Exclusive, Unique, RenewalNotLost, Live, LiveRows
  <2>2. \A p \in Processes : Job(p)'
    BY <1>3 DEF vars, IInv, Job, There, Live, LiveRows, Owner, SubscriberRow
  <2> QED
    BY <2>1, <2>2 DEF IInv
<1> QED
  BY <1>1, <1>2, <1>3, RequestKeeps, AbortKeeps, EnvironmentKeeps DEF Next

LEMMA Invariance == Spec => []IInv
  BY InitIInv, NextIInv, PTL DEF Spec

\* Every variable keeps its type; in particular no subscriber gets more
\* subscriptions than its assignments have checked for.
THEOREM TypeCorrect == Spec => []TypeOK
<1>1. IInv => TypeOK
  BY DEF IInv
<1> QED
  BY <1>1, Invariance, PTL

\* The INSERT of assign_package never meets the partial unique index, whatever
\* assignments, renewals and expiries overlap.
THEOREM OneActiveHolds == Spec => []OneActive
<1>1. IInv => OneActive
  <2> SUFFICES ASSUME IInv, NEW s \in Subscribers PROVE Cardinality(Live(s)) <= 1
    BY DEF OneActive
  <2>1. CASE Live(s) = {}
    BY <2>1, FS_EmptySet
  <2>2. CASE Live(s) # {}
    <3>1. PICK i : Live(s) = {i}
      BY <2>2 DEF IInv, Unique
    <3>2. Cardinality({i}) = 1
      BY FS_Singleton
    <3> QED
      BY <3>1, <3>2
  <2> QED
    BY <2>1, <2>2
<1> QED
  BY <1>1, Invariance, PTL

\* authorize_radius decides on the status the database holds.
THEOREM NoStaleDecisionHolds == Spec => []NoStaleDecision
<1>1. IInv => NoStaleDecision
  BY DEF IInv, Job, NoStaleDecision
<1> QED
  BY <1>1, Invariance, PTL

\* An expiry under way never takes a renewal with it.
THEOREM RenewalNotLostHolds == Spec => []RenewalNotLost
<1>1. IInv => RenewalNotLost
  BY DEF IInv
<1> QED
  BY <1>1, Invariance, PTL

-----------------------------------------------------------------------------
(* The operator's word.                                                    *)

Obeyed ==
  \A s \in Subscribers :
    /\ command[s] \in {"disabled", "suspended"}
    /\ command'[s] = command[s]
    /\ status[s] = command[s]
    /\ status'[s] # status[s]
    => \E p \in Workers : pc[p] = "save_status" /\ pc'[p] = "idle" /\ Owner(p) = s

LEMMA ExpireObeys ==
  ASSUME IInv, NEW p \in Processes, Expire(p)
  PROVE  Obeyed
<1>1. Owner(p) \in Subscribers
  BY RowParts DEF Expire, IInv, Job
<1> QED
  BY <1>1 DEF Expire, IInv, TypeOK, Obeyed

LEMMA WorkObeys ==
  ASSUME IInv, NEW p \in Workers, Work(p)
  PROVE  Obeyed
<1>p. p \in Processes
  BY DEF Processes
<1>1. CASE UNCHANGED status
  BY <1>1 DEF Obeyed
<1>2. CASE Authorize(p)
  <2>1. PICK x : status' = [status EXCEPT ![Owner(p)] = x]
    BY <1>2 DEF Authorize
  <2>2. status[Owner(p)] \in Admitted
    BY <1>p, <1>2 DEF Authorize, IInv, Job
  <2> QED
    BY <2>1, <2>2 DEF IInv, TypeOK, Obeyed, Admitted
<1>3. CASE Assign(p)
  BY <1>3 DEF Assign, IInv, TypeOK, Obeyed
<1>4. CASE Update(p)
  BY <1>4 DEF Update, IInv, TypeOK, Obeyed
<1>5. CASE SaveStatus(p)
  <2>1. pc[p] = "save_status" /\ pc'[p] = "idle"
    BY <1>p, <1>5 DEF SaveStatus, Finish, IInv, TypeOK
  <2> QED
    BY <1>5, <2>1 DEF SaveStatus, IInv, TypeOK, Obeyed
<1> QED
  BY <1>p, <1>1, <1>2, <1>3, <1>4, <1>5, ExpireObeys DEF Work, LockSubscriber, LockSubscription,
     RefuseAssign, LockAssign, VisitLive, Decide, data

LEMMA NextObeys ==
  ASSUME IInv, [Next]_vars
  PROVE  Obeyed
<1>1. CASE UNCHANGED status
  BY <1>1 DEF Obeyed
<1>2. ASSUME NEW p \in Workers, Request(p) PROVE UNCHANGED status
  BY <1>2 DEF Request, BeginAuthorize, BeginAssign, BeginUpdate, BeginRefresh, BeginExpireOne, data
<1>3. CASE ExpireDue
  BY <1>1, <1>3, ExpireObeys DEF ExpireDue, BeginExpireDue, ExpireNext, LockSubscription, data,
     Processes
<1>4. ASSUME NEW p \in Processes, DeadlockAbort(p) PROVE UNCHANGED status
  BY <1>4 DEF DeadlockAbort, data
<1>5. CASE Environment \/ UNCHANGED vars
  BY <1>1, <1>5 DEF Environment, SubscriptionEnds, QuotaMoves, data, vars
<1> QED
  BY <1>1, <1>2, <1>3, <1>4, <1>5, WorkObeys DEF Next

\* A disabled or suspended subscriber stays so until the operator says otherwise,
\* but for a policy refresh that read the row before.
THEOREM DisabledIsKeptHolds == Spec => DisabledIsKept
<1>1. IInv /\ [Next]_vars => [Obeyed]_vars
  BY NextObeys
<1> QED
  BY <1>1, InitIInv, NextIInv, PTL DEF Spec, DisabledIsKept, Obeyed
=============================================================================
