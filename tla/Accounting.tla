----------------------------- MODULE Accounting -----------------------------
(***************************************************************************)
(* Ingestion of RADIUS accounting: the NAS reports the cumulative counters *)
(* of a session over UDP, several gunicorn workers run ingest_accounting   *)
(* (backend/accounting/services.py) on those reports, and PostgreSQL keeps *)
(* the session row, the event rows and the usage counters.                 *)
(*                                                                         *)
(* A report may be lost, delivered twice or overtaken by a later one.  A   *)
(* worker may be killed between any two statements, which rolls its        *)
(* transaction back.  One byte counter stands for the input and the output *)
(* counter, which the code treats alike.  The policy evaluation that       *)
(* follows the commit changes nothing in this module.                      *)
(*                                                                         *)
(* A report of a router that is disabled or deleted, or of a name that is  *)
(* neither a subscriber's nor a usable voucher's, is answered and ignored. *)
(* (What else the deletion of a router removes is left out.)               *)
(***************************************************************************)
EXTENDS Integers, FiniteSets

CONSTANTS
  Sessions,     \* NAS sessions: one (router, Acct-Session-Id, User-Name) each
  Workers,      \* request threads behind /api/internal/radius/accounting/
  NoWorker,     \* owner of a row lock nobody holds
  NoReport,     \* what an idle worker handles
  WordSize,     \* modulus of Acct-*-Octets; 2^32 in RADIUS
  MaxReports,   \* bound: reports a NAS sends for one session
  MaxInFlight,  \* bound: reports of one session on the network at once
  MaxBurst,     \* bound: bytes carried between two reports
  MaxCrashes,   \* bound: workers killed in a behaviour
  CanReset,     \* a NAS may reset its counters in mid-session
  CanReuse      \* a NAS may open a later session under an old session id

ASSUME WorkersAssumption == NoWorker \notin Workers
ASSUME BoundsAssumption == /\ WordSize \in Nat \ {0}
                           /\ MaxReports \in Nat
                           /\ MaxInFlight \in Nat
                           /\ MaxBurst \in Nat
                           /\ MaxCrashes \in Nat
ASSUME FlagsAssumption == {CanReset, CanReuse} \subseteq BOOLEAN

VARIABLES
  nas,      \* what the NAS knows of a session
  net,      \* reports in flight: a report stays until it is dropped
  known,    \* sessions whose router is enabled and whose User-Name resolves
  database, \* PostgreSQL, which is deployed, or another one
  rows,     \* RadiusSession rows, as committed
  lock,     \* the worker holding FOR UPDATE, or an uncommitted INSERT, on a row
  events,   \* RadiusAccountingEvent.event_key, as committed
  usage,    \* bytes a session added to its identity's counters and aggregates
  pc,       \* how far each worker has come in ingest_accounting
  req,      \* the report each worker handles
  copy,     \* the session object each worker holds in memory
  crashes,  \* workers killed so far
  front     \* history: the number and total of the latest report ingested, and
            \* whether a report was ingested after a later one

db == <<rows, lock, events, usage, front>>
vars == <<nas, net, known, database, rows, lock, events, usage, pc, req, copy, crashes, front>>

-----------------------------------------------------------------------------
Kinds == {"Start", "Interim-Update", "Stop"}

\* The fields number, a report's place among those of its session, and total,
\* the bytes the session has really carried, are no part of the packet: only
\* the history variable front reads them.
Report == [session : Sessions, kind : Kinds, octets : Nat, gigawords : Nat,
           seconds : Nat, number : Nat, total : Nat]

Row == [status : {"NONE", "ACTIVE", "STOPPED"}, bytes : Nat]
NoRow == [status |-> "NONE", bytes |-> 0]
CreatedRow == [status |-> "ACTIVE", bytes |-> 0]

\* Mutant of CounterBytes: the gigawords attribute is ignored.
OctetsOnly(m) == m.octets

CounterBytes(m) == m.gigawords * WordSize + m.octets

\* The fingerprint a retransmission shares with the original.
EventKey(m) == <<m.session, m.kind, CounterBytes(m), m.seconds>>

Delta(current, previous) ==
  IF current >= previous THEN current - previous ELSE current

StatusAfter(kind, status) ==
  CASE kind = "Start" -> "ACTIVE"
    [] kind = "Stop"  -> "STOPPED"
    [] OTHER          -> status

\* PostgreSQL refuses FOR UPDATE over the outer joins that select_related makes of
\* nullable keys; elsewhere the statement does what the code intends.
Databases == {"PostgreSQL", "other"}
Lockable == database # "PostgreSQL"

Busy == {w \in Workers : pc[w] # "idle"}
InSystem == net \cup {req[w] : w \in Busy}
Ingested(m) == EventKey(m) \in events

-----------------------------------------------------------------------------
(* The NAS and the network (external).                                     *)

Init ==
  /\ nas = [s \in Sessions |->
              [phase |-> "off", bytes |-> 0, seconds |-> 0, total |-> 0, sent |-> 0]]
  /\ net = {}
  /\ known = Sessions
  /\ database \in Databases
  /\ rows = [s \in Sessions |-> NoRow]
  /\ lock = [s \in Sessions |-> NoWorker]
  /\ events = {}
  /\ usage = [s \in Sessions |-> 0]
  /\ pc = [w \in Workers |-> "idle"]
  /\ req = [w \in Workers |-> NoReport]
  /\ copy = [w \in Workers |-> NoRow]
  /\ crashes = 0
  /\ front = [s \in Sessions |-> [number |-> 0, total |-> 0, overtaken |-> FALSE]]

\* The NAS sends a report with its counters at the given values.
Send(s, kind, phase, bytes, seconds, total) ==
  /\ nas[s].sent < MaxReports
  /\ Cardinality({m \in net : m.session = s}) < MaxInFlight
  /\ nas' = [nas EXCEPT ![s] = [phase |-> phase, bytes |-> bytes, seconds |-> seconds,
                                total |-> total, sent |-> @.sent + 1]]
  /\ net' = net \cup {[session |-> s, kind |-> kind, octets |-> bytes % WordSize,
                       gigawords |-> bytes \div WordSize, seconds |-> seconds,
                       number |-> nas[s].sent + 1, total |-> total]}
  /\ UNCHANGED <<known, database, db, pc, req, copy, crashes>>

NasStart(s) ==
  /\ nas[s].phase = "off" \/ (CanReuse /\ nas[s].phase = "down")
  /\ Send(s, "Start", "up", 0, 0, nas[s].total)

\* n bytes since the last report, or since the counters were reset.
NasReport(s, kind, phase) ==
  /\ nas[s].phase = "up"
  /\ \E n \in 0..MaxBurst, reset \in {FALSE, CanReset} :
       LET base == IF reset THEN 0 ELSE nas[s].bytes
           secs == IF reset THEN 0 ELSE nas[s].seconds
       IN Send(s, kind, phase, base + n, secs + 1, nas[s].total + n)

NasInterim(s) == NasReport(s, "Interim-Update", "up")
NasStop(s) == NasReport(s, "Stop", "down")

Drop(m) ==
  /\ net' = net \ {m}
  /\ UNCHANGED <<crashes, nas, known, database, db, pc, req, copy>>

\* Staff disable or delete the router or the account of s, or enable it again.
Administer(s) ==
  /\ known' = IF s \in known THEN known \ {s} ELSE known \cup {s}
  /\ UNCHANGED <<crashes, nas, database, net, db, pc, req, copy>>

-----------------------------------------------------------------------------
(* ingest_accounting.  Everything from Receive to Commit is one transaction; *)
(* the row lock is released when it ends.                                  *)

\* The request ends, whatever its outcome, and with it the worker's objects.
Finish(w) ==
  /\ pc' = [pc EXCEPT ![w] = "idle"]
  /\ req' = [req EXCEPT ![w] = NoReport]
  /\ copy' = [copy EXCEPT ![w] = NoRow]

\* _router_for_source and _resolve_identity.
Accepted(m) == m.session \in known

\* The request arrives; a report may be handled any number of times.  What was
\* read of the router and the user need not hold any more when the session is
\* locked.
Receive(w, m) ==
  /\ pc[w] = "idle"
  /\ Accepted(m)
  /\ pc' = [pc EXCEPT ![w] = "lookup"]
  /\ req' = [req EXCEPT ![w] = m]
  /\ UNCHANGED <<crashes, nas, known, database, net, db, copy>>

\* AccountingReject, which is answered like a success, or the ValidationError of
\* a voucher that cannot be activated: nothing is recorded.
Reject(w, m) == pc[w] = "idle" /\ ~Accepted(m) /\ UNCHANGED vars

\* The SELECT ... FOR UPDATE is an error whatever the table holds.
LookupRefused(w) ==
  /\ pc[w] = "lookup"
  /\ ~Lockable
  /\ Finish(w)
  /\ UNCHANGED <<crashes, nas, known, database, net, db>>

\* Mutant of LookupExisting: a plain SELECT.
LookupUnlocked(w) ==
  LET s == req[w].session IN
  /\ pc[w] = "lookup"
  /\ Lockable
  /\ rows[s] # NoRow
  /\ copy' = [copy EXCEPT ![w] = rows[s]]
  /\ pc' = [pc EXCEPT ![w] = "check"]
  /\ UNCHANGED <<crashes, nas, known, database, net, rows, lock, events, usage, req, front>>

\* SELECT ... FOR UPDATE: waits for the row lock and reads the row, or finds
\* no committed row and goes on to create one.
LookupExisting(w) ==
  LET s == req[w].session IN
  /\ pc[w] = "lookup"
  /\ Lockable
  /\ rows[s] # NoRow
  /\ lock[s] = NoWorker
  /\ lock' = [lock EXCEPT ![s] = w]
  /\ copy' = [copy EXCEPT ![w] = rows[s]]
  /\ pc' = [pc EXCEPT ![w] = "check"]
  /\ UNCHANGED <<crashes, nas, known, database, net, rows, events, usage, req, front>>

\* Mutant of LookupMissing: a report of a session not seen before is ignored,
\* unless it is the Start.
MissingNeedsStart(w) ==
  /\ pc[w] = "lookup"
  /\ Lockable
  /\ rows[req[w].session] = NoRow
  /\ IF req[w].kind = "Start"
       THEN pc' = [pc EXCEPT ![w] = "create"] /\ UNCHANGED <<req, copy>>
       ELSE Finish(w)
  /\ UNCHANGED <<crashes, nas, known, database, net, db>>

\* Mutant of LookupMissing: the creation belongs to the `if` that dates back the
\* start of a session first seen by a later report.
MissingNeedsTime(w) ==
  /\ pc[w] = "lookup"
  /\ Lockable
  /\ rows[req[w].session] = NoRow
  /\ IF req[w].kind # "Start" /\ req[w].seconds > 0
       THEN pc' = [pc EXCEPT ![w] = "create"] /\ UNCHANGED <<req, copy>>
       ELSE Finish(w)
  /\ UNCHANGED <<crashes, nas, known, database, net, db>>

LookupMissing(w) ==
  /\ pc[w] = "lookup"
  /\ Lockable
  /\ rows[req[w].session] = NoRow
  /\ pc' = [pc EXCEPT ![w] = "create"]
  /\ UNCHANGED <<crashes, nas, known, database, net, db, req, copy>>

\* INSERT of the session: it waits for a concurrent INSERT of the same key,
\* and fails on the unique constraint when that one has committed.
CreateSession(w) ==
  LET s == req[w].session IN
  /\ pc[w] = "create"
  /\ lock[s] = NoWorker
  /\ rows[s] = NoRow
  /\ lock' = [lock EXCEPT ![s] = w]
  /\ copy' = [copy EXCEPT ![w] = CreatedRow]
  /\ pc' = [pc EXCEPT ![w] = "check"]
  /\ UNCHANGED <<crashes, nas, known, database, net, rows, events, usage, req, front>>

CreateConflict(w) ==
  LET s == req[w].session IN
  /\ pc[w] = "create"
  /\ lock[s] = NoWorker
  /\ rows[s] # NoRow
  /\ Finish(w)
  /\ UNCHANGED <<crashes, nas, known, database, net, db>>

\* Mutant of SkipDuplicate: the session is saved before the duplicate check.
SaveThenSkip(w) ==
  LET m == req[w] IN
  /\ pc[w] = "check"
  /\ Ingested(m)
  /\ rows' = [rows EXCEPT ![m.session] =
                [status |-> StatusAfter(m.kind, copy[w].status), bytes |-> CounterBytes(m)]]
  /\ lock' = [lock EXCEPT ![m.session] = NoWorker]
  /\ Finish(w)
  /\ UNCHANGED <<crashes, nas, known, database, net, events, usage, front>>

\* The fingerprint is already stored: the transaction ends, with the session
\* it may have created, and nothing is counted.
SkipDuplicate(w) ==
  LET s == req[w].session IN
  /\ pc[w] = "check"
  /\ Ingested(req[w])
  /\ rows' = [rows EXCEPT ![s] = copy[w]]
  /\ lock' = [lock EXCEPT ![s] = NoWorker]
  /\ Finish(w)
  /\ UNCHANGED <<crashes, nas, known, database, net, events, usage, front>>

PassDuplicateCheck(w) ==
  /\ pc[w] = "check"
  /\ ~Ingested(req[w])
  /\ pc' = [pc EXCEPT ![w] = "write"]
  /\ UNCHANGED <<crashes, nas, known, database, net, db, req, copy>>

\* _update_aggregates and _record_identity_usage, which add it to the tables of hours and
\* days and to the counters of the identity's quotas.
Charge(s, delta) == usage' = [usage EXCEPT ![s] = @ + delta]

\* History: the report m is ingested.
Advance(m) ==
  LET f == front[m.session] IN
  front' = [front EXCEPT ![m.session] =
              IF m.number < f.number
                THEN [number |-> f.number, total |-> f.total, overtaken |-> TRUE]
                ELSE [number |-> m.number, total |-> m.total, overtaken |-> f.overtaken]]

\* Mutant of Commit: the usage is recorded and the event is not.
CommitWithoutEvent(w) ==
  LET m == req[w] IN
  /\ pc[w] = "write"
  /\ rows' = [rows EXCEPT ![m.session] =
                [status |-> StatusAfter(m.kind, copy[w].status), bytes |-> CounterBytes(m)]]
  /\ Charge(m.session, Delta(CounterBytes(m), copy[w].bytes))
  /\ lock' = [lock EXCEPT ![m.session] = NoWorker]
  /\ Finish(w)
  /\ UNCHANGED <<crashes, nas, known, database, net, events, front>>

\* The deltas, session.save(), the event, the usage counters and the commit.
\* The event's unique key is checked once more by its INSERT, which rolls the
\* whole transaction back.
Commit(w) ==
  LET m == req[w]
      s == m.session
      saved == [status |-> StatusAfter(m.kind, copy[w].status), bytes |-> CounterBytes(m)]
      delta == Delta(CounterBytes(m), copy[w].bytes)
  IN
  /\ pc[w] = "write"
  /\ IF Ingested(m)
       THEN UNCHANGED <<rows, events, usage, front>>
       ELSE /\ rows' = [rows EXCEPT ![s] = saved]
            /\ events' = events \cup {EventKey(m)}
            /\ Charge(s, delta)
            /\ Advance(m)
  /\ lock' = [lock EXCEPT ![s] = NoWorker]
  /\ Finish(w)
  /\ UNCHANGED <<crashes, nas, known, database, net>>

\* The worker is killed (or the connection lost): PostgreSQL rolls back.
Crash(w) ==
  /\ pc[w] # "idle"
  /\ crashes < MaxCrashes
  /\ crashes' = crashes + 1
  /\ Finish(w)
  /\ lock' = [s \in Sessions |-> IF lock[s] = w THEN NoWorker ELSE lock[s]]
  /\ UNCHANGED <<nas, known, database, net, rows, events, usage, front>>

-----------------------------------------------------------------------------
Lookup(w) == LookupExisting(w) \/ LookupMissing(w) \/ LookupRefused(w)
Create(w) == CreateSession(w) \/ CreateConflict(w)
Check(w) == SkipDuplicate(w) \/ PassDuplicateCheck(w)
Handle(w) == Lookup(w) \/ Create(w) \/ Check(w) \/ Commit(w)

Nas == \E s \in Sessions : NasStart(s) \/ NasInterim(s) \/ NasStop(s)
Staff == \E s \in Sessions : Administer(s)
Network == \E m \in net : Drop(m) \/ \E w \in Workers : Receive(w, m) \/ Reject(w, m)
Ingest == \E w \in Workers : Handle(w)
Fault == \E w \in Workers : Crash(w)

Next == Nas \/ Staff \/ Network \/ Ingest \/ Fault

Spec == Init /\ [][Next]_vars

\* A worker runs its request to the end and PostgreSQL serves the waiters for
\* a row lock in turn; the NAS repeats a Start or a Stop until it is answered,
\* so one that is not dropped keeps reaching an idle worker.
Arrives(s, kind) ==
  \E m \in net, w \in Workers :
    m.session = s /\ m.kind = kind /\ Receive(w, m)

Fairness ==
  /\ \A w \in Workers : SF_vars(Handle(w))
  /\ \A s \in Sessions, kind \in {"Start", "Stop"} : SF_vars(Arrives(s, kind))

FairSpec == Spec /\ Fairness

-----------------------------------------------------------------------------
TypeOK ==
  /\ nas \in [Sessions -> [phase : {"off", "up", "down"}, bytes : Nat,
                           seconds : Nat, total : Nat, sent : Nat]]
  /\ net \subseteq Report
  /\ known \subseteq Sessions
  /\ database \in Databases
  /\ rows \in [Sessions -> Row]
  /\ lock \in [Sessions -> Workers \cup {NoWorker}]
  /\ events \subseteq (Sessions \X Kinds \X Nat \X Nat)
  /\ usage \in [Sessions -> Nat]
  /\ pc \in [Workers -> {"idle", "lookup", "create", "check", "write"}]
  /\ req \in [Workers -> Report \cup {NoReport}]
  /\ copy \in [Workers -> Row]
  /\ crashes \in Nat
  /\ front \in [Sessions -> [number : Nat, total : Nat, overtaken : BOOLEAN]]
  /\ \A w \in Busy : req[w] \in Report

\* The reports of s took effect in the order they were sent, with gaps.
InOrder(s) == ~front[s].overtaken

\* No subscriber or voucher is ever charged for more bytes than its session
\* carried, whatever is lost, repeated or killed: the fingerprint, the delta
\* and the row lock of ingest_accounting together.  A report ingested after a
\* later one is the only exception: _delta takes it for a counter reset.
NoOvercount == \A s \in Sessions : InOrder(s) => usage[s] <= nas[s].total

\* As long as the NAS has not reset its counters nothing is lost either: what
\* was charged is the cumulative counter of the latest report ingested, also
\* across a wrap of the 32-bit octet counter.
CountedExactly ==
  \A s \in Sessions :
    InOrder(s) /\ nas[s].total = nas[s].bytes => usage[s] = rows[s].bytes

\* The online-session list: a session is closed exactly when its Stop has been
\* ingested; only a Start that the Stop has overtaken reopens it.
StoppedIffStopIngested ==
  \A s \in Sessions :
    InOrder(s) =>
      (rows[s].status = "STOPPED" <=> \E e \in events : e[1] = s /\ e[2] = "Stop")

\* Between its SELECT ... FOR UPDATE and its commit a worker alone holds the
\* row and its in-memory session is the committed one, or the row it is
\* creating: session.save() of every column overwrites nobody's work.
NoStaleWrite ==
  \A w \in Workers : pc[w] \in {"check", "write"} =>
    LET s == req[w].session IN
    /\ lock[s] = w
    /\ \/ copy[w] = rows[s]
       \/ rows[s] = NoRow /\ copy[w] = CreatedRow

\* The INSERT of an event that passed the duplicate check never meets the
\* unique constraint, so the `except IntegrityError` branch is not taken.
NoEventConflict == \A w \in Workers : pc[w] = "write" => ~Ingested(req[w])

\* Refinement: however the workers interleave and in whatever order reports
\* arrive, the event rows and the usage counters move together as a ledger
\* that charges each fingerprint at most once.
Ledger == INSTANCE UsageLedger WITH counted <- events, charged <- usage
ImplementsLedger == Ledger!Spec

\* A report of the kind keeps being sent, and is one the code is to take.
Offered(s, kind) == \E m \in net : m.session = s /\ m.kind = kind /\ Accepted(m)

\* docs/phase-6: "Start ... ingestion": a Start that keeps being sent while the
\* NAS session is up, its router enabled and its user known shows it online.
StartsAreShown ==
  \A s \in Sessions :
    (nas[s].phase = "up" /\ Offered(s, "Start")) ~>
      rows[s].status = "ACTIVE" \/ nas[s].phase # "up" \/ ~Offered(s, "Start")

\* So it does where the session can be locked at all, although requests for the
\* same new session run into each other's INSERT, and workers die.
StartOpensSession == Lockable => StartsAreShown

\* There a Stop that keeps being sent closes its session, also one that no
\* earlier report has opened, unless a report was overtaken.
StopClosesSession ==
  Lockable =>
    \A s \in Sessions :
      Offered(s, "Stop") ~>
        rows[s].status = "STOPPED" \/ ~InOrder(s) \/ ~Offered(s, "Stop")
=============================================================================
