-------------------------- MODULE AccountingProofs --------------------------
(***************************************************************************)
(* Proofs about Accounting for every set of sessions and workers, every    *)
(* word size and every bound.  The heart is Reaches: between two points in *)
(* the life of a session, what the later counter would add to the earlier  *)
(* one never exceeds the bytes carried in between, whatever was reset or   *)
(* lost.  It holds between any two reports and the NAS itself, so as long  *)
(* as no report is overtaken it holds from the row onwards.                *)
(***************************************************************************)
EXTENDS Accounting, TLAPS

\* Nothing is overcharged between a point with counter b0 and total t0 and a
\* later one with b1 and t1.
Reaches(b0, t0, b1, t1) == t0 + Delta(b1, b0) <= t1

ReachesNas(s, b, t) == Reaches(b, t, nas[s].bytes, nas[s].total)
ReachesReport(b, t, m) == Reaches(b, t, CounterBytes(m), m.total)

\* A report in the system was sent by its NAS, which has moved on since.
Sent ==
  /\ \A s \in Sessions : front[s].number <= nas[s].sent
  /\ \A m \in InSystem :
       /\ m.number \in 1 .. nas[m.session].sent
       /\ ReachesNas(m.session, CounterBytes(m), m.total)

\* Reports are told apart by their numbers, and each reaches the later ones.
Ordered ==
  \A m, q \in InSystem : m.session = q.session =>
    /\ m.number = q.number => m = q
    /\ m.number < q.number => ReachesReport(CounterBytes(m), m.total, q)

\* The report the row stands at was ingested.
FrontIngested == \A m \in InSystem : m.number = front[m.session].number => Ingested(m)

\* The row, with what was charged so far, reaches every later report.
FrontReaches ==
  \A s \in Sessions : InOrder(s) =>
    /\ usage[s] <= front[s].total
    /\ ReachesNas(s, rows[s].bytes, front[s].total)
    /\ \A m \in InSystem :
         m.session = s /\ front[s].number < m.number
           => ReachesReport(rows[s].bytes, front[s].total, m)

IInv == TypeOK /\ NoStaleWrite /\ NoEventConflict

PInv == Sent /\ Ordered /\ FrontIngested /\ FrontReaches

-----------------------------------------------------------------------------
(* Arithmetic of the counters.                                             *)

LEMMA DivMod ==
  ASSUME NEW b \in Nat
  PROVE  /\ b % WordSize \in Nat
         /\ b \div WordSize \in Nat
         /\ (b \div WordSize) * WordSize + (b % WordSize) = b
  BY BoundsAssumption

LEMMA DeltaRange ==
  ASSUME NEW a \in Nat, NEW b \in Nat
  PROVE  Delta(a, b) \in Nat /\ Delta(a, b) <= a
  BY DEF Delta

\* n bytes more, or a reset and n bytes, keep a point within reach.
LEMMA Extends ==
  ASSUME NEW b0 \in Nat, NEW t0 \in Nat, NEW b \in Nat, NEW t \in Nat, NEW n \in Nat,
         NEW b1 \in Nat, b1 = b + n \/ b1 = n, Reaches(b0, t0, b, t)
  PROVE  Reaches(b0, t0, b1, t + n)
<1>1. Delta(b1, b0) <= Delta(b, b0) + n
  BY DEF Delta
<1>2. Delta(b1, b0) \in Nat /\ Delta(b, b0) \in Nat
  BY DeltaRange
<1>3. t0 + Delta(b, b0) <= t
  BY DEF Reaches
<1> QED
  BY <1>1, <1>2, <1>3 DEF Reaches

LEMMA ReachesItself ==
  ASSUME NEW b \in Nat, NEW t \in Nat
  PROVE  Reaches(b, t, b, t)
  BY DEF Reaches, Delta

LEMMA CounterBytesType ==
  ASSUME NEW m \in Report
  PROVE  /\ CounterBytes(m) \in Nat
         /\ EventKey(m) \in Sessions \X Kinds \X Nat \X Nat
         /\ EventKey(m)[1] = m.session /\ EventKey(m)[3] = CounterBytes(m)
<1>1. m.gigawords * WordSize + m.octets \in Nat
  BY BoundsAssumption DEF Report
<1> QED
  BY <1>1 DEF CounterBytes, EventKey, Report

-----------------------------------------------------------------------------
(* The worker and lock invariant.                                          *)

LEMMA InitIInv == Init => IInv
  BY BoundsAssumption DEF Init, IInv, TypeOK, NoStaleWrite, NoEventConflict, Busy,
     Row, NoRow, Report, Kinds

\* What every step of a NAS leaves alone, and what it puts on the wire.
LEMMA SendStep ==
  ASSUME NEW s \in Sessions, NEW kind \in Kinds, NEW phase \in {"off", "up", "down"},
         NEW bytes \in Nat, NEW seconds \in Nat, NEW total \in Nat,
         TypeOK, Send(s, kind, phase, bytes, seconds, total)
  PROVE  /\ nas' = [nas EXCEPT ![s] = [phase |-> phase, bytes |-> bytes,
                                       seconds |-> seconds, total |-> total,
                                       sent |-> nas[s].sent + 1]]
         /\ nas' \in [Sessions -> [phase : {"off", "up", "down"}, bytes : Nat,
                                   seconds : Nat, total : Nat, sent : Nat]]
         /\ net' \subseteq Report
         /\ \E new \in Report :
              /\ net' = net \cup {new}
              /\ new.session = s /\ new.number = nas[s].sent + 1
              /\ new.total = total /\ CounterBytes(new) = bytes
         /\ UNCHANGED <<known, database, rows, lock, events, usage, pc, req, copy, crashes, front>>
<1> DEFINE new == [session |-> s, kind |-> kind, octets |-> bytes % WordSize,
                   gigawords |-> bytes \div WordSize, seconds |-> seconds,
                   number |-> nas[s].sent + 1, total |-> total]
<1>0. nas[s].sent + 1 \in Nat
  BY DEF TypeOK
<1>1. /\ new \in Report /\ CounterBytes(new) = bytes
      /\ new.session = s /\ new.number = nas[s].sent + 1 /\ new.total = total
  BY <1>0, DivMod DEF Report, CounterBytes
<1>2. net' = net \cup {new}
  BY DEF Send
<1>3. nas' = [nas EXCEPT ![s] = [phase |-> phase, bytes |-> bytes,
                                 seconds |-> seconds, total |-> total,
                                 sent |-> nas[s].sent + 1]]
  BY DEF Send, TypeOK
<1> HIDE DEF new
<1>4. net' \subseteq Report
  BY <1>1, <1>2 DEF TypeOK
<1> QED
  BY <1>1, <1>2, <1>3, <1>4 DEF Send, db, TypeOK

\* Every action of a NAS is a Send with its counters at sensible values.
LEMMA NasIsSend ==
  ASSUME TypeOK, NEW s \in Sessions, NasStart(s) \/ NasInterim(s) \/ NasStop(s)
  PROVE  \E kind \in Kinds, phase \in {"off", "up", "down"}, bytes \in Nat,
            seconds \in Nat, n \in Nat :
           /\ Send(s, kind, phase, bytes, seconds, nas[s].total + n)
           /\ \/ bytes = nas[s].bytes + n
              \/ bytes = n
<1>1. CASE NasStart(s)
  <2>1. Send(s, "Start", "up", 0, 0, nas[s].total + 0)
    BY <1>1 DEF NasStart, TypeOK
  <2> QED BY <2>1 DEF Kinds
<1>2. ASSUME NEW kind \in Kinds, NEW phase \in {"off", "up", "down"},
             NasReport(s, kind, phase)
      PROVE  \E bytes \in Nat, seconds \in Nat, n \in Nat :
               /\ Send(s, kind, phase, bytes, seconds, nas[s].total + n)
               /\ \/ bytes = nas[s].bytes + n
                  \/ bytes = n
  <2>1. PICK n \in 0..MaxBurst, reset \in {FALSE, CanReset} :
          Send(s, kind, phase, (IF reset THEN 0 ELSE nas[s].bytes) + n,
               (IF reset THEN 0 ELSE nas[s].seconds) + 1, nas[s].total + n)
    BY <1>2 DEF NasReport
  <2>2. n \in Nat
    BY BoundsAssumption
  <2>3. nas[s].bytes \in Nat /\ nas[s].seconds \in Nat
    BY DEF TypeOK
  <2>4. CASE reset
    <3>1. Send(s, kind, phase, 0 + n, 0 + 1, nas[s].total + n)
      BY <2>1, <2>4
    <3> QED BY <3>1, <2>2
  <2>5. CASE ~reset
    <3>1. Send(s, kind, phase, nas[s].bytes + n, nas[s].seconds + 1, nas[s].total + n)
      BY <2>1, <2>5
    <3> QED BY <3>1, <2>2, <2>3
  <2> QED BY <2>4, <2>5
<1>3. CASE NasInterim(s)
  BY <1>2, <1>3 DEF NasInterim, Kinds
<1>4. CASE NasStop(s)
  BY <1>2, <1>4 DEF NasStop, Kinds
<1> QED
  BY <1>1, <1>3, <1>4

LEMMA AdvanceType ==
  ASSUME NEW m \in Report, Advance(m),
         front \in [Sessions -> [number : Nat, total : Nat, overtaken : BOOLEAN]]
  PROVE  front' \in [Sessions -> [number : Nat, total : Nat, overtaken : BOOLEAN]]
<1>1. m.session \in Sessions /\ m.number \in Nat /\ m.total \in Nat
  BY DEF Report
<1>2. front[m.session] \in [number : Nat, total : Nat, overtaken : BOOLEAN]
  BY <1>1
<1> QED
  BY <1>1, <1>2 DEF Advance

\* A worker holds at most the lock of its own report's session, so another
\* session's row, and another worker's lock, are untouched when it finishes.
LEMMA IngestStep ==
  ASSUME IInv, NEW w \in Workers,
         Lookup(w) \/ Create(w) \/ Check(w) \/ Commit(w) \/ Crash(w)
  PROVE  IInv'
<1> DEFINE s == req[w].session
<1> USE DEF IInv
<1>1. w \in Busy /\ req[w] \in Report /\ s \in Sessions
  BY DEF TypeOK, Busy, Report, Lookup, LookupExisting, LookupMissing,
     LookupRefused, Create, CreateSession, CreateConflict, Check,
     SkipDuplicate, PassDuplicateCheck, Commit, Crash
<1>2. /\ CounterBytes(req[w]) \in Nat
      /\ EventKey(req[w]) \in Sessions \X Kinds \X Nat \X Nat
      /\ \A v \in Busy : EventKey(req[v])[1] = req[v].session
  BY <1>1, CounterBytesType DEF TypeOK
<1>3. CASE LookupExisting(w)
  <2>1. TypeOK'
    BY <1>1, <1>3 DEF LookupExisting, TypeOK, Busy
  <2>2. NoStaleWrite'
    BY <1>1, <1>3, WorkersAssumption DEF LookupExisting, TypeOK, NoStaleWrite, Busy
  <2>3. NoEventConflict'
    BY <1>3 DEF LookupExisting, TypeOK, NoEventConflict, Ingested
  <2> QED BY <2>1, <2>2, <2>3
<1>4. CASE LookupMissing(w)
  <2>1. TypeOK'
    BY <1>4 DEF LookupMissing, TypeOK, Busy, db
  <2>2. NoStaleWrite'
    BY <1>4 DEF LookupMissing, TypeOK, NoStaleWrite, db
  <2>3. NoEventConflict'
    BY <1>4 DEF LookupMissing, TypeOK, NoEventConflict, Ingested, db
  <2> QED BY <2>1, <2>2, <2>3
<1>4b. CASE LookupRefused(w)
  <2>1. TypeOK'
    <3>1. /\ pc' = [pc EXCEPT ![w] = "idle"] /\ req' = [req EXCEPT ![w] = NoReport]
          /\ copy' = [copy EXCEPT ![w] = NoRow]
          /\ UNCHANGED <<crashes, nas, known, database, net, db>>
      BY <1>4b DEF LookupRefused, Finish
    <3> QED BY <3>1 DEF TypeOK, Busy, db, NoRow, Row
  <2>2. NoStaleWrite'
    BY <1>4b DEF LookupRefused, Finish, TypeOK, NoStaleWrite, db
  <2>3. NoEventConflict'
    BY <1>4b DEF LookupRefused, Finish, TypeOK, NoEventConflict, Ingested, db
  <2> QED BY <2>1, <2>2, <2>3
<1>5. CASE CreateSession(w)
  <2>1. TypeOK'
    BY <1>1, <1>5 DEF CreateSession, TypeOK, Busy, CreatedRow, Row
  <2>2. NoStaleWrite'
    BY <1>1, <1>5, WorkersAssumption DEF CreateSession, TypeOK, NoStaleWrite, Busy
  <2>3. NoEventConflict'
    BY <1>5 DEF CreateSession, TypeOK, NoEventConflict, Ingested
  <2> QED BY <2>1, <2>2, <2>3
<1>6. CASE CreateConflict(w)
  <2>1. TypeOK'
    BY <1>6 DEF CreateConflict, Finish, TypeOK, Busy, db, NoRow, Row
  <2>2. NoStaleWrite'
    BY <1>6 DEF CreateConflict, Finish, TypeOK, NoStaleWrite, db
  <2>3. NoEventConflict'
    BY <1>6 DEF CreateConflict, Finish, TypeOK, NoEventConflict, Ingested, db
  <2> QED BY <2>1, <2>2, <2>3
<1>7. CASE SkipDuplicate(w)
  <2>1. TypeOK'
    BY <1>1, <1>7 DEF SkipDuplicate, Finish, TypeOK, Busy, NoRow, Row
  <2>2. \A v \in Workers \ {w} : pc[v] \in {"check", "write"} => req[v].session # s
    BY <1>1, <1>7 DEF SkipDuplicate, NoStaleWrite
  <2>3. NoStaleWrite'
    BY <1>1, <1>7, <2>2 DEF SkipDuplicate, Finish, TypeOK, NoStaleWrite
  <2>4. NoEventConflict'
    BY <1>7 DEF SkipDuplicate, Finish, TypeOK, NoEventConflict, Ingested
  <2> QED BY <2>1, <2>3, <2>4
<1>8. CASE PassDuplicateCheck(w)
  <2>1. TypeOK'
    BY <1>8 DEF PassDuplicateCheck, TypeOK, Busy, db
  <2>2. NoStaleWrite'
    BY <1>8 DEF PassDuplicateCheck, TypeOK, NoStaleWrite, db
  <2>3. NoEventConflict'
    BY <1>8 DEF PassDuplicateCheck, TypeOK, NoEventConflict, Ingested, db
  <2> QED BY <2>1, <2>2, <2>3
<1>9. CASE Commit(w)
  <2>1. \A v \in Workers \ {w} : pc[v] \in {"check", "write"} => req[v].session # s
    BY <1>1, <1>9 DEF Commit, Charge, NoStaleWrite
  <2>2. ~Ingested(req[w])
    BY <1>9 DEF Commit, Charge, NoEventConflict
  <2>3. /\ rows' = [rows EXCEPT ![s] = [status |-> StatusAfter(req[w].kind, copy[w].status),
                                        bytes |-> CounterBytes(req[w])]]
        /\ events' = events \cup {EventKey(req[w])}
        /\ usage' = [usage EXCEPT ![s] = usage[s] + Delta(CounterBytes(req[w]), copy[w].bytes)]
        /\ lock' = [lock EXCEPT ![s] = NoWorker]
    BY <1>1, <1>9, <2>2 DEF Commit, Charge, TypeOK
  <2>4. /\ pc' = [pc EXCEPT ![w] = "idle"]
        /\ req' = [req EXCEPT ![w] = NoReport]
        /\ copy' = [copy EXCEPT ![w] = NoRow]
        /\ UNCHANGED <<nas, known, database, net, crashes>>
    BY <1>9 DEF Commit, Charge, Finish
  <2>5. TypeOK'
    <3>1. usage[s] + Delta(CounterBytes(req[w]), copy[w].bytes) \in Nat
      <4>1. copy[w].bytes \in Nat /\ usage[s] \in Nat
        BY <1>1 DEF TypeOK, Row
      <4>2. Delta(CounterBytes(req[w]), copy[w].bytes) \in Nat
        BY <1>2, <4>1, DeltaRange
      <4> QED BY <4>1, <4>2
    <3>2. StatusAfter(req[w].kind, copy[w].status) \in {"NONE", "ACTIVE", "STOPPED"}
      BY <1>1 DEF TypeOK, Row, StatusAfter, Report, Kinds
    <3>3. usage' \in [Sessions -> Nat]
      BY <2>3, <3>1 DEF TypeOK
    <3>4. rows' \in [Sessions -> Row]
      BY <1>1, <1>2, <2>3, <3>2 DEF TypeOK, Row
    <3>5. front' \in [Sessions -> [number : Nat, total : Nat, overtaken : BOOLEAN]]
      BY <1>1, <1>9, <2>2, AdvanceType DEF Commit, TypeOK
    <3> QED BY <1>1, <1>2, <2>3, <2>4, <3>3, <3>4, <3>5 DEF TypeOK, Busy, NoRow, Row
  <2>6. NoStaleWrite'
    BY <1>1, <2>1, <2>3, <2>4 DEF TypeOK, NoStaleWrite
  <2>7. NoEventConflict'
    <3>1. \A v \in Workers \ {w} : pc[v] = "write" => EventKey(req[v]) # EventKey(req[w])
      BY <1>1, <1>2, <2>1 DEF Busy
    <3> QED BY <2>3, <2>4, <3>1 DEF TypeOK, NoEventConflict, Ingested
  <2> QED BY <2>5, <2>6, <2>7
<1>10. CASE Crash(w)
  <2>1. TypeOK'
    BY <1>10 DEF Crash, Finish, TypeOK, Busy, NoRow, Row
  <2>2. NoStaleWrite'
    BY <1>10 DEF Crash, Finish, TypeOK, NoStaleWrite, Busy, Report
  <2>3. NoEventConflict'
    BY <1>10 DEF Crash, Finish, TypeOK, NoEventConflict, Ingested
  <2> QED BY <2>1, <2>2, <2>3
<1> QED
  BY <1>3, <1>4, <1>4b, <1>5, <1>6, <1>7, <1>8, <1>9, <1>10
     DEF Lookup, Create, Check

LEMMA NextIInv == IInv /\ [Next]_vars => IInv'
<1> SUFFICES ASSUME IInv, [Next]_vars PROVE IInv'
  OBVIOUS
<1> USE DEF IInv
<1>1. CASE Nas
  <2>1. PICK s \in Sessions : NasStart(s) \/ NasInterim(s) \/ NasStop(s)
    BY <1>1 DEF Nas
  <2>2. PICK kind \in Kinds, phase \in {"off", "up", "down"}, bytes \in Nat,
             seconds \in Nat, n \in Nat : Send(s, kind, phase, bytes, seconds, nas[s].total + n)
    BY <2>1, NasIsSend
  <2>3. nas[s].total + n \in Nat
    BY DEF TypeOK
  <2>4. /\ nas' \in [Sessions -> [phase : {"off", "up", "down"}, bytes : Nat,
                                  seconds : Nat, total : Nat, sent : Nat]]
        /\ net' \subseteq Report
        /\ UNCHANGED <<known, database, rows, lock, events, usage, pc, req, copy, crashes, front>>
    BY <2>2, <2>3, SendStep
  <2> QED
    BY <2>4 DEF TypeOK, NoStaleWrite, NoEventConflict, Busy, Ingested
<1>2. CASE Network
  <2>1. CASE \E m \in net : Drop(m)
    BY <2>1 DEF Drop, TypeOK, NoStaleWrite, NoEventConflict, Busy, Ingested, db
  <2>2. ASSUME NEW m \in net, NEW w \in Workers, Receive(w, m) PROVE IInv'
    BY <2>2 DEF Receive, TypeOK, NoStaleWrite, NoEventConflict, Busy, Ingested, db
  <2>3. CASE \E m \in net, w \in Workers : Reject(w, m)
    BY <2>3 DEF Reject, vars, db, TypeOK, NoStaleWrite, NoEventConflict, Busy, Ingested
  <2> QED BY <1>2, <2>1, <2>2, <2>3 DEF Network
<1>3. CASE Ingest \/ Fault
  BY <1>3, IngestStep DEF Ingest, Handle, Fault
<1>4. CASE UNCHANGED vars
  BY <1>4 DEF vars, db, TypeOK, NoStaleWrite, NoEventConflict, Busy, Ingested
<1>5. CASE Staff
  <2>1. PICK s \in Sessions : Administer(s)
    BY <1>5 DEF Staff
  <2>2. known' \subseteq Sessions
    BY <2>1 DEF Administer, TypeOK
  <2>3. UNCHANGED <<nas, database, net, rows, lock, events, usage, pc, req, copy, crashes, front>>
    BY <2>1 DEF Administer, db
  <2> QED
    BY <2>2, <2>3 DEF TypeOK, NoStaleWrite, NoEventConflict, Busy, Ingested
<1> QED
  BY <1>1, <1>2, <1>3, <1>4, <1>5 DEF Next

\* Type correctness, for every instance.
THEOREM TypeCorrect == Spec => []TypeOK
<1>1. IInv => TypeOK
  BY DEF IInv
<1> QED
  BY <1>1, InitIInv, NextIInv, PTL DEF Spec

\* The row lock of ingest_accounting excludes lost updates of a session.
THEOREM NoStaleWriteHolds == Spec => []NoStaleWrite
<1>1. IInv => NoStaleWrite
  BY DEF IInv
<1> QED
  BY <1>1, InitIInv, NextIInv, PTL DEF Spec

\* The unique constraint on event_key is never met after the duplicate check.
THEOREM NoEventConflictHolds == Spec => []NoEventConflict
<1>1. IInv => NoEventConflict
  BY DEF IInv
<1> QED
  BY <1>1, InitIInv, NextIInv, PTL DEF Spec

-----------------------------------------------------------------------------
(* Charging never exceeds the traffic, unless a report was overtaken.      *)

LEMMA InitPInv == Init => PInv
  BY DEF Init, PInv, Sent, Ordered, FrontIngested, FrontReaches, InSystem, Busy,
     ReachesNas, Reaches, Delta, NoRow

\* A new report is the latest, and every point that reached the NAS reaches it.
LEMMA NasKeepsPInv ==
  ASSUME IInv, PInv, Nas
  PROVE  PInv'
<1> USE DEF IInv
<1>1. PICK s \in Sessions : NasStart(s) \/ NasInterim(s) \/ NasStop(s)
  BY DEF Nas
<1>2. PICK kind \in Kinds, phase \in {"off", "up", "down"}, bytes \in Nat,
           seconds \in Nat, n \in Nat :
             /\ Send(s, kind, phase, bytes, seconds, nas[s].total + n)
             /\ \/ bytes = nas[s].bytes + n
                \/ bytes = n
  BY <1>1, NasIsSend
<1>3. nas[s].total + n \in Nat /\ nas[s].sent \in Nat /\ nas[s].bytes \in Nat
      /\ nas[s].total \in Nat
  BY DEF TypeOK
<1>4. /\ nas' = [nas EXCEPT ![s] = [phase |-> phase, bytes |-> bytes, seconds |-> seconds,
                                    total |-> nas[s].total + n, sent |-> nas[s].sent + 1]]
      /\ UNCHANGED <<known, database, rows, lock, events, usage, pc, req, copy, crashes, front>>
  <2>1. ASSUME NEW t \in Nat, Send(s, kind, phase, bytes, seconds, t)
        PROVE  /\ nas' = [nas EXCEPT ![s] = [phase |-> phase, bytes |-> bytes, seconds |-> seconds,
                                              total |-> t, sent |-> nas[s].sent + 1]]
               /\ UNCHANGED <<known, database, rows, lock, events, usage, pc, req, copy, crashes, front>>
    BY <2>1, SendStep
  <2> QED
    BY <1>2, <1>3, <2>1
<1>5. PICK new \in Report :
        /\ net' = net \cup {new}
        /\ new.session = s /\ new.number = nas[s].sent + 1
        /\ new.total = nas[s].total + n /\ CounterBytes(new) = bytes
  <2>1. ASSUME NEW t \in Nat, Send(s, kind, phase, bytes, seconds, t)
        PROVE  \E new \in Report :
                 /\ net' = net \cup {new}
                 /\ new.session = s /\ new.number = nas[s].sent + 1
                 /\ new.total = t /\ CounterBytes(new) = bytes
    BY <2>1, SendStep
  <2> QED
    BY <1>2, <1>3, <2>1
<1>6. /\ nas'[s].bytes = bytes /\ nas'[s].total = nas[s].total + n
      /\ nas'[s].sent = nas[s].sent + 1
      /\ \A r \in Sessions \ {s} : nas'[r] = nas[r]
  BY <1>4 DEF TypeOK
<1>7. InSystem' = InSystem \cup {new} /\ InSystem \subseteq Report
  BY <1>4, <1>5 DEF InSystem, Busy, TypeOK
<1>8. ASSUME NEW b \in Nat, NEW t \in Nat, NEW r \in Sessions, ReachesNas(r, b, t)
      PROVE  Reaches(b, t, nas'[r].bytes, nas'[r].total)
  <2>1. CASE r = s
    <3>1. Reaches(b, t, nas[s].bytes, nas[s].total)
      BY <2>1, <1>8 DEF ReachesNas
    <3>2. bytes \in Nat /\ n \in Nat /\ (bytes = nas[s].bytes + n \/ bytes = n)
      BY <1>2
    <3>3. Reaches(b, t, bytes, nas[s].total + n)
      BY <3>1, <3>2, <1>3, Extends
    <3> QED
      BY <2>1, <3>3, <1>6
  <2>2. CASE r # s
    BY <2>2, <1>6, <1>8 DEF ReachesNas
  <2> QED
    BY <2>1, <2>2
<1>9. \A m \in InSystem' : m.session \in Sessions /\ CounterBytes(m) \in Nat /\ m.total \in Nat
                           /\ m.number \in Nat
  BY <1>7, CounterBytesType DEF Report
<1>10. Sent'
  <2>1. \A r \in Sessions : front[r].number <= nas'[r].sent
    BY <1>3, <1>6 DEF PInv, Sent, TypeOK
  <2>2. ASSUME NEW m \in InSystem'
        PROVE  /\ m.number \in 1 .. nas'[m.session].sent
               /\ Reaches(CounterBytes(m), m.total, nas'[m.session].bytes,
                          nas'[m.session].total)
    <3>1. CASE m = new
      BY <3>1, <1>3, <1>5, <1>6, ReachesItself
    <3>2. CASE m \in InSystem
      <4>1. m.number \in 1 .. nas[m.session].sent
            /\ ReachesNas(m.session, CounterBytes(m), m.total)
        BY <3>2 DEF PInv, Sent
      <4>2. nas[m.session].sent \in Nat /\ nas'[m.session].sent \in
                {nas[m.session].sent, nas[m.session].sent + 1}
        BY <1>6, <1>9 DEF TypeOK
      <4> QED
        BY <4>1, <4>2, <1>8, <1>9
    <3> QED
      BY <3>1, <3>2, <1>7
  <2> QED
    BY <1>4, <2>1, <2>2 DEF Sent, ReachesNas, CounterBytes
<1>11. Ordered'
  <2> SUFFICES ASSUME NEW m \in InSystem', NEW q \in InSystem', m.session = q.session
               PROVE  /\ m.number = q.number => m = q
                      /\ m.number < q.number
                           => Reaches(CounterBytes(m), m.total, CounterBytes(q), q.total)
    BY DEF Ordered, ReachesReport, CounterBytes
  <2>1. CASE m \in InSystem /\ q \in InSystem
    BY <2>1 DEF PInv, Ordered, ReachesReport
  <2>2. CASE m = new /\ q = new
    BY <2>2, <1>9
  <2>3. CASE m = new /\ q \in InSystem
    BY <2>3, <1>3, <1>5, <1>9 DEF PInv, Sent
  <2>4. CASE m \in InSystem /\ q = new
    <3>1. m.session = s /\ m.number <= nas[s].sent /\ m.number # q.number
      BY <2>4, <1>3, <1>5 DEF PInv, Sent
    <3>2. ReachesNas(s, CounterBytes(m), m.total)
      BY <2>4, <3>1 DEF PInv, Sent
    <3> QED
      BY <2>4, <3>1, <3>2, <1>5, <1>6, <1>8, <1>9
  <2> QED
    BY <2>1, <2>2, <2>3, <2>4, <1>7
<1>12. FrontIngested'
  <2> SUFFICES ASSUME NEW m \in InSystem', m.number = front[m.session].number
               PROVE  EventKey(m) \in events
    BY <1>4 DEF FrontIngested, Ingested, EventKey, CounterBytes
  <2>1. CASE m = new
    BY <2>1, <1>3, <1>5 DEF PInv, Sent, TypeOK
  <2>2. CASE m \in InSystem
    BY <2>2 DEF PInv, FrontIngested, Ingested
  <2> QED
    BY <2>1, <2>2, <1>7
<1>13. FrontReaches'
  <2> SUFFICES ASSUME NEW r \in Sessions, InOrder(r)
               PROVE  /\ usage[r] <= front[r].total
                      /\ Reaches(rows[r].bytes, front[r].total, nas'[r].bytes, nas'[r].total)
                      /\ \A m \in InSystem' :
                           m.session = r /\ front[r].number < m.number
                             => Reaches(rows[r].bytes, front[r].total,
                                        CounterBytes(m), m.total)
    BY <1>4 DEF FrontReaches, InOrder, ReachesNas, ReachesReport, CounterBytes
  <2>1. rows[r].bytes \in Nat /\ front[r].total \in Nat
    BY DEF TypeOK, Row
  <2>2. usage[r] <= front[r].total /\ ReachesNas(r, rows[r].bytes, front[r].total)
    BY DEF PInv, FrontReaches
  <2>3. Reaches(rows[r].bytes, front[r].total, nas'[r].bytes, nas'[r].total)
    BY <2>1, <2>2, <1>8
  <2>4. \A m \in InSystem :
          m.session = r /\ front[r].number < m.number
            => Reaches(rows[r].bytes, front[r].total, CounterBytes(m), m.total)
    BY DEF PInv, FrontReaches, ReachesReport
  <2> QED
    BY <2>2, <2>3, <2>4, <1>5, <1>6, <1>7
<1> QED
  BY <1>10, <1>11, <1>12, <1>13 DEF PInv

\* Only a commit changes what is charged: it moves the front to its report, or
\* marks the session as overtaken.
MovesFront(w, m) ==
  LET s == m.session IN
  /\ front[s].number # m.number
  /\ events' = events \cup {EventKey(m)}
  /\ rows'[s].bytes = CounterBytes(m)
  /\ usage'[s] = usage[s] + Delta(CounterBytes(m), rows[s].bytes)
  /\ \A r \in Sessions \ {s} : rows'[r] = rows[r] /\ usage'[r] = usage[r]
                               /\ front'[r] = front[r]
  /\ m.number < front[s].number \/ front[s].number < m.number
  /\ m.number < front[s].number => front'[s].number = front[s].number /\ ~InOrder(s)'
  /\ front[s].number < m.number => /\ front'[s].number = m.number
                                   /\ front'[s].total = m.total
                                   /\ InOrder(s)' <=> InOrder(s)
  /\ UNCHANGED <<nas, net>>
  /\ InSystem' \subseteq InSystem /\ InSystem \subseteq Report

LEMMA CommitMovesFront ==
  ASSUME IInv, PInv, NEW w \in Workers, Commit(w), NEW m \in Report, m = req[w]
  PROVE  MovesFront(w, m)
<1> USE DEF IInv
<1> DEFINE s == m.session
<1>1. w \in Busy /\ s \in Sessions /\ m \in InSystem
  BY DEF TypeOK, Busy, Report, Commit, InSystem
<1>2. CounterBytes(m) \in Nat /\ m.number \in Nat /\ m.total \in Nat
  BY <1>1, CounterBytesType DEF Report
<1>3. ~Ingested(m) /\ copy[w].bytes = rows[s].bytes
  BY <1>1 DEF Commit, Charge, NoEventConflict, NoStaleWrite, NoRow, CreatedRow
<1>4. /\ rows' = [rows EXCEPT ![s] = [status |-> StatusAfter(m.kind, copy[w].status),
                                      bytes |-> CounterBytes(m)]]
      /\ events' = events \cup {EventKey(m)}
      /\ usage' = [usage EXCEPT ![s] = usage[s] + Delta(CounterBytes(m), rows[s].bytes)]
      /\ req' = [req EXCEPT ![w] = NoReport]
      /\ pc' = [pc EXCEPT ![w] = "idle"]
      /\ UNCHANGED <<nas, net>>
      /\ Advance(m)
  BY <1>1, <1>3 DEF Commit, Charge, Finish, TypeOK
<1>5. /\ rows'[s].bytes = CounterBytes(m)
      /\ usage'[s] = usage[s] + Delta(CounterBytes(m), rows[s].bytes)
      /\ \A r \in Sessions \ {s} : rows'[r] = rows[r] /\ usage'[r] = usage[r]
                                   /\ front'[r] = front[r]
  BY <1>1, <1>4 DEF TypeOK, Advance
<1>6. front[s].number # m.number /\ front[s].number \in Nat
  BY <1>1, <1>3 DEF PInv, FrontIngested, TypeOK
<1>7. /\ m.number < front[s].number
           => front'[s].number = front[s].number /\ ~InOrder(s)'
      /\ front[s].number < m.number
           => /\ front'[s].number = m.number /\ front'[s].total = m.total
              /\ InOrder(s)' <=> InOrder(s)
  BY <1>1, <1>2, <1>4, <1>6 DEF TypeOK, Advance, InOrder
<1>8. m.number < front[s].number \/ front[s].number < m.number
  BY <1>2, <1>6
<1>9. InSystem' \subseteq InSystem /\ InSystem \subseteq Report
  BY <1>4 DEF InSystem, Busy, TypeOK
<1> QED
  BY <1>4, <1>5, <1>6, <1>7, <1>8, <1>9 DEF MovesFront

LEMMA CommitKeepsPInv ==
  ASSUME IInv, PInv, NEW w \in Workers, Commit(w)
  PROVE  PInv'
<1> USE DEF IInv
<1>0. PICK m \in Report : m = req[w] /\ m \in InSystem
  BY DEF TypeOK, Busy, Commit, InSystem
<1> DEFINE s == m.session
<1>1. s \in Sessions
  BY DEF Report
<1>2. CounterBytes(m) \in Nat /\ m.number \in Nat /\ m.total \in Nat
  BY CounterBytesType DEF Report
<1>3. MovesFront(w, m)
  BY <1>0, CommitMovesFront
<1>4. events' = events \cup {EventKey(m)} /\ UNCHANGED <<nas, net>>
  BY <1>3 DEF MovesFront
<1>5. /\ rows'[s].bytes = CounterBytes(m)
      /\ usage'[s] = usage[s] + Delta(CounterBytes(m), rows[s].bytes)
      /\ \A r \in Sessions \ {s} : rows'[r] = rows[r] /\ usage'[r] = usage[r]
                                   /\ front'[r] = front[r]
  BY <1>3 DEF MovesFront
<1>7. /\ m.number < front[s].number
           => front'[s].number = front[s].number /\ ~InOrder(s)'
      /\ front[s].number < m.number
           => /\ front'[s].number = m.number /\ front'[s].total = m.total
              /\ InOrder(s)' <=> InOrder(s)
  BY <1>3 DEF MovesFront
<1>8. m.number < front[s].number \/ front[s].number < m.number
  BY <1>3 DEF MovesFront
<1>9. InSystem' \subseteq InSystem /\ InSystem \subseteq Report
  BY <1>3 DEF MovesFront
<1> HIDE DEF s
<1>10. Sent'
  <2>1. \A r \in Sessions : front'[r].number <= nas[r].sent
    <3>1. m.number <= nas[s].sent
      BY <1>0, <1>1 DEF PInv, Sent, s
    <3> QED
      BY <3>1, <1>5, <1>7, <1>8 DEF PInv, Sent
  <2> QED
    BY <2>1, <1>4, <1>9 DEF PInv, Sent, ReachesNas, CounterBytes
<1>11. Ordered'
  BY <1>9 DEF PInv, Ordered, ReachesReport, CounterBytes
<1>12. FrontIngested'
  <2> SUFFICES ASSUME NEW q \in InSystem', q.number = front'[q.session].number
               PROVE  EventKey(q) \in events'
    BY DEF FrontIngested, Ingested, EventKey, CounterBytes
  <2>1. q \in InSystem /\ q.session \in Sessions
    BY <1>9 DEF Report
  <2>2. CASE q.session = s /\ front[s].number < m.number
    <3>1. q = m
      BY <2>1, <2>2, <1>0, <1>1, <1>7 DEF PInv, Ordered, s
    <3> QED
      BY <3>1, <1>4
  <2>3. CASE q.session # s \/ m.number < front[s].number
    <3>1. q.number = front[q.session].number
      BY <2>1, <2>3, <1>5, <1>7
    <3> QED
      BY <2>1, <3>1, <1>4 DEF PInv, FrontIngested, Ingested
  <2> QED
    BY <2>2, <2>3, <1>8
<1>13. FrontReaches'
  <2> SUFFICES ASSUME NEW r \in Sessions, InOrder(r)'
               PROVE  /\ usage'[r] <= front'[r].total
                      /\ Reaches(rows'[r].bytes, front'[r].total, nas[r].bytes, nas[r].total)
                      /\ \A q \in InSystem :
                           q.session = r /\ front'[r].number < q.number
                             => Reaches(rows'[r].bytes, front'[r].total,
                                        CounterBytes(q), q.total)
    BY <1>4, <1>9 DEF FrontReaches, ReachesNas, ReachesReport, CounterBytes
  <2>1. CASE r # s
    <3>1. /\ rows'[r] = rows[r] /\ usage'[r] = usage[r] /\ front'[r] = front[r]
      BY <2>1, <1>5
    <3>2. InOrder(r)
      BY <3>1 DEF InOrder
    <3> QED
      BY <3>1, <3>2 DEF PInv, FrontReaches, ReachesNas, ReachesReport
  <2>2. CASE r = s
    <3>1. front[s].number < m.number /\ InOrder(s)
      BY <2>2, <1>7, <1>8
    <3>2. front'[s].number = m.number /\ front'[s].total = m.total
      BY <3>1, <1>7
    <3>3. usage[s] <= front[s].total /\ ReachesReport(rows[s].bytes, front[s].total, m)
      BY <1>0, <1>1, <3>1 DEF PInv, FrontReaches, s
    <3>4. usage'[s] <= m.total
      <4>1. /\ usage[s] \in Nat /\ front[s].total \in Nat /\ rows[s].bytes \in Nat
        BY <1>1 DEF TypeOK, Row
      <4>2. Delta(CounterBytes(m), rows[s].bytes) \in Nat
        BY <1>2, <4>1, DeltaRange
      <4> QED
        BY <1>2, <1>5, <3>3, <4>1, <4>2 DEF ReachesReport, Reaches
    <3>5. ReachesNas(s, CounterBytes(m), m.total)
      BY <1>0, <1>1 DEF PInv, Sent, s
    <3>6. \A q \in InSystem : q.session = s /\ m.number < q.number
                                => ReachesReport(CounterBytes(m), m.total, q)
      BY <1>0, <1>1 DEF PInv, Ordered, s
    <3> QED
      BY <2>2, <1>5, <3>2, <3>4, <3>5, <3>6 DEF ReachesNas, ReachesReport
  <2> QED
    BY <2>1, <2>2
<1> QED
  BY <1>10, <1>11, <1>12, <1>13 DEF PInv

\* Every other step leaves counters, sums and fingerprints alone, and adds no
\* report to the system.
LEMMA OtherKeepsPInv ==
  ASSUME IInv, PInv, UNCHANGED <<nas, events, usage, front>>,
         InSystem' \subseteq InSystem,
         \A s \in Sessions : rows'[s].bytes = rows[s].bytes
  PROVE  PInv'
<1>1. Sent'
  BY DEF PInv, Sent, ReachesNas, CounterBytes
<1>2. Ordered'
  BY DEF PInv, Ordered, ReachesReport, CounterBytes
<1>3. FrontIngested'
  BY DEF PInv, FrontIngested, Ingested, CounterBytes, EventKey
<1>4. FrontReaches'
  BY DEF PInv, FrontReaches, InOrder, ReachesNas, ReachesReport, CounterBytes
<1> QED
  BY <1>1, <1>2, <1>3, <1>4 DEF PInv

LEMMA OtherSteps ==
  ASSUME IInv, [Next]_vars, ~Nas, ~\E w \in Workers : Commit(w)
  PROVE  /\ UNCHANGED <<nas, events, usage, front>>
         /\ InSystem' \subseteq InSystem
         /\ \A s \in Sessions : rows'[s].bytes = rows[s].bytes
<1> USE DEF IInv
<1>1. CASE \E m \in net : Drop(m)
  BY <1>1 DEF Drop, db, InSystem, Busy
<1>2. ASSUME NEW m \in net, NEW w \in Workers, Receive(w, m)
      PROVE  UNCHANGED db /\ nas' = nas /\ InSystem' \subseteq InSystem
  BY <1>2 DEF Receive, InSystem, Busy, TypeOK, db
<1>3. ASSUME NEW w \in Workers, Lookup(w) \/ Create(w) \/ Check(w) \/ Crash(w)
      PROVE  /\ UNCHANGED <<nas, events, usage, front>>
             /\ InSystem' \subseteq InSystem
             /\ \A s \in Sessions : rows'[s].bytes = rows[s].bytes
  <2>1. UNCHANGED <<nas, net, events, usage, front>>
    BY <1>3 DEF Lookup, LookupExisting, LookupMissing,
       LookupRefused, Create, CreateSession,
       CreateConflict, Check, SkipDuplicate, PassDuplicateCheck, Crash, db
  <2>2. InSystem' \subseteq InSystem
    BY <1>3, <2>1 DEF Lookup, LookupExisting, LookupMissing,
       LookupRefused, Create, CreateSession,
       CreateConflict, Check, SkipDuplicate, PassDuplicateCheck, Crash, Finish,
       InSystem, Busy, TypeOK
  <2>3. \A s \in Sessions : rows'[s].bytes = rows[s].bytes
    <3>1. CASE SkipDuplicate(w)
      BY <3>1 DEF SkipDuplicate, TypeOK, NoStaleWrite, NoRow, CreatedRow
    <3>2. CASE ~SkipDuplicate(w)
      BY <1>3, <3>2 DEF Lookup, LookupExisting, LookupMissing,
       LookupRefused, Create, CreateSession,
         CreateConflict, Check, PassDuplicateCheck, Crash, db
    <3> QED BY <3>1, <3>2
  <2> QED BY <2>1, <2>2, <2>3
<1>4. CASE UNCHANGED vars \/ \E m \in net, w \in Workers : Reject(w, m)
  <2>1. UNCHANGED vars
    BY <1>4 DEF Reject
  <2> QED
    BY <2>1 DEF vars, db, InSystem, Busy
<1>5. CASE Staff
  BY <1>5 DEF Staff, Administer, db, InSystem, Busy
<1> QED
  BY <1>1, <1>2, <1>3, <1>4, <1>5 DEF Next, Network, Ingest, Handle, Fault, db

LEMMA NextPInv == IInv /\ PInv /\ [Next]_vars => PInv'
<1> SUFFICES ASSUME IInv, PInv, [Next]_vars PROVE PInv'
  OBVIOUS
<1>1. CASE Nas
  BY <1>1, NasKeepsPInv
<1>2. CASE \E w \in Workers : Commit(w)
  BY <1>2, CommitKeepsPInv
<1>3. CASE ~Nas /\ ~\E w \in Workers : Commit(w)
  BY <1>3, OtherSteps, OtherKeepsPInv
<1> QED
  BY <1>1, <1>2, <1>3

\* Nobody is charged for more than the session carried: for any number of
\* sessions and workers, any loss, repetition, counter reset and crash, unless
\* a report of the session was ingested after a later one.
THEOREM NeverOvercharged == Spec => []NoOvercount
<1>1. Init => IInv /\ PInv
  BY InitIInv, InitPInv
<1>2. IInv /\ PInv /\ [Next]_vars => (IInv /\ PInv)'
  BY NextIInv, NextPInv
<1>3. IInv /\ PInv => NoOvercount
  <2> SUFFICES ASSUME IInv, PInv, NEW s \in Sessions, InOrder(s)
               PROVE  usage[s] <= nas[s].total
    BY DEF NoOvercount
  <2>1. /\ nas[s].bytes \in Nat /\ nas[s].total \in Nat /\ front[s].total \in Nat
        /\ usage[s] \in Nat /\ rows[s].bytes \in Nat
    BY DEF IInv, TypeOK, Row
  <2>2. Delta(nas[s].bytes, rows[s].bytes) \in Nat
    BY <2>1, DeltaRange
  <2> QED BY <2>1, <2>2 DEF PInv, FrontReaches, ReachesNas, Reaches
<1> QED
  BY <1>1, <1>2, <1>3, PTL DEF Spec

-----------------------------------------------------------------------------
(* Nothing is lost either while the counters are not reset: the bytes that *)
(* resets have hidden only grow, so if the NAS hides none, no point did.   *)

Hides(b, t, s) == b <= t /\ t + nas[s].bytes <= nas[s].total + b

EInv ==
  /\ \A s \in Sessions : nas[s].bytes <= nas[s].total
  /\ \A m \in InSystem : Hides(CounterBytes(m), m.total, m.session)
  /\ \A s \in Sessions : InOrder(s) => Hides(rows[s].bytes, front[s].total, s)
  /\ CountedExactly

LEMMA InitEInv == Init => EInv
  BY DEF Init, EInv, Hides, InOrder, CountedExactly, InSystem, Busy, NoRow

LEMMA NasKeepsEInv ==
  ASSUME IInv, EInv, Nas
  PROVE  EInv'
<1> USE DEF IInv
<1>1. PICK s \in Sessions : NasStart(s) \/ NasInterim(s) \/ NasStop(s)
  BY DEF Nas
<1>2. PICK kind \in Kinds, phase \in {"off", "up", "down"}, bytes \in Nat,
           seconds \in Nat, n \in Nat, t \in Nat :
             /\ Send(s, kind, phase, bytes, seconds, t)
             /\ t = nas[s].total + n
             /\ \/ bytes = nas[s].bytes + n
                \/ bytes = n
  <2>1. PICK kind \in Kinds, phase \in {"off", "up", "down"}, bytes \in Nat,
             seconds \in Nat, n \in Nat :
               /\ Send(s, kind, phase, bytes, seconds, nas[s].total + n)
               /\ \/ bytes = nas[s].bytes + n
                  \/ bytes = n
    BY <1>1, NasIsSend
  <2>2. nas[s].total + n \in Nat
    BY DEF TypeOK
  <2> QED
    BY <2>1, <2>2
<1>3. /\ nas' = [nas EXCEPT ![s] = [phase |-> phase, bytes |-> bytes, seconds |-> seconds,
                                    total |-> t, sent |-> nas[s].sent + 1]]
      /\ UNCHANGED <<known, database, rows, lock, events, usage, pc, req, copy, crashes, front>>
  <2>1. TypeOK /\ Send(s, kind, phase, bytes, seconds, t)
    BY <1>2
  <2> QED
    BY <2>1, SendStep
<1>4. PICK new \in Report :
        /\ net' = net \cup {new} /\ new.session = s
        /\ new.total = t /\ CounterBytes(new) = bytes
  <2>1. TypeOK /\ Send(s, kind, phase, bytes, seconds, t)
    BY <1>2
  <2>2. \E new \in Report :
          /\ net' = net \cup {new}
          /\ new.session = s /\ new.number = nas[s].sent + 1
          /\ new.total = t /\ CounterBytes(new) = bytes
    BY <2>1, SendStep
  <2> QED
    BY <2>2
<1>5. /\ nas'[s].bytes = bytes /\ nas'[s].total = t
      /\ \A r \in Sessions \ {s} : nas'[r] = nas[r]
  BY <1>3 DEF TypeOK
<1>6. InSystem' = InSystem \cup {new} /\ InSystem \subseteq Report
  BY <1>3, <1>4 DEF InSystem, Busy, TypeOK
<1>7. \A r \in Sessions : nas[r].bytes \in Nat /\ nas[r].total \in Nat
  BY DEF TypeOK
<1>8. /\ bytes <= t
      /\ t - bytes >= nas[s].total - nas[s].bytes
  BY <1>2, <1>7 DEF EInv
<1>9. ASSUME NEW r \in Sessions, NEW b \in Nat, NEW u \in Nat, Hides(b, u, r)
      PROVE  b <= u /\ u + nas'[r].bytes <= nas'[r].total + b
  <2>1. CASE r = s
    BY <2>1, <1>2, <1>5, <1>7, <1>8, <1>9 DEF Hides
  <2>2. CASE r # s
    BY <2>2, <1>5, <1>9 DEF Hides
  <2> QED
    BY <2>1, <2>2
<1>10. \A r \in Sessions : nas'[r].bytes <= nas'[r].total
  BY <1>5, <1>8 DEF EInv
<1>11. \A m \in InSystem' : Hides(CounterBytes(m), m.total, m.session)'
  <2> SUFFICES ASSUME NEW m \in InSystem'
               PROVE  /\ CounterBytes(m) <= m.total
                      /\ m.total + nas'[m.session].bytes
                           <= nas'[m.session].total + CounterBytes(m)
    BY DEF Hides, CounterBytes
  <2>1. CASE m = new
    BY <2>1, <1>2, <1>4, <1>5, <1>8
  <2>2. CASE m \in InSystem
    <3>1. CounterBytes(m) \in Nat /\ m.total \in Nat /\ m.session \in Sessions
      BY <2>2, <1>6, CounterBytesType DEF Report
    <3> QED
      BY <2>2, <3>1, <1>9 DEF EInv
  <2> QED
    BY <2>1, <2>2, <1>6
<1>12. \A r \in Sessions : InOrder(r)' => Hides(rows[r].bytes, front[r].total, r)'
  <2> SUFFICES ASSUME NEW r \in Sessions, InOrder(r)
               PROVE  /\ rows[r].bytes <= front[r].total
                      /\ front[r].total + nas'[r].bytes <= nas'[r].total + rows[r].bytes
    BY <1>3 DEF Hides, InOrder
  <2>1. rows[r].bytes \in Nat /\ front[r].total \in Nat
    BY DEF TypeOK, Row
  <2> QED
    BY <2>1, <1>9 DEF EInv
<1>13. CountedExactly'
  <2> SUFFICES ASSUME NEW r \in Sessions, InOrder(r), nas'[r].total = nas'[r].bytes
               PROVE  usage[r] = rows[r].bytes
    BY <1>3 DEF CountedExactly, InOrder
  <2>1. nas[r].total = nas[r].bytes
    <3>1. CASE r = s
      <4>1. nas[s].bytes <= nas[s].total
        BY DEF EInv
      <4>2. t = bytes
        BY <3>1, <1>5
      <4> QED
        BY <3>1, <4>1, <4>2, <1>2, <1>7, <1>8
    <3>2. CASE r # s
      BY <3>2, <1>5
    <3> QED
      BY <3>1, <3>2
  <2> QED
    BY <2>1 DEF EInv, CountedExactly
<1> QED
  BY <1>10, <1>11, <1>12, <1>13 DEF EInv

\* A commit in order charges the difference to the row; the counters of a
\* session without a reset do not go back.
LEMMA CommitKeepsEInv ==
  ASSUME IInv, PInv, EInv, NEW w \in Workers, Commit(w)
  PROVE  EInv'
<1> USE DEF IInv
<1>0. PICK m \in Report : m = req[w] /\ m \in InSystem
  BY DEF TypeOK, Busy, Commit, InSystem
<1> DEFINE s == m.session
<1>1. s \in Sessions
  BY DEF Report
<1>2. CounterBytes(m) \in Nat /\ m.number \in Nat /\ m.total \in Nat
  BY CounterBytesType DEF Report
<1>3. MovesFront(w, m)
  BY <1>0, CommitMovesFront
<1>4. /\ rows[s].bytes \in Nat /\ usage[s] \in Nat /\ front[s].total \in Nat
      /\ nas[s].bytes \in Nat /\ nas[s].total \in Nat
  BY <1>1 DEF TypeOK, Row
<1> HIDE DEF s
<1>5. \A q \in InSystem' : Hides(CounterBytes(q), q.total, q.session)'
  BY <1>3 DEF EInv, MovesFront, Hides, CounterBytes
<1>6. ASSUME NEW r \in Sessions, InOrder(r)'
      PROVE  /\ rows'[r].bytes <= front'[r].total
             /\ front'[r].total + nas[r].bytes <= nas[r].total + rows'[r].bytes
             /\ nas[r].total = nas[r].bytes => usage'[r] = rows'[r].bytes
  <2>1. CASE r # s
    BY <2>1, <1>3, <1>6 DEF MovesFront, EInv, Hides, InOrder, CountedExactly, s
  <2>2. CASE r = s
    <3>1. /\ front[s].number < m.number /\ InOrder(s) /\ front'[s].total = m.total
          /\ rows'[s].bytes = CounterBytes(m)
          /\ usage'[s] = usage[s] + Delta(CounterBytes(m), rows[s].bytes)
      BY <2>2, <1>3, <1>6 DEF MovesFront, s
    <3>2. Hides(CounterBytes(m), m.total, s)
      BY <1>0 DEF EInv, s
    <3>3. ASSUME nas[s].total = nas[s].bytes
          PROVE  usage'[s] = CounterBytes(m)
      <4>1. usage[s] = rows[s].bytes /\ Hides(rows[s].bytes, front[s].total, s)
        BY <1>1, <3>1, <3>3 DEF EInv, CountedExactly, s
      <4>2. CounterBytes(m) = m.total /\ rows[s].bytes = front[s].total
        BY <1>2, <1>4, <3>2, <3>3, <4>1 DEF Hides
      <4>3. front[s].total + Delta(CounterBytes(m), rows[s].bytes) <= m.total
        BY <1>0, <1>1, <3>1 DEF PInv, FrontReaches, ReachesReport, Reaches, s
      <4>4. rows[s].bytes <= CounterBytes(m)
        BY <1>2, <1>4, <4>2, <4>3, DeltaRange
      <4> QED
        BY <1>2, <1>4, <3>1, <4>1, <4>4 DEF Delta
    <3> QED
      BY <2>2, <3>1, <3>2, <3>3 DEF Hides
  <2> QED
    BY <2>1, <2>2
<1> QED
  BY <1>3, <1>5, <1>6 DEF EInv, MovesFront, Hides, InOrder, CountedExactly

LEMMA OtherKeepsEInv ==
  ASSUME IInv, EInv, UNCHANGED <<nas, events, usage, front>>,
         InSystem' \subseteq InSystem,
         \A s \in Sessions : rows'[s].bytes = rows[s].bytes
  PROVE  EInv'
  BY DEF EInv, Hides, InOrder, CountedExactly, CounterBytes

LEMMA NextEInv == IInv /\ PInv /\ EInv /\ [Next]_vars => EInv'
<1> SUFFICES ASSUME IInv, PInv, EInv, [Next]_vars PROVE EInv'
  OBVIOUS
<1>1. CASE Nas
  BY <1>1, NasKeepsEInv
<1>2. CASE \E w \in Workers : Commit(w)
  BY <1>2, CommitKeepsEInv
<1>3. CASE ~Nas /\ ~\E w \in Workers : Commit(w)
  BY <1>3, OtherSteps, OtherKeepsEInv
<1> QED
  BY <1>1, <1>2, <1>3

\* While its NAS has reset no counter and its reports are in order, a session
\* is charged exactly the cumulative counter of the latest report ingested.
THEOREM CountedExactlyHolds == Spec => []CountedExactly
<1>1. Init => IInv /\ PInv /\ EInv
  BY InitIInv, InitPInv, InitEInv
<1>2. IInv /\ PInv /\ EInv /\ [Next]_vars => (IInv /\ PInv /\ EInv)'
  BY NextIInv, NextPInv, NextEInv
<1>3. EInv => CountedExactly
  BY DEF EInv
<1> QED
  BY <1>1, <1>2, <1>3, PTL DEF Spec

-----------------------------------------------------------------------------
(* The online-session list, of session ids that are not used again: the    *)
(* Stop is the last report its NAS sends, so that none is ingested after it *)
(* in order.                                                               *)

StopIngested(s) == \E e \in events : e[1] = s /\ e[2] = "Stop"

SInv ==
  /\ \A m \in InSystem : m.kind = "Stop" =>
       nas[m.session].phase = "down" /\ m.number = nas[m.session].sent
  /\ \A s \in Sessions : StopIngested(s) =>
       nas[s].phase = "down" /\ front[s].number = nas[s].sent
  /\ StoppedIffStopIngested

LEMMA InitSInv == Init => SInv
  BY DEF Init, SInv, StopIngested, StoppedIffStopIngested, InSystem, Busy, NoRow

\* A NAS that sends is not down yet, and a Stop takes it down.
LEMMA NasSends ==
  ASSUME ~CanReuse, TypeOK, NEW s \in Sessions, NasStart(s) \/ NasInterim(s) \/ NasStop(s)
  PROVE  /\ nas[s].phase # "down"
         /\ \E kind \in Kinds, phase \in {"off", "up", "down"}, bytes \in Nat,
               seconds \in Nat, total \in Nat :
              /\ Send(s, kind, phase, bytes, seconds, total)
              /\ kind = "Stop" => phase = "down"
<1>1. nas[s].total \in Nat /\ nas[s].bytes \in Nat /\ nas[s].seconds \in Nat
  BY DEF TypeOK
<1>2. CASE NasStart(s)
  <2>1. nas[s].phase # "down" /\ Send(s, "Start", "up", 0, 0, nas[s].total)
    BY <1>2 DEF NasStart
  <2> QED
    BY <1>1, <2>1 DEF Kinds
<1>3. ASSUME NEW kind \in Kinds, NEW phase \in {"up", "down"}, NasReport(s, kind, phase)
      PROVE  /\ nas[s].phase # "down"
             /\ \E bytes \in Nat, seconds \in Nat, total \in Nat :
                  Send(s, kind, phase, bytes, seconds, total)
  <2>1. PICK n \in 0 .. MaxBurst, reset \in {FALSE, CanReset} :
          Send(s, kind, phase, (IF reset THEN 0 ELSE nas[s].bytes) + n,
               (IF reset THEN 0 ELSE nas[s].seconds) + 1, nas[s].total + n)
    BY <1>3 DEF NasReport
  <2>2. /\ (IF reset THEN 0 ELSE nas[s].bytes) + n \in Nat
        /\ (IF reset THEN 0 ELSE nas[s].seconds) + 1 \in Nat /\ nas[s].total + n \in Nat
    BY <1>1, BoundsAssumption
  <2> QED
    BY <1>3, <2>1, <2>2 DEF NasReport
<1>4. CASE NasInterim(s)
  BY <1>3, <1>4 DEF NasInterim, Kinds
<1>5. CASE NasStop(s)
  BY <1>3, <1>5 DEF NasStop, Kinds
<1> QED
  BY <1>2, <1>4, <1>5

\* What is put on the wire, and by which NAS.
LEMMA SendKind ==
  ASSUME NEW s \in Sessions, NEW kind, NEW phase, NEW bytes, NEW seconds, NEW total,
         Send(s, kind, phase, bytes, seconds, total)
  PROVE  \E new \in net' : /\ net' = net \cup {new}
                           /\ new.session = s /\ new.kind = kind /\ new.number = nas[s].sent + 1
<1> DEFINE new == [session |-> s, kind |-> kind, octets |-> bytes % WordSize,
                   gigawords |-> bytes \div WordSize, seconds |-> seconds,
                   number |-> nas[s].sent + 1, total |-> total]
<1>1. net' = net \cup {new}
  BY DEF Send
<1>2. new.session = s /\ new.kind = kind /\ new.number = nas[s].sent + 1
  OBVIOUS
<1> HIDE DEF new
<1> QED
  BY <1>1, <1>2

LEMMA NasKeepsSInv ==
  ASSUME ~CanReuse, IInv, SInv, Nas
  PROVE  SInv'
<1> USE DEF IInv
<1>1. PICK s \in Sessions : NasStart(s) \/ NasInterim(s) \/ NasStop(s)
  BY DEF Nas
<1>2. nas[s].phase # "down"
  BY <1>1, NasSends
<1>3. PICK kind \in Kinds, phase \in {"off", "up", "down"}, bytes \in Nat,
           seconds \in Nat, total \in Nat :
        Send(s, kind, phase, bytes, seconds, total) /\ (kind = "Stop" => phase = "down")
  BY <1>1, NasSends
<1>4. /\ nas' = [nas EXCEPT ![s] = [phase |-> phase, bytes |-> bytes, seconds |-> seconds,
                                    total |-> total, sent |-> nas[s].sent + 1]]
      /\ UNCHANGED <<known, database, rows, lock, events, usage, pc, req, copy, crashes, front>>
  BY <1>3, SendStep
<1>5. PICK new \in net' :
        /\ net' = net \cup {new} /\ new.session = s /\ new.kind = kind
        /\ new.number = nas[s].sent + 1
  BY <1>3, SendKind
<1>6. /\ nas'[s].phase = phase /\ nas'[s].sent = nas[s].sent + 1
      /\ \A r \in Sessions \ {s} : nas'[r] = nas[r]
  BY <1>4 DEF TypeOK
<1>7. InSystem' = InSystem \cup {new} /\ InSystem \subseteq Report
  BY <1>4, <1>5 DEF InSystem, Busy, TypeOK
<1>8. ASSUME NEW m \in InSystem', m.kind = "Stop"
      PROVE  nas'[m.session].phase = "down" /\ m.number = nas'[m.session].sent
  <2>1. CASE m = new
    BY <1>3, <1>5, <1>6, <1>8, <2>1
  <2>2. CASE m \in InSystem
    <3>1. m.session \in Sessions /\ m.session # s
      BY <1>2, <1>7, <1>8, <2>2 DEF SInv, Report
    <3> QED
      BY <1>6, <1>8, <2>2, <3>1 DEF SInv
  <2> QED
    BY <1>7, <2>1, <2>2
<1>9. ASSUME NEW r \in Sessions, StopIngested(r)
      PROVE  nas'[r].phase = "down" /\ front'[r].number = nas'[r].sent
  BY <1>2, <1>4, <1>6, <1>9 DEF SInv
<1>10. StoppedIffStopIngested'
  BY <1>4 DEF SInv, StoppedIffStopIngested, InOrder
<1> QED
  BY <1>4, <1>8, <1>9, <1>10 DEF SInv, StopIngested

\* Nothing is committed in order after a Stop.
LEMMA CommitKeepsSInv ==
  ASSUME IInv, PInv, SInv, NEW w \in Workers, Commit(w)
  PROVE  SInv'
<1> USE DEF IInv
<1>0. PICK m \in Report : m = req[w] /\ m \in InSystem
  BY DEF TypeOK, Busy, Commit, InSystem
<1> DEFINE s == m.session
<1>1. s \in Sessions /\ m.number \in Nat /\ m.kind \in Kinds
  BY DEF Report
<1>2. MovesFront(w, m)
  BY <1>0, CommitMovesFront
<1>3. nas[s].sent \in Nat /\ front[s].number \in Nat /\ m.number <= nas[s].sent
  BY <1>0, <1>1 DEF PInv, Sent, TypeOK
<1>4. EventKey(m)[1] = s /\ EventKey(m)[2] = m.kind
  BY DEF EventKey
<1>5. \A r \in Sessions : StopIngested(r)' <=> StopIngested(r) \/ (r = s /\ m.kind = "Stop")
  BY <1>1, <1>2, <1>4 DEF StopIngested, MovesFront
<1>6. rows'[s].status = StatusAfter(m.kind, copy[w].status)
  <2>1. ~Ingested(m)
    BY <1>0 DEF Commit, NoEventConflict
  <2> QED
    BY <1>0, <1>1, <2>1 DEF Commit, TypeOK
<1>7. copy[w].status = "STOPPED" <=> rows[s].status = "STOPPED"
  BY <1>0 DEF Commit, NoStaleWrite, NoRow, CreatedRow
<1>8. StopIngested(s) => m.number < front[s].number
  BY <1>1, <1>2, <1>3 DEF SInv, MovesFront
<1> HIDE DEF s
<1>9. \A q \in InSystem' : q.kind = "Stop" =>
        nas'[q.session].phase = "down" /\ q.number = nas'[q.session].sent
  BY <1>2 DEF SInv, MovesFront
<1>10. ASSUME NEW r \in Sessions, StopIngested(r)'
       PROVE  nas'[r].phase = "down" /\ front'[r].number = nas'[r].sent
  <2>1. CASE r # s
    BY <1>2, <1>5, <1>10, <2>1 DEF SInv, MovesFront, s
  <2>2. CASE r = s /\ StopIngested(s)
    BY <1>1, <1>2, <1>8, <2>2 DEF SInv, MovesFront, s
  <2>3. CASE r = s /\ ~StopIngested(s)
    <3>1. m.kind = "Stop" /\ nas[s].phase = "down" /\ m.number = nas[s].sent
      BY <1>0, <1>5, <1>10, <2>3 DEF SInv, s
    <3>2. front[s].number < m.number
      BY <1>0, <1>1, <1>2, <1>3, <3>1 DEF MovesFront, PInv, Sent, s
    <3> QED
      BY <1>2, <2>3, <3>1, <3>2 DEF MovesFront, s
  <2> QED
    BY <2>1, <2>2, <2>3
<1>11. StoppedIffStopIngested'
  <2> SUFFICES ASSUME NEW r \in Sessions, InOrder(r)'
               PROVE  rows'[r].status = "STOPPED" <=> StopIngested(r)'
    BY DEF StoppedIffStopIngested, StopIngested
  <2>1. CASE r # s
    <3>1. rows'[r] = rows[r] /\ InOrder(r) /\ (StopIngested(r)' <=> StopIngested(r))
      BY <1>2, <1>5, <2>1 DEF MovesFront, InOrder, s
    <3> QED
      BY <3>1 DEF SInv, StoppedIffStopIngested, StopIngested
  <2>2. CASE r = s
    <3>1. front[s].number < m.number /\ InOrder(s) /\ ~StopIngested(s)
      BY <1>1, <1>2, <1>3, <1>8, <2>2 DEF MovesFront, s
    <3>2. rows[s].status # "STOPPED"
      BY <1>1, <3>1 DEF SInv, StoppedIffStopIngested, StopIngested
    <3>3. rows'[s].status = "STOPPED" <=> m.kind = "Stop"
      BY <1>1, <1>6, <1>7, <3>2 DEF StatusAfter, Kinds
    <3> QED
      BY <1>1, <1>5, <2>2, <3>1, <3>3
  <2> QED
    BY <2>1, <2>2
<1> QED
  BY <1>9, <1>10, <1>11 DEF SInv

\* A duplicate may create the row of its session, which is then open.
LEMMA OtherKeepsSInv ==
  ASSUME IInv, SInv, [Next]_vars, ~Nas, ~\E w \in Workers : Commit(w)
  PROVE  SInv'
<1> USE DEF IInv
<1>1. /\ UNCHANGED <<nas, events, usage, front>>
      /\ InSystem' \subseteq InSystem
  BY OtherSteps
<1>2. \A s \in Sessions : rows'[s].status = "STOPPED" <=> rows[s].status = "STOPPED"
  <2>1. CASE \E w \in Workers : SkipDuplicate(w)
    BY <2>1 DEF SkipDuplicate, TypeOK, NoStaleWrite, NoRow, CreatedRow
  <2>2. CASE ~\E w \in Workers : SkipDuplicate(w)
    <3>1. rows' = rows
      BY <2>2 DEF Next, Staff, Administer, Network, Drop, Receive, Reject, Ingest, Handle, Fault,
         Lookup, LookupExisting, LookupMissing, LookupRefused,
         Create, CreateSession, CreateConflict, Check, PassDuplicateCheck,
         Crash, db, vars
    <3> QED
      BY <3>1
  <2> QED
    BY <2>1, <2>2
<1> QED
  BY <1>1, <1>2 DEF SInv, StopIngested, StoppedIffStopIngested, InOrder

\* The online-session list is right for session ids that are not used again, which is
\* what RADIUS asks of a NAS: a session is closed exactly when its Stop was ingested,
\* unless a report was overtaken, whatever is lost, repeated, reset or killed.
THEOREM StoppedIffStopIngestedHolds ==
  ASSUME ~CanReuse
  PROVE  Spec => []StoppedIffStopIngested
<1>1. Init => IInv /\ PInv /\ SInv
  BY InitIInv, InitPInv, InitSInv
<1>2. IInv /\ PInv /\ SInv /\ [Next]_vars => (IInv /\ PInv /\ SInv)'
  <2> SUFFICES ASSUME IInv, PInv, SInv, [Next]_vars PROVE SInv'
    BY NextIInv, NextPInv
  <2> QED
    BY NasKeepsSInv, CommitKeepsSInv, OtherKeepsSInv
<1>3. SInv => StoppedIffStopIngested
  BY DEF SInv
<1> QED
  BY <1>1, <1>2, <1>3, PTL DEF Spec

-----------------------------------------------------------------------------
(* Refinement of the ledger, in any order of delivery.                     *)

LEMMA NextIsCharge ==
  IInv /\ [Next]_vars => [Ledger!Next]_<<events, usage>>
<1> SUFFICES ASSUME IInv, [Next]_vars PROVE [Ledger!Next]_<<events, usage>>
  OBVIOUS
<1> USE DEF IInv
<1>1. CASE Nas
  <2>1. PICK s \in Sessions : NasStart(s) \/ NasInterim(s) \/ NasStop(s)
    BY <1>1 DEF Nas
  <2>2. PICK kind \in Kinds, phase \in {"off", "up", "down"}, bytes \in Nat,
             seconds \in Nat, n \in Nat : Send(s, kind, phase, bytes, seconds, nas[s].total + n)
    BY <2>1, NasIsSend
  <2> QED
    BY <2>2 DEF Send, db
<1>2. CASE Network
  BY <1>2 DEF Network, Drop, Receive, Reject, vars, db
<1>3. ASSUME NEW w \in Workers, Commit(w) PROVE Ledger!Next
  <2> DEFINE s == req[w].session
             key == EventKey(req[w])
             delta == Delta(CounterBytes(req[w]), copy[w].bytes)
  <2>1. w \in Busy /\ req[w] \in Report /\ s \in Sessions
    BY <1>3 DEF TypeOK, Busy, Report, Commit, Charge
  <2>2. key[1] = s /\ key[3] = CounterBytes(req[w]) /\ CounterBytes(req[w]) \in Nat
    BY <2>1, CounterBytesType
  <2>3. usage[s] \in Nat /\ copy[w].bytes \in Nat
    BY <2>1 DEF TypeOK, Row
  <2>4. delta \in Nat /\ delta <= CounterBytes(req[w])
    BY <2>2, <2>3, DeltaRange
  <2>5. key \notin events
    BY <1>3 DEF Commit, Charge, NoEventConflict, Ingested
  <2>6. events' = events \cup {key} /\ usage' = [usage EXCEPT ![s] = usage[s] + delta]
    BY <1>3, <2>1, <2>5 DEF Commit, Charge, Ingested, TypeOK
  <2> HIDE DEF s, key, delta
  <2>7. usage'[s] = usage[s] + delta
    BY <2>1, <2>6 DEF TypeOK
  <2>8. usage'[s] \in usage[s]..(usage[s] + key[3])
    BY <2>2, <2>3, <2>4, <2>7
  <2>9. key \in events' \ events
    BY <2>5, <2>6
  <2>10. usage' = [usage EXCEPT ![s] = usage'[s]]
    BY <2>6, <2>7
  <2> QED BY <2>1, <2>2, <2>6, <2>8, <2>9, <2>10 DEF Ledger!Next, Ledger!Charge
<1>4. ASSUME NEW w \in Workers, Lookup(w) \/ Create(w) \/ Check(w) \/ Crash(w)
      PROVE  UNCHANGED <<events, usage>>
  BY <1>4 DEF Lookup, LookupExisting, LookupMissing,
       LookupRefused, Create, CreateSession,
     CreateConflict, Check, SkipDuplicate, PassDuplicateCheck, Crash, db
<1>5. CASE UNCHANGED vars \/ Staff
  BY <1>5 DEF vars, Staff, Administer, db
<1> QED
  BY <1>1, <1>2, <1>3, <1>4, <1>5 DEF Next, Ingest, Handle, Fault

\* Ingestion implements the ledger: each fingerprint charges once, at most its
\* own counter, under every interleaving, order of delivery and crash.
THEOREM LedgerImplemented == Spec => ImplementsLedger
<1>1. Init => Ledger!Init
  BY DEF Init, Ledger!Init
<1> QED
  BY <1>1, InitIInv, NextIInv, NextIsCharge, PTL DEF Spec, ImplementsLedger, Ledger!Spec

=============================================================================
