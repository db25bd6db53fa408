-------------------------- MODULE CredentialsProofs --------------------------
(***************************************************************************)
(* What holds of usernames and passwords for every number of names, jobs,  *)
(* files and rows.                                                         *)
(***************************************************************************)
EXTENDS Credentials, TLAPS

\* Where a job is, and that the name it is about to insert is one.
Shape(w) ==
  /\ pc[w] \in {"find", "check", "insert"} => at[w] <= Len(file[w])
  /\ pc[w] = "insert" => Current(w).name \in Names
  /\ pc[w] = "idle" => Added(w) = {} /\ at[w] = 1
  /\ pc[w] = "reply" => ~discard[w]
  /\ (kind[w] = "none") <=> (pc[w] = "idle")
  /\ kind[w] = "password" => pc[w] = "reply"
  /\ kind[w] = "create" => Len(file[w]) = 1
  /\ kind[w] = "batch" => /\ pc[w] \in {"insert", "commit", "reply"}
                          /\ Added(w) \subseteq Listed(w)
                          /\ Listed(w) \subseteq Names
  /\ kind[w] = "import" /\ pc[w] \in {"commit", "reply"} => at[w] > Len(file[w])

\* The rows an import has passed without an error are subscribers or will be.
Handled(w) ==
  kind[w] = "import" /\ ~discard[w] =>
    \A i \in DOMAIN file[w] : i < at[w] => file[w][i].name \in Subscribed \cup Added(w)

\* What a job has found free is free still, or the race is on record.
Apart(w) ==
  Claims(w) \cap (IF kind[w] = "batch" THEN Subscribed ELSE voucher) \subseteq raced

JobInv(w) == Shape(w) /\ Handled(w) /\ Apart(w)

IInv ==
  /\ TypeOK
  /\ \A w \in Workers : JobInv(w)
  /\ DisjointUnlessRaced
  /\ ImportIsComplete

SameJob(u) ==
  /\ kind'[u] = kind[u] /\ pc'[u] = pc[u] /\ file'[u] = file[u] /\ at'[u] = at[u]
  /\ added'[u] = added[u] /\ generated'[u] = generated[u] /\ discard'[u] = discard[u]

LEMMA InitIInv == Init => IInv
<1> SUFFICES ASSUME Init PROVE IInv
  OBVIOUS
<1>1. TypeOK
  <2>1. discard \in [Workers -> BOOLEAN]
    BY Zenon DEF Init
  <2>2. file \in [Workers -> Seq(Row)]
    BY DEF Init
  <2> QED
    BY <2>1, <2>2 DEF Init, TypeOK, NothingAdded, Kinds, Steps
<1>2. Subscribed = {} /\ voucher = {}
  BY DEF Init, Subscribed, NothingAdded
<1>3. ASSUME NEW w \in Workers PROVE JobInv(w) /\ Added(w) = {}
  BY <1>2 DEF Init, JobInv, Shape, Handled, Apart, Claims, Added, NothingAdded, Kinds
<1> QED
  BY <1>1, <1>2, <1>3 DEF IInv, DisjointUnlessRaced, ImportIsComplete, Init

\* A job at a row has one.
LEMMA InRange ==
  ASSUME IInv, NEW w \in Workers, pc[w] \in {"find", "check", "insert"}
  PROVE  file[w] \in Seq(Row) /\ at[w] \in DOMAIN file[w]
<1>1. file[w] \in Seq(Row) /\ at[w] \in Nat \ {0}
  BY DEF IInv, TypeOK
<1>2. at[w] <= Len(file[w])
  BY DEF IInv, JobInv, Shape
<1> QED
  BY <1>1, <1>2

-----------------------------------------------------------------------------
\* A job that does nothing keeps its part of the invariant while others commit,
\* if a name that they bring into the other table is on record.
LEMMA Bystander ==
  ASSUME TypeOK, NEW u \in Workers, JobInv(u), SameJob(u),
         Subscribed \subseteq Subscribed', raced \subseteq raced',
         kind[u] = "batch" => Claims(u) \cap (Subscribed' \ Subscribed) \subseteq raced',
         kind[u] # "batch" => Claims(u) \cap (voucher' \ voucher) \subseteq raced'
  PROVE  JobInv(u)'
<1>1. Added(u)' = Added(u) /\ Listed(u)' = Listed(u) /\ Current(u)' = Current(u)
  BY DEF SameJob, Added, Listed, Current
<1>2. Claims(u)' = Claims(u)
  BY <1>1 DEF Claims, SameJob
<1>3. Shape(u)'
  BY <1>1 DEF JobInv, Shape, SameJob
<1>4. Handled(u)'
  BY <1>1 DEF JobInv, Handled, SameJob
<1>5. Apart(u)'
  BY <1>2 DEF JobInv, Apart, SameJob
<1> QED
  BY <1>3, <1>4, <1>5 DEF JobInv

\* A step of one job that leaves the tables alone.
LEMMA LocalStep ==
  ASSUME IInv, NEW w \in Workers, UNCHANGED tables,
         \A u \in Workers \ {w} : SameJob(u),
         TypeOK', JobInv(w)', pc[w] # "reply", pc'[w] # "reply"
  PROVE  IInv'
<1>1. Subscribed' = Subscribed
  BY DEF tables, Subscribed
<1>2. \A u \in Workers \ {w} : JobInv(u)'
  BY <1>1, Bystander DEF IInv, tables
<1>3. DisjointUnlessRaced'
  BY <1>1 DEF IInv, DisjointUnlessRaced, tables
<1>4. ImportIsComplete'
  <2> SUFFICES ASSUME NEW u \in Workers, kind'[u] = "import", pc'[u] = "reply"
               PROVE  Listed(u)' \subseteq Subscribed'
    BY DEF ImportIsComplete
  <2>1. SameJob(u)
    OBVIOUS
  <2> QED
    BY <2>1, <1>1 DEF IInv, ImportIsComplete, SameJob, Listed
<1> QED
  BY <1>2, <1>3, <1>4 DEF IInv

-----------------------------------------------------------------------------
\* A job ends without having touched the tables.
LEMMA EndKeeps ==
  ASSUME IInv, NEW w \in Workers, End(w), pc[w] # "reply", UNCHANGED tables
  PROVE  IInv'
<1>1. TypeOK'
  <2>1. discard' \in [Workers -> BOOLEAN]
    BY Zenon DEF End, IInv, TypeOK
  <2>2. file' \in [Workers -> Seq(Row)]
    BY DEF End, IInv, TypeOK
  <2> QED
    BY <2>1, <2>2 DEF IInv, TypeOK, End, tables, NothingAdded, Kinds, Steps
<1>2. /\ kind'[w] = "none" /\ pc'[w] = "idle" /\ at'[w] = 1
      /\ Added(w)' = {}
  BY DEF End, IInv, TypeOK, Added, NothingAdded
<1>3. JobInv(w)'
  BY <1>2 DEF JobInv, Shape, Handled, Apart, Claims
<1>4. \A u \in Workers \ {w} : SameJob(u)
  BY DEF End, IInv, TypeOK, SameJob
<1> QED
  BY <1>1, <1>2, <1>3, <1>4, LocalStep

\* A job begins with rows none of which is handled yet.
LEMMA StartKeeps ==
  ASSUME IInv, NEW w \in Workers, NEW job \in {"create", "import", "batch"},
         NEW step \in {"find", "check", "insert", "commit"},
         NEW rows \in Seq(Row), NEW doomed \in BOOLEAN,
         Start(w, job, step, rows, {}, doomed), UNCHANGED tables,
         IF rows = <<>> THEN step = "commit" /\ job = "import" ELSE step # "commit",
         job = "create" => step = "check" /\ Len(rows) = 1,
         job = "import" => step \in {"find", "commit"},
         job = "batch" => /\ step = "insert"
                          /\ \A i \in DOMAIN rows : rows[i].name \in Names \ Taken
  PROVE  IInv'
<1>1. TypeOK'
  <2>1. discard' \in [Workers -> BOOLEAN]
    BY Zenon DEF Start, IInv, TypeOK
  <2>2. file' \in [Workers -> Seq(Row)]
    BY DEF Start, IInv, TypeOK
  <2> QED
    BY <2>1, <2>2 DEF IInv, TypeOK, Start, tables, Kinds, Steps
<1>2. /\ kind'[w] = job /\ pc'[w] = step /\ file'[w] = rows /\ at'[w] = 1
      /\ Added(w)' = {} /\ kind[w] = "none" /\ pc[w] = "idle"
  <2>1. /\ kind'[w] = job /\ pc'[w] = step /\ file'[w] = rows
        /\ at' = at /\ added' = added /\ pc[w] = "idle"
    BY DEF Start, IInv, TypeOK
  <2>2. JobInv(w)
    BY DEF IInv
  <2> QED
    BY <2>1, <2>2 DEF JobInv, Shape, Added
<1>3. rows # <<>> => Len(rows) >= 1 /\ 1 \in DOMAIN rows
  OBVIOUS
<1>4. Shape(w)'
  BY <1>2, <1>3 DEF Shape, Current, Listed
<1>5. Handled(w)'
  <2>1. \A i \in DOMAIN rows : ~(i < 1)
    OBVIOUS
  <2> QED
    BY <1>2, <2>1 DEF Handled
<1>6. Apart(w)'
  <2>1. Subscribed' = Subscribed /\ voucher' = voucher
    BY DEF tables, Subscribed
  <2>2. CASE job = "batch"
    BY <1>2, <2>1, <2>2 DEF Apart, Claims, Listed, Taken
  <2>3. CASE job # "batch"
    BY <1>2, <2>3 DEF Apart, Claims
  <2> QED
    BY <2>2, <2>3
<1>7. \A u \in Workers \ {w} : SameJob(u)
  BY DEF Start, IInv, TypeOK, SameJob
<1> QED
  BY <1>1, <1>2, <1>4, <1>5, <1>6, <1>7, LocalStep DEF JobInv

\* The row in turn is done: inserted, skipped, or refused by an import.
LEMMA NextRowKeeps ==
  ASSUME IInv, NEW w \in Workers, NextRow(w), UNCHANGED tables,
         pc[w] \in {"find", "check", "insert"},
         discard' \in [Workers -> BOOLEAN],
         generated' \in [Workers -> SUBSET Names],
         added' \in [Workers -> [Names -> {"none", "given", "generated"}]],
         \A u \in Workers \ {w} : /\ added'[u] = added[u] /\ discard'[u] = discard[u]
                                     /\ generated'[u] = generated[u],
         Added(w) \subseteq Added(w)',
         Added(w)' \subseteq Claims(w),
         kind[w] # "batch" => kind[w] \in {"create", "import"},
         ~discard'[w] => ~discard[w],
         kind[w] = "import" /\ ~discard'[w] => Current(w).name \in Subscribed \cup Added(w)'
  PROVE  IInv'
<1>1. TypeOK'
  <2>1. /\ pc' \in [Workers -> Steps] /\ at' \in [Workers -> Nat \ {0}]
        /\ kind' \in [Workers -> Kinds] /\ file' \in [Workers -> Seq(Row)]
    BY DEF IInv, TypeOK, NextRow, Steps
  <2>2. UNCHANGED <<credential, voucher, raced, changed>>
    BY DEF tables
  <2> QED
    BY <2>1, <2>2 DEF IInv, TypeOK
<1>2. /\ kind' = kind /\ file' = file /\ at'[w] = at[w] + 1 /\ at[w] \in Nat \ {0}
      /\ pc'[w] = IF at[w] = Len(file[w]) THEN "commit"
                  ELSE IF kind[w] = "import" THEN "find" ELSE "insert"
      /\ file[w] \in Seq(Row) /\ at[w] <= Len(file[w]) /\ Len(file[w]) \in Nat
  BY DEF IInv, TypeOK, NextRow, JobInv, Shape
<1>2a. ASSUME kind[w] = "create" PROVE at[w] = Len(file[w])
  <2>1. Len(file[w]) = 1
    BY <1>2a DEF IInv, JobInv, Shape
  <2>2. at[w] <= Len(file[w]) /\ at[w] \in Nat \ {0}
    BY <1>2
  <2>3. \A i \in Nat \ {0} : i <= 1 => i = 1
    OBVIOUS
  <2> QED
    BY <2>1, <2>2, <2>3
<1>3. /\ Listed(w)' = Listed(w)
      /\ Subscribed' = Subscribed /\ voucher' = voucher /\ raced' = raced
  BY <1>2 DEF Listed, tables, Subscribed
<1>4. Shape(w)'
  <2>1. kind[w] = "batch" => Claims(w) = Listed(w)
    BY DEF Claims
  <2>2. at[w] < Len(file[w]) => at[w] + 1 \in DOMAIN file[w]
    BY <1>2
  <2>3. kind[w] = "batch" /\ at[w] < Len(file[w]) => file[w][at[w] + 1].name \in Names
    BY <2>2 DEF IInv, JobInv, Shape, Listed
  <2>4. kind[w] = "batch" /\ pc'[w] = "insert" => Current(w)'.name \in Names
    BY <1>2, <2>3 DEF Current
  <2>5. kind[w] = "create" => pc'[w] = "commit"
    BY <1>2, <1>2a
  <2>6. kind[w] # "none"
    BY DEF IInv, JobInv, Shape
  <2> QED
    BY <1>2, <1>3, <2>1, <2>4, <2>5, <2>6 DEF IInv, JobInv, Shape
<1>5. Handled(w)'
  <2> SUFFICES ASSUME kind[w] = "import", ~discard'[w], NEW i \in DOMAIN file[w], i < at[w] + 1
               PROVE  file[w][i].name \in Subscribed \cup Added(w)'
    BY <1>2, <1>3 DEF Handled
  <2>1. CASE i = at[w]
    BY <2>1 DEF Current
  <2>2. CASE i < at[w]
    BY <2>2 DEF IInv, JobInv, Handled
  <2> QED
    BY <1>2, <2>1, <2>2
<1>6. Apart(w)'
  <2>1. kind[w] # "batch" => pc'[w] # "insert"
    BY <1>2, <1>2a
  <2>2. Claims(w)' \subseteq Claims(w)
    BY <1>2, <1>3, <2>1 DEF Claims
  <2> QED
    BY <1>2, <1>3, <2>2 DEF IInv, JobInv, Apart
<1>7. \A u \in Workers \ {w} : SameJob(u)
  BY DEF NextRow, IInv, TypeOK, SameJob
<1> QED
  BY <1>1, <1>2, <1>4, <1>5, <1>6, <1>7, LocalStep DEF JobInv

LEMMA RefuseKeeps ==
  ASSUME IInv, NEW w \in Workers, Refuse(w), UNCHANGED tables,
         pc[w] \in {"find", "check", "insert"}
  PROVE  IInv'
<1>1. CASE kind[w] # "import"
  BY <1>1, EndKeeps DEF Refuse
<1>2. CASE kind[w] = "import"
  <2>1. discard' \in [Workers -> BOOLEAN] /\ discard'[w]
    BY <1>2, Zenon DEF Refuse, IInv, TypeOK
  <2>2. added' = added /\ generated' = generated /\ NextRow(w)
    BY <1>2 DEF Refuse
  <2>3. \A u \in Workers \ {w} : discard'[u] = discard[u]
    BY <1>2, Zenon DEF Refuse, IInv, TypeOK
  <2>4. Added(w)' = Added(w) /\ Added(w) \subseteq Claims(w)
    BY <1>2, <2>2 DEF Added, Claims
  <2>5. added' \in [Workers -> [Names -> {"none", "given", "generated"}]]
    BY <2>2 DEF IInv, TypeOK
  <2>6. generated' \in [Workers -> SUBSET Names]
    BY <2>2 DEF IInv, TypeOK
  <2> QED
    BY <1>2, <2>1, <2>2, <2>3, <2>4, <2>5, <2>6, NextRowKeeps
<1> QED
  BY <1>1, <1>2

-----------------------------------------------------------------------------
LEMMA FindKeeps == ASSUME IInv, NEW w \in Workers, Find(w) PROVE IInv'
<1>1. pc[w] = "find" /\ UNCHANGED tables
  BY DEF Find
<1>2. CASE Refuse(w)
  BY <1>1, <1>2, RefuseKeeps
<1>3. kind[w] # "batch" /\ kind[w] # "none" /\ at[w] <= Len(file[w])
  BY <1>1 DEF IInv, JobInv, Shape
<1>4. CASE /\ Current(w).name \in Subscribed \cup Added(w)
           /\ NextRow(w) /\ UNCHANGED <<added, generated, discard>>
  <2>1. Added(w)' = Added(w) /\ Added(w) \subseteq Claims(w)
    BY <1>3, <1>4 DEF Added, Claims
  <2>2. discard' = discard /\ added' = added /\ generated' = generated
    BY <1>4
  <2>3. discard' \in [Workers -> BOOLEAN]
    BY <2>2, Zenon DEF IInv, TypeOK
  <2>4. added' \in [Workers -> [Names -> {"none", "given", "generated"}]]
    BY <2>2 DEF IInv, TypeOK
  <2>5. kind[w] # "batch" => kind[w] \in {"create", "import"}
    BY <1>1, <1>3 DEF IInv, JobInv, Shape, TypeOK, Kinds
  <2>6. generated' \in [Workers -> SUBSET Names]
    BY <2>2 DEF IInv, TypeOK
  <2> QED
    BY <1>1, <1>4, <2>1, <2>2, <2>3, <2>4, <2>5, <2>6, NextRowKeeps
<1>5. CASE /\ pc' = [pc EXCEPT ![w] = "check"]
           /\ UNCHANGED <<kind, file, at, added, generated, discard>>
  <2>1. TypeOK'
    BY <1>1, <1>5 DEF IInv, TypeOK, tables, Steps
  <2>2. pc'[w] = "check"
    BY <1>5 DEF IInv, TypeOK
  <2>3. /\ Added(w)' = Added(w) /\ Listed(w)' = Listed(w)
        /\ Subscribed' = Subscribed /\ voucher' = voucher /\ raced' = raced
    BY <1>1, <1>5 DEF Added, Listed, tables, Subscribed
  <2>4. JobInv(w)'
    BY <1>1, <1>3, <1>5, <2>2, <2>3 DEF IInv, JobInv, Shape, Handled, Apart, Claims
  <2>5. \A u \in Workers \ {w} : SameJob(u)
    BY <1>5 DEF IInv, TypeOK, SameJob
  <2> QED
    BY <1>1, <2>1, <2>2, <2>4, <2>5, LocalStep
<1> QED
  BY <1>2, <1>4, <1>5 DEF Find

LEMMA CheckKeeps == ASSUME IInv, NEW w \in Workers, Check(w) PROVE IInv'
<1>1. pc[w] = "check" /\ UNCHANGED tables
  BY DEF Check
<1>2. CASE Refuse(w)
  BY <1>1, <1>2, RefuseKeeps
<1>3. CASE ~Refuse(w)
  <2>1. PICK n \in Names \ Taken :
          /\ file' = [file EXCEPT ![w] = [@ EXCEPT ![at[w]] = [Current(w) EXCEPT !.name = n]]]
          /\ pc' = [pc EXCEPT ![w] = "insert"]
          /\ UNCHANGED <<kind, at, added, generated, discard>>
    <3>1. file[w] \in Seq(Row) /\ at[w] \in DOMAIN file[w]
      BY <1>1, InRange
    <3>2. Current(w) \in Row
      BY <3>1 DEF Current
    <3>3. Current(w).name \in Names \cup {Blank}
      BY <3>2 DEF Row
    <3> QED
      BY <1>3, <3>3 DEF Check
  <2>2. /\ file[w] \in Seq(Row) /\ at[w] \in DOMAIN file[w]
        /\ kind[w] # "batch" /\ kind[w] # "none"
    BY <1>1, InRange DEF IInv, JobInv, Shape
  <2> DEFINE row == [Current(w) EXCEPT !.name = n]
  <2>3. row \in Row /\ row.name = n
    <3>1. Current(w) \in Row
      BY <2>2 DEF Current
    <3> QED
      BY <3>1 DEF Row
  <2>4. file'[w] = [file[w] EXCEPT ![at[w]] = row]
    BY <2>1 DEF IInv, TypeOK
  <2> HIDE DEF row
  <2>5. file'[w] \in Seq(Row) /\ Len(file'[w]) = Len(file[w])
    BY <2>2, <2>3, <2>4
  <2>6. TypeOK'
    <3>1. file' \in [Workers -> Seq(Row)]
      BY <2>1, <2>5 DEF IInv, TypeOK
    <3> QED
      BY <1>1, <2>1, <3>1 DEF IInv, TypeOK, tables, Steps
  <2>7. /\ pc'[w] = "insert" /\ Current(w)'.name = n
        /\ Added(w)' = Added(w) /\ kind' = kind /\ at' = at /\ discard' = discard
        /\ Subscribed' = Subscribed /\ voucher' = voucher /\ raced' = raced
    BY <1>1, <2>1, <2>2, <2>3, <2>4 DEF IInv, TypeOK, Current, Added, Subscribed, tables
  <2>8. Shape(w)'
    BY <1>1, <2>2, <2>5, <2>7 DEF IInv, JobInv, Shape
  <2>9. Handled(w)'
    BY <2>2, <2>4, <2>7 DEF IInv, JobInv, Handled
  <2>10. Apart(w)'
    BY <2>2, <2>7 DEF IInv, JobInv, Apart, Claims, Taken
  <2>11. \A u \in Workers \ {w} : SameJob(u)
    BY <2>1 DEF IInv, TypeOK, SameJob
  <2> QED
    BY <1>1, <2>6, <2>7, <2>8, <2>9, <2>10, <2>11, LocalStep DEF JobInv
<1> QED
  BY <1>2, <1>3

LEMMA InsertKeeps == ASSUME IInv, NEW w \in Workers, Insert(w) PROVE IInv'
<1>1. pc[w] = "insert" /\ UNCHANGED tables
  BY DEF Insert
<1>2. CASE Refuse(w)
  BY <1>1, <1>2, RefuseKeeps
<1>2a. CASE End(w)
  BY <1>1, <1>2a, EndKeeps
<1>3. CASE ~Refuse(w) /\ ~End(w)
  <2> DEFINE n == Current(w).name
  <2>1. PICK how \in {"given", "generated"} : added' = [added EXCEPT ![w][n] = how]
    BY <1>3, Zenon DEF Insert
  <2>2. NextRow(w) /\ discard' = discard
    BY <1>3 DEF Insert
  <2>3. n \in Names
    BY <1>1 DEF IInv, JobInv, Shape
  <2>4. discard' \in [Workers -> BOOLEAN]
    BY <2>2, Zenon DEF IInv, TypeOK
  <2>5. added' \in [Workers -> [Names -> {"none", "given", "generated"}]]
    BY <2>1, <2>3 DEF IInv, TypeOK
  <2>6. Added(w)' = Added(w) \cup {n}
    BY <2>1, <2>3 DEF IInv, TypeOK, Added
  <2>7. Added(w)' \subseteq Claims(w)
    <3>1. CASE kind[w] = "batch"
      <4>1. n \in Listed(w)
        BY <1>1, InRange DEF Listed, Current
      <4> QED
        BY <3>1, <4>1, <2>6 DEF IInv, JobInv, Shape, Claims
    <3>2. CASE kind[w] # "batch"
      BY <1>1, <3>2, <2>6 DEF Claims
    <3> QED
      BY <3>1, <3>2
  <2>8. kind[w] # "batch" => kind[w] \in {"create", "import"}
    BY <1>1 DEF IInv, JobInv, Shape, TypeOK, Kinds
  <2>9. \A u \in Workers \ {w} : added'[u] = added[u]
    BY <2>1 DEF IInv, TypeOK
  <2>10. PICK drawn \in SUBSET Names : generated' = [generated EXCEPT ![w] = drawn]
    <3>1. generated[w] \cup {n} \in SUBSET Names /\ generated[w] \in SUBSET Names
      BY <2>3 DEF IInv, TypeOK
    <3>2. \/ generated' = [generated EXCEPT ![w] = generated[w] \cup {n}]
          \/ generated' = [generated EXCEPT ![w] = generated[w]]
      BY <1>3 DEF Insert
    <3> QED
      BY <3>1, <3>2
  <2>11. /\ generated' \in [Workers -> SUBSET Names]
         /\ \A u \in Workers \ {w} : generated'[u] = generated[u]
    BY <2>10 DEF IInv, TypeOK
  <2> QED
    BY <1>1, <2>2, <2>4, <2>5, <2>6, <2>7, <2>8, <2>9, <2>11, NextRowKeeps
<1> QED
  BY <1>2, <1>2a, <1>3

LEMMA VictimKeeps == ASSUME IInv, NEW w \in Workers, Victim(w) PROVE IInv'
<1>1. Wanted[w] # {}
  BY DEF Victim, Locks!Deadlocked, Locks!Waits
<1>2. pc[w] = "insert"
  BY <1>1 DEF Wanted
<1> QED
  BY <1>2, RefuseKeeps DEF Victim

-----------------------------------------------------------------------------
\* The rows of a job become visible.  A name that a rival has found free is put
\* on record.
LEMMA CommitKeeps == ASSUME IInv, NEW w \in Workers, Commit(w) PROVE IInv'
<1>1. CASE discard[w]
  BY <1>1, EndKeeps DEF Commit
<1>2. CASE ~discard[w]
  <2>1. /\ pc[w] = "commit" /\ pc' = [pc EXCEPT ![w] = "reply"]
        /\ raced' = raced \cup {n \in Added(w) : \E u \in Rivals(w) : n \in Claims(u)}
        /\ kind' = kind /\ file' = file /\ at' = at /\ added' = added
        /\ discard' = discard /\ generated' = generated /\ changed' = changed
    BY <1>2 DEF Commit, Publish
  <2>2. Added(w) \subseteq Names /\ raced' \subseteq Names
    BY <2>1 DEF Added, IInv, TypeOK
  <2>3. CASE kind[w] = "batch"
    <3>1. voucher' = voucher \cup Added(w) /\ credential' = credential
      BY <1>2, <2>3 DEF Commit, Publish
    <3>2. Subscribed' = Subscribed
      BY <3>1 DEF Subscribed
    <3>3. TypeOK'
      BY <2>1, <2>2, <3>1 DEF IInv, TypeOK, Steps
    <3>4. Added(w) \cap Subscribed \subseteq raced
      BY <2>3 DEF IInv, JobInv, Shape, Apart, Claims
    <3>5. DisjointUnlessRaced'
      BY <2>1, <3>1, <3>2, <3>4 DEF IInv, DisjointUnlessRaced
    <3>6. ASSUME NEW u \in Workers \ {w} PROVE JobInv(u)'
      <4>1. SameJob(u)
        BY <2>1 DEF IInv, TypeOK, SameJob
      <4>2. kind[u] # "batch" => Claims(u) \cap (voucher' \ voucher) \subseteq raced'
        BY <2>1, <2>3, <3>1 DEF Rivals
      <4> QED
        BY <2>1, <3>2, <4>1, <4>2, Bystander DEF IInv
    <3>7. JobInv(w)'
      <4>1. pc'[w] = "reply" /\ Added(w)' = Added(w) /\ Listed(w)' = Listed(w)
        BY <2>1 DEF IInv, TypeOK, Added, Listed
      <4>2. Claims(w)' = Claims(w)
        BY <2>1, <2>3, <4>1 DEF Claims
      <4>3. Shape(w)'
        BY <1>2, <2>1, <2>3, <4>1 DEF IInv, JobInv, Shape
      <4>4. Handled(w)' /\ Apart(w)'
        BY <2>1, <2>3, <3>2, <4>2 DEF IInv, JobInv, Handled, Apart
      <4> QED
        BY <4>3, <4>4 DEF JobInv
    <3>8. ImportIsComplete'
      BY <2>1, <2>3, <3>2 DEF IInv, ImportIsComplete, TypeOK, Listed
    <3> QED
      BY <3>3, <3>5, <3>6, <3>7, <3>8 DEF IInv
  <2>4. CASE kind[w] # "batch"
    <3>1. /\ voucher' = voucher
          /\ credential' = [n \in Names |->
                              IF n \notin Added(w) THEN credential[n]
                              ELSE IF added[w][n] = "generated" THEN w ELSE "known"]
      BY <1>2, <2>4 DEF Commit, Publish
    <3>2. Subscribed' = Subscribed \cup Added(w)
      BY <2>2, <3>1, WorkerAssumption DEF Subscribed
    <3>3. TypeOK'
      BY <2>1, <2>2, <3>1 DEF IInv, TypeOK, Steps
    <3>4. Added(w) \cap voucher \subseteq raced
      BY <2>4 DEF IInv, JobInv, Apart, Claims
    <3>5. DisjointUnlessRaced'
      BY <2>1, <3>1, <3>2, <3>4 DEF IInv, DisjointUnlessRaced
    <3>6. ASSUME NEW u \in Workers \ {w} PROVE JobInv(u)'
      <4>1. SameJob(u)
        BY <2>1 DEF IInv, TypeOK, SameJob
      <4>2. kind[u] = "batch" => Claims(u) \cap (Subscribed' \ Subscribed) \subseteq raced'
        BY <2>1, <2>4, <3>2 DEF Rivals
      <4> QED
        BY <2>1, <3>1, <3>2, <4>1, <4>2, Bystander DEF IInv
    <3>7. JobInv(w)'
      <4>1. pc'[w] = "reply" /\ Added(w)' = Added(w) /\ Listed(w)' = Listed(w)
        BY <2>1 DEF IInv, TypeOK, Added, Listed
      <4>2. Claims(w)' = Claims(w)
        BY <2>1, <2>4, <4>1 DEF Claims
      <4>3. Shape(w)'
        BY <1>2, <2>1, <2>4, <4>1 DEF IInv, JobInv, Shape
      <4>4. Handled(w)' /\ Apart(w)'
        BY <2>1, <2>4, <3>1, <3>2, <4>1, <4>2 DEF IInv, JobInv, Handled, Apart
      <4> QED
        BY <4>3, <4>4 DEF JobInv
    <3>8. ImportIsComplete'
      <4> SUFFICES ASSUME NEW u \in Workers, kind'[u] = "import", pc'[u] = "reply"
                   PROVE  Listed(u)' \subseteq Subscribed'
        BY DEF ImportIsComplete
      <4>1. CASE u # w
        BY <2>1, <3>2, <4>1 DEF IInv, ImportIsComplete, TypeOK, Listed
      <4>2. CASE u = w
        <5>1. kind[w] = "import" /\ at[w] > Len(file[w]) /\ at[w] \in Nat
              /\ file[w] \in Seq(Row)
          BY <2>1, <4>2 DEF IInv, JobInv, Shape, TypeOK
        <5>2. \A i \in DOMAIN file[w] : i < at[w]
          BY <5>1
        <5>3. \A i \in DOMAIN file[w] : file[w][i].name \in Subscribed \cup Added(w)
          BY <1>2, <5>1, <5>2 DEF IInv, JobInv, Handled
        <5> QED
          BY <2>1, <3>2, <4>2, <5>3 DEF Listed
      <4> QED
        BY <4>1, <4>2
    <3> QED
      BY <3>3, <3>5, <3>6, <3>7, <3>8 DEF IInv
  <2> QED
    BY <2>3, <2>4
<1> QED
  BY <1>1, <1>2

LEMMA SetPasswordKeeps ==
  ASSUME IInv, NEW w \in Workers, NEW n \in Names, NEW generate \in BOOLEAN,
         SetPassword(w, n, generate)
  PROVE  IInv'
<1>1. /\ pc[w] = "idle" /\ kind' = [kind EXCEPT ![w] = "password"]
      /\ pc' = [pc EXCEPT ![w] = "reply"] /\ file' = [file EXCEPT ![w] = <<>>]
      /\ discard' = [discard EXCEPT ![w] = FALSE] /\ at' = at /\ added' = added
      /\ voucher' = voucher /\ raced' = raced /\ n \in Subscribed
      /\ generated' = [generated EXCEPT ![w] = IF generate THEN {n} ELSE {}]
      /\ changed' = changed \cup {n}
  BY DEF SetPassword, Start
<1>2. PICK how \in {w, "known"} : credential' = [credential EXCEPT ![n] = how]
  BY Zenon DEF SetPassword
<1>3. Subscribed' = Subscribed
  BY <1>1, <1>2, WorkerAssumption DEF IInv, TypeOK, Subscribed
<1>4. TypeOK'
  <2>1. discard' \in [Workers -> BOOLEAN]
    BY <1>1, Zenon DEF IInv, TypeOK
  <2>2. file' \in [Workers -> Seq(Row)]
    BY <1>1 DEF IInv, TypeOK
  <2> QED
    BY <1>1, <1>2, <2>1, <2>2 DEF IInv, TypeOK, Kinds, Steps
<1>5. \A u \in Workers \ {w} : SameJob(u)
  BY <1>1 DEF IInv, TypeOK, SameJob
<1>6. JobInv(w)'
  <2>1. /\ kind'[w] = "password" /\ pc'[w] = "reply" /\ file'[w] = <<>>
        /\ Added(w)' = Added(w) /\ Added(w) = {}
    BY <1>1 DEF IInv, TypeOK, JobInv, Shape, Added
  <2>2. ~discard'[w]
    BY <1>1, Zenon DEF IInv, TypeOK
  <2> QED
    BY <2>1, <2>2 DEF JobInv, Shape, Handled, Apart, Claims
<1>7. \A u \in Workers \ {w} : JobInv(u)'
  BY <1>1, <1>3, <1>5, Bystander DEF IInv
<1>8. DisjointUnlessRaced'
  BY <1>1, <1>3 DEF IInv, DisjointUnlessRaced
<1>9. ImportIsComplete'
  BY <1>1, <1>3 DEF IInv, TypeOK, ImportIsComplete, Listed
<1> QED
  BY <1>4, <1>6, <1>7, <1>8, <1>9 DEF IInv

\* The last step of a job: what it generated is settled.
LEMMA SettleKeeps ==
  ASSUME IInv, NEW w \in Workers, NEW told \in SUBSET Names, Settle(w, told)
  PROVE  IInv'
<1>0. End(w) /\ UNCHANGED <<voucher, raced>> /\ changed' \subseteq changed
  BY DEF Settle
<1>1. Subscribed' = Subscribed
  BY WorkerAssumption DEF Settle, IInv, TypeOK, Subscribed
<1>2. TypeOK'
  <2>1. discard' \in [Workers -> BOOLEAN]
    BY <1>0, Zenon DEF End, IInv, TypeOK
  <2>2. file' \in [Workers -> Seq(Row)]
    BY <1>0 DEF End, IInv, TypeOK
  <2>3. credential' \in [Names -> {"none", "known", "lost"} \cup Workers]
    BY DEF Settle, IInv, TypeOK
  <2> QED
    BY <1>0, <2>1, <2>2, <2>3 DEF IInv, TypeOK, End, NothingAdded, Kinds, Steps
<1>3. /\ kind'[w] = "none" /\ pc'[w] = "idle" /\ at'[w] = 1
      /\ Added(w)' = {}
  BY <1>0 DEF End, IInv, TypeOK, Added, NothingAdded
<1>4. JobInv(w)'
  BY <1>3 DEF JobInv, Shape, Handled, Apart, Claims
<1>5. \A u \in Workers \ {w} : SameJob(u)
  BY <1>0 DEF End, IInv, TypeOK, SameJob
<1>6. \A u \in Workers \ {w} : JobInv(u)'
  BY <1>0, <1>1, <1>5, Bystander DEF IInv
<1>7. DisjointUnlessRaced'
  BY <1>0, <1>1 DEF IInv, DisjointUnlessRaced
<1>8. ImportIsComplete'
  BY <1>1, <1>3, <1>5 DEF IInv, ImportIsComplete, Listed, SameJob
<1> QED
  BY <1>2, <1>4, <1>6, <1>7, <1>8 DEF IInv

-----------------------------------------------------------------------------
LEMMA BeginKeeps ==
  ASSUME IInv, NEW w \in Workers,
         \/ \E row \in Requests : BeginCreate(w, row)
         \/ \E rows \in Files, dry_run \in BOOLEAN : BeginImport(w, rows, dry_run)
         \/ \E size \in 1 .. BatchSize :
              \E chosen \in [1 .. size -> Names] : BeginBatch(w, chosen)
  PROVE  IInv'
<1>1. CASE \E row \in Requests : BeginCreate(w, row)
  <2>1. PICK row \in Requests : BeginCreate(w, row)
    BY <1>1
  <2>2. <<row>> \in Seq(Row) /\ Len(<<row>>) = 1 /\ <<row>> # <<>>
    BY RequestAssumption
  <2> QED
    BY <2>1, <2>2, StartKeeps DEF BeginCreate
<1>2. CASE \E rows \in Files, dry_run \in BOOLEAN : BeginImport(w, rows, dry_run)
  <2>1. PICK rows \in Files, dry_run \in BOOLEAN : BeginImport(w, rows, dry_run)
    BY <1>2
  <2>2. rows \in Seq(Row)
    BY FileAssumption
  <2>3. CASE rows = <<>>
    BY <2>1, <2>2, <2>3, StartKeeps DEF BeginImport
  <2>4. CASE rows # <<>>
    BY <2>1, <2>2, <2>4, StartKeeps DEF BeginImport
  <2> QED
    BY <2>3, <2>4
<1>3. CASE \E size \in 1 .. BatchSize :
             \E chosen \in [1 .. size -> Names] : BeginBatch(w, chosen)
  <2>1. PICK size \in 1 .. BatchSize :
          \E chosen \in [1 .. size -> Names] : BeginBatch(w, chosen)
    BY <1>3
  <2>2. PICK chosen \in [1 .. size -> Names] : BeginBatch(w, chosen)
    BY <2>1
  <2> DEFINE rows == [i \in 1 .. size |->
                        [name |-> chosen[i], flaw |-> "none", generate |-> FALSE]]
  <2>3. DOMAIN chosen = 1 .. size /\ size \in Nat
    BY BatchAssumption
  <2>4. \A i \in 1 .. size : rows[i] \in Row /\ rows[i].name \in Names \ Taken
    BY <2>2, <2>3 DEF BeginBatch, Row, Flaws
  <2>5. rows \in Seq(Row) /\ rows # <<>> /\ DOMAIN rows = 1 .. size
    BY <2>3, <2>4
  <2>6. Start(w, "batch", "insert", rows, {}, FALSE) /\ UNCHANGED tables
    BY <2>2, <2>3 DEF BeginBatch
  <2> HIDE DEF rows
  <2> QED
    BY <2>3, <2>4, <2>5, <2>6, StartKeeps
<1> QED
  BY <1>1, <1>2, <1>3

LEMMA NextIInv == IInv /\ [Next]_vars => IInv'
<1> SUFFICES ASSUME IInv, [Next]_vars PROVE IInv'
  OBVIOUS
<1>1. CASE UNCHANGED vars
  <2>1. UNCHANGED <<credential, voucher, raced, changed, kind, pc, file, at, added, generated, discard>>
    BY <1>1 DEF vars, tables, jobs
  <2>2. Subscribed' = Subscribed
    BY <2>1 DEF Subscribed
  <2>3. \A u \in Workers : JobInv(u)'
    BY <2>1, <2>2, Bystander DEF IInv, SameJob
  <2> QED
    BY <2>1, <2>2, <2>3 DEF IInv, TypeOK, DisjointUnlessRaced, ImportIsComplete, Listed
<1>2. CASE Next
  <2>1. PICK w \in Workers :
          \/ \E row \in Requests : BeginCreate(w, row)
          \/ \E rows \in Files, dry_run \in BOOLEAN : BeginImport(w, rows, dry_run)
          \/ \E size \in 1 .. BatchSize :
               \E chosen \in [1 .. size -> Names] : BeginBatch(w, chosen)
          \/ \E n \in Names, generate \in BOOLEAN : SetPassword(w, n, generate)
          \/ Work(w) \/ Victim(w) \/ OutputFails(w) \/ Kill(w)
    BY <1>2 DEF Next
  <2>2. CASE Reply(w) \/ OutputFails(w) \/ Kill(w)
    <3>1. PICK told \in SUBSET Names : Settle(w, told)
      <4>1. generated[w] \in SUBSET Names /\ {} \in SUBSET Names
        BY DEF IInv, TypeOK
      <4> QED
        BY <2>2, <4>1 DEF Reply, OutputFails, Kill
    <3> QED
      BY <3>1, SettleKeeps
  <2> QED
    BY <2>1, <2>2, BeginKeeps, SetPasswordKeeps, FindKeeps, CheckKeeps, InsertKeeps,
       CommitKeeps, VictimKeeps DEF Work
<1> QED
  BY <1>1, <1>2

\* Every variable keeps its type.
THEOREM TypeCorrect == Spec => []TypeOK
<1>1. IInv => TypeOK
  BY DEF IInv
<1> QED
  BY InitIInv, NextIInv, <1>1, PTL DEF Spec

\* A name is a subscriber's and a voucher's only if two overlapping transactions
\* each found it free: _radius_username_taken and _existing_usernames keep the
\* tables apart whenever jobs follow one another.
THEOREM DisjointUnlessRacedHolds == Spec => []DisjointUnlessRaced
<1>1. IInv => DisjointUnlessRaced
  BY DEF IInv
<1> QED
  BY InitIInv, NextIInv, <1>1, PTL DEF Spec

\* A committed import leaves a subscriber for every row, whatever its file and
\* whatever other jobs did meanwhile.
THEOREM ImportIsCompleteHolds == Spec => []ImportIsComplete
<1>1. IInv => ImportIsComplete
  BY DEF IInv
<1> QED
  BY InitIInv, NextIInv, <1>1, PTL DEF Spec

-----------------------------------------------------------------------------
(* What jobs report.  The list of a job is what it has inserted with a     *)
(* password of its own, and what it has inserted is nobody else's: the     *)
(* commits of others cannot take a name it is to report.                   *)

Drawn(w) == {n \in Names : added[w][n] = "generated"}

\* w has an open transaction that inserts subscribers, if anything.
Open(w) == kind[w] # "batch" /\ pc[w] # "reply"

Lists(w) == kind[w] # "password" => generated[w] = Drawn(w)

\* The row in turn brings a name of its own; vouchers have no list.
Fresh(w) ==
  /\ kind[w] = "create" /\ pc[w] \in {"find", "check", "insert"} => Added(w) = {}
  /\ kind[w] = "import" /\ pc[w] = "check" => Current(w).name \in Names
  /\ kind[w] = "import" /\ pc[w] \in {"check", "insert"} => Current(w).name \notin Added(w)
  /\ kind[w] = "batch" => /\ generated[w] = {}
                          /\ \A i \in DOMAIN file[w] : ~file[w][i].generate

Exclusive(w) ==
  Open(w) => /\ Added(w) \cap Subscribed = {}
             /\ \A u \in Workers \ {w} : Open(u) => Added(w) \cap Added(u) = {}

\* Conjuncts of RInv but the properties themselves.
Own == \A w \in Workers : Lists(w) /\ Fresh(w) /\ Exclusive(w)

RInv == Own /\ PasswordIsReported /\ ReportIsInForce

LEMMA InitRInv == Init => RInv
<1> SUFFICES ASSUME Init PROVE RInv
  OBVIOUS
<1>1. Own
  BY DEF Init, Own, Lists, Fresh, Exclusive, Drawn, Added, NothingAdded
<1>2. PasswordIsReported /\ ReportIsInForce
  BY WorkerAssumption DEF Init, PasswordIsReported, ReportIsInForce, NothingAdded
<1> QED
  BY <1>1, <1>2 DEF RInv

\* Open transactions of others do not lose their names to a job that keeps its own.
LEMMA OthersKeepOwn ==
  ASSUME IInv, RInv, NEW w \in Workers,
         \A u \in Workers \ {w} : SameJob(u),
         Lists(w)', Fresh(w)',
         Open(w)' => /\ Added(w)' \cap Subscribed' = {}
                     /\ \A u \in Workers \ {w} : Open(u) => Added(w)' \cap Added(u) = {},
         \A u \in Workers \ {w} : Open(u) => Added(u) \cap Subscribed' = {}
  PROVE  Own'
<1> SUFFICES ASSUME NEW u \in Workers PROVE Lists(u)' /\ Fresh(u)' /\ Exclusive(u)'
  BY DEF Own
<1>1. \A v \in Workers \ {w} :
        /\ Added(v)' = Added(v) /\ Drawn(v)' = Drawn(v) /\ (Open(v)' <=> Open(v))
        /\ kind'[v] = kind[v] /\ generated'[v] = generated[v]
  BY DEF SameJob, Added, Drawn, Open
<1>2. CASE u = w
  BY <1>1, <1>2 DEF Exclusive
<1>3. CASE u # w
  <2>1. Lists(u)'
    BY <1>1, <1>3 DEF RInv, Own, Lists
  <2>1a. Fresh(u)'
    <3>1. Current(u)' = Current(u) /\ SameJob(u) /\ Added(u)' = Added(u)
      BY <1>1, <1>3 DEF SameJob, Current
    <3> QED
      BY <3>1 DEF RInv, Own, Fresh, SameJob
  <2>2. ASSUME NEW v \in Workers \ {u}, Open(u)', Open(v)' PROVE Added(u)' \cap Added(v)' = {}
    <3>1. CASE v = w
      BY <1>1, <1>3, <2>2, <3>1
    <3>2. CASE v # w
      BY <1>1, <1>3, <2>2, <3>2 DEF RInv, Own, Exclusive
    <3> QED
      BY <3>1, <3>2
  <2>3. Open(u)' => Added(u)' \cap Subscribed' = {}
    BY <1>1, <1>3
  <2> QED
    BY <2>1, <2>1a, <2>2, <2>3 DEF Exclusive
<1> QED
  BY <1>2, <1>3

\* A step inside a transaction that adds no name, or one that is free.
LEMMA LocalReports ==
  ASSUME IInv, RInv, NEW w \in Workers, UNCHANGED tables,
         \A u \in Workers \ {w} : SameJob(u),
         pc[w] # "reply", pc'[w] # "reply", Lists(w)', Fresh(w)',
         Open(w)' => /\ Added(w)' \cap Subscribed = {}
                     /\ \A u \in Workers \ {w} : Open(u) => Added(w)' \cap Added(u) = {}
  PROVE  RInv'
<1>1. Subscribed' = Subscribed /\ credential' = credential /\ changed' = changed
  BY DEF tables, Subscribed
<1>2. Own'
  <2>1. \A u \in Workers \ {w} : Open(u) => Added(u) \cap Subscribed' = {}
    BY <1>1 DEF RInv, Own, Exclusive
  <2> QED
    BY <1>1, <2>1, OthersKeepOwn
<1>3. PasswordIsReported'
  BY <1>1 DEF RInv, PasswordIsReported, SameJob
<1>4. ReportIsInForce'
  BY <1>1 DEF RInv, ReportIsInForce, SameJob
<1> QED
  BY <1>2, <1>3, <1>4 DEF RInv

\* A job ends unreported, begins, or goes on with what it has inserted.
LEMMA EndReports ==
  ASSUME IInv, RInv, NEW w \in Workers, End(w), UNCHANGED tables, pc[w] # "reply"
  PROVE  RInv'
<1>1. /\ pc'[w] = "idle" /\ kind'[w] = "none" /\ generated'[w] = {}
      /\ Added(w)' = {} /\ Drawn(w)' = {}
  BY DEF End, IInv, TypeOK, Added, Drawn, NothingAdded
<1>2. \A u \in Workers \ {w} : SameJob(u)
  BY DEF End, IInv, TypeOK, SameJob
<1>3. Lists(w)' /\ Fresh(w)'
  BY <1>1 DEF Lists, Fresh
<1> QED
  BY <1>1, <1>2, <1>3, LocalReports

LEMMA StartReports ==
  ASSUME IInv, RInv, NEW w \in Workers, NEW job \in {"create", "import", "batch"},
         NEW step \in {"find", "check", "insert", "commit"}, NEW rows, NEW doomed,
         Start(w, job, step, rows, {}, doomed), UNCHANGED tables,
         job = "import" => step \in {"find", "commit"},
         job = "batch" => \A i \in DOMAIN rows : ~rows[i].generate
  PROVE  RInv'
<1>1. /\ pc[w] = "idle" /\ pc'[w] = step /\ generated'[w] = {} /\ added' = added
      /\ kind'[w] = job /\ file'[w] = rows
  BY DEF Start, IInv, TypeOK
<1>2. Added(w) = {}
  BY <1>1 DEF IInv, JobInv, Shape
<1>3. Added(w)' = {} /\ Drawn(w)' = {}
  BY <1>1, <1>2 DEF Added, Drawn
<1>4. \A u \in Workers \ {w} : SameJob(u)
  BY DEF Start, IInv, TypeOK, SameJob
<1>5. Lists(w)' /\ Fresh(w)'
  BY <1>1, <1>3 DEF Lists, Fresh
<1> QED
  BY <1>1, <1>3, <1>4, <1>5, LocalReports

LEMMA GoOnReports ==
  ASSUME IInv, RInv, NEW w \in Workers, UNCHANGED tables,
         \A u \in Workers \ {w} : SameJob(u), pc[w] # "reply", pc'[w] # "reply",
         UNCHANGED <<kind, added, generated>>, Fresh(w)'
  PROVE  RInv'
<1>1. Added(w)' = Added(w) /\ Drawn(w)' = Drawn(w) /\ (Open(w)' => Open(w))
  BY DEF Added, Drawn, Open
<1>2. Lists(w)'
  BY <1>1 DEF RInv, Own, Lists
<1> QED
  BY <1>1, <1>2, LocalReports DEF RInv, Own, Exclusive

LEMMA RefuseReports ==
  ASSUME IInv, RInv, NEW w \in Workers, Refuse(w), UNCHANGED tables, pc[w] # "reply"
  PROVE  RInv'
<1>1. CASE kind[w] # "import"
  BY <1>1, EndReports DEF Refuse
<1>2. CASE kind[w] = "import"
  <2>1. UNCHANGED <<kind, added, generated>> /\ pc'[w] # "reply"
    BY <1>2 DEF Refuse, NextRow, IInv, TypeOK
  <2>2. \A u \in Workers \ {w} : discard'[u] = discard[u]
    BY <1>2, Zenon DEF Refuse, IInv, TypeOK
  <2>3. \A u \in Workers \ {w} : SameJob(u)
    BY <1>2, <2>1, <2>2 DEF Refuse, NextRow, IInv, TypeOK, SameJob
  <2>4. Fresh(w)'
    BY <1>2, <2>1 DEF Fresh, Refuse, NextRow, IInv, TypeOK
  <2> QED
    BY <2>1, <2>3, <2>4, GoOnReports
<1> QED
  BY <1>1, <1>2

\* A creation has one row.
LEMMA OneRow ==
  ASSUME IInv, NEW w \in Workers, pc[w] \in {"find", "check", "insert"}, kind[w] = "create"
  PROVE  at[w] = Len(file[w])
<1>1. Len(file[w]) = 1
  BY DEF IInv, JobInv, Shape
<1>2. at[w] <= Len(file[w]) /\ at[w] \in Nat \ {0}
  BY DEF IInv, TypeOK, JobInv, Shape
<1>3. \A i \in Nat \ {0} : i <= 1 => i = 1
  OBVIOUS
<1> QED
  BY <1>1, <1>2, <1>3

LEMMA FindReports == ASSUME IInv, RInv, NEW w \in Workers, Find(w) PROVE RInv'
<1>1. pc[w] = "find" /\ UNCHANGED tables /\ kind[w] \in {"create", "import"}
  BY DEF Find, IInv, TypeOK, Kinds, JobInv, Shape
<1>2. CASE Refuse(w)
  BY <1>1, <1>2, RefuseReports
<1>3. CASE NextRow(w) /\ UNCHANGED <<added, generated, discard>>
  <2>1. kind[w] = "create" => at[w] = Len(file[w])
    BY <1>1, OneRow
  <2>2. pc'[w] \in {"find", "commit"} /\ (kind[w] = "create" => pc'[w] = "commit")
    BY <1>1, <1>3, <2>1 DEF NextRow, IInv, TypeOK
  <2>3. Fresh(w)'
    BY <1>1, <1>3, <2>2 DEF Fresh, NextRow
  <2>4. \A u \in Workers \ {w} : SameJob(u)
    BY <1>3 DEF NextRow, IInv, TypeOK, SameJob
  <2> QED
    BY <1>1, <1>3, <2>2, <2>3, <2>4, GoOnReports DEF NextRow
<1>4. CASE /\ Current(w).name # Blank /\ Current(w).name \notin Subscribed \cup Added(w)
           /\ pc' = [pc EXCEPT ![w] = "check"]
           /\ UNCHANGED <<kind, file, at, added, generated, discard>>
  <2>1. Current(w).name \in Names
    <3>1. Current(w) \in Row
      BY <1>1, InRange DEF Current
    <3> QED
      BY <1>4, <3>1 DEF Row
  <2>2. pc'[w] = "check" /\ Current(w)' = Current(w) /\ Added(w)' = Added(w)
    BY <1>4 DEF IInv, TypeOK, Current, Added
  <2>3. Fresh(w)'
    BY <1>1, <1>4, <2>1, <2>2 DEF RInv, Own, Fresh
  <2>4. \A u \in Workers \ {w} : SameJob(u)
    BY <1>4 DEF IInv, TypeOK, SameJob
  <2> QED
    BY <1>1, <1>4, <2>2, <2>3, <2>4, GoOnReports
<1> QED
  BY <1>2, <1>3, <1>4 DEF Find

LEMMA CheckReports == ASSUME IInv, RInv, NEW w \in Workers, Check(w) PROVE RInv'
<1>1. pc[w] = "check" /\ UNCHANGED tables /\ kind[w] \in {"create", "import"}
  BY DEF Check, IInv, TypeOK, Kinds, JobInv, Shape
<1>2. CASE Refuse(w)
  BY <1>1, <1>2, RefuseReports
<1>3. CASE ~Refuse(w)
  <2>1. file[w] \in Seq(Row) /\ at[w] \in DOMAIN file[w] /\ Current(w) \in Row
    BY <1>1, InRange DEF Current
  <2>2. PICK n \in Names \cup {Blank} :
          /\ Current(w).name # Blank => n = Current(w).name
          /\ file' = [file EXCEPT ![w] = [@ EXCEPT ![at[w]] = [Current(w) EXCEPT !.name = n]]]
          /\ pc' = [pc EXCEPT ![w] = "insert"]
          /\ UNCHANGED <<kind, at, added, generated, discard>>
    <3>1. Current(w).name \in Names \cup {Blank}
      BY <2>1 DEF Row
    <3> QED
      BY <1>3, <3>1 DEF Check
  <2>3. file'[w] = [file[w] EXCEPT ![at[w]] = [Current(w) EXCEPT !.name = n]]
    BY <2>2 DEF IInv, TypeOK
  <2>4. Current(w)'.name = n
    BY <2>1, <2>2, <2>3 DEF Current, Row
  <2>5. pc'[w] = "insert" /\ Added(w)' = Added(w)
    BY <2>2 DEF IInv, TypeOK, Added
  <2>6. Fresh(w)'
    BY <1>1, <2>2, <2>4, <2>5, NameAssumption DEF RInv, Own, Fresh
  <2>7. \A u \in Workers \ {w} : SameJob(u)
    BY <2>2 DEF IInv, TypeOK, SameJob
  <2> QED
    BY <1>1, <2>2, <2>5, <2>6, <2>7, GoOnReports
<1> QED
  BY <1>2, <1>3

\* The name inserted is no subscriber's, and nobody holds its index entry.
LEMMA InsertReports == ASSUME IInv, RInv, NEW w \in Workers, Insert(w) PROVE RInv'
<1>1. /\ pc[w] = "insert" /\ UNCHANGED tables
      /\ kind[w] \in {"create", "import", "batch"}
  BY DEF Insert, IInv, TypeOK, Kinds, JobInv, Shape
<1>2. CASE Refuse(w)
  BY <1>1, <1>2, RefuseReports
<1>3. CASE End(w)
  BY <1>1, <1>3, EndReports
<1>4. CASE ~Refuse(w) /\ ~End(w)
  <2> DEFINE n == Current(w).name
  <2>1. n \in Names /\ file[w] \in Seq(Row) /\ at[w] \in DOMAIN file[w]
    BY <1>1, InRange DEF IInv, JobInv, Shape
  <2>2. NextRow(w) /\ discard' = discard /\ ~Rejected(w) /\ Locks!Free(w, Entry(w, n))
    BY <1>4 DEF Insert
  <2>3. PICK how \in {"given", "generated"} :
          /\ added' = [added EXCEPT ![w][n] = how]
          /\ generated' = [generated EXCEPT ![w] = IF how = "generated"
                             THEN generated[w] \cup {n} ELSE generated[w]]
          /\ how = "generated" => Current(w).generate
    <3>1. CASE Current(w).generate
      BY <1>4, <3>1 DEF Insert
    <3>2. CASE ~Current(w).generate
      BY <1>4, <3>2 DEF Insert
    <3> QED
      BY <3>1, <3>2
  <2>4. Added(w)' = Added(w) \cup {n}
    BY <2>1, <2>3 DEF IInv, TypeOK, Added
  <2>5. /\ kind' = kind /\ file' = file
        /\ pc'[w] \in {"find", "insert", "commit"}
        /\ kind[w] = "import" => pc'[w] \in {"find", "commit"}
        /\ kind[w] = "create" => pc'[w] = "commit"
    <3>1. kind[w] = "create" => at[w] = Len(file[w])
      BY <1>1, OneRow
    <3> QED
      BY <2>2, <3>1 DEF NextRow, IInv, TypeOK
  <2>6. \A u \in Workers \ {w} : SameJob(u)
    <3>1. \A u \in Workers \ {w} : added'[u] = added[u] /\ generated'[u] = generated[u]
      BY <2>3 DEF IInv, TypeOK
    <3> QED
      BY <2>2, <3>1 DEF NextRow, IInv, TypeOK, SameJob
  <2>7. kind[w] # "batch" => n \notin Added(w)
    BY <1>1, <2>1 DEF RInv, Own, Fresh
  <2>8. kind[w] = "batch" => how = "given"
    BY <2>1, <2>3 DEF RInv, Own, Fresh, Current
  <2>9. Lists(w)'
    <3>1. generated[w] = Drawn(w)
      BY <1>1 DEF RInv, Own, Lists
    <3>2. generated'[w] = IF how = "generated" THEN generated[w] \cup {n} ELSE generated[w]
      BY <2>3 DEF IInv, TypeOK
    <3>3. kind[w] = "batch" => Drawn(w) = {}
      BY <3>1 DEF RInv, Own, Fresh
    <3>4. n \notin Drawn(w)
      BY <1>1, <2>7, <3>3 DEF Drawn, Added
    <3>5. Drawn(w)' = IF how = "generated" THEN Drawn(w) \cup {n} ELSE Drawn(w)
      BY <2>1, <2>3, <3>4 DEF Drawn, IInv, TypeOK
    <3> QED
      BY <3>1, <3>2, <3>5 DEF Lists
  <2>10. Fresh(w)'
    <3>1. kind[w] = "batch" => generated'[w] = {}
      BY <2>3, <2>8 DEF RInv, Own, Fresh, IInv, TypeOK
    <3> QED
      BY <2>5, <3>1 DEF RInv, Own, Fresh
  <2>11. ASSUME Open(w)'
         PROVE  /\ Added(w)' \cap Subscribed = {}
                /\ \A u \in Workers \ {w} : Open(u) => Added(w)' \cap Added(u) = {}
    <3>1. Open(w) /\ kind[w] # "batch"
      BY <1>1, <2>5, <2>11 DEF Open
    <3>2. n \notin Subscribed
      BY <2>2, <3>1 DEF Rejected
    <3>3. ASSUME NEW u \in Workers \ {w}, Open(u) PROVE n \notin Added(u)
      <4>1. Entry(u, n) = Entry(w, n)
        BY <3>1, <3>3 DEF Open, Entry
      <4>2. Entry(w, n) \notin Held[u]
        BY <2>2 DEF Locks!Free, Locks!Holders
      <4> QED
        BY <3>3, <4>1, <4>2 DEF Open, Held
    <3> QED
      BY <2>4, <3>1, <3>2, <3>3 DEF RInv, Own, Exclusive
  <2> QED
    BY <1>1, <2>5, <2>6, <2>9, <2>10, <2>11, LocalReports
<1> QED
  BY <1>2, <1>3, <1>4

LEMMA VictimReports == ASSUME IInv, RInv, NEW w \in Workers, Victim(w) PROVE RInv'
<1>1. Wanted[w] # {}
  BY DEF Victim, Locks!Deadlocked, Locks!Waits
<1>2. pc[w] = "insert"
  BY <1>1 DEF Wanted
<1> QED
  BY <1>2, RefuseReports DEF Victim

\* What a job publishes is what it lists, and none of it was anybody's.
LEMMA CommitReports == ASSUME IInv, RInv, NEW w \in Workers, Commit(w) PROVE RInv'
<1>1. CASE discard[w]
  BY <1>1, EndReports DEF Commit
<1>2. CASE ~discard[w]
  <2>1. /\ pc[w] = "commit" /\ pc' = [pc EXCEPT ![w] = "reply"]
        /\ kind' = kind /\ file' = file /\ at' = at /\ added' = added
        /\ discard' = discard /\ generated' = generated /\ changed' = changed
    BY <1>2 DEF Commit, Publish
  <2>2. /\ pc'[w] = "reply" /\ ~Open(w)' /\ Lists(w)' /\ Fresh(w)'
        /\ kind[w] # "password" /\ generated[w] = Drawn(w)
    <3>1. pc'[w] = "reply"
      BY <2>1 DEF IInv, TypeOK
    <3>2. Drawn(w)' = Drawn(w)
      BY <2>1 DEF Drawn
    <3>3. kind[w] # "password"
      BY <2>1 DEF IInv, JobInv, Shape
    <3> QED
      BY <2>1, <3>1, <3>2, <3>3 DEF Open, Lists, Fresh, RInv, Own
  <2>3. \A u \in Workers \ {w} : SameJob(u)
    BY <2>1 DEF IInv, TypeOK, SameJob
  <2>4. CASE kind[w] = "batch"
    <3>1. credential' = credential
      BY <1>2, <2>4 DEF Commit, Publish
    <3>2. Subscribed' = Subscribed
      BY <3>1 DEF Subscribed
    <3>3. Own'
      BY <2>2, <2>3, <3>2, OthersKeepOwn DEF RInv, Own, Exclusive
    <3>4. PasswordIsReported'
      BY <2>1, <2>3, <3>1 DEF RInv, PasswordIsReported, SameJob
    <3>5. generated'[w] = {}
      BY <2>1, <2>4 DEF RInv, Own, Fresh
    <3>6. ReportIsInForce'
      BY <2>1, <2>3, <3>1, <3>5 DEF RInv, ReportIsInForce, SameJob
    <3> QED
      BY <3>3, <3>4, <3>6 DEF RInv
  <2>5. CASE kind[w] # "batch"
    <3>1. credential' = [n \in Names |->
                           IF n \notin Added(w) THEN credential[n]
                           ELSE IF added[w][n] = "generated" THEN w ELSE "known"]
      BY <1>2, <2>5 DEF Commit, Publish
    <3>2. Subscribed' = Subscribed \cup Added(w)
      BY <3>1, WorkerAssumption DEF Subscribed, Added
    <3>3. Open(w)
      BY <2>1, <2>5 DEF Open
    <3>4. Own'
      <4>1. \A u \in Workers \ {w} : Open(u) => Added(u) \cap Subscribed' = {}
        BY <3>2, <3>3 DEF RInv, Own, Exclusive
      <4> QED
        BY <2>2, <2>3, <4>1, OthersKeepOwn
    <3>5. \A n \in Names : n \in Drawn(w) => n \in Added(w)
      BY DEF Drawn, Added
    <3>6. ASSUME NEW n \in Names, NEW u \in Workers, credential'[n] = u
          PROVE  pc'[u] = "reply" /\ n \in generated'[u]
      <4>1. CASE n \in Added(w)
        BY <2>1, <2>2, <3>1, <3>6, <4>1, WorkerAssumption DEF Drawn
      <4>2. CASE n \notin Added(w)
        BY <2>1, <2>3, <3>1, <3>6, <4>2 DEF RInv, PasswordIsReported, SameJob, IInv, TypeOK
      <4> QED
        BY <4>1, <4>2
    <3>7. ASSUME NEW u \in Workers, pc'[u] = "reply", NEW n \in generated'[u]
          PROVE  credential'[n] = u \/ n \in changed'
      <4>1. CASE u = w
        BY <2>1, <2>2, <3>1, <3>5, <3>7, <4>1 DEF Drawn
      <4>2. CASE u # w
        <5>1. pc[u] = "reply" /\ n \in generated[u] /\ n \in Names
          BY <2>1, <2>3, <3>7, <4>2 DEF SameJob, IInv, TypeOK
        <5>2. credential[n] = u \/ n \in changed
          BY <5>1 DEF RInv, ReportIsInForce
        <5>3. credential[n] = u => n \in Subscribed
          BY <5>1, WorkerAssumption DEF Subscribed
        <5>4. n \in Subscribed => n \notin Added(w)
          BY <3>3 DEF RInv, Own, Exclusive
        <5> QED
          BY <2>1, <3>1, <5>1, <5>2, <5>3, <5>4
      <4> QED
        BY <4>1, <4>2
    <3> QED
      BY <3>4, <3>6, <3>7 DEF RInv, PasswordIsReported, ReportIsInForce
  <2> QED
    BY <2>4, <2>5
<1> QED
  BY <1>1, <1>2

-----------------------------------------------------------------------------
LEMMA SetPasswordReports ==
  ASSUME IInv, RInv, NEW w \in Workers, NEW n \in Names, NEW generate \in BOOLEAN,
         SetPassword(w, n, generate)
  PROVE  RInv'
<1>1. /\ pc[w] = "idle" /\ kind' = [kind EXCEPT ![w] = "password"]
      /\ pc' = [pc EXCEPT ![w] = "reply"] /\ file' = [file EXCEPT ![w] = <<>>]
      /\ discard' = [discard EXCEPT ![w] = FALSE] /\ at' = at /\ added' = added
      /\ n \in Subscribed /\ changed' = changed \cup {n}
      /\ generated' = [generated EXCEPT ![w] = IF generate THEN {n} ELSE {}]
  BY DEF SetPassword, Start
<1>2. /\ credential' = [credential EXCEPT ![n] = IF generate THEN w ELSE "known"]
  BY DEF SetPassword
<1>3. Subscribed' = Subscribed
  BY <1>1, <1>2, WorkerAssumption DEF IInv, TypeOK, Subscribed
<1>4. \A u \in Workers \ {w} : SameJob(u)
  BY <1>1 DEF IInv, TypeOK, SameJob
<1>5. /\ kind'[w] = "password" /\ pc'[w] = "reply"
      /\ generated'[w] = IF generate THEN {n} ELSE {}
  BY <1>1 DEF IInv, TypeOK
<1>6. Own'
  <2>1. ~Open(w)' /\ Lists(w)' /\ Fresh(w)'
    BY <1>5 DEF Open, Lists, Fresh
  <2> QED
    BY <1>3, <1>4, <2>1, OthersKeepOwn DEF RInv, Own, Exclusive
<1>7. ASSUME NEW m \in Names, NEW u \in Workers, credential'[m] = u
      PROVE  pc'[u] = "reply" /\ m \in generated'[u]
  <2>1. CASE m = n
    BY <1>2, <1>5, <1>7, <2>1, WorkerAssumption DEF IInv, TypeOK
  <2>2. CASE m # n
    <3>1. credential[m] = u
      BY <1>2, <1>7, <2>2 DEF IInv, TypeOK
    <3>2. pc[u] = "reply" /\ m \in generated[u] /\ u # w
      BY <1>1, <3>1 DEF RInv, PasswordIsReported
    <3> QED
      BY <1>4, <3>2 DEF SameJob
  <2> QED
    BY <2>1, <2>2
<1>8. ASSUME NEW u \in Workers, pc'[u] = "reply", NEW m \in generated'[u]
      PROVE  credential'[m] = u \/ m \in changed'
  <2>1. CASE u = w
    BY <1>1, <1>5, <1>8, <2>1
  <2>2. CASE u # w
    <3>1. pc[u] = "reply" /\ m \in generated[u] /\ m \in Names
      BY <1>4, <1>8, <2>2 DEF SameJob, IInv, TypeOK
    <3> QED
      BY <1>1, <1>2, <3>1 DEF RInv, ReportIsInForce, IInv, TypeOK
  <2> QED
    BY <2>1, <2>2
<1> QED
  BY <1>6, <1>7, <1>8 DEF RInv, PasswordIsReported, ReportIsInForce

LEMMA SettleReports ==
  ASSUME IInv, RInv, NEW w \in Workers, NEW told, Settle(w, told)
  PROVE  RInv'
<1>1. /\ End(w)
      /\ changed' = {n \in changed : \E u \in Workers \ {w} : n \in generated[u]}
      /\ credential' = [n \in Names |-> IF credential[n] # w THEN credential[n]
                                        ELSE IF n \in told THEN "known" ELSE "lost"]
  BY DEF Settle
<1>2. Subscribed' = Subscribed
  BY <1>1, WorkerAssumption DEF Subscribed
<1>3. /\ pc'[w] = "idle" /\ kind'[w] = "none" /\ generated'[w] = {}
      /\ Added(w)' = {} /\ Drawn(w)' = {}
  BY <1>1 DEF End, IInv, TypeOK, Added, Drawn, NothingAdded
<1>4. \A u \in Workers \ {w} : SameJob(u)
  BY <1>1 DEF End, IInv, TypeOK, SameJob
<1>5. Own'
  <2>1. Lists(w)' /\ Fresh(w)'
    BY <1>3 DEF Lists, Fresh
  <2> QED
    BY <1>2, <1>3, <1>4, <2>1, OthersKeepOwn DEF RInv, Own, Exclusive
<1>6. ASSUME NEW n \in Names, NEW u \in Workers, credential'[n] = u
      PROVE  pc'[u] = "reply" /\ n \in generated'[u]
  <2>1. credential[n] = u /\ u # w
    BY <1>1, <1>6, WorkerAssumption
  <2> QED
    BY <1>4, <2>1 DEF RInv, PasswordIsReported, SameJob
<1>7. ASSUME NEW u \in Workers, pc'[u] = "reply", NEW n \in generated'[u]
      PROVE  credential'[n] = u \/ n \in changed'
  <2>1. u # w
    BY <1>3, <1>7
  <2>2. pc[u] = "reply" /\ n \in generated[u] /\ n \in Names
    BY <1>4, <1>7, <2>1 DEF SameJob, IInv, TypeOK
  <2> QED
    BY <1>1, <2>1, <2>2 DEF RInv, ReportIsInForce
<1> QED
  BY <1>5, <1>6, <1>7 DEF RInv, PasswordIsReported, ReportIsInForce

LEMMA BeginReports ==
  ASSUME IInv, RInv, NEW w \in Workers,
         \/ \E row \in Requests : BeginCreate(w, row)
         \/ \E rows \in Files, dry_run \in BOOLEAN : BeginImport(w, rows, dry_run)
         \/ \E size \in 1 .. BatchSize :
              \E chosen \in [1 .. size -> Names] : BeginBatch(w, chosen)
  PROVE  RInv'
<1>1. CASE \E row \in Requests : BeginCreate(w, row)
  BY <1>1, StartReports DEF BeginCreate
<1>2. CASE \E rows \in Files, dry_run \in BOOLEAN : BeginImport(w, rows, dry_run)
  <2>1. PICK rows \in Files, dry_run \in BOOLEAN : BeginImport(w, rows, dry_run)
    BY <1>2
  <2>2. CASE rows = <<>>
    BY <2>1, <2>2, StartReports DEF BeginImport
  <2>3. CASE rows # <<>>
    BY <2>1, <2>3, StartReports DEF BeginImport
  <2> QED
    BY <2>2, <2>3
<1>3. CASE \E size \in 1 .. BatchSize :
             \E chosen \in [1 .. size -> Names] : BeginBatch(w, chosen)
  <2>1. PICK size \in 1 .. BatchSize :
          \E chosen \in [1 .. size -> Names] : BeginBatch(w, chosen)
    BY <1>3
  <2>2. PICK chosen \in [1 .. size -> Names] : BeginBatch(w, chosen)
    BY <2>1
  <2> DEFINE rows == [i \in DOMAIN chosen |->
                        [name |-> chosen[i], flaw |-> "none", generate |-> FALSE]]
  <2>3. \A i \in DOMAIN rows : ~rows[i].generate
    OBVIOUS
  <2>4. Start(w, "batch", "insert", rows, {}, FALSE) /\ UNCHANGED tables
    BY <2>2 DEF BeginBatch
  <2> HIDE DEF rows
  <2> QED
    BY <2>3, <2>4, StartReports
<1> QED
  BY <1>1, <1>2, <1>3

LEMMA NextRInv == IInv /\ RInv /\ [Next]_vars => RInv'
<1> SUFFICES ASSUME IInv, RInv, [Next]_vars PROVE RInv'
  OBVIOUS
<1>1. CASE UNCHANGED vars
  <2>1. UNCHANGED <<credential, changed, kind, pc, file, at, added, generated>>
    BY <1>1 DEF vars, tables, jobs
  <2>2. Own'
    BY <2>1 DEF RInv, Own, Lists, Drawn, Fresh, Current, Added, Exclusive, Open, Subscribed
  <2>3. PasswordIsReported' /\ ReportIsInForce'
    BY <2>1 DEF RInv, PasswordIsReported, ReportIsInForce
  <2> QED
    BY <2>2, <2>3 DEF RInv
<1>2. CASE Next
  <2>1. PICK w \in Workers :
          \/ \E row \in Requests : BeginCreate(w, row)
          \/ \E rows \in Files, dry_run \in BOOLEAN : BeginImport(w, rows, dry_run)
          \/ \E size \in 1 .. BatchSize :
               \E chosen \in [1 .. size -> Names] : BeginBatch(w, chosen)
          \/ \E n \in Names, generate \in BOOLEAN : SetPassword(w, n, generate)
          \/ Work(w) \/ Victim(w) \/ OutputFails(w) \/ Kill(w)
    BY <1>2 DEF Next
  <2>2. CASE Reply(w) \/ OutputFails(w) \/ Kill(w)
    BY <2>2, SettleReports DEF Reply, OutputFails, Kill
  <2> QED
    BY <2>1, <2>2, BeginReports, SetPasswordReports, FindReports, CheckReports,
       InsertReports, CommitReports, VictimReports DEF Work
<1> QED
  BY <1>1, <1>2

\* A generated password in force that nobody knows yet is on the list of the job
\* that drew it: import_subscribers_csv and create_subscriber leave no generated
\* password out, whatever rows are refused and whoever else is at work.
THEOREM PasswordIsReportedHolds == Spec => []PasswordIsReported
<1>1. IInv /\ RInv => PasswordIsReported
  BY DEF RInv
<1> QED
  BY InitIInv, NextIInv, InitRInv, NextRInv, <1>1, PTL DEF Spec

\* What a job reports is in force, unless change_password has replaced it since.
THEOREM ReportIsInForceHolds == Spec => []ReportIsInForce
<1>1. IInv /\ RInv => ReportIsInForce
  BY DEF RInv
<1> QED
  BY InitIInv, NextIInv, InitRInv, NextRInv, <1>1, PTL DEF Spec
=============================================================================
