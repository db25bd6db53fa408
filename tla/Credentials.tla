---------------------------- MODULE Credentials -----------------------------
(***************************************************************************)
(* RADIUS usernames and passwords of one tenant: create_subscriber behind  *)
(* the API and behind the import_subscribers_csv command,                  *)
(* generate_voucher_batch, and change_password.                            *)
(*                                                                         *)
(* Subscribers and vouchers are two tables, each with its unique index; a  *)
(* name is kept out of both by a query and inserted later.  A job is one   *)
(* transaction at READ COMMITTED that handles the rows of its file in turn,*)
(* commits, and then reports the passwords it generated, of which it has   *)
(* kept a list.  An INSERT waits while another transaction holds the same  *)
(* key of the same index.                                                  *)
(***************************************************************************)
EXTENDS Functions, Naturals, Sequences

CONSTANTS
  Names,     \* usernames
  Blank,     \* an empty username field
  Workers,   \* request threads and command processes
  Requests,  \* the creation requests at hand, as rows
  Files,     \* the CSV files at hand, as sequences of rows
  BatchSize  \* bound: vouchers of a batch

\* What is wrong with a row: it has no display name, an unknown package, status
\* or the like, a package that is disabled, or a date that cannot be read.
Flaws == {"none", "unnamed", "wrong", "disabled", "undated"}

\* generate: the password field is empty.
Row == [name : Names \cup {Blank}, flaw : Flaws, generate : BOOLEAN]

ASSUME NameAssumption == Blank \notin Names
\* The serializer and the view find everything that may be wrong with a request
\* but a disabled package.
ASSUME RequestAssumption == Requests \subseteq {row \in Row : row.flaw \in {"none", "disabled"}}
ASSUME FileAssumption == Files \subseteq Seq(Row)
ASSUME BatchAssumption == BatchSize \in Nat
ASSUME WorkerAssumption == Workers \cap {"none", "known", "lost"} = {}

Kinds == {"none", "create", "import", "batch", "password"}
Steps == {"idle", "find", "check", "insert", "commit", "reply"}

VARIABLES
  credential,  \* the password in force of a name: "none" without a subscriber,
               \* "known" to the operator, "lost" with a job that could not report
               \* it, or the worker that drew it and has still to do so
  voucher,     \* names of the vouchers
  kind, pc,    \* the job of each worker and its next statement
  file, at,    \* the rows of the job and the one in turn
  added,       \* rows inserted and not committed: "given" or "generated" password
  generated,   \* the list of each worker: names whose password it has drawn
  discard,     \* the transaction will be rolled back: a dry run, or an error
  raced,       \* history: names committed while a job of the other table,
               \* which had found them free, was under way
  changed      \* history: names whose password change_password has set since a
               \* job listed them that has still to report

tables == <<credential, voucher, raced, changed>>
jobs == <<kind, pc, file, at, added, generated, discard>>
vars == <<tables, jobs>>

NothingAdded == [n \in Names |-> "none"]

Init ==
  /\ credential = NothingAdded
  /\ voucher = {}
  /\ kind = [w \in Workers |-> "none"]
  /\ pc = [w \in Workers |-> "idle"]
  /\ file = [w \in Workers |-> <<>>]
  /\ at = [w \in Workers |-> 1]
  /\ added = [w \in Workers |-> NothingAdded]
  /\ generated = [w \in Workers |-> {}]
  /\ discard = [w \in Workers |-> FALSE]
  /\ raced = {}
  /\ changed = {}

-----------------------------------------------------------------------------
Subscribed == {n \in Names : credential[n] # "none"}

\* Mutant of Taken: the vouchers are forgotten.
TakenBySubscriber == Subscribed

\* _radius_username_taken
Taken == Subscribed \cup voucher

Current(w) == file[w][at[w]]
Added(w) == {n \in Names : added[w][n] # "none"}
Listed(w) == {file[w][i].name : i \in DOMAIN file[w]}

\* Names a job has found free in the other table and may still commit.
Claims(w) ==
  IF kind[w] = "batch"
    THEN Listed(w)
    ELSE Added(w) \cup IF pc[w] = "insert" THEN {Current(w).name} ELSE {}

Rivals(w) == {u \in Workers \ {w} : (kind[u] = "batch") # (kind[w] = "batch")}

\* Unique index entries of uncommitted rows act as locks.
Entry(w, n) == <<IF kind[w] = "batch" THEN "Voucher" ELSE "SubscriberCredential", n>>
Held == [w \in Workers |-> IF pc[w] = "reply" THEN {} ELSE {Entry(w, n) : n \in Added(w)}]
Wanted == [w \in Workers |->
             IF pc[w] = "insert" THEN {Entry(w, Current(w).name)} ELSE {}]
Locks == INSTANCE RowLocks WITH Processes <- Workers, held <- Held

Start(w, job, step, rows, drawn, doomed) ==
  /\ pc[w] = "idle"
  /\ kind' = [kind EXCEPT ![w] = job]
  /\ pc' = [pc EXCEPT ![w] = step]
  /\ file' = [file EXCEPT ![w] = rows]
  /\ generated' = [generated EXCEPT ![w] = drawn]
  /\ discard' = [discard EXCEPT ![w] = doomed]
  /\ UNCHANGED <<at, added>>

\* The transaction is over, or was rolled back; the worker is free.
End(w) ==
  /\ kind' = [kind EXCEPT ![w] = "none"]
  /\ pc' = [pc EXCEPT ![w] = "idle"]
  /\ file' = [file EXCEPT ![w] = <<>>]
  /\ at' = [at EXCEPT ![w] = 1]
  /\ added' = [added EXCEPT ![w] = NothingAdded]
  /\ generated' = [generated EXCEPT ![w] = {}]
  /\ discard' = [discard EXCEPT ![w] = FALSE]

NextRow(w) ==
  /\ at' = [at EXCEPT ![w] = @ + 1]
  /\ pc' = [pc EXCEPT ![w] = IF at[w] = Len(file[w]) THEN "commit"
                             ELSE IF kind[w] = "import" THEN "find" ELSE "insert"]
  /\ UNCHANGED <<kind, file>>

\* Mutant of Refuse: the import reports the row and commits the others.
RefuseQuietly(w) ==
  IF kind[w] = "import"
    THEN NextRow(w) /\ UNCHANGED <<added, generated, discard>>
    ELSE End(w)

\* Mutant of Refuse: a refused row is tried again.
RefuseRetries(w) == Current(w).name # Blank /\ UNCHANGED jobs

\* An import notes the error, keeps its earlier rows (create_subscriber is a
\* savepoint of it) and goes on; elsewhere the transaction is rolled back.
Refuse(w) ==
  IF kind[w] = "import"
    THEN /\ NextRow(w)
         /\ discard' = [discard EXCEPT ![w] = TRUE]
         /\ UNCHANGED <<added, generated>>
    ELSE End(w)

-----------------------------------------------------------------------------
BeginCreate(w, row) ==
  /\ Start(w, "create", "check", <<row>>, {}, FALSE)
  /\ UNCHANGED tables

BeginImport(w, rows, dry_run) ==
  /\ Start(w, "import", IF rows = <<>> THEN "commit" ELSE "find", rows, {}, dry_run)
  /\ UNCHANGED tables

\* generate_voucher_batch reads the names in use once and draws others.
BeginBatch(w, chosen) ==
  /\ chosen # <<>>
  /\ IsInjective(chosen)
  /\ \A i \in DOMAIN chosen : chosen[i] \notin Taken
  /\ Start(w, "batch", "insert",
           [i \in DOMAIN chosen |-> [name |-> chosen[i], flaw |-> "none", generate |-> FALSE]],
           {}, FALSE)
  /\ UNCHANGED tables

\* The import skips a named row whose username has a subscriber or stood in an
\* earlier row, whatever else the row says.
Find(w) ==
  LET row == Current(w)
      missing == row.name = Blank \/ row.flaw = "unnamed"
      repeated == row.name \in Subscribed \cup Added(w)
  IN
  /\ pc[w] = "find"
  /\ \/ missing /\ Refuse(w)
     \/ /\ ~missing /\ repeated
        /\ NextRow(w)
        /\ UNCHANGED <<added, generated, discard>>
     \/ ~missing /\ ~repeated /\ row.flaw = "wrong" /\ Refuse(w)
     \/ /\ ~missing /\ ~repeated /\ row.flaw # "wrong"
        /\ pc' = [pc EXCEPT ![w] = "check"]
        /\ UNCHANGED <<kind, file, at, added, generated, discard>>
  /\ UNCHANGED tables

\* create_subscriber up to the INSERT; the rest of the row is in order.  A
\* blank username is replaced by one drawn until it is free.
Check(w) ==
  LET row == Current(w) IN
  /\ pc[w] = "check"
  /\ IF row.name \in Taken \/ Names = Taken
       THEN Refuse(w)
       ELSE \E n \in IF row.name = Blank THEN Names \ Taken ELSE {row.name} :
              /\ file' = [file EXCEPT ![w] = [@ EXCEPT ![at[w]] = [row EXCEPT !.name = n]]]
              /\ pc' = [pc EXCEPT ![w] = "insert"]
              /\ UNCHANGED <<kind, at, added, generated, discard>>
  /\ UNCHANGED tables

\* The row is refused by the index, or by assign_package when it is in.
Rejected(w) ==
  \/ Current(w).name \in (IF kind[w] = "batch" THEN voucher ELSE Subscribed)
  \/ Current(w).flaw = "disabled"

\* Mutant of Insert: the list is begun anew with every row.
InsertListsLast(w) ==
  LET row == Current(w) IN
  /\ pc[w] = "insert"
  /\ Locks!Free(w, Entry(w, row.name))
  /\ \/ Rejected(w) /\ Refuse(w)
     \/ /\ ~Rejected(w) /\ row.flaw # "undated"
        /\ added' = [added EXCEPT ![w][row.name] = IF row.generate THEN "generated" ELSE "given"]
        /\ generated' = [generated EXCEPT ![w] = IF row.generate THEN {row.name} ELSE {}]
        /\ NextRow(w)
        /\ UNCHANGED discard
  /\ UNCHANGED tables

\* The unique index of the job's own table has the last word, and then
\* assign_package.  A date that cannot be read ends the import at once: it is
\* parsed after the INSERT and outside the try.
Insert(w) ==
  LET row == Current(w) IN
  /\ pc[w] = "insert"
  /\ Locks!Free(w, Entry(w, row.name))
  /\ \/ Rejected(w) /\ Refuse(w)
     \/ ~Rejected(w) /\ row.flaw = "undated" /\ End(w)
     \/ /\ ~Rejected(w) /\ row.flaw # "undated"
        /\ added' = [added EXCEPT ![w][row.name] = IF row.generate THEN "generated" ELSE "given"]
        /\ generated' = [generated EXCEPT ![w] = IF row.generate THEN @ \cup {row.name} ELSE @]
        /\ NextRow(w)
        /\ UNCHANGED discard
  /\ UNCHANGED tables

\* PostgreSQL aborts a statement of a cycle.  The import counts it as one more
\* invalid row; a batch ends with an error.
Victim(w) ==
  /\ Locks!Deadlocked(w, Wanted)
  /\ Refuse(w)
  /\ UNCHANGED tables

\* The rows of w become visible.
Publish(w) ==
  /\ pc' = [pc EXCEPT ![w] = "reply"]
  /\ IF kind[w] = "batch"
       THEN voucher' = voucher \cup Added(w) /\ UNCHANGED credential
       ELSE /\ credential' = [n \in Names |->
                 IF n \notin Added(w) THEN credential[n]
                 ELSE IF added[w][n] = "generated" THEN w ELSE "known"]
            /\ UNCHANGED voucher
  /\ raced' = raced \cup {n \in Added(w) : \E u \in Rivals(w) : n \in Claims(u)}
  /\ UNCHANGED <<kind, file, at, added, generated, discard, changed>>

\* Mutant of Commit: the list is written after a dry run too.
CommitListsDryRun(w) ==
  /\ pc[w] = "commit"
  /\ IF discard[w]
       THEN /\ pc' = [pc EXCEPT ![w] = "reply"]
            /\ UNCHANGED <<tables, kind, file, at, added, generated, discard>>
       ELSE Publish(w)

\* A dry run and an import with errors are rolled back and report nothing.
Commit(w) ==
  /\ pc[w] = "commit"
  /\ IF discard[w] THEN End(w) /\ UNCHANGED tables ELSE Publish(w)

\* change_password: one locked row, one transaction.
SetPassword(w, n, generate) ==
  /\ n \in Subscribed
  /\ Start(w, "password", "reply", <<>>, IF generate THEN {n} ELSE {}, FALSE)
  /\ credential' = [credential EXCEPT ![n] = IF generate THEN w ELSE "known"]
  /\ changed' = changed \cup {n}
  /\ UNCHANGED <<voucher, raced>>

\* The job ends and tells some of the passwords it has drawn.
Settle(w, told) ==
  /\ credential' = [n \in Names |-> IF credential[n] # w THEN credential[n]
                                    ELSE IF n \in told THEN "known" ELSE "lost"]
  /\ changed' = {n \in changed : \E u \in Workers \ {w} : n \in generated[u]}
  /\ End(w)
  /\ UNCHANGED <<voucher, raced>>

\* The response, or the file of generated credentials.
Reply(w) == pc[w] = "reply" /\ Settle(w, generated[w])

\* The import has committed and cannot write its file.
OutputFails(w) ==
  /\ pc[w] = "reply"
  /\ kind[w] = "import"
  /\ generated[w] # {}
  /\ Settle(w, {})

\* The process dies (external): its open transaction is rolled back.
Kill(w) == pc[w] # "idle" /\ Settle(w, {})

-----------------------------------------------------------------------------
Work(w) == Find(w) \/ Check(w) \/ Insert(w) \/ Commit(w) \/ Reply(w)

Next == \E w \in Workers :
  \/ \E row \in Requests : BeginCreate(w, row)
  \/ \E rows \in Files, dry_run \in BOOLEAN : BeginImport(w, rows, dry_run)
  \/ \E size \in 1 .. BatchSize : \E chosen \in [1 .. size -> Names] : BeginBatch(w, chosen)
  \/ \E n \in Names, generate \in BOOLEAN : SetPassword(w, n, generate)
  \/ Work(w) \/ Victim(w) \/ OutputFails(w) \/ Kill(w)

Spec == Init /\ [][Next]_vars

\* A job runs on; a waiting INSERT gets the key in its turn although others keep
\* coming, and PostgreSQL breaks every cycle of waiting transactions.
FairSpec == Spec /\ \A w \in Workers : SF_vars(Work(w)) /\ WF_vars(Victim(w))

-----------------------------------------------------------------------------
TypeOK ==
  /\ credential \in [Names -> {"none", "known", "lost"} \cup Workers]
  /\ voucher \subseteq Names
  /\ kind \in [Workers -> Kinds]
  /\ pc \in [Workers -> Steps]
  /\ file \in [Workers -> Seq(Row)]
  /\ at \in [Workers -> Nat \ {0}]
  /\ added \in [Workers -> [Names -> {"none", "given", "generated"}]]
  /\ generated \in [Workers -> SUBSET Names]
  /\ discard \in [Workers -> BOOLEAN]
  /\ raced \subseteq Names
  /\ changed \subseteq Names

\* docs/phase-5: subscriber and voucher usernames do not collide.  No index
\* spans the two tables: a name is in both only if a subscriber's and a batch's
\* transaction overlapped, each having found it free before the other committed.
DisjointUnlessRaced == Subscribed \cap voucher \subseteq raced

\* An import that commits leaves a subscriber for every row of its file, those
\* it skipped included, whatever other jobs did between its statements.
ImportIsComplete ==
  \A w \in Workers : kind[w] = "import" /\ pc[w] = "reply" => Listed(w) \subseteq Subscribed

\* A generated password that is in force and not yet known is on the list of the
\* job that drew it, which is about to report: however rows were skipped or
\* refused and whatever other jobs did, the list leaves no subscriber out.
PasswordIsReported ==
  \A n \in Names, w \in Workers :
    credential[n] = w => pc[w] = "reply" /\ n \in generated[w]

\* Conversely a job reports no password that is not in force, as that of a dry
\* run or of a row rolled back, unless change_password has replaced it meanwhile.
ReportIsInForce ==
  \A w \in Workers : pc[w] = "reply" =>
    \A n \in generated[w] : credential[n] = w \/ n \in changed

\* Every job ends, also when imports list the same names in opposite orders.
JobsEnd == \A w \in Workers : pc[w] # "idle" ~> pc[w] = "idle"
=============================================================================
