---------------------------- MODULE RoutersProofs ----------------------------
(***************************************************************************)
(* What holds of the clients file for every number of routers, addresses,  *)
(* requests and secrets.                                                   *)
(***************************************************************************)
EXTENDS Routers, TLAPS

Real(x) == x.state = "there" /\ x.address \in Addresses /\ x.secret \in 1 .. MaxSecrets

ToWrite(w) == job[w].step \in {"insert", "save", "save_secret", "delete"}

\* A rendered client has an address and a secret: so has every row that exists,
\* and every object that may be inserted or saved.
RealRows ==
  /\ \A r \in Routers : Exists(r) => Real(row[r])
  /\ \A w \in Workers :
       /\ job[w].step \in {"insert", "save"} => Real(job[w].copy)
       /\ ToWrite(w) => job[w].router \in Routers
       /\ At(w, "save_secret") => job[w].copy.secret \in 1 .. MaxSecrets

\* A request that is not behind holds the table, and so does the file unless it
\* is astray or a rendering is owed.
Fresh ==
  /\ \A w \in Workers : At(w, "replace") /\ ~behind[w] => job[w].content = Clients
  /\ FileIsTable

IInv == TypeOK /\ RealRows /\ Fresh

JobType == [step : {"idle", "insert", "save", "save_secret", "delete", "render", "replace"},
            router : Routers \cup {NoRouter}, copy : RowType, content : SUBSET ClientType]

\* What one query renders is well-formed.
LEMMA ClientsType == TypeOK /\ RealRows => Clients \subseteq ClientType
  BY DEF TypeOK, RealRows, Real, Clients, Client, ClientType, Exists, RowType

LEMMA InitIInv == Init => IInv
<1> SUFFICES ASSUME Init PROVE IInv
  OBVIOUS
<1>1. TypeOK
  <2>1. Absent \in RowType
    BY RouterAssumption DEF Absent, RowType
  <2>2. behind \in [Workers -> BOOLEAN]
    BY Zenon DEF Init
  <2>3. job \in [Workers -> JobType]
    BY <2>1 DEF Init, Idle, Job, JobType
  <2>4. astray \in BOOLEAN /\ missed \in BOOLEAN
    BY Zenon DEF Init
  <2>5. /\ row = [r \in Routers |-> Absent]
        /\ secrets = 0 /\ file = {} /\ loaded = {} /\ hash = NoHash
    BY Zenon DEF Init
  <2>6. row \in [Routers -> RowType] /\ secrets \in 0 .. MaxSecrets
    BY <2>1, <2>5, RouterAssumption
  <2> QED
    BY <2>2, <2>3, <2>4, <2>5, <2>6, Zenon DEF TypeOK, JobType
<1>2. RealRows
  BY DEF Init, RealRows, Exists, ToWrite, At, Absent, Idle, Job
<1>3. Clients = {}
  BY DEF Init, Clients, Exists, Absent
<1> QED
  BY <1>1, <1>2, <1>3 DEF Init, IInv, Fresh, FileIsTable, At, Idle, Job

-----------------------------------------------------------------------------
\* A request begins: the table and the file stay, the new request owes nothing.
LEMMA BeginKeeps ==
  ASSUME IInv, NEW w \in Workers, NEW r \in Routers, NEW copy \in RowType,
         NEW step \in {"insert", "save", "save_secret", "delete"},
         secrets' \in 0 .. MaxSecrets,
         step \in {"insert", "save"} => Real(copy),
         step = "save_secret" => copy.secret \in 1 .. MaxSecrets,
         Begin(w, r, step, copy)
  PROVE  IInv'
<1>1. job' = [job EXCEPT ![w] = [step |-> step, router |-> r, copy |-> copy, content |-> {}]]
  BY DEF Begin, Job
<1>2. TypeOK'
  BY <1>1 DEF IInv, TypeOK, Begin, radius
<1>3. RealRows'
  BY <1>1 DEF IInv, TypeOK, RealRows, Real, Begin, Exists, ToWrite, At
<1>4. Clients' = Clients
  BY DEF Begin, Clients, Exists
<1>5. Fresh'
  BY <1>1, <1>4 DEF IInv, TypeOK, Fresh, FileIsTable, Owes, At, Begin
<1> QED
  BY <1>2, <1>3, <1>5 DEF IInv

\* A router is written: everyone who has rendered is behind, and one more
\* rendering is owed.
LEMMA WriteKeeps ==
  ASSUME IInv, NEW w \in Workers, NEW x \in RowType,
         x.state = "there" => Real(x),
         ToWrite(w), Write(w, x)
  PROVE  IInv'
<1>1. job' = [job EXCEPT ![w] = [step |-> "render", router |-> NoRouter,
                                 copy |-> Absent, content |-> {}]]
  BY DEF Write, Job
<1>2. Absent \in RowType
  BY RouterAssumption DEF Absent, RowType
<1>2a. behind' \in [Workers -> BOOLEAN]
  BY Zenon DEF Write, At
<1>3. TypeOK'
  <2>1. row' \in [Routers -> RowType]
    BY DEF IInv, TypeOK, Write
  <2>2. job' \in [Workers -> JobType]
    BY <1>1, <1>2 DEF IInv, TypeOK, JobType
  <2>3. UNCHANGED <<secrets, file, loaded, hash, missed, astray>>
    BY DEF Write, radius
  <2> QED
    BY <1>2a, <2>1, <2>2, <2>3 DEF IInv, TypeOK, JobType
<1>4. RealRows'
  BY <1>1 DEF IInv, TypeOK, RealRows, Real, Write, Exists, ToWrite, At
<1>5. At(w, "render")'
  BY <1>1 DEF IInv, TypeOK, At
<1>6. ASSUME NEW v \in Workers, At(v, "replace")'
      PROVE  behind'[v]
  <2>1. At(v, "replace")
    BY <1>1, <1>6 DEF IInv, TypeOK, At
  <2> QED
    BY <2>1, Zenon DEF Write
<1>7. Fresh'
  BY <1>5, <1>6 DEF Fresh, FileIsTable, Owes
<1> QED
  BY <1>3, <1>4, <1>7 DEF IInv

\* A request ends without having changed a router; if it owed a rendering the
\* file goes astray.
LEMMA EndKeeps ==
  ASSUME IInv, NEW w \in Workers, Finish(w),
         astray' = (astray \/ Owes(w)),
         UNCHANGED <<row, secrets, file, radius, behind>>
  PROVE  IInv'
<1>1. job' = [job EXCEPT ![w] = [step |-> "idle", router |-> NoRouter,
                                 copy |-> Absent, content |-> {}]]
  BY DEF Finish, Idle, Job
<1>2. Absent \in RowType
  BY RouterAssumption DEF Absent, RowType
<1>3. TypeOK'
  BY <1>1, <1>2 DEF IInv, TypeOK, radius
<1>4. RealRows'
  BY <1>1 DEF IInv, TypeOK, RealRows, Real, Exists, ToWrite, At
<1>5. Clients' = Clients
  BY DEF Clients, Exists
<1>6. Fresh'
  BY <1>1, <1>5 DEF IInv, TypeOK, Fresh, FileIsTable, Owes, At
<1> QED
  BY <1>3, <1>4, <1>6 DEF IInv

\* The command owes a rendering.
LEMMA RenderCommandKeeps ==
  ASSUME IInv, NEW w \in Workers, RenderCommand(w)
  PROVE  IInv'
<1>1. job' = [job EXCEPT ![w] = [step |-> "render", router |-> NoRouter,
                                 copy |-> Absent, content |-> {}]]
  BY DEF RenderCommand, Job
<1>2. Absent \in RowType
  BY RouterAssumption DEF Absent, RowType
<1>3. TypeOK'
  BY <1>1, <1>2 DEF IInv, TypeOK, RenderCommand, radius
<1>4. RealRows'
  BY <1>1 DEF IInv, TypeOK, RealRows, Real, RenderCommand, Exists, ToWrite, At
<1>5. Clients' = Clients
  BY DEF RenderCommand, Clients, Exists
<1>6. Fresh'
  BY <1>1, <1>5 DEF IInv, TypeOK, Fresh, FileIsTable, RenderCommand, Owes, At
<1> QED
  BY <1>3, <1>4, <1>6 DEF IInv

\* The table is rendered as it is.
LEMMA RenderKeeps ==
  ASSUME IInv, NEW w \in Workers, Render(w)
  PROVE  IInv'
<1>1. job' = [job EXCEPT ![w] = [step |-> "replace", router |-> NoRouter,
                                 copy |-> Absent, content |-> Clients]]
  BY DEF Render, Job
<1>2. Absent \in RowType /\ Clients \in SUBSET ClientType
  BY RouterAssumption, ClientsType DEF Absent, RowType, IInv
<1>3. TypeOK'
  BY <1>1, <1>2 DEF IInv, TypeOK, Render, radius
<1>4. RealRows'
  BY <1>1 DEF IInv, TypeOK, RealRows, Real, Render, Exists, ToWrite, At
<1>5. Clients' = Clients
  BY DEF Render, Clients, Exists
<1>6. At(w, "replace")' /\ job'[w].content = Clients
  BY <1>1 DEF IInv, TypeOK, At
<1>7. ASSUME NEW v \in Workers, v # w, At(v, "replace")', ~behind'[v]
      PROVE  job'[v].content = Clients
  BY <1>1, <1>7 DEF IInv, TypeOK, Fresh, Render, At
<1>8. Fresh'
  BY <1>5, <1>6, <1>7 DEF Fresh, FileIsTable, Owes
<1> QED
  BY <1>3, <1>4, <1>8 DEF IInv

\* The file becomes the table unless the request is behind.
LEMMA ReplaceKeeps ==
  ASSUME IInv, NEW w \in Workers, ReplaceFile(w)
  PROVE  IInv'
<1>1. job' = [job EXCEPT ![w] = [step |-> "idle", router |-> NoRouter,
                                 copy |-> Absent, content |-> {}]]
  BY DEF ReplaceFile, Finish, Idle, Job
<1>2. Absent \in RowType
  BY RouterAssumption DEF Absent, RowType
<1>3. TypeOK'
  BY <1>1, <1>2 DEF IInv, TypeOK, ReplaceFile, radius
<1>4. RealRows'
  BY <1>1 DEF IInv, TypeOK, RealRows, Real, ReplaceFile, Exists, ToWrite, At
<1>5. Clients' = Clients
  BY DEF ReplaceFile, Clients, Exists
<1>6. \A v \in Workers : At(v, "replace")' /\ ~behind'[v] => job'[v].content = Clients
  BY <1>1 DEF IInv, TypeOK, Fresh, ReplaceFile, At
<1>7. ~astray' => file' = Clients
  BY DEF IInv, Fresh, ReplaceFile
<1>8. Fresh'
  BY <1>5, <1>6, <1>7 DEF Fresh, FileIsTable
<1> QED
  BY <1>3, <1>4, <1>8 DEF IInv

\* What FreeRADIUS and the watcher do concerns neither table nor file.
LEMMA RadiusKeeps ==
  ASSUME IInv, Look \/ WatcherRestarts \/ RadiusRestarts
  PROVE  IInv'
<1>1. UNCHANGED <<row, secrets, file, job, behind, astray>>
  BY DEF Look, WatcherRestarts, RadiusRestarts
<1>2. /\ loaded' \subseteq ClientType
      /\ hash' = NoHash \/ hash' \subseteq ClientType
  BY DEF Look, WatcherRestarts, RadiusRestarts, IInv, TypeOK
<1>3. missed' \in BOOLEAN
  BY Zenon DEF Look, WatcherRestarts, RadiusRestarts, IInv, TypeOK
<1>4. TypeOK'
  BY <1>1, <1>2, <1>3, Zenon DEF IInv, TypeOK
<1>5. RealRows' /\ Fresh'
  BY <1>1, Zenon DEF IInv, RealRows, Fresh, FileIsTable, Clients, Exists, ToWrite, Owes, At
<1> QED
  BY <1>4, <1>5 DEF IInv

LEMMA IdleKeeps == IInv /\ UNCHANGED vars => IInv'
<1> SUFFICES ASSUME IInv, UNCHANGED vars PROVE IInv'
  OBVIOUS
<1>1. UNCHANGED <<row, secrets, file, loaded, hash, job, behind, astray, missed>>
  BY DEF vars
<1>2. TypeOK'
  BY <1>1, Zenon DEF IInv, TypeOK
<1>3. RealRows' /\ Fresh'
  BY <1>1, Zenon DEF IInv, RealRows, Fresh, FileIsTable, Clients, Exists, ToWrite, Owes, At
<1> QED
  BY <1>2, <1>3 DEF IInv

-----------------------------------------------------------------------------
LEMMA NextIInv == IInv /\ [Next]_vars => IInv'
<1> SUFFICES ASSUME IInv, [Next]_vars PROVE IInv'
  OBVIOUS
<1> USE DEF Work
<1>1. ASSUME NEW w \in Workers, NEW r \in Routers, BeginProvision(w, r) PROVE IInv'
  <2>1. PICK a \in Addresses :
          Begin(w, r, "insert", [state |-> "there", address |-> a, secret |-> secrets',
                                 enabled |-> TRUE])
    BY <1>1 DEF BeginProvision
  <2>2. secrets' \in 1 .. MaxSecrets
    BY <1>1, RouterAssumption DEF BeginProvision, NewSecret, IInv, TypeOK
  <2> DEFINE new == [state |-> "there", address |-> a, secret |-> secrets', enabled |-> TRUE]
  <2>3. new \in RowType /\ Real(new)
    BY <2>2 DEF RowType, Real
  <2> QED
    BY <2>1, <2>2, <2>3, BeginKeeps
<1>2. ASSUME NEW w \in Workers, NEW r \in Routers, BeginUpdate(w, r) PROVE IInv'
  <2>1. PICK enabled \in BOOLEAN : Begin(w, r, "save", [row[r] EXCEPT !.enabled = enabled])
    BY <1>2 DEF BeginUpdate
  <2> DEFINE new == [row[r] EXCEPT !.enabled = enabled]
  <2>2. Real(row[r]) /\ row[r] \in RowType
    BY <1>2 DEF BeginUpdate, IInv, RealRows, TypeOK
  <2>3. new \in RowType /\ Real(new)
    BY <2>2 DEF RowType, Real
  <2>4. secrets' \in 0 .. MaxSecrets
    BY <1>2 DEF BeginUpdate, IInv, TypeOK
  <2> QED
    BY <2>1, <2>3, <2>4, BeginKeeps
<1>3. ASSUME NEW w \in Workers, NEW r \in Routers, BeginRotate(w, r) PROVE IInv'
  <2>1. PICK s \in 1 .. MaxSecrets : s = secrets'
    BY <1>3, RouterAssumption DEF BeginRotate, NewSecret, IInv, TypeOK
  <2> DEFINE new == [row[r] EXCEPT !.secret = s]
  <2>2. new \in RowType /\ new.secret = s
    <3>1. row[r] \in RowType
      BY DEF IInv, TypeOK
    <3> QED
      BY <3>1 DEF RowType
  <2>3. Begin(w, r, "save_secret", new)
    BY <1>3, <2>1, Zenon DEF BeginRotate
  <2>4. secrets' \in 0 .. MaxSecrets
    BY <2>1
  <2> HIDE DEF new
  <2> QED
    BY <2>2, <2>3, <2>4, BeginKeeps
<1>4. ASSUME NEW w \in Workers, NEW r \in Routers, BeginDelete(w, r) PROVE IInv'
  BY <1>4, BeginKeeps DEF BeginDelete, IInv, TypeOK
<1>5. ASSUME NEW w \in Workers, Refused(w), ~Owes(w) PROVE IInv'
  BY <1>5, EndKeeps DEF Refused, IInv, TypeOK
<1>6. ASSUME NEW w \in Workers, Insert(w) \/ Save(w) PROVE IInv'
  <2>1. Real(job[w].copy) /\ job[w].copy \in RowType /\ ToWrite(w) /\ ~Owes(w)
    BY <1>6 DEF Insert, Save, ToWrite, At, Owes, IInv, RealRows, TypeOK
  <2> QED
    BY <1>5, <1>6, <2>1, WriteKeeps DEF Insert, Save
<1>7. ASSUME NEW w \in Workers, SaveSecret(w) PROVE IInv'
  <2> DEFINE r == job[w].router
             new == [row[r] EXCEPT !.secret = job[w].copy.secret]
  <2>1. CASE Exists(r)
    <3>1. job[w].copy.secret \in 1 .. MaxSecrets /\ row[r] \in RowType /\ Real(row[r])
      BY <1>7, <2>1 DEF SaveSecret, Exists, ToWrite, At, IInv, RealRows, TypeOK
    <3>2. new \in RowType /\ Real(new)
      BY <3>1 DEF RowType, Real
    <3> QED
      BY <1>7, <2>1, <3>2, WriteKeeps DEF SaveSecret, ToWrite, At
  <2>2. CASE ~Exists(r)
    BY <1>5, <1>7, <2>2 DEF SaveSecret, At, Owes
  <2> QED
    BY <2>1, <2>2
<1>8. ASSUME NEW w \in Workers, Delete(w) PROVE IInv'
  <2>1. Deleted \in RowType /\ Deleted.state # "there"
    BY RouterAssumption DEF Deleted, RowType
  <2> QED
    BY <1>8, <2>1, WriteKeeps DEF Delete, ToWrite, At
<1>9. ASSUME NEW w \in Workers, Render(w) PROVE IInv'
  BY <1>9, RenderKeeps
<1>10. ASSUME NEW w \in Workers, ReplaceFile(w) PROVE IInv'
  BY <1>10, ReplaceKeeps
<1>11. ASSUME NEW w \in Workers, Kill(w) PROVE IInv'
  BY <1>11, EndKeeps DEF Kill
<1>12. ASSUME Look \/ WatcherRestarts \/ RadiusRestarts PROVE IInv'
  BY <1>12, RadiusKeeps
<1>13. ASSUME NEW w \in Workers, RenderCommand(w) PROVE IInv'
  BY <1>13, RenderCommandKeeps
<1>14. CASE UNCHANGED vars
  BY <1>14, IdleKeeps
<1> QED
  BY <1>1, <1>2, <1>3, <1>4, <1>6, <1>7, <1>8, <1>9, <1>10, <1>11, <1>12, <1>13, <1>14
     DEF Next, Request

LEMMA Inductive == Spec => []IInv
  BY InitIInv, NextIInv, PTL DEF Spec

\* Rows, file, memory of the watcher and requests are well-formed whatever is
\* interleaved: a rendered client has an address and a secret.
THEOREM TypeCorrect == Spec => []TypeOK
<1>1. IInv => TypeOK
  BY DEF IInv
<1> QED
  BY <1>1, Inductive, PTL

\* The clients file is the table unless a rendering is owed, came late or was lost
\* (render_radius_clients, os.replace).
THEOREM FileIsTableHolds == Spec => []FileIsTable
<1>1. IInv => FileIsTable
  BY DEF IInv, Fresh
<1> QED
  BY <1>1, Inductive, PTL

-----------------------------------------------------------------------------
(* Revival needs one more fact: nobody else handles the id of a router that *)
(* is about to be inserted.                                                 *)

NewIsOwn ==
  \A w \in Workers : At(w, "insert") =>
    /\ row[job[w].router] = Absent
    /\ \A v \in Workers \ {w} : job[v].router # job[w].router

Revives(r) ==
  row[r] # Absent /\ ~(Exists(r) /\ row[r].enabled) /\ (Exists(r) /\ row[r].enabled)'

\* A request is done with its router.
LEMMA OtherKeepsOwn ==
  ASSUME IInv, NewIsOwn, NEW w \in Workers, NEW j \in JobType,
         job' = [job EXCEPT ![w] = j], UNCHANGED row,
         j.step # "insert", j.router = NoRouter
  PROVE  NewIsOwn'
<1> SUFFICES ASSUME NEW v \in Workers, At(v, "insert")'
             PROVE  /\ row[job'[v].router] = Absent
                    /\ \A u \in Workers \ {v} : job'[u].router # job'[v].router
  BY DEF NewIsOwn
<1>1. v # w /\ job'[v] = job[v] /\ At(v, "insert") /\ job[v].router \in Routers
  BY DEF ToWrite, At, IInv, TypeOK, RealRows
<1> QED
  BY <1>1, RouterAssumption DEF NewIsOwn, IInv, TypeOK

LEMMA BeginKeepsOwn ==
  ASSUME IInv, NewIsOwn, NEW w \in Workers, NEW r \in Routers, NEW copy \in RowType,
         NEW step \in {"insert", "save", "save_secret", "delete"},
         IF step = "insert" THEN row[r] = Absent /\ \A v \in Workers : job[v].router # r
                            ELSE Exists(r),
         Begin(w, r, step, copy)
  PROVE  NewIsOwn'
<1>1. job' = [job EXCEPT ![w] = [step |-> step, router |-> r, copy |-> copy, content |-> {}]]
  BY DEF Begin, Job
<1>2. UNCHANGED row
  BY DEF Begin
<1>3. ASSUME NEW v \in Workers, v # w, At(v, "insert")
      PROVE  job[v].router # r
  BY <1>3 DEF NewIsOwn, Exists, Absent
<1> QED
  BY <1>1, <1>2, <1>3 DEF NewIsOwn, At, IInv, TypeOK

LEMMA WriteKeepsOwn ==
  ASSUME IInv, NewIsOwn, NEW w \in Workers, NEW x \in RowType, ToWrite(w), Write(w, x)
  PROVE  NewIsOwn'
<1>1. job' = [job EXCEPT ![w] = [step |-> "render", router |-> NoRouter,
                                 copy |-> Absent, content |-> {}]]
  BY DEF Write, Job
<1>2. row' = [row EXCEPT ![job[w].router] = x]
  BY DEF Write
<1> SUFFICES ASSUME NEW v \in Workers, At(v, "insert")'
             PROVE  /\ row'[job'[v].router] = Absent
                    /\ \A u \in Workers \ {v} : job'[u].router # job'[v].router
  BY DEF NewIsOwn
<1>3. v # w /\ job'[v] = job[v] /\ At(v, "insert") /\ job[v].router \in Routers
  BY <1>1 DEF ToWrite, At, IInv, TypeOK, RealRows
<1>4. job[w].router # job[v].router /\ row[job[v].router] = Absent
  BY <1>3 DEF NewIsOwn
<1>5. \A u \in Workers : job'[u].router \in {job[u].router, NoRouter}
  BY <1>1 DEF IInv, TypeOK
<1>6. row'[job[v].router] = Absent
  BY <1>2, <1>3, <1>4 DEF IInv, TypeOK
<1> QED
  BY <1>3, <1>5, <1>6, RouterAssumption DEF NewIsOwn

LEMMA NextOwn == IInv /\ NewIsOwn /\ [Next]_vars => NewIsOwn'
<1> SUFFICES ASSUME IInv, NewIsOwn, [Next]_vars PROVE NewIsOwn'
  OBVIOUS
<1>1. ASSUME NEW w \in Workers, NEW r \in Routers, BeginProvision(w, r) PROVE NewIsOwn'
  <2>1. PICK a \in Addresses :
          Begin(w, r, "insert", [state |-> "there", address |-> a, secret |-> secrets',
                                 enabled |-> TRUE])
    BY <1>1 DEF BeginProvision
  <2>2. secrets' \in 0 .. MaxSecrets
    BY <1>1, RouterAssumption DEF BeginProvision, NewSecret, IInv, TypeOK
  <2> DEFINE new == [state |-> "there", address |-> a, secret |-> secrets', enabled |-> TRUE]
  <2>3. new \in RowType
    BY <2>2 DEF RowType
  <2>4. row[r] = Absent /\ \A v \in Workers : job[v].router # r
    BY <1>1 DEF BeginProvision
  <2> HIDE DEF new
  <2> QED
    BY <2>1, <2>3, <2>4, BeginKeepsOwn DEF new
<1>2. ASSUME NEW w \in Workers, NEW r \in Routers, NEW step \in {"save", "save_secret", "delete"},
             NEW copy \in RowType, Exists(r), Begin(w, r, step, copy)
      PROVE  NewIsOwn'
  BY <1>2, BeginKeepsOwn
<1>3. ASSUME NEW w \in Workers, NEW r \in Routers, BeginUpdate(w, r) PROVE NewIsOwn'
  <2>1. PICK enabled \in BOOLEAN : Begin(w, r, "save", [row[r] EXCEPT !.enabled = enabled])
    BY <1>3 DEF BeginUpdate
  <2>2. [row[r] EXCEPT !.enabled = enabled] \in RowType
    <3>1. row[r] \in RowType
      BY DEF IInv, TypeOK
    <3> QED
      BY <3>1 DEF RowType
  <2> QED
    BY <1>2, <1>3, <2>1, <2>2 DEF BeginUpdate
<1>4. ASSUME NEW w \in Workers, NEW r \in Routers, BeginRotate(w, r) PROVE NewIsOwn'
  <2>1. PICK s \in 0 .. MaxSecrets : s = secrets'
    BY <1>4, RouterAssumption DEF BeginRotate, NewSecret, IInv, TypeOK
  <2>2. [row[r] EXCEPT !.secret = s] \in RowType
    <3>1. row[r] \in RowType
      BY DEF IInv, TypeOK
    <3> QED
      BY <3>1 DEF RowType
  <2>3. Begin(w, r, "save_secret", [row[r] EXCEPT !.secret = s])
    BY <1>4, <2>1, Zenon DEF BeginRotate
  <2> QED
    BY <1>2, <1>4, <2>2, <2>3 DEF BeginRotate
<1>5. ASSUME NEW w \in Workers, NEW r \in Routers, BeginDelete(w, r) PROVE NewIsOwn'
  BY <1>2, <1>5 DEF BeginDelete, IInv, TypeOK
<1>6. ASSUME NEW w \in Workers, Finish(w), UNCHANGED row PROVE NewIsOwn'
  <2>1. Idle \in JobType /\ Idle.step = "idle" /\ Idle.router = NoRouter
    BY RouterAssumption DEF Idle, Job, JobType, Absent, RowType
  <2> QED
    BY <1>6, <2>1, OtherKeepsOwn DEF Finish
<1>7. ASSUME NEW w \in Workers, Insert(w) \/ Save(w) PROVE NewIsOwn'
  <2>1. job[w].copy \in RowType /\ ToWrite(w)
    BY <1>7 DEF Insert, Save, ToWrite, At, IInv, TypeOK
  <2> QED
    BY <1>6, <1>7, <2>1, WriteKeepsOwn DEF Insert, Save, Refused
<1>8. ASSUME NEW w \in Workers, SaveSecret(w) PROVE NewIsOwn'
  <2> DEFINE r == job[w].router
  <2>1. row[r] \in RowType /\ job[w].copy.secret \in 0 .. MaxSecrets /\ ToWrite(w)
    BY <1>8 DEF SaveSecret, ToWrite, At, IInv, RealRows, TypeOK, RowType
  <2>2. [row[r] EXCEPT !.secret = job[w].copy.secret] \in RowType
    BY <2>1 DEF RowType
  <2> QED
    BY <1>6, <1>8, <2>1, <2>2, WriteKeepsOwn DEF SaveSecret, Refused
<1>9. ASSUME NEW w \in Workers, Delete(w) PROVE NewIsOwn'
  <2>1. Deleted \in RowType
    BY RouterAssumption DEF Deleted, RowType
  <2> QED
    BY <1>9, <2>1, WriteKeepsOwn DEF Delete, ToWrite, At
<1>10. ASSUME NEW w \in Workers, Render(w) PROVE NewIsOwn'
  <2> DEFINE j == Job("replace", NoRouter, Absent, Clients)
  <2>1. j \in JobType /\ j.step = "replace" /\ j.router = NoRouter
    BY RouterAssumption, ClientsType DEF Job, JobType, Absent, RowType, IInv, TypeOK
  <2>2. job' = [job EXCEPT ![w] = j] /\ UNCHANGED row
    BY <1>10 DEF Render
  <2> HIDE DEF j
  <2> QED
    BY <2>1, <2>2, OtherKeepsOwn
<1>11. ASSUME NEW w \in Workers, ReplaceFile(w) \/ Kill(w) PROVE NewIsOwn'
  BY <1>6, <1>11 DEF ReplaceFile, Kill
<1>12. ASSUME NEW w \in Workers, RenderCommand(w) PROVE NewIsOwn'
  <2> DEFINE j == Job("render", NoRouter, Absent, {})
  <2>1. j \in JobType /\ j.step = "render" /\ j.router = NoRouter
    BY RouterAssumption DEF Job, JobType, Absent, RowType
  <2>2. job' = [job EXCEPT ![w] = j] /\ UNCHANGED row
    BY <1>12 DEF RenderCommand
  <2> HIDE DEF j
  <2> QED
    BY <2>1, <2>2, OtherKeepsOwn
<1>13. CASE Look \/ WatcherRestarts \/ RadiusRestarts \/ UNCHANGED vars
  <2>1. UNCHANGED <<row, job>>
    BY <1>13 DEF Look, WatcherRestarts, RadiusRestarts, vars
  <2> QED
    BY <2>1 DEF NewIsOwn, At
<1> QED
  BY <1>1, <1>3, <1>4, <1>5, <1>7, <1>8, <1>9, <1>10, <1>11, <1>12, <1>13 DEF Next, Request, Work

LEMMA StepRevives ==
  ASSUME IInv, NewIsOwn, [Next]_vars, NEW r \in Routers, Revives(r)
  PROVE  \E w \in Workers : At(w, "save") /\ job[w].router = r /\ At(w, "render")'
<1>1. row'[r] # row[r]
  BY DEF Revives, Exists
<1>2. PICK w \in Workers : Insert(w) \/ Save(w) \/ SaveSecret(w) \/ Delete(w)
  BY <1>1 DEF Next, Request, Work, BeginProvision, BeginUpdate, BeginRotate, BeginDelete, Begin,
              RenderCommand, Render, ReplaceFile, Kill, Look, WatcherRestarts, RadiusRestarts, vars
<1>3. ~Refused(w)
  BY <1>1 DEF Refused
<1>4. ASSUME NEW x, Write(w, x) PROVE job[w].router = r /\ row'[r] = x
  BY <1>1, <1>4 DEF Write, IInv, TypeOK
<1>5. ~Insert(w)
  BY <1>3, <1>4 DEF Insert, NewIsOwn, Revives
<1>6. ~SaveSecret(w)
  <2> SUFFICES ASSUME SaveSecret(w) PROVE FALSE
    OBVIOUS
  <2>1. Exists(job[w].router) /\ Write(w, [row[job[w].router] EXCEPT !.secret = job[w].copy.secret])
    BY <1>3 DEF SaveSecret
  <2>2. job[w].router = r /\ row'[r] = [row[r] EXCEPT !.secret = job[w].copy.secret]
    BY <1>4, <2>1
  <2>3. row[r] \in RowType
    BY DEF IInv, TypeOK
  <2> QED
    BY <2>1, <2>2, <2>3 DEF Revives, Exists, RowType
<1>7. ~Delete(w)
  BY <1>4 DEF Delete, Deleted, Revives, Exists
<1>8. At(w, "save") /\ Write(w, job[w].copy)
  BY <1>2, <1>3, <1>5, <1>6, <1>7 DEF Save
<1>9. At(w, "render")'
  BY <1>8 DEF Write, Job, At, IInv, TypeOK
<1> QED
  BY <1>4, <1>8, <1>9

\* A rotation, a deletion or a creation never brings a disabled or deleted router
\* back: only save() in partial_update does (update_fields in rotate_radius_secret).
THEOREM OnlyPatchRevivesHolds == Spec => OnlyPatchRevives
<1>1. Init => NewIsOwn
  BY DEF Init, NewIsOwn, At, Idle, Job
<1>2. IInv /\ NewIsOwn /\ [Next]_vars =>
        [\A r \in Routers : Revives(r) =>
           \E w \in Workers : At(w, "save") /\ job[w].router = r /\ At(w, "render")']_vars
  BY StepRevives
<1> QED
  BY <1>1, <1>2, Inductive, NextOwn, PTL DEF Spec, OnlyPatchRevives, Revives
=============================================================================
