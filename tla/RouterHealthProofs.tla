-------------------------- MODULE RouterHealthProofs --------------------------
(***************************************************************************)
(* The status and the switch, for every number of routers, tasks, requests *)
(* and polls.                                                              *)
(***************************************************************************)
EXTENDS RouterHealth, TLAPS

\* An object on which the worker is not behind agrees with the row on the switch, and a
\* status that it will write agrees with its own switch.
Shape(w) ==
  /\ step[w] \in {"idle", "next"} => w \notin seen_enabled
  /\ step[w] \notin {"try", "save"} => tries[w] = 0
  /\ step[w] = "try" => tries[w] < Attempts
  /\ w \notin Tasks => todo[w] = {}
  /\ step[w] \notin {"idle", "next"} => router[w] \notin todo[w]

Agrees(w) ==
  /\ todo[w] \ behind[w] \subseteq enabled
  /\ step[w] \in {"try", "save", "patch"} /\ router[w] \notin behind[w] =>
       (w \in seen_enabled <=> router[w] \in enabled)

Consistent(w) ==
  /\ step[w] \in {"patch", "patch_enabled"} => seen_status[w] # "deleted"
  /\ step[w] = "patch_enabled" \/ (step[w] = "patch" /\ router[w] \notin behind[w]) =>
       (seen_status[w] = "disabled" <=> w \notin seen_enabled)

JobInv(w) == Shape(w) /\ Agrees(w) /\ Consistent(w)

IInv == TypeOK /\ (\A w \in Workers : JobInv(w)) /\ StatusMatchesSwitch

\* What a worker has in memory is as it was.
SameJob(v) ==
  /\ step'[v] = step[v] /\ router'[v] = router[v] /\ todo'[v] = todo[v]
  /\ (v \in seen_enabled' <=> v \in seen_enabled)
  /\ seen_status'[v] = seen_status[v] /\ tries'[v] = tries[v]

LEMMA InitIInv == Init => IInv
  BY CountAssumption DEF Init, IInv, TypeOK, Routers, Statuses, Steps, JobInv, Shape, Agrees,
     Consistent, StatusMatchesSwitch

\* A worker that does nothing stays in agreement while no switch is turned.
LEMMA Bystander ==
  ASSUME TypeOK, NEW v \in Workers, JobInv(v), SameJob(v),
         enabled' = enabled, behind'[v] = behind[v]
  PROVE  JobInv(v)'
  BY DEF SameJob, JobInv, Shape, Agrees, Consistent

\* A worker's own step that leaves the rows alone.
LEMMA LocalStep ==
  ASSUME IInv, NEW w \in Workers, UNCHANGED <<rows, suspect>>, TypeOK', JobInv(w)',
         \A v \in Workers \ {w} : SameJob(v) /\ behind'[v] = behind[v]
  PROVE  IInv'
<1>1. \A v \in Workers \ {w} : JobInv(v)'
  BY Bystander DEF IInv, rows
<1> QED
  BY <1>1 DEF IInv, StatusMatchesSwitch, rows, Exists

LEMMA EndKeeps ==
  ASSUME IInv, NEW w \in Workers, End(w) PROVE IInv'
<1>1. TypeOK'
  BY CountAssumption DEF IInv, TypeOK, End, rows, Routers, Statuses, Steps
<1>2. JobInv(w)'
  BY DEF IInv, TypeOK, End, JobInv, Shape, Agrees, Consistent
<1>3. \A v \in Workers \ {w} : SameJob(v) /\ behind'[v] = behind[v]
  BY DEF IInv, TypeOK, End, SameJob
<1> QED
  BY <1>1, <1>2, <1>3, LocalStep DEF End

\* A worker begins with an object that says what the row says, unless it may be
\* behind on it.
LEMMA ReadKeeps ==
  ASSUME IInv, NEW w \in Workers, step[w] \in {"idle", "next"},
         NEW s \in {"try", "save", "patch", "patch_enabled"}, NEW r \in Routers,
         NEW on \in BOOLEAN, NEW st \in Statuses, Read(w, s, r, on, st),
         UNCHANGED <<rows, device, suspect>>,
         todo'[w] \subseteq todo[w], todo' \in [Workers -> SUBSET Routers],
         behind' \in [Workers -> SUBSET Routers],
         \A v \in Workers \ {w} : todo'[v] = todo[v] /\ behind'[v] = behind[v],
         todo'[w] = {} \/ behind'[w] = behind[w], r \notin todo'[w],
         s # "patch_enabled" /\ r \notin behind'[w] => (on <=> r \in enabled),
         s \in {"patch", "patch_enabled"} => st # "deleted",
         s = "patch_enabled" \/ (s = "patch" /\ r \notin behind'[w]) =>
           (st = "disabled" <=> ~on)
  PROVE  IInv'
<1>1. TypeOK'
  BY DEF IInv, TypeOK, Read, rows, Steps
<1>2. /\ step'[w] = s /\ router'[w] = r /\ seen_status'[w] = st /\ tries'[w] = 0
      /\ w \in seen_enabled' <=> on
  BY DEF IInv, TypeOK, JobInv, Shape, Read
<1>3. JobInv(w)'
  <2>1. Shape(w)'
    BY <1>2, CountAssumption DEF IInv, JobInv, Shape
  <2>2. Agrees(w)'
    BY <1>2 DEF IInv, JobInv, Agrees, rows
  <2>3. Consistent(w)'
    BY <1>2 DEF Consistent
  <2> QED
    BY <2>1, <2>2, <2>3 DEF JobInv
<1>4. \A v \in Workers \ {w} : SameJob(v) /\ behind'[v] = behind[v]
  BY DEF IInv, TypeOK, Read, SameJob
<1> QED
  BY <1>1, <1>3, <1>4, LocalStep

LEMMA BeginTaskKeeps ==
  ASSUME IInv, NEW w \in Tasks, BeginTask(w) PROVE IInv'
<1> w \in Workers
  BY DEF Workers
<1>1. Fetched \subseteq enabled /\ Fetched \subseteq Routers
  BY DEF Fetched, IInv, TypeOK
<1>2. TypeOK'
  BY <1>1 DEF IInv, TypeOK, BeginTask, Goto, rows, Steps
<1>3. JobInv(w)'
  BY <1>1 DEF IInv, TypeOK, BeginTask, Goto, rows, JobInv, Shape, Agrees, Consistent
<1>4. \A v \in Workers \ {w} : SameJob(v) /\ behind'[v] = behind[v]
  BY DEF IInv, TypeOK, BeginTask, Goto, SameJob
<1> QED
  BY <1>2, <1>3, <1>4, LocalStep DEF BeginTask

LEMMA NextRouterKeeps ==
  ASSUME IInv, NEW w \in Workers, NextRouter(w) PROVE IInv'
<1>1. CASE todo[w] = {}
  BY <1>1, EndKeeps DEF NextRouter
<1>2. CASE todo[w] # {}
  <2>1. PICK r \in todo[w] : /\ Read(w, "try", r, TRUE, "pending")
                             /\ todo' = [todo EXCEPT ![w] = @ \ {r}]
                             /\ UNCHANGED <<rows, device, behind, suspect>>
    BY <1>2 DEF NextRouter
  <2>2. r \in Routers /\ step[w] = "next" /\ "pending" \in Statuses
    BY <2>1 DEF IInv, TypeOK, NextRouter, Statuses
  <2>3. r \notin behind[w] => r \in enabled
    BY <2>1 DEF IInv, JobInv, Agrees
  <2>4. /\ todo'[w] \subseteq todo[w] /\ r \notin todo'[w] /\ todo' \in [Workers -> SUBSET Routers]
        /\ \A v \in Workers \ {w} : todo'[v] = todo[v]
        /\ behind' = behind /\ behind \in [Workers -> SUBSET Routers]
    BY <2>1 DEF IInv, TypeOK
  <2> QED
    BY <2>1, <2>2, <2>3, <2>4, ReadKeeps
<1> QED
  BY <1>1, <1>2

LEMMA BeginTestKeeps ==
  ASSUME IInv, NEW w \in Requests, NEW r \in Routers, BeginTest(w, r) PROVE IInv'
<1> w \in Workers
  BY DEF Workers
<1> DEFINE s == IF r \in enabled THEN "try" ELSE "save"
<1>1. /\ step[w] \in {"idle", "next"} /\ "pending" \in Statuses
      /\ Read(w, s, r, r \in enabled, "pending")
  BY DEF BeginTest, Statuses
<1>2. s \in {"try", "save"}
      /\ (r \in enabled) \in BOOLEAN
  OBVIOUS
<1>3. todo' = todo /\ behind' = behind /\ UNCHANGED <<rows, device, suspect>>
  BY DEF BeginTest
<1>4. /\ todo \in [Workers -> SUBSET Routers] /\ behind \in [Workers -> SUBSET Routers]
      /\ todo[w] = {}
  BY WorkerAssumption DEF IInv, TypeOK, JobInv, Shape
<1> HIDE DEF s
<1> QED
  BY <1>1, <1>2, <1>3, <1>4, ReadKeeps

LEMMA BeginPatchKeeps ==
  ASSUME IInv, NEW w \in Requests, NEW r \in Routers, BeginPatch(w, r) PROVE IInv'
<1> w \in Workers
  BY DEF Workers
<1> DEFINE on == r \in enabled
           st == status[r]
<1>1. /\ step[w] \in {"idle", "next"} /\ st \in Statuses /\ on \in BOOLEAN
      /\ Read(w, "patch", r, on, st) /\ st # "deleted"
      /\ UNCHANGED <<rows, device, suspect>>
  BY DEF IInv, TypeOK, BeginPatch, Exists
<1>2. behind'[w] = suspect \cap {r} /\ behind' \in [Workers -> SUBSET Routers]
      /\ \A v \in Workers \ {w} : behind'[v] = behind[v]
  BY DEF IInv, TypeOK, BeginPatch
<1>3. r \notin behind'[w] => (st = "disabled" <=> ~on)
  BY <1>1, <1>2 DEF IInv, StatusMatchesSwitch, Exists
<1>4. on <=> r \in enabled
  OBVIOUS
<1>5. /\ todo' \in [Workers -> SUBSET Routers] /\ todo'[w] = {}
      /\ \A v \in Workers \ {w} : todo'[v] = todo[v]
  BY WorkerAssumption DEF IInv, TypeOK, JobInv, Shape, BeginPatch
<1> HIDE DEF on, st
<1> QED
  BY <1>1, <1>2, <1>3, <1>4, <1>5, ReadKeeps

LEMMA SwitchKeeps ==
  ASSUME IInv, NEW w \in Requests, NEW r \in Routers, NEW choice \in BOOLEAN,
         BeginEnable(w, r, choice)
  PROVE  IInv'
<1> w \in Workers
  BY DEF Workers
<1> DEFINE st == IF choice THEN "pending" ELSE "disabled"
<1>1. /\ step[w] \in {"idle", "next"} /\ Read(w, "patch_enabled", r, choice, st)
      /\ UNCHANGED <<rows, device, suspect>>
  BY DEF BeginEnable
<1>2. st \in Statuses /\ st # "deleted" /\ (st = "disabled" <=> ~choice)
  BY DEF Statuses
<1>3. todo' = todo /\ behind' = behind
  BY DEF BeginEnable
<1>4. /\ todo \in [Workers -> SUBSET Routers] /\ behind \in [Workers -> SUBSET Routers]
      /\ todo[w] = {}
  BY WorkerAssumption DEF IInv, TypeOK, JobInv, Shape
<1> HIDE DEF st
<1> QED
  BY <1>1, <1>2, <1>3, <1>4, ReadKeeps

LEMMA AttemptKeeps ==
  ASSUME IInv, NEW w \in Workers, Attempt(w) PROVE IInv'
<1>1. CASE Unreachable(router[w])
  BY <1>1, EndKeeps DEF Attempt
<1>2. CASE ~Unreachable(router[w])
  <2>1. tries[w] \in Nat /\ tries[w] < Attempts
    BY CountAssumption DEF IInv, TypeOK, JobInv, Shape, Attempt
  <2>2. /\ tries' = [tries EXCEPT ![w] = @ + 1]
        /\ step' = [step EXCEPT ![w] = IF tries[w] + 1 = Attempts THEN "save" ELSE "try"]
        /\ answered' \subseteq answered \cup {w}
        /\ UNCHANGED <<rows, device, router, todo, seen_enabled, seen_status, behind, suspect>>
    BY <1>2 DEF Attempt, Goto
  <2>3. TypeOK'
    BY <2>1, <2>2, CountAssumption DEF IInv, TypeOK, rows, Steps
  <2>4. JobInv(w)'
    BY <2>1, <2>2, CountAssumption
    DEF IInv, TypeOK, rows, JobInv, Shape, Agrees, Consistent, Attempt
  <2>5. \A v \in Workers \ {w} : SameJob(v) /\ behind'[v] = behind[v]
    BY <2>2 DEF IInv, TypeOK, SameJob
  <2> QED
    BY <2>2, <2>3, <2>4, <2>5, LocalStep
<1> QED
  BY <1>1, <1>2

-----------------------------------------------------------------------------
LEMMA SaveStatusKeeps ==
  ASSUME IInv, NEW w \in Workers, SaveStatus(w) PROVE IInv'
<1> DEFINE r == router[w]
<1>1. CASE ~Exists(r)
  BY <1>1, EndKeeps DEF SaveStatus
<1>2. CASE Exists(r)
  <2>1. /\ step[w] = "save" /\ r \in Routers
        /\ status' = [status EXCEPT ![r] = Found(w)]
        /\ suspect' = IF r \in behind[w] THEN suspect \cup {r} ELSE suspect \ {r}
        /\ UNCHANGED <<enabled, device>> /\ Checked(w)
    BY <1>2 DEF SaveStatus, IInv, TypeOK
  <2>2. /\ Found(w) \in Statuses \ {"deleted"}
        /\ Found(w) = "disabled" <=> w \notin seen_enabled
    BY DEF Found, Statuses
  <2>3. TypeOK'
    <3>1. status' \in [Routers -> Statuses] /\ suspect' \subseteq Routers
      BY <2>1, <2>2 DEF IInv, TypeOK
    <3>2. 1 \in Routers /\ 0 \in 0 .. Attempts /\ "pending" \in Statuses
      BY CountAssumption DEF Routers, Statuses
    <3>3. /\ behind' \in [Workers -> SUBSET Routers] /\ tries' \in [Workers -> 0 .. Attempts]
          /\ step' \in [Workers -> Steps] /\ router' \in [Workers -> Routers]
      BY <2>1, <3>2 DEF IInv, TypeOK, Checked, Steps
    <3> QED
      BY <2>1, <3>1, <3>2, <3>3 DEF IInv, TypeOK, Checked
  <2>4. JobInv(w)'
    <3>1. Shape(w)'
      BY <2>1, CountAssumption DEF IInv, TypeOK, JobInv, Shape, Checked
    <3>2. Agrees(w)'
      BY <2>1 DEF IInv, TypeOK, JobInv, Shape, Agrees, Checked
    <3> QED
      BY <2>1, <3>1, <3>2 DEF IInv, TypeOK, JobInv, Consistent, Checked
  <2>5. \A v \in Workers \ {w} : JobInv(v)'
    <3>1. \A v \in Workers \ {w} : SameJob(v) /\ behind'[v] = behind[v]
      BY <2>1 DEF IInv, TypeOK, SameJob, Checked
    <3> QED
      BY <2>1, <3>1, Bystander DEF IInv
  <2>6. r \notin behind[w] => (w \in seen_enabled <=> r \in enabled)
    BY <2>1 DEF IInv, JobInv, Agrees
  <2>7. StatusMatchesSwitch'
    <3> SUFFICES ASSUME NEW q \in Routers, Exists(q)', q \notin suspect'
                 PROVE  status'[q] = "disabled" <=> q \notin enabled
      BY <2>1 DEF StatusMatchesSwitch
    <3>1. CASE q = r
      BY <2>1, <2>2, <2>6, <3>1 DEF IInv, TypeOK
    <3>2. CASE q # r
      <4>1. status'[q] = status[q] /\ q \notin suspect
        BY <2>1, <3>2 DEF IInv, TypeOK
      <4> QED
        BY <4>1 DEF IInv, StatusMatchesSwitch, Exists
    <3> QED
      BY <3>1, <3>2
  <2> QED
    BY <2>3, <2>4, <2>5, <2>7 DEF IInv
<1> QED
  BY <1>1, <1>2

LEMMA SavePatchKeeps ==
  ASSUME IInv, NEW w \in Requests, SavePatch(w) PROVE IInv'
<1> DEFINE r == router[w]
<1> w \in Workers
  BY DEF Workers
<1>1. /\ step[w] \in {"patch", "patch_enabled"} /\ r \in Routers
      /\ seen_status[w] \in Statuses \ {"deleted"}
  BY DEF IInv, TypeOK, JobInv, Consistent, SavePatch
<1>2. TypeOK'
  <2>1. \A v \in Workers : InMemory(v) \cap {r} \subseteq Routers
    BY <1>1
  <2>2. behind' \in [Workers -> SUBSET Routers]
    BY <2>1 DEF IInv, TypeOK, SavePatch
  <2> QED
    <3>1. enabled' \subseteq Routers /\ suspect' \subseteq Routers
      BY <1>1 DEF IInv, TypeOK, SavePatch
    <3>2. 1 \in Routers /\ "pending" \in Statuses
      BY CountAssumption DEF Routers, Statuses
    <3>3. /\ status' \in [Routers -> Statuses] /\ step' \in [Workers -> Steps]
          /\ router' \in [Workers -> Routers] /\ seen_status' \in [Workers -> Statuses]
      BY <1>1, <3>2 DEF IInv, TypeOK, SavePatch, Steps
    <3> QED
      BY <2>2, <3>1, <3>3 DEF IInv, TypeOK, SavePatch
<1>3. JobInv(w)'
  BY <1>1, WorkerAssumption DEF IInv, TypeOK, JobInv, Shape, Agrees, Consistent, SavePatch
<1>4. ASSUME NEW v \in Workers \ {w} PROVE JobInv(v)'
  <2>1. SameJob(v) /\ behind'[v] = behind[v] \cup (InMemory(v) \cap {r})
    BY DEF IInv, TypeOK, SavePatch, SameJob
  <2>2. /\ todo[v] \subseteq InMemory(v)
        /\ step[v] \in {"try", "save", "patch"} => router[v] \in InMemory(v)
    BY DEF InMemory
  <2>3. \A q \in Routers \ {r} : q \in enabled' <=> q \in enabled
    BY DEF SavePatch
  <2>4. Shape(v)' /\ Consistent(v)'
    BY <2>1 DEF IInv, JobInv, SameJob, Shape, Consistent
  <2>5. Agrees(v)'
    BY <2>1, <2>2, <2>3 DEF IInv, TypeOK, JobInv, SameJob, Agrees
  <2> QED
    BY <2>4, <2>5 DEF JobInv
<1>5. StatusMatchesSwitch'
  <2> SUFFICES ASSUME NEW q \in Routers, Exists(q)', q \notin suspect'
               PROVE  status'[q] = "disabled" <=> q \notin enabled'
    BY DEF StatusMatchesSwitch
  <2>1. CASE q = r
    <3>1. status'[q] = seen_status[w] /\ (q \in enabled' <=> w \in seen_enabled)
      BY <1>1, <2>1 DEF IInv, TypeOK, SavePatch
    <3>2. step[w] = "patch" => r \notin behind[w]
      BY <2>1 DEF SavePatch
    <3> QED
      BY <1>1, <3>1, <3>2 DEF IInv, JobInv, Consistent
  <2>2. CASE q # r
    <3>1. status'[q] = status[q] /\ q \notin suspect /\ (q \in enabled' <=> q \in enabled)
      BY <1>1, <2>2 DEF IInv, TypeOK, SavePatch
    <3> QED
      BY <3>1 DEF IInv, StatusMatchesSwitch, Exists
  <2> QED
    BY <2>1, <2>2
<1> QED
  BY <1>2, <1>3, <1>4, <1>5 DEF IInv

\* A rotation turns no switch, and the router it writes is suspect.
LEMMA RotateKeyKeeps ==
  ASSUME IInv, NEW r \in Routers, RotateKey(r) PROVE IInv'
<1>1. TypeOK'
  BY DEF IInv, TypeOK, RotateKey, jobs, Statuses
<1>2. \A v \in Workers : JobInv(v)'
  BY Bystander DEF IInv, RotateKey, jobs, SameJob
<1>3. StatusMatchesSwitch'
  BY DEF IInv, TypeOK, RotateKey, StatusMatchesSwitch, Exists
<1> QED
  BY <1>1, <1>2, <1>3 DEF IInv

LEMMA DeleteKeeps ==
  ASSUME IInv, NEW r \in Routers, Delete(r) PROVE IInv'
<1>1. TypeOK'
  BY DEF IInv, TypeOK, Delete, jobs, Statuses
<1>2. \A v \in Workers : JobInv(v)'
  BY Bystander DEF IInv, Delete, jobs, SameJob
<1>3. StatusMatchesSwitch'
  BY DEF IInv, TypeOK, Delete, StatusMatchesSwitch, Exists
<1> QED
  BY <1>1, <1>2, <1>3 DEF IInv

LEMMA DeviceMovesKeeps ==
  ASSUME IInv, NEW r \in Routers, NEW d \in Devices(r), DeviceMoves(r, d) PROVE IInv'
<1>1. TypeOK'
  BY DEF IInv, TypeOK, DeviceMoves, Devices, rows, jobs
<1>2. \A v \in Workers : JobInv(v)'
  BY Bystander DEF IInv, DeviceMoves, rows, jobs, SameJob
<1> QED
  BY <1>1, <1>2 DEF IInv, DeviceMoves, rows, StatusMatchesSwitch, Exists

-----------------------------------------------------------------------------
LEMMA NextIInv == IInv /\ [Next]_vars => IInv'
<1> SUFFICES ASSUME IInv, [Next]_vars PROVE IInv'
  OBVIOUS
<1>1. CASE UNCHANGED vars
  <2>1. TypeOK' /\ StatusMatchesSwitch'
    BY <1>1 DEF IInv, TypeOK, StatusMatchesSwitch, Exists, vars, rows, jobs
  <2>2. \A v \in Workers : JobInv(v)'
    BY <1>1, Bystander DEF IInv, vars, rows, jobs, SameJob
  <2> QED
    BY <2>1, <2>2 DEF IInv
<1>2. ASSUME NEW w \in Tasks, RunTask(w) PROVE IInv'
  <2> w \in Workers
    BY DEF Workers
  <2> QED
    BY <1>2, BeginTaskKeeps, NextRouterKeeps, AttemptKeeps, SaveStatusKeeps
    DEF RunTask, Check
<1>3. ASSUME NEW w \in Requests, Handle(w) PROVE IInv'
  <2> w \in Workers
    BY DEF Workers
  <2> QED
    BY <1>3, AttemptKeeps, SaveStatusKeeps, SavePatchKeeps DEF Handle, Check
<1>4. ASSUME NEW w \in Requests, NEW r \in Routers, Edit(w, r) PROVE IInv'
  <2> w \in Workers
    BY DEF Workers
  <2> QED
    BY <1>4, BeginTestKeeps, BeginPatchKeeps, SwitchKeeps DEF Edit
<1>5. ASSUME NEW r \in Routers, Delete(r) \/ RotateKey(r) PROVE IInv'
  BY <1>5, DeleteKeeps, RotateKeyKeeps
<1>6. ASSUME NEW r \in Routers, NEW d \in Devices(r), DeviceMoves(r, d) PROVE IInv'
  BY <1>6, DeviceMovesKeeps
<1> QED
  BY <1>1, <1>2, <1>3, <1>4, <1>5, <1>6 DEF Next

\* Every value is of its type, and a check polls a router at most Attempts times.
THEOREM TypeCorrect == Spec => []TypeOK
<1> QED
  BY InitIInv, NextIInv, PTL DEF Spec, IInv

\* A status that contradicts the switch was written by a check or a PATCH that had
\* been overtaken by the PATCH which last turned the switch, by a key rotation, or
\* by a PATCH that had read what such a one wrote.
THEOREM StatusMatchesSwitchHolds == Spec => []StatusMatchesSwitch
<1> QED
  BY InitIInv, NextIInv, PTL DEF Spec, IInv
=============================================================================
