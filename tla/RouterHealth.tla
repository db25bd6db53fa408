---------------------------- MODULE RouterHealth ----------------------------
(***************************************************************************)
(* Polling of the routers (backend/networking: check_router_health, the    *)
(* task check_all_routers, the RouterOS client) next to the requests that  *)
(* edit them.                                                              *)
(*                                                                         *)
(* Nothing is locked: a check works on an object read earlier and then     *)
(* saves the status it found, a PATCH saves every column of its object.    *)
(* Routers are numbered in the order of the query, that of their names.    *)
(***************************************************************************)
EXTENDS FiniteSets, Naturals

CONSTANTS
  RouterCount,  \* bound: routers
  Rest,         \* the routers polled over REST, the others over the API
  Tasks,        \* runs of check_all_routers that may overlap
  Requests,     \* request threads
  Attempts      \* polls of one check

Routers == 1 .. RouterCount
Workers == Tasks \cup Requests

ASSUME CountAssumption == RouterCount \in Nat \ {0} /\ Attempts \in Nat \ {0}
ASSUME RestAssumption == Rest \subseteq Routers
ASSUME WorkerAssumption == Tasks \cap Requests = {}

Statuses == {"pending", "online", "offline", "disabled", "deleted"}
\* Over REST every failure is the same MikroTikError.
Devices(r) == IF r \in Rest THEN {"up", "down"} ELSE {"up", "refusing", "down"}
Steps == {"idle", "next", "try", "save", "patch", "patch_enabled"}

VARIABLES
  enabled, status,  \* columns of Router: the enabled ones; "deleted" without a row
  device,           \* "refusing": it is reached and answers with an error
  step, router,     \* what each worker does, and with which router
  todo,             \* routers a task has fetched and not checked
  seen_enabled, seen_status,  \* the workers whose object is enabled, its status
  tries, answered,  \* polls made, and the workers one of whose polls was answered
  behind,           \* history: routers PATCHed since the worker read them
  suspect           \* history: routers whose status was last written by a worker
                    \* behind on them, or by a key rotation while disabled

rows == <<enabled, status>>
jobs == <<step, router, todo, seen_enabled, seen_status, tries, answered>>
vars == <<rows, device, jobs, behind, suspect>>

Init ==
  /\ enabled = Routers
  /\ status = [r \in Routers |-> "pending"]
  /\ device = [r \in Routers |-> "down"]
  /\ step = [w \in Workers |-> "idle"]
  /\ router = [w \in Workers |-> 1]
  /\ todo = [w \in Workers |-> {}]
  /\ seen_enabled = {}
  /\ seen_status = [w \in Workers |-> "pending"]
  /\ tries = [w \in Workers |-> 0]
  /\ answered = {}
  /\ behind = [w \in Workers |-> {}]
  /\ suspect = {}

-----------------------------------------------------------------------------
Exists(r) == status[r] # "deleted"
Fetched == {r \in enabled : Exists(r)}

\* Rows a worker has read and will write.
InMemory(w) ==
  todo[w] \cup IF step[w] \in {"idle", "next"} THEN {} ELSE {router[w]}

\* connect() fails outside the client's try: its OSError is not a MikroTikError
\* and nothing above catches it.
Unreachable(r) == device[r] = "down" /\ r \notin Rest

Goto(w, s) == step' = [step EXCEPT ![w] = s]

\* The worker answers or fails, and forgets.
End(w) ==
  /\ step' = [step EXCEPT ![w] = "idle"]
  /\ router' = [router EXCEPT ![w] = 1]
  /\ todo' = [todo EXCEPT ![w] = {}]
  /\ seen_enabled' = seen_enabled \ {w}
  /\ seen_status' = [seen_status EXCEPT ![w] = "pending"]
  /\ tries' = [tries EXCEPT ![w] = 0]
  /\ answered' = answered \ {w}
  /\ behind' = [behind EXCEPT ![w] = {}]
  /\ UNCHANGED <<rows, device, suspect>>

\* A worker has the router's row in memory.
Read(w, s, r, is_enabled, its_status) ==
  /\ step' = [step EXCEPT ![w] = s]
  /\ router' = [router EXCEPT ![w] = r]
  /\ seen_enabled' = IF is_enabled THEN seen_enabled \cup {w} ELSE seen_enabled
  /\ seen_status' = [seen_status EXCEPT ![w] = its_status]
  /\ UNCHANGED <<tries, answered>>

-----------------------------------------------------------------------------
(* check_all_routers: one query, then one router after the other.           *)

BeginTask(w) ==
  /\ step[w] = "idle"
  /\ Goto(w, "next")
  /\ todo' = [todo EXCEPT ![w] = Fetched]
  /\ UNCHANGED <<rows, device, router, seen_enabled, seen_status, tries, answered,
                 behind, suspect>>

NextRouter(w) ==
  /\ step[w] = "next"
  /\ IF todo[w] = {}
       THEN End(w)
       ELSE \E r \in todo[w] :
              /\ \A q \in todo[w] : r <= q
              /\ Read(w, "try", r, TRUE, "pending")
              /\ todo' = [todo EXCEPT ![w] = @ \ {r}]
              /\ UNCHANGED <<rows, device, behind, suspect>>

(* test_connectivity: a disabled router is not polled.  A check overwrites   *)
(* the status it has read, whatever it was.                                 *)

BeginTest(w, r) ==
  /\ step[w] = "idle"
  /\ Exists(r)
  /\ Read(w, IF r \in enabled THEN "try" ELSE "save", r, r \in enabled, "pending")
  /\ UNCHANGED <<rows, device, todo, behind, suspect>>

\* One poll.
Attempt(w) ==
  LET r == router[w] IN
  /\ step[w] = "try"
  /\ IF Unreachable(r)
       THEN End(w)
       ELSE /\ tries' = [tries EXCEPT ![w] = @ + 1]
            /\ answered' = IF device[r] = "up" THEN answered \cup {w} ELSE answered
            /\ Goto(w, IF tries[w] + 1 = Attempts THEN "save" ELSE "try")
            /\ UNCHANGED <<rows, device, router, todo, seen_enabled, seen_status,
                           behind, suspect>>

\* The task goes on with the next router, a request is answered.
Checked(w) ==
  /\ step' = [step EXCEPT ![w] = IF w \in Tasks THEN "next" ELSE "idle"]
  /\ router' = [router EXCEPT ![w] = 1]
  /\ seen_enabled' = seen_enabled \ {w}
  /\ seen_status' = [seen_status EXCEPT ![w] = "pending"]
  /\ tries' = [tries EXCEPT ![w] = 0]
  /\ answered' = answered \ {w}
  /\ behind' = [behind EXCEPT ![w] = @ \ {router[w]}]
  /\ UNCHANGED todo

\* Mutant of Found: a router that does not answer keeps its status.
FoundKeeps(w) ==
  IF w \notin seen_enabled THEN "disabled"
  ELSE IF w \in answered THEN "online" ELSE status[router[w]]

Found(w) ==
  IF w \notin seen_enabled THEN "disabled"
  ELSE IF w \in answered THEN "online" ELSE "offline"

\* save(update_fields=...), and the sample that refers to the row: a row that is
\* gone is an error, which ends the task.
SaveStatus(w) ==
  LET r == router[w] IN
  /\ step[w] = "save"
  /\ IF ~Exists(r)
       THEN End(w)
       ELSE /\ status' = [status EXCEPT ![r] = Found(w)]
            /\ suspect' = IF r \in behind[w] THEN suspect \cup {r} ELSE suspect \ {r}
            /\ UNCHANGED <<enabled, device>>
            /\ Checked(w)

-----------------------------------------------------------------------------
(* partial_update, which sets the status if "enabled" is in the request,    *)
(* rotate_wireguard and destroy.                                            *)

BeginPatch(w, r) ==
  /\ step[w] = "idle"
  /\ Exists(r)
  /\ Read(w, "patch", r, r \in enabled, status[r])
  /\ behind' = [behind EXCEPT ![w] = suspect \cap {r}]
  /\ UNCHANGED <<rows, device, todo, suspect>>

\* Mutant of BeginEnable: the status is left to the next check.
BeginEnableKeeps(w, r, choice) ==
  /\ step[w] = "idle"
  /\ Exists(r)
  /\ Read(w, "patch_enabled", r, choice, status[r])
  /\ UNCHANGED <<rows, device, todo, behind, suspect>>

BeginEnable(w, r, choice) ==
  /\ step[w] = "idle"
  /\ Exists(r)
  /\ Read(w, "patch_enabled", r, choice, IF choice THEN "pending" ELSE "disabled")
  /\ UNCHANGED <<rows, device, todo, behind, suspect>>

\* save() writes the whole row, and inserts it if it is gone.
SavePatch(w) ==
  LET r == router[w] IN
  /\ step[w] \in {"patch", "patch_enabled"}
  /\ enabled' = IF w \in seen_enabled THEN enabled \cup {r} ELSE enabled \ {r}
  /\ status' = [status EXCEPT ![r] = seen_status[w]]
  /\ suspect' = IF step[w] = "patch_enabled" THEN suspect \ {r}
                  ELSE IF r \in behind[w] THEN suspect \cup {r} ELSE suspect
  /\ behind' = [v \in Workers |-> IF v = w THEN {}
                                  ELSE behind[v] \cup (InMemory(v) \cap {r})]
  /\ step' = [step EXCEPT ![w] = "idle"]
  /\ router' = [router EXCEPT ![w] = 1]
  /\ seen_enabled' = seen_enabled \ {w}
  /\ seen_status' = [seen_status EXCEPT ![w] = "pending"]
  /\ UNCHANGED <<device, todo, tries, answered>>

\* rotate_wireguard saves the new key and the status, whatever the switch; what it
\* read before decides nothing.
RotateKey(r) ==
  /\ Exists(r)
  /\ status' = [status EXCEPT ![r] = "pending"]
  /\ suspect' = IF r \in enabled THEN suspect \ {r} ELSE suspect \cup {r}
  /\ UNCHANGED <<enabled, device, jobs, behind>>

Delete(r) ==
  /\ Exists(r)
  /\ status' = [status EXCEPT ![r] = "deleted"]
  /\ UNCHANGED <<enabled, device, jobs, behind, suspect>>

\* The router itself (external).
DeviceMoves(r, d) ==
  /\ device[r] # d
  /\ device' = [device EXCEPT ![r] = d]
  /\ UNCHANGED <<rows, jobs, behind, suspect>>

-----------------------------------------------------------------------------
Check(w) == Attempt(w) \/ SaveStatus(w)
RunTask(w) == BeginTask(w) \/ NextRouter(w) \/ Check(w)
Handle(w) == Check(w) \/ SavePatch(w)
Edit(w, r) ==
  BeginTest(w, r) \/ BeginPatch(w, r) \/ \E choice \in BOOLEAN : BeginEnable(w, r, choice)

Next ==
  \/ \E w \in Tasks : RunTask(w)
  \/ \E w \in Requests : Handle(w) \/ \E r \in Routers : Edit(w, r)
  \/ \E r \in Routers : Delete(r) \/ RotateKey(r) \/ \E d \in Devices(r) : DeviceMoves(r, d)

Spec == Init /\ [][Next]_vars

\* Celery Beat starts the task every 30 seconds and the worker runs it; requests
\* run to their end.
FairSpec == Spec /\ (\A w \in Tasks : WF_vars(RunTask(w)))
                 /\ (\A w \in Requests : WF_vars(Handle(w)))

-----------------------------------------------------------------------------
TypeOK ==
  /\ enabled \subseteq Routers
  /\ status \in [Routers -> Statuses]
  /\ device \in [Routers -> {"up", "refusing", "down"}]
  /\ step \in [Workers -> Steps]
  /\ router \in [Workers -> Routers]
  /\ todo \in [Workers -> SUBSET Routers]
  /\ seen_enabled \subseteq Workers
  /\ seen_status \in [Workers -> Statuses]
  /\ tries \in [Workers -> 0 .. Attempts]
  /\ answered \subseteq Workers
  /\ behind \in [Workers -> SUBSET Routers]
  /\ suspect \subseteq Routers

\* The list of routers shows "disabled" for the disabled ones and for no other:
\* a status that contradicts the switch was written by a check or a PATCH that
\* had read the router before the PATCH which last turned the switch, by a key
\* rotation of a disabled router, or by a PATCH that had read what such a one wrote.
StatusMatchesSwitch ==
  \A r \in Routers :
    Exists(r) /\ r \notin suspect => (status[r] = "disabled" <=> r \notin enabled)

Polled(r) ==
  /\ r \in Fetched
  /\ \A q \in 1 .. r : ~Unreachable(q)

LastDeletionIsPast == <>[][\A r \in Routers : Exists(r) => status'[r] # "deleted"]_vars

\* docs/phase-2: 30-second health checks.  After the last deletion, a router that
\* stays in one state is shown in it again and again, whatever checks and PATCHes
\* overlap, if no API router up to it in the order of names is unreachable.
StatusFollowsDevice ==
  LastDeletionIsPast =>
    \A r \in Routers :
      /\ <>[](Polled(r) /\ device[r] = "up") => []<>(status[r] = "online")
      /\ <>[](Polled(r) /\ device[r] # "up") => []<>(status[r] = "offline")
=============================================================================
