------------------------------- MODULE Routers -------------------------------
(***************************************************************************)
(* The registry of routers (backend/networking) and what FreeRADIUS makes  *)
(* of it: requests provision, edit, rotate and delete routers, each then   *)
(* renders all enabled ones into the clients file, a script watches the    *)
(* file and has FreeRADIUS load it (freeradius/watch-clients.sh).          *)
(*                                                                         *)
(* A request reads its router, writes it some statements later and renders *)
(* after that, without locks; save() writes every column it has read.      *)
(* Secrets are numbered in the order in which they are generated.  Health, *)
(* the WireGuard key and the API account concern no other component.       *)
(***************************************************************************)
EXTENDS Naturals, FiniteSets

CONSTANTS
  Routers,
  Addresses,   \* the hosts of the client subnet, in their order
  Workers,     \* request threads
  NoRouter,    \* what an idle worker handles
  NoHash,      \* what the watcher remembers when it starts
  MaxSecrets   \* bound: secrets generated

ASSUME RouterAssumption == Addresses \subseteq Nat /\ NoRouter \notin Routers /\ MaxSecrets \in Nat

VARIABLES
  row,        \* Router rows
  secrets,    \* secrets generated so far
  file,       \* the clients file
  loaded,     \* the clients FreeRADIUS accepts
  hash,       \* what the watcher remembers of the file
  job,        \* each request's step, router, object in memory, content of the temporary file
  behind,     \* history: a router was written since a request rendered
  astray,     \* history: the last rendering was behind when it was put in place, or was lost
  missed      \* history: a restart made the watcher remember another file than is loaded

vars == <<row, secrets, file, loaded, hash, job, behind, astray, missed>>
radius == <<loaded, hash, missed>>

Absent == [state |-> "new", address |-> 0, secret |-> 0, enabled |-> FALSE]
Deleted == [state |-> "deleted", address |-> 0, secret |-> 0, enabled |-> FALSE]
Exists(r) == row[r].state = "there"
Job(step, r, copy, content) ==
  [step |-> step, router |-> r, copy |-> copy, content |-> content]
Idle == Job("idle", NoRouter, Absent, {})

Client(r, x) == <<r, x.address, x.secret>>
Clients == {Client(r, row[r]) : r \in {q \in Routers : Exists(q) /\ row[q].enabled}}

Init ==
  /\ row = [r \in Routers |-> Absent]
  /\ secrets = 0
  /\ file = {} /\ loaded = {} /\ hash = NoHash
  /\ job = [w \in Workers |-> Idle]
  /\ behind = [w \in Workers |-> FALSE]
  /\ astray = FALSE /\ missed = FALSE

-----------------------------------------------------------------------------
At(w, step) == job[w].step = step
Owes(w) == At(w, "render") \/ At(w, "replace")
Finish(w) == job' = [job EXCEPT ![w] = Idle]

UsedAddresses == {row[r].address : r \in {q \in Routers : Exists(q)}}
FreeAddresses == Addresses \ UsedAddresses

\* allocate_tunnel_ip.
FirstFree(a) == a \in FreeAddresses /\ \A b \in FreeAddresses : a <= b

Begin(w, r, step, copy) ==
  /\ At(w, "idle")
  /\ job' = [job EXCEPT ![w] = Job(step, r, copy, {})]
  /\ UNCHANGED <<row, file, radius, behind, astray>>

\* The row of a request's router is written, and rendering comes next.
Write(w, x) ==
  /\ row' = [row EXCEPT ![job[w].router] = x]
  /\ job' = [job EXCEPT ![w] = Job("render", NoRouter, Absent, {})]
  /\ behind' = [v \in Workers |-> At(v, "replace")]
  /\ UNCHANGED <<secrets, file, radius, astray>>

\* An IntegrityError or a DatabaseError ends the request without rendering.
Refused(w) ==
  /\ Finish(w)
  /\ UNCHANGED <<row, secrets, file, radius, behind, astray>>

-----------------------------------------------------------------------------
(* The requests, each a read and a write.                                  *)

NewSecret == secrets < MaxSecrets /\ secrets' = secrets + 1

\* RouterViewSet.create, under an id that no router has had.
BeginProvision(w, r) ==
  /\ row[r] = Absent
  /\ \A v \in Workers : job[v].router # r
  /\ NewSecret
  /\ \E a \in Addresses :
       FirstFree(a) /\ Begin(w, r, "insert", [state |-> "there", address |-> a,
                                             secret |-> secrets', enabled |-> TRUE])

\* RouterViewSet.partial_update: the whole row is read and, with or without a
\* new value for enabled, saved.
BeginUpdate(w, r) ==
  /\ Exists(r)
  /\ \E enabled \in BOOLEAN : Begin(w, r, "save", [row[r] EXCEPT !.enabled = enabled])
  /\ UNCHANGED secrets

BeginRotate(w, r) ==
  /\ Exists(r)
  /\ NewSecret
  /\ Begin(w, r, "save_secret", [row[r] EXCEPT !.secret = secrets'])

BeginDelete(w, r) ==
  /\ Exists(r)
  /\ Begin(w, r, "delete", row[r])
  /\ UNCHANGED secrets

AddressTaken(w) ==
  \E r \in Routers \ {job[w].router} :
    Exists(r) /\ row[r].address = job[w].copy.address

\* Tunnel addresses and the names within a tenant are unique; the names are not
\* modelled, so any INSERT or change of a row may be refused for its name.
Insert(w) ==
  /\ At(w, "insert")
  /\ \/ ~AddressTaken(w) /\ Write(w, job[w].copy)
     \/ Refused(w)

\* save() inserts the row when a request has deleted it meanwhile.
Save(w) ==
  /\ At(w, "save")
  /\ (~AddressTaken(w) /\ Write(w, job[w].copy)) \/ Refused(w)

\* Mutant of SaveSecret: save() without update_fields.
SaveWhole(w) ==
  /\ At(w, "save_secret")
  /\ Write(w, job[w].copy)

\* save(update_fields) fails when there is no such row any more.
SaveSecret(w) ==
  LET r == job[w].router IN
  /\ At(w, "save_secret")
  /\ IF Exists(r) THEN Write(w, [row[r] EXCEPT !.secret = job[w].copy.secret])
                  ELSE Refused(w)

\* Mutant of Delete: nothing is rendered.
DeleteUnrendered(w) ==
  /\ At(w, "delete")
  /\ row' = [row EXCEPT ![job[w].router] = Deleted]
  /\ Finish(w)
  /\ UNCHANGED <<secrets, file, radius, behind, astray>>

Delete(w) == At(w, "delete") /\ Write(w, Deleted)

-----------------------------------------------------------------------------
(* render_radius_clients: one query, a temporary file, os.replace.          *)

\* The management command, also run when the backend starts.
RenderCommand(w) ==
  /\ At(w, "idle")
  /\ job' = [job EXCEPT ![w] = Job("render", NoRouter, Absent, {})]
  /\ UNCHANGED <<row, secrets, file, radius, behind, astray>>

Render(w) ==
  /\ At(w, "render")
  /\ job' = [job EXCEPT ![w] = Job("replace", NoRouter, Absent, Clients)]
  /\ behind' = [behind EXCEPT ![w] = FALSE]
  /\ UNCHANGED <<row, secrets, file, radius, astray>>

ReplaceFile(w) ==
  /\ At(w, "replace")
  /\ file' = job[w].content
  /\ astray' = behind[w]
  /\ Finish(w)
  /\ UNCHANGED <<row, secrets, radius, behind>>

\* The worker is killed; what it has saved stays, rendered or not.
Kill(w) ==
  /\ ~At(w, "idle")
  /\ astray' = (astray \/ Owes(w))
  /\ Finish(w)
  /\ UNCHANGED <<row, secrets, file, radius, behind>>

-----------------------------------------------------------------------------
(* FreeRADIUS and the watcher beside it, restarted independently.           *)

\* Mutant of Look: remembers the file before it compares.
LookTwice ==
  /\ hash # file
  /\ hash' = file
  /\ missed' = IF hash = NoHash THEN file # loaded ELSE FALSE
  /\ UNCHANGED <<row, secrets, file, loaded, job, behind, astray>>

\* The script's loop: the first look after a start only remembers the file.
Look ==
  /\ hash # file
  /\ loaded' = IF hash = NoHash THEN loaded ELSE file
  /\ missed' = IF hash = NoHash THEN file # loaded ELSE FALSE
  /\ hash' = file
  /\ UNCHANGED <<row, secrets, file, job, behind, astray>>

WatcherRestarts ==
  /\ hash' = NoHash
  /\ UNCHANGED <<row, secrets, file, loaded, job, behind, astray, missed>>

\* It loads the file, and not what the watcher has last looked at.
RadiusRestarts ==
  /\ loaded' = file
  /\ missed' = (hash \notin {NoHash, file})
  /\ UNCHANGED <<row, secrets, file, hash, job, behind, astray>>

-----------------------------------------------------------------------------
Request(w) ==
  \/ RenderCommand(w)
  \/ \E r \in Routers : \/ BeginProvision(w, r) \/ BeginUpdate(w, r)
                        \/ BeginRotate(w, r) \/ BeginDelete(w, r)

Work(w) == \/ Insert(w) \/ Save(w) \/ SaveSecret(w) \/ Delete(w)
           \/ Render(w) \/ ReplaceFile(w)

Next ==
  \/ \E w \in Workers : Request(w) \/ Work(w) \/ Kill(w)
  \/ Look \/ WatcherRestarts \/ RadiusRestarts

Spec == Init /\ [][Next]_vars

\* A request runs on, and the script looks every two seconds.
FairSpec == Spec /\ WF_vars(Look) /\ \A w \in Workers : WF_vars(Work(w))

-----------------------------------------------------------------------------
RowType == [state : {"new", "there", "deleted"}, address : Addresses \cup {0},
            secret : 0 .. MaxSecrets, enabled : BOOLEAN]
ClientType == Routers \X Addresses \X (1 .. MaxSecrets)

TypeOK ==
  /\ row \in [Routers -> RowType]
  /\ secrets \in 0 .. MaxSecrets
  /\ file \subseteq ClientType
  /\ loaded \subseteq ClientType
  /\ hash = NoHash \/ hash \subseteq ClientType
  /\ job \in [Workers ->
       [step : {"idle", "insert", "save", "save_secret", "delete", "render", "replace"},
        router : Routers \cup {NoRouter}, copy : RowType, content : SUBSET ClientType]]
  /\ behind \in [Workers -> BOOLEAN]
  /\ astray \in BOOLEAN /\ missed \in BOOLEAN

\* The clients file is the table of enabled routers whenever no request owes a
\* rendering, unless the last one to replace the file had read the table before a
\* write that another had rendered by then, or the last one to owe it was killed.
FileIsTable ==
  ~astray /\ (\A w \in Workers : ~Owes(w)) => file = Clients

\* A router that was disabled or deleted is brought back by a PATCH alone, though
\* perhaps by one that read it before: a rotation that runs across the disabling
\* or the deletion brings nothing back.
OnlyPatchRevives ==
  [][\A r \in Routers :
       row[r] # Absent /\ ~(Exists(r) /\ row[r].enabled) /\ (Exists(r) /\ row[r].enabled)'
       => \E w \in Workers : At(w, "save") /\ job[w].router = r /\ At(w, "render")']_vars

\* A router that is deleted or disabled is refused by FreeRADIUS in the end,
\* unless a rendering went astray or a restart of either process hid the change
\* from the watcher.
RevocationArrives ==
  \A r \in Routers :
    (\A c \in Clients : c[1] # r) ~>
      \/ \A c \in loaded : c[1] # r
      \/ astray \/ missed
      \/ \E c \in Clients : c[1] = r
=============================================================================
