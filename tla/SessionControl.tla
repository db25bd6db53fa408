--------------------------- MODULE SessionControl ---------------------------
(***************************************************************************)
(* Enforcement of the effective policy on live sessions: accounting with   *)
(* new usage, a package edit or an operator makes a request thread read    *)
(* the session row, evaluate the policy and send CoA or Disconnect through *)
(* radclient (backend/accounting/control.py).  Renewing or disabling a     *)
(* subscriber commits first and then disconnects the sessions it lists.    *)
(*                                                                         *)
(* Nothing here is locked, and the NAS and the row change in different     *)
(* steps.  A control packet or its answer may be lost, and a worker may be *)
(* killed anywhere.  What a policy is made of is the subject of            *)
(* UsageCounters, and the order of the reports that of Accounting.         *)
(* Every session is the only one of its subscriber: a list of several is   *)
(* worked off one by one, whatever becomes of the others.                  *)
(***************************************************************************)
EXTENDS Naturals

CONSTANTS
  Sessions,
  Workers,    \* request threads
  Rates,      \* Mikrotik-Rate-Limit values
  NoSession,  \* what an idle worker handles
  MaxSub      \* bound: subscriptions of a subscriber

ASSUME RatesAssumption == Rates \cap {"", "blocked"} = {} /\ NoSession \notin Sessions
ASSUME MaxSubAssumption == MaxSub \in Nat \ {0}

VARIABLES
  nas,      \* the NAS's session: its phase and the rate it applies (external)
  policy,   \* the effective policy of its subscription: a rate, or "blocked"
  enabled,  \* sessions whose subscriber is enabled
  latest,   \* the subscriber's newest subscription
  row,      \* RadiusSession: status, last_rate_limit, subscription (0: none)
  job,      \* each worker's step, session and rate
  blurred,  \* history: sessions whose row cannot tell what the NAS applies
  escaped   \* history: sessions that have outlived a list of sessions to disconnect

account == <<enabled, latest>>
vars == <<nas, policy, account, row, job, blurred, escaped>>

Down == [phase |-> "down", rate |-> ""]
Idle == [step |-> "idle", session |-> NoSession, rate |-> ""]

Init ==
  /\ nas = [s \in Sessions |-> [phase |-> "off", rate |-> ""]]
  /\ \E r \in Rates : policy = [s \in Sessions |-> r]
  /\ enabled = Sessions
  /\ latest = [s \in Sessions |-> 1]
  /\ row = [s \in Sessions |-> [status |-> "NONE", rate |-> "", sub |-> 0]]
  /\ job = [w \in Workers |-> Idle]
  /\ blurred = {}
  /\ escaped = {}

At(w, step) == job[w].step = step
Do(w, step, s, rate) ==
  job' = [job EXCEPT ![w] = [step |-> step, session |-> s, rate |-> rate]]
Finish(w) == job' = [job EXCEPT ![w] = Idle]

\* The NAS has applied a rate that a worker other than w has yet to record.
Unrecorded(s, w) == \E v \in Workers \ {w} : At(v, "record") /\ job[v].session = s

-----------------------------------------------------------------------------
(* The NAS and the policy (external).                                      *)

\* The Access-Accept carries the rate of this moment.
Connect(s) ==
  /\ nas[s].phase = "off"
  /\ s \in enabled
  /\ policy[s] \in Rates
  /\ nas' = [nas EXCEPT ![s] = [phase |-> "up", rate |-> policy[s]]]
  /\ UNCHANGED <<policy, row, job, blurred, account, escaped>>

\* The user leaves, or Session-Timeout is over.
HangUp(s) ==
  /\ nas[s].phase = "up"
  /\ nas' = [nas EXCEPT ![s] = Down]
  /\ UNCHANGED <<policy, row, job, blurred, account, escaped>>

PolicyMoves(s) ==
  /\ \E p \in (Rates \cup {"blocked"}) \ {policy[s]} : policy' = [policy EXCEPT ![s] = p]
  /\ UNCHANGED <<nas, row, job, blurred, account, escaped>>

-----------------------------------------------------------------------------
(* ingest_accounting, as far as it decides what is controlled.             *)

\* _rate_limit when the row is created.
InitialRate(s) == IF policy[s] = "blocked" THEN "" ELSE policy[s]

\* _resolve_identity: the subscription in force, or none when a subscriber has
\* none that is active at this moment.
Resolved(s) == {0, latest[s]}

\* The first report creates the row; without a subscription it has no policy.
IngestFirst(s) ==
  /\ nas[s].phase # "off"
  /\ row[s].status = "NONE"
  /\ \E sub \in Resolved(s) :
       row' = [row EXCEPT ![s] = [status |-> "ACTIVE",
                                  sub |-> sub,
                                  rate |-> IF sub = 0 THEN "" ELSE InitialRate(s)]]
  /\ blurred' = IF row'[s].rate = nas[s].rate THEN blurred \ {s} ELSE blurred \cup {s}
  /\ UNCHANGED <<nas, policy, job, account, escaped>>

IngestStop(s) ==
  /\ nas[s].phase = "down"
  /\ row[s].status = "ACTIVE"
  /\ row' = [row EXCEPT ![s].status = "STOPPED"]
  /\ UNCHANGED <<nas, policy, job, blurred, account, escaped>>

Begin(w, s, step) ==
  /\ At(w, "idle")
  /\ row[s].status = "ACTIVE"
  /\ Do(w, step, s, IF step = "evaluate" THEN row[s].rate ELSE "")
  /\ UNCHANGED <<nas, policy, row, blurred, account, escaped>>

\* A report with usage, after its transaction has committed.
BeginInterim(w, s) == nas[s].phase = "up" /\ Begin(w, s, "evaluate")

-----------------------------------------------------------------------------
(* refresh_session_policy, send_coa, send_disconnect.                       *)

\* refresh_package_sessions after a package edit, the operator's refresh and
\* disconnect.
BeginPackage(w, s) == Begin(w, s, "evaluate")
BeginRefresh(w, s) == Begin(w, s, "evaluate")
BeginDisconnect(w, s) == Begin(w, s, "disconnect")

\* Mutant of Evaluate: a blocked policy only refuses new logins.
EvaluateRateOnly(w) ==
  LET s == job[w].session IN
  /\ At(w, "evaluate")
  /\ IF row[s].sub = 0 \/ policy[s] \in {"blocked", job[w].rate}
       THEN Finish(w)
       ELSE Do(w, "coa", s, policy[s])
  /\ UNCHANGED <<nas, policy, row, blurred, account, escaped>>

\* The rate to send is compared with the one read from the row before.
Evaluate(w) ==
  LET s == job[w].session IN
  /\ At(w, "evaluate")
  /\ IF row[s].sub = 0 \/ policy[s] = job[w].rate THEN Finish(w)
     ELSE IF policy[s] = "blocked"                THEN Do(w, "disconnect", s, "")
     ELSE                                              Do(w, "coa", s, policy[s])
  /\ UNCHANGED <<nas, policy, row, blurred, account, escaped>>

CoaAcked(w) ==
  LET s == job[w].session IN
  /\ At(w, "coa")
  /\ nas[s].phase = "up"
  /\ nas' = [nas EXCEPT ![s].rate = job[w].rate]
  /\ blurred' = IF Unrecorded(s, w) THEN blurred \cup {s} ELSE blurred
  /\ Do(w, "record", s, job[w].rate)
  /\ UNCHANGED <<policy, row, account, escaped>>

\* What radclient reports as failed may still have been applied.
MayApply(s, rate) ==
  \/ UNCHANGED <<nas, blurred>>
  \/ /\ nas[s].phase = "up"
     /\ nas' = [nas EXCEPT ![s].rate = rate]
     /\ blurred' = blurred \cup {s}

\* Mutant of CoaFailed: no disconnect instead.
CoaFailedGivenUp(w) ==
  /\ At(w, "coa")
  /\ MayApply(job[w].session, job[w].rate)
  /\ Finish(w)
  /\ UNCHANGED <<policy, row, account, escaped>>

\* Packet or answer lost, or refused: the session is disconnected instead.
CoaFailed(w) ==
  /\ At(w, "coa")
  /\ MayApply(job[w].session, job[w].rate)
  /\ Do(w, "disconnect", job[w].session, "")
  /\ UNCHANGED <<policy, row, account, escaped>>

\* Mutant of RecordRate: last_control_at is saved without last_rate_limit.
RecordNothing(w) ==
  /\ At(w, "record")
  /\ row' = row
  /\ Finish(w)
  /\ UNCHANGED <<nas, policy, blurred, account, escaped>>

\* _record_control.
RecordRate(w) ==
  /\ At(w, "record")
  /\ row' = [row EXCEPT ![job[w].session].rate = job[w].rate]
  /\ Finish(w)
  /\ UNCHANGED <<nas, policy, blurred, account, escaped>>

DisconnectAcked(w) ==
  LET s == job[w].session IN
  /\ job[w].step \in {"disconnect", "cut"}
  /\ nas[s].phase = "up"
  /\ nas' = [nas EXCEPT ![s] = Down]
  /\ Finish(w)
  /\ UNCHANGED <<policy, row, blurred, account, escaped>>

\* Refused, or the packet or its answer is lost: the session may be down.
DisconnectFailed(w) ==
  LET s == job[w].session IN
  /\ job[w].step \in {"disconnect", "cut"}
  /\ \/ UNCHANGED nas
     \/ nas[s].phase = "up" /\ nas' = [nas EXCEPT ![s] = Down]
  /\ escaped' = IF At(w, "cut") /\ nas'[s].phase = "up" THEN escaped \cup {s} ELSE escaped
  /\ Finish(w)
  /\ UNCHANGED <<policy, row, blurred, account>>

\* The worker is killed, perhaps between a CoA and its record, or between a commit
\* and the disconnect that it calls for.
Kill(w) ==
  LET s == job[w].session IN
  /\ ~At(w, "idle")
  /\ blurred' = IF At(w, "record") THEN blurred \cup {s} ELSE blurred
  /\ escaped' = IF job[w].step \in {"list", "cut"} /\ nas[s].phase = "up"
                  THEN escaped \cup {s} ELSE escaped
  /\ Finish(w)
  /\ UNCHANGED <<nas, policy, row, account>>

-----------------------------------------------------------------------------
(* partial_update, assign_package_action and renew of a subscriber: commit,  *)
(* then disconnect_subscriber_sessions.                                     *)

\* An assignment and a renewal close the subscription and open another one.
BeginRenew(w, s) ==
  /\ At(w, "idle")
  /\ latest[s] < MaxSub
  /\ latest' = [latest EXCEPT ![s] = @ + 1]
  /\ Do(w, "list", s, "")
  /\ UNCHANGED <<nas, policy, enabled, row, blurred, escaped>>

BeginDisable(w, s) ==
  /\ At(w, "idle")
  /\ enabled' = enabled \ {s}
  /\ Do(w, "list", s, "")
  /\ UNCHANGED <<nas, policy, latest, row, blurred, escaped>>

Enable(s) ==
  /\ enabled' = enabled \cup {s}
  /\ UNCHANGED <<nas, policy, latest, row, job, blurred, escaped>>

\* Mutant of List: the sessions of the subscription in force are listed.
ListCurrent(w) ==
  LET s == job[w].session IN
  /\ At(w, "list")
  /\ IF row[s].status = "ACTIVE" /\ row[s].sub = latest[s]
       THEN Do(w, "cut", s, "") ELSE Finish(w)
  /\ escaped' = IF row[s].status # "ACTIVE" /\ nas[s].phase = "up"
                  THEN escaped \cup {s} ELSE escaped
  /\ UNCHANGED <<nas, policy, account, row, blurred>>

\* A session has a row from its first report on.
List(w) ==
  LET s == job[w].session IN
  /\ At(w, "list")
  /\ IF row[s].status = "ACTIVE" THEN Do(w, "cut", s, "") ELSE Finish(w)
  /\ escaped' = IF row[s].status # "ACTIVE" /\ nas[s].phase = "up"
                  THEN escaped \cup {s} ELSE escaped
  /\ UNCHANGED <<nas, policy, account, row, blurred>>

-----------------------------------------------------------------------------
Next ==
  \/ \E s \in Sessions :
       \/ Connect(s) \/ HangUp(s) \/ PolicyMoves(s) \/ IngestFirst(s) \/ IngestStop(s)
       \/ Enable(s)
       \/ \E w \in Workers : \/ BeginInterim(w, s) \/ BeginPackage(w, s) \/ BeginRefresh(w, s)
                             \/ BeginDisconnect(w, s)
                             \/ BeginRenew(w, s) \/ BeginDisable(w, s)
  \/ \E w \in Workers :
       \/ Evaluate(w) \/ CoaAcked(w) \/ CoaFailed(w) \/ RecordRate(w)
       \/ DisconnectAcked(w) \/ DisconnectFailed(w) \/ Kill(w) \/ List(w)

Spec == Init /\ [][Next]_vars

\* A live session keeps sending reports (Acct-Interim-Interval) with usage, and
\* finds a worker for them; workers are not killed at one point for ever; and of
\* the disconnects sent again and again one gets through.  CoA may never work.
Fairness ==
  /\ \A s \in Sessions : SF_vars(\E w \in Workers : BeginInterim(w, s))
  /\ \A w \in Workers : /\ SF_vars(Evaluate(w))
                        /\ SF_vars(CoaAcked(w) \/ CoaFailed(w))
                        /\ WF_vars(RecordRate(w) \/ List(w) \/ DisconnectFailed(w))
                        /\ SF_vars(DisconnectAcked(w))

FairSpec == Spec /\ Fairness

-----------------------------------------------------------------------------
NasStates == [phase : {"off", "up", "down"}, rate : Rates \cup {""}]
Rows == [status : {"NONE", "ACTIVE", "STOPPED"}, rate : Rates \cup {""}, sub : 0 .. MaxSub]
Steps == {"idle", "evaluate", "coa", "record", "disconnect", "list", "cut"}
Jobs == [step : Steps, session : Sessions \cup {NoSession}, rate : Rates \cup {""}]

TypeOK ==
  /\ nas \in [Sessions -> NasStates]
  /\ policy \in [Sessions -> Rates \cup {"blocked"}]
  /\ row \in [Sessions -> Rows]
  /\ enabled \subseteq Sessions
  /\ latest \in [Sessions -> 1 .. MaxSub]
  /\ job \in [Workers -> Jobs]
  /\ blurred \subseteq Sessions
  /\ escaped \subseteq Sessions

\* docs/phase-6: the row stores the rate last applied.  It does, between two
\* control exchanges, as long as none of four things has happened: the policy
\* moved between Access-Accept and Start, an answer was lost, two workers sent
\* CoA at once, or a worker died before recording.
RecordedRateIsApplied ==
  \A s \in Sessions :
    /\ nas[s].phase = "up" /\ row[s].status = "ACTIVE" /\ s \notin blurred
    /\ \A w \in Workers : At(w, "record") => job[w].session # s
    => row[s].rate = nas[s].rate

\* Nobody stays online as a disabled subscriber, or on the usage of a subscription
\* that was renewed, once the request is through with its disconnects: unless one
\* failed, its worker died, or the session had no row yet when they were listed.
LiveSessionIsCurrent ==
  \A s \in Sessions :
    /\ nas[s].phase = "up" /\ s \notin escaped
    /\ \A w \in Workers : job[w].session = s => ~At(w, "list") /\ ~At(w, "cut")
    => s \in enabled /\ row[s].sub \in {0, latest[s]}

\* A quota that blocks ends the live session, not only the next login: however
\* often workers die or packets are lost, the next report tries again.
BlockedIsDisconnected ==
  \A s \in Sessions :
    (nas[s].phase = "up" /\ row[s].sub # 0 /\ policy[s] = "blocked") ~>
      (nas[s].phase = "down" \/ policy[s] # "blocked")

\* A changed speed reaches the live session, by CoA or by a new login, although
\* the router may refuse every CoA.
RateFollowsPolicy ==
  \A s \in Sessions, r \in Rates :
    (nas[s].phase = "up" /\ row[s].sub # 0 /\ policy[s] = r /\ nas[s].rate # r) ~>
      (nas[s].phase = "down" \/ policy[s] # r \/ nas[s].rate = r \/ s \in blurred)
=============================================================================
