# PamirNet in TLA+

PamirNet is the back office of an internet provider: MikroTik routers ask it, through FreeRADIUS,
who may log in and at what speed, and report to it what each session has used. The program is a
Django application (`src/backend`) on PostgreSQL, run by several gunicorn workers, a Celery worker
and Celery Beat. This directory holds TLA+ models of its core, the TLC runs that check them and
proofs that TLAPS checks. `PROJECT.json` maps each definition to the lines it translates.

## 1. Inventory

| Component | State it keeps | Operations | Talks to |
|---|---|---|---|
| Accounting ingestion (`accounting/services.py`) | `RadiusSession` (status, cumulative counters), `RadiusAccountingEvent` (fingerprints), `UsageAggregate` | `ingest_accounting`; daily retention | NAS via FreeRADIUS (UDP, retries); usage counters, voucher activation; session control after the commit |
| Session control (`accounting/control.py`) | `last_rate_limit`, last control result of a session; writes `Subscriber.status`, `Voucher.status` | `refresh_session_policy`, `refresh_package_sessions`, `disconnect_subscriber_sessions` | `radclient` to the router (UDP 3799), effective policy |
| Vouchers (`vouchers/`) | `Voucher.status`, `expires_at`; `VoucherBatch.enabled` | authorize, activate, consume, expire, disable batch, delete batch | RADIUS, accounting, Celery Beat, operators |
| Subscribers (`subscribers/services.py`) | `Subscriber.status`, `Subscription.status` and its dates | create, assign, renew, edit, expire | RADIUS, accounting, Celery Beat, operators |
| Credentials (`subscribers/services.py`, `vouchers/services.py`, `import_subscribers_csv.py`) | usernames of subscribers and of vouchers, in two tables that share one name space; passwords | create, change password, generate a batch, import a CSV file | operators, the command line |
| RADIUS authorization (`subscribers/radius.py`) | writes subscriptions and vouchers, the bound MAC address | `authorize_radius`, post-auth | FreeRADIUS |
| Usage policy (`subscribers/policy.py`, `vouchers/policy.py`) | one `UsageCounter` row per scope | `record_usage_delta`, `calculate_effective_policy` | called by accounting, control, RADIUS |
| Tenancy (`core/`) | `Tenant.status`, `TenantMembership`, `Role`, `User.is_active` | create, assign, edit, suspend, disable, delete | operators, platform administrators, impersonation |
| Networking (`networking/services.py`, `views.py`) | `Router` with tunnel address and secret, the rendered clients file | create, edit, rotate, delete, render | FreeRADIUS, WireGuard |
| Router health (`networking/mikrotik.py`, `tasks.py`) | `Router.status`, health samples | poll, test, key rotation | RouterOS over REST or API, Celery Beat, operators |
| Everything else | tokens, audit log, analytics, frontend, deployment | no state of the core | |

What makes this code hard is the database. Requests run concurrently at READ COMMITTED; some
take row locks (`select_for_update`), in different orders; others read, decide and save without
one; a `save()` writes what was read earlier. Around it are lossy UDP with retries, workers that
can be killed between two statements, and two clocks (the event's and the server's).

What makes each component correct:

* accounting: no byte is charged twice or lost, a stopped session is not online;
* control: a blocked session ends, a changed speed arrives, the recorded rate is the applied one, no session outlives
  the renewal or the disabling that should end it;
* vouchers: the paid period starts once, a disabled or expired voucher never works again;
* subscribers: one active subscription, renewals survive concurrent expiry, an operator's
  "disabled" holds;
* credentials: a name belongs to one subscriber or one voucher, an import leaves out no row, a generated password reaches somebody;
* policy: each quota counts its own period, nobody is stricter treated than the package says,
  every reached stage counts;
* networking: the clients file is the table of enabled routers, a revoked router stays out, and FreeRADIUS
  hears of it;
* health: a router's status says whether it is enabled, and comes to say whether it answers;
* tenancy: an active tenant has an owner, nobody helps himself to the Owner role, a member
  always has a role, a suspension holds.

## 2. Plan and its state

In order of importance, done unless marked *next*:

1. `Accounting`, its abstract specification `UsageLedger`, `AccountingProofs`.
2. `RowLocks` (shared), `Vouchers`, its abstract specification `VoucherCard`, `VouchersProofs`.
3. `Subscribers`, `SubscribersProofs`.
4. `Periods`, `EffectivePolicy`, and `UsageCounters` that composes them.
5. `SessionControl`, with the requests that renew or disable a subscriber and then disconnect. `PolicyProofs` holds the proofs of 4 and 5.
6. `Tenancy`, with suspension and tenant edits; `TenancyProofs`.
7. `Routers`, `RoutersProofs`.
8. `Credentials`, `CredentialsProofs`.
9. `RouterHealth`, `RouterHealthProofs`.
10. *next proofs*: no safety property of a run is left; what a theorem could add is a session id used again (`CanReuse`) on the online-session list.
11. *next models*: the FIRST_LOGIN station lock of `radius.py`; the retention job against late reports.

## 3. Modules

**`Accounting`.** One action per part of `ingest_accounting` between which another worker, or the
end of the process, can intervene: `Receive`/`Reject` (a report whose router and user are not `Accepted`, being
disabled or deleted, is answered like a success and dropped), `LookupExisting`/`LookupMissing`/`LookupRefused` (the `SELECT ... FOR
UPDATE`, which PostgreSQL refuses because it joins nullable keys: the variable `database`, chosen once), `CreateSession`/`CreateConflict` (the `INSERT` with its unique constraint),
`SkipDuplicate`/`PassDuplicateCheck`, `Commit` (everything from the deltas to the end of
`transaction.atomic()`), and `Crash`, which rolls back. `copy` is the session object in memory, `lock`
the row lock. The NAS (`NasStart`, `NasInterim`, `NasStop`) and the network (`Drop`, and repeated
`Receive` of a report) are external, and so is the staff (`Administer`), who disable, delete or enable routers and accounts: `known` are the sessions
whose router and user would be accepted now; a report may be overtaken by any later one. `CanReset`, `CanReuse` allow counters that
start again in mid-session and session ids used twice. Three things are history and decide nothing: `nas.total`, what was really
carried; a report's `number` and `total`, its place among the reports of its session; and `front`, the place of the latest report ingested and
whether one was ingested after a later one. Input and output bytes are treated alike by the code and are one
counter; the aggregates and usage counters written in the same transaction are one number, `usage`.

**`UsageLedger`.** What billing expects: a new fingerprint is recorded and charged in one step, to one
session, by at most the counter it carries.

**`RowLocks`.** PostgreSQL's part: `Free`, the waits-for relation, and which process may be the victim of
a deadlock. `Vouchers`, `Subscribers` and `Credentials` instantiate it with `held`, the rows or index entries each process has locked.

**`Vouchers`.** One batch operation or RADIUS request is a walk through named steps (`pc`), one per
statement that can wait for a lock. A multi-row `UPDATE` or `DELETE` visits its rows one by one
(`VisitUsable`, `VisitDue`, `VisitDeleted`), waits for each and evaluates its `WHERE` again, as READ
COMMITTED does. Written values become visible at the commit. Two histories: `activations`, and `late`, the vouchers activated while a
deletion that had found their batch unused was under way. `VoucherCard` is the abstract
specification: a card is unused, runs once, and is then over for good.

**`Subscribers`.** Row `<<s, 0>>` is a subscriber, `<<s, i>>` its i-th subscription. Authorization and assignment
lock the subscriber first, expiry the subscription first. `seen` is the status a request has in memory, `command` the
operator's last word (history).

**`Credentials`.** A job (`kind`) is one transaction: a creation has one row, a batch is the voucher names drawn, an import goes through
its file by `Find` (a row with a missing field is refused, then one whose username has a subscriber is skipped, then other faults are refused),
`Check` (the name is free among vouchers and subscribers, else the row
is an error), `Insert` (which waits for a transaction that holds the same key; a disabled package is found after it, and a date that cannot be read ends the
import there) and `Commit`. What is wrong with a row is its `flaw`. Errors and a dry run only set
`discard`. `generated` is the list a job keeps of the passwords it draws, row by row; `Publish` is what the commit makes visible. After the commit the job reports its
list (`Reply`: the response, or the output file), may fail to (`OutputFails`) or die (`Kill`).
`credential` says who knows the password in force: nobody but the job that drew it, the operator (`known`), or nobody any more (`lost` with a job that died or
could not report it). So the list and the table are two pieces of state, and the properties relate them.
`Victim` is a deadlock over two names. `raced` is the history of
names that a job of one table committed while a job of the other, which had found them free, was under way, `changed` that of names whose password was changed since a job listed
them that has still to report.

**`Periods`, `EffectivePolicy`, `UsageCounters`.** The first two are functions: the two `period_bounds` (the voucher's does not clamp a time before the start) over a calendar of small
days and months, and the stages of `calculate_effective_policy`; each has its reference definition next to it
(`IsPeriodOf`, `MostRestrictive`), written from what the phase documents say. `UsageCounters` runs them concurrently: `LockCounters`/`AddDelta` is the locked
`record_usage_delta`, `BeginEvaluate` ... `SaveReset` the unlocked evaluation, `at` the event time or the server's. The history `recorded` is the
sequence of times that deltas were charged to. Its operators are called `CountersInit`, `CountersNext` and so on, so that one module of proofs can extend it together with
`SessionControl`.

**`SessionControl`.** The router's session (`nas`), the row, the policy as a value that moves, and the steps of
`refresh_session_policy`: read the row (`Begin...`), evaluate, CoA, record, or disconnect. Next to it the requests that commit a
renewal or a disabling (`BeginRenew`, `BeginDisable`) and then list and cut the sessions with a row (`List`, the steps `list` and `cut`).
`CoaFailed` and `DisconnectFailed` may or may not have had their effect; `Kill` ends a worker anywhere.
Two histories: `blurred`, the sessions whose row can no longer be trusted, and `escaped`, those that have outlived such a list.

**`Tenancy`.** A request is its reads and checks (`Begin...`) and its writes (`Write...`, `Save...`, `DeleteRole`), because the code takes no
locks here; `stale` remembers that another request has committed in between. An edit of a tenant's name or settings carries the
status it has read (`tenant_edit`), since `save()` writes the whole row.

**`Routers`.** A request is a read (`Begin...`), a write (`Insert`, `Save`, `SaveSecret`, `Delete`) and the rendering of the
clients file in two steps, the query (`Render`) and `os.replace` (`ReplaceFile`); `Kill` ends it anywhere, `RenderCommand` is the
management command. `save()` writes the whole object it has read and inserts a row that was deleted meanwhile;
`save(update_fields)` writes the secret alone and fails for a deleted row. `Look` is one pass of `watch-clients.sh`, whose HUP is taken to load the
file, as docs/phase-2 says. The histories `behind`, `astray` and `missed` name the races after which file, table and
FreeRADIUS may differ.

**`RouterHealth`.** The other half of `Router`: its switch and its status. `BeginTask`, `NextRouter` walk through the routers in the order
of the query; `BeginTest` is the operator's test of one; `Attempt` is one poll, `SaveStatus` the `save(update_fields)` after the last.
Routers over REST turn every failure into `MikroTikError`; over the API a failed `connect()` raises an `OSError` that ends the task
(`Unreachable`). `BeginPatch`/`BeginEnable`/`SavePatch`, `RotateKey` and `Delete` are the requests. `behind` remembers that a router was PATCHed
since a worker read it, `suspect` that its status was last written by such a worker or by a key rotation of a disabled router.

`MC...` modules only name model values, symmetry sets, and the packages, calendars and files used. `...Proofs` modules hold the theorems.

## 4. Runs

| Run | Shows | Bounds |
|---|---|---|
| `acct_ingest` | with reports lost, repeated, overtaken, refused, and counters reset: no overcharge, exact charge, closed exactly when the Stop is ingested, each unless a report of the session was overtaken; no stale write, no event conflict, `UsageLedger` is implemented. On a database that can lock the session, a Start and a Stop that keep being sent (`Offered`: and whose router and user are accepted) take effect | 1 session, 2 workers, 3 reports of which 2 in flight, 1 byte a report, words of 2 (so the octet counter wraps), 1 killed worker |
| `acct_postgresql` | **violated** `StartsAreShown`: on PostgreSQL the locked `SELECT` is refused and a Start never opens its session | the same without bytes and resets |
| `voucher_safety` | activation once, disabled batch unusable, a used voucher deleted only if activated while its deletion was under way (`late`), `VoucherCard` is implemented | 2 vouchers in 1 batch, 2 requests, the task |
| `subs_safety` | one active subscription, decisions on committed status, renewals kept, disabled kept | 1 subscriber, 2 subscriptions, 2 requests, the task |
| `subs_expiry` | an over subscription is ended in spite of deadlocks | 1 request, the task |
| `credentials` | a name in both tables was `raced`; imports are complete; a generated password that nobody knows yet is on the list of a job about to report it, and what is on such a list is in force unless it was `changed`; every job ends in spite of deadlocks | 2 names, 2 jobs, 5 files (both orders of the names, missing passwords, every flaw before or after other rows), 4 requests (blank names, a disabled package), batches of 2 |
| `usage_counters` | for a subscription or a voucher: quotas never overcounted, total quota exact, calendar periods, never too strict, escalating packages as documented | 2 threads, 2 deltas, delay 2, 9 hours from 0 or 4, months of 3, 2, 4 days |
| `usage_block_stage` | **violated** `ReachedStagesApply`: a block below a throttle stage is forgotten | one policy with two stages |
| `session_control` | blocked sessions end, speeds arrive, the recorded rate is the applied one unless `blurred`, a live session is an enabled subscriber's on the current subscription unless it has `escaped` | 1 session, 2 workers, 2 rates, 2 subscriptions |
| `tenancy_owner` | the only ways to lose the last owner or the last role or to undo a suspension; Owner is not regained | 1 tenant, 2 accounts, 2 requests |
| `routers` | the file is the table unless `astray`, only a PATCH revives, a revocation reaches FreeRADIUS unless `astray` or `missed` | 2 routers, 1 address (so creations collide and addresses come back), 2 requests, 2 secrets |
| `router_health` | status and switch agree unless `suspect`; the status of a router that stays as it is comes to say so, unless an API router before it is unreachable | 2 routers, the first over the API, the second over REST; the task, 1 request, 2 polls a check |

Why small is enough: locks, checks and saves concern one session, one voucher with its batch, one
subscriber, one name, one tenant or one router; two requests and the periodic task already produce every pairwise order of
their statements, and every lock cycle of the code is between two of them. Three reports make a first, a
later and an overtaken one; words of 2 make the gigaword carry happen at once; two subscriptions make a renewal; months
shorter than the anniversary make the last-day rule apply; two routers make one that is polled after one that
ends the task. Runs with safety only use symmetry of workers
(and vouchers); liveness runs use none. `CHECK_DEADLOCK FALSE` is set where a system in which nobody
sends a request, or all bounds are used up, is at rest.

Type invariants are proved for every instance by the theorems `TypeCorrect` and `CountersTypeCorrect`, and are not repeated in the runs.

### Fairness

* `Accounting!FairSpec` (`acct_ingest`, `acct_postgresql`): strong fairness of a worker's next step: a request runs on, and a waiter gets the row lock in its
  turn (PostgreSQL queues waiters). A Start or Stop in flight keeps reaching an idle worker: RADIUS clients
  retransmit accounting until it is answered. Nothing is assumed of reports that are lost for good (`Drop`), and
  kills are bounded. Nothing is assumed of the staff: the two "leads to" say what happens as long as the report is one that the code is to take.
* `Subscribers!FairSpec`: the same for locks, the task is started each minute by Beat, and PostgreSQL breaks each cycle of waiting
  transactions. The task may be the victim.
* `Credentials!FairSpec` (`credentials`): the same for a waiting `INSERT`, and for cycles of names.
* `SessionControl!FairSpec`: a live session reports again and again (`Acct-Interim-Interval`) and its report finds a worker; workers are not killed
  at one point for ever; of repeated disconnects one is acknowledged. A router that refuses every CoA is allowed.
* `Routers!FairSpec`: a request that is not killed runs on, and the watcher looks every two seconds. Nothing makes FreeRADIUS or the
  watcher restart.
* `RouterHealth!FairSpec`: Beat starts the task every 30 seconds, and tasks and requests run on. Nothing is assumed of the routers.

## 5. Proofs

`AccountingProofs`, for every set of sessions and workers, word size and bound:

* `TypeCorrect`, `NoStaleWriteHolds`, `NoEventConflictHolds`. The three are not inductive alone; their conjunction
  `IInv` is: that the event is new at `Commit` needs the lock since the duplicate check, that the lock
  is one's own needs the copy to be that of the locked row, and all need the types.
* `NeverOvercharged`. `NoOvercount` says nothing of what a pending report would add. The notion that does is `Reaches(b0, t0, b1, t1)`: what counter
  `b1` would add to a row at counter `b0` is at most what was carried between the totals `t0` and `t1`. It survives every
  step of the NAS, resets included (`Extends`). `PInv` says that it holds from each report that may still be ingested to every later one and to
  the NAS itself (`Sent`, `Ordered`), that `front` is the place of an ingested report (`FrontIngested`), and, as long as nothing was
  overtaken, from the row onwards (`FrontReaches`). `Commit` moves the front
  along one such pair, with the right row by `NoStaleWrite`. Lemmas: `DivMod` (a counter survives its
  split into gigawords and octets), `DeltaRange`, `CounterBytesType`.
* `CountedExactlyHolds`, by `EInv`: the bytes that resets have hidden (`Hides`) only grow from a point in a session's life to a
  later one, so if the NAS hides none now, no report did.
* `StoppedIffStopIngestedHolds`, for session ids that are not used again (`~CanReuse`), by `SInv`: a Stop is the last report of its NAS, so once it is ingested the front
  of its session is the end of its reports, and what is committed after it was overtaken. With `CanReuse` the equivalence is not what the code does: a later session under the
  same id is rightly shown online although the earlier one's Stop was ingested.
* `LedgerImplemented`: `Spec => ImplementsLedger`, in any order: every step is one `Charge` or leaves the ledger alone.

`VouchersProofs`, for every set of vouchers, batches and requests: `ActivatedOnceHolds`, `DisabledBatchIsUnusableHolds`, `OnlyUnusedDeletedHolds`,
`CardImplemented` and the types. `IInv` adds what a multi-row statement has done so far (`Job`): the `UPDATE` of `disable_batch` has locked
every usable voucher of its batch or will still visit it, so none is left at the commit, and a deletion holds vouchers of its batch only.
`Unused` says that a voucher that has not run has not been activated, and `DeletionsCheck` that what ran of a batch under deletion is `late`. The
others' duties survive a step because no step makes a voucher usable (`OthersJobs`). For the card, `StartsOrNot`: every step starts one voucher, or only ends some.

`SubscribersProofs`, for every set of subscribers and requests and any number of subscriptions: `OneActiveHolds`, `NoStaleDecisionHolds`,
`RenewalNotLostHolds`, `DisabledIsKeptHolds` and the types. Here the locks carry the argument: `Exclusive`, no row is held twice; `Job`, an authorization
that has locked its subscriber knows its status, and an assignment that has locked its subscriber has locked each active subscription
or will still visit it. So whoever changes a status or adds a subscription meets nobody who relies on it. `Unique` is `OneActive` without
counting, which the steps preserve and the theorem turns into `Cardinality(...) <= 1`.

`RoutersProofs`, for every set of routers, addresses and requests:

* `TypeCorrect` and `FileIsTableHolds`, with `IInv` of three parts: types; `RealRows` (what exists or is about to be inserted or saved has
  an address and a secret, so what is rendered is well-formed); and `Fresh` (whoever has rendered and is not `behind`
  holds the table), which is what `os.replace` needs for the file to be the table again.
* `OnlyPatchRevivesHolds`. That an insertion revives nothing needs `NewIsOwn`: the row of an id that is about to be inserted is
  absent, and nobody else handles that id.

`CredentialsProofs`, for every set of names, jobs, files, requests and batch sizes: `DisjointUnlessRacedHolds`, `ImportIsCompleteHolds`,
`PasswordIsReportedHolds`, `ReportIsInForceHolds` and the types. `IInv` adds for each job where it is (`Shape`), that the rows it has passed are subscribers or
will be at its commit (`Handled`), and that the names it has claimed are not in the other table, or the race is on record (`Apart`). The two properties of
reports have an invariant of their own, `RInv`: the list of an open transaction is what it has inserted with a password of its own (`Lists`), for which the row in turn has to
bring a name that no earlier row has brought (`Fresh`: the skip in `Find`); and what it has inserted is no subscriber's and in no other open transaction
(`Exclusive`: the unique index, by `Locks!Free`), so no other job's commit can take a name that is to be reported.

`RouterHealthProofs`, for every number of routers, tasks, requests and polls: `StatusMatchesSwitchHolds` and the types. `IInv` adds that an object on
which a worker is not `behind` agrees with the row on the switch (`Agrees`) and that the status it will write agrees with its own switch (`Consistent`).

`PolicyProofs`, from usage to the applied rate, is in two halves. The first is about `Periods`, `EffectivePolicy` and `UsageCounters`, for every calendar, zone,
package, number of threads and bound:

* `PeriodsAreRight`: both `period_bounds` are the reference `IsPeriodOf`, for every table of month lengths. The installed provers cannot use an
  induction rule that takes a predicate, but they can use one about a set: `Minimum` (a nonempty set of naturals has a least element, from the
  library's `WFMin`) gives `SetInduction`, hence that the recursive function `FirstDay` is what its equation says (`FirstDayDef`, by finite tables `Partial` that
  agree), that months tile the days (`SomeMonth`, `OneMonth`), and that anniversaries ascend even where the last day of a short month
  stands in for a later one (`AnniversariesAscend`). `Elapsed` then says that `_months_elapsed` finds the last anniversary that is not later.
* `EscalationIsRestrictive`: the loop of `calculate_effective_policy` passes exactly the reached stages up to the matched one (`MatchedStage`), so
  for packages whose later stages are the stricter ones (`Escalating`) the matched stages are as restrictive as all the reached ones.
* The invariants of the run, by `CountersInv`: a delta that is about to be added holds the lock of the subscription, and with it the counters as
  they are (`Adding`); what an evaluation saves without a lock is an empty counter, never that of the whole subscription (`Resetting`), whose
  period is the same at any time (`SubscriptionPeriod`); nothing was recorded while a counter is missing (`NoneYet`). Adding at a time of the counter's
  own period raises counter and history by one (`OccurrencesAppend`), and resets only lower the former, hence `NeverOvercountedHolds`. The counter of the
  subscription meets no reset, hence `SubscriptionScopeExactHolds`. `NeverTooStrictHolds` follows from what is counted being at most what was used
  (`CountedIsUsed`) and a matched stage being a reached one (`MatchedIsReached`).

The second half is about `SessionControl`, for every set of sessions, workers and rates: `RecordedRateIsAppliedHolds`, `LiveSessionIsCurrentHolds` and the types. While
a session is not `blurred`, at most one worker is about to record, and records what the NAS applies (`Exchange`); `Applied` and `Current` are
the two properties with a job that is still to do its part as a way out.

`TenancyProofs`, for every set of tenants, accounts and requests: the four action properties and the types. `IInv` says of each request with
writes to do (`Pending`) that what its checks have found still holds (`Valid`) unless it is `stale`: checks go stale only by another
request's commit. `Founded` adds that a tenant that does not exist has no members.

The assumptions are those named in the modules (`...Assumption`): model values apart from each other, numbers for bounds. TLC evaluates them in the runs.

Model-checked only: all liveness (fairness and `ENABLED` are beyond the prover's reach). Every invariant and action property of the runs, and both
refinements, are theorems. Session ids used twice (`CanReuse`) are covered by the proofs alone, `StoppedIffStopIngestedHolds` excepted: no run sets it.

## 6. Disagreements with the documents

Two runs end in a violation; each is recorded under `findings` with the line of the document or of the code that says otherwise. Further
observations, without a run of their own; where a property has an exception for one, it is named:

* packages whose later stages are the stricter ones do what docs/phase-4:25 says (`EscalatingStagesApply`): the violated run needs a policy whose
  later stage is milder;
* a report ingested after a later one is charged in full, because `_delta` takes it for a counter reset (the exception `InOrder`); the
  "cannot be counted twice" of docs/phase-6:40-41 holds of retransmitted packets, of which it speaks;
* `_sync_identity_state` saves a status decided on a row read earlier, and can re-admit a subscriber disabled meanwhile (`accounting/control.py:136`; the exception
  of `DisabledIsKept`);
* a subscriber disabled between Access-Accept and Accounting-Start, when there is no row to disconnect, stays online (`escaped`);
* a tenant edit that has read the tenant before a suspension makes it active again; docs/phase-1:28 has "suspended tenants rejected immediately" (the exception of `SuspensionHolds`);
* a batch is checked unused and deleted by separate queries (`vouchers/views.py:79`); a voucher activated in
  between is deleted (`late`), which docs/phase-5 excludes;
* no index spans subscribers and vouchers, and a voucher batch that overlaps a creation can take its name (`raced`), which docs/phase-5 excludes;
* the file of generated passwords is created and written after the import has committed (`import_subscribers_csv.py:206`), although the command demands it "so generated
  credentials cannot be lost" (line 59): if that fails, or the command dies, they are `lost`, and a second run skips the subscribers as existing. The file is overwritten by a second
  import to the same path, and a password changed between the commit and the writing makes it out of date (`changed`);
* `assign_tenant` replaces the roles of an existing member by Tenant Admin unchecked (`core/views_platform.py:215`) and so takes the only owner of an active tenant, against docs/phase-1:44, "The last
  active Owner cannot be disabled or stripped of the Owner role" (an exception of `OwnerLossExplained`);
* an unreachable router over the plain API ends the health task (`networking/mikrotik.py:129`), and routers after it are not polled in any run (`Polled`);
* a disabled router is shown online after an overlapping check, and pending after a key rotation, and no later check corrects it (`suspect`). The rotation answers 409 after it has saved
  the key when no WireGuard server is configured;
* besides the run `acct_postgresql` (`accounting/services.py:280`): the tests run on SQLite (`ci.yml:31`), which ignores `FOR UPDATE`, so they do not meet it.
  The run `acct_ingest` and the proofs of `Accounting` cover both kinds of database: on PostgreSQL they say that nothing wrong is charged, on others what the code intends;
* a session whose router is disabled, or whose user is deleted, stays online: its Stop is answered and dropped (the exception `Offered`);
* the Start of a later session under a reused Acct-Session-Id has the fingerprint of the first one and is dropped;
* `OwnerLossExplained` lists two more ways an owner is lost: two overlapping requests, and an account disabled while
  its tenant is suspended.

## 7. Not modelled, and why

* The deletion of a router takes its sessions with it (a cascade); `Administer` only makes its reports unknown.
* Of networking: key material and the RouterOS account, which no other component reads. Package editing, retention and the buckets of
  aggregates: no decision of the modelled requests depends on when they happen.
* Tokens, throttling, permission names: stateless checks; `Tenancy!Actors` says who passes them.
* Station (MAC) binding: one nondeterministic bit, `station_allowed`. Attributes such as Session-Timeout: formatting of a decision that is modelled.
* Daylight saving: `ZoneOffset` is fixed, so a day that is 23 or 25 hours long is not covered.
* The audit log, analytics, dashboards, admin pages, frontend and operations scripts: no state of the core, or thin callers of modelled operations.
