# upcontrol in TLA+

TLA+ models of the parts of upcontrol where concurrency, failure and ordering
decide whether the product does what it says: it pages once, for a real outage,
and says so again when the outage is over; it loses no log row and stores none
twice; a project has one owner; two people who edit one board do not undo each
other. Every module is read off the Go and SQL under `src/`; `PROJECT.json` maps
each definition to the lines it stands for.

Run any check from this directory: `tlc -workers 2 -config MCOutage.cfg MCOutage.tla`,
`tlapm SideBySideProofs.tla`.

## 1. The system

Three binaries share one Postgres: `ucapi` (HTTP API, ingest, Telegram bot),
`ucworker` (periodic jobs, alert delivery; `ucapi --with-worker` runs the same
loops) and `ucprobe` (one per region: fetches the targets). There are no message
brokers: every interaction is a row another process reads later.

```
 sites <--fetch-- ucprobe --Lease/SubmitResults--> ucapi --> target_facts, checks
                                                    |           |
                           API, Telegram, sweeps ---+--> monitor, incident
                                                                |
                                  delivery_queue <--- fan-out --+
                                        |
                          delivery workers --send--> Telegram, email, webhooks
 SDKs --POST /i--> ingest --> seq allocator, batcher --> log tables --> detectors --> incident
```

### Inventory

| Component | State | Operations | Hard behaviour | What makes it correct |
|---|---|---|---|---|
| Availability detector `detect/availability` | `target_facts` row: status, two streaks | `Process(ok/fail/unmeasured)` | unreadable answers among failures; edges | status is the summary of the stream; open and close edges alternate |
| Probe results `rpc/probeservice.go` | facts, schedule, incidents | `SubmitResults`, one statement after the other | calls in flight at once, cut off anywhere; statements that fail alone | alarm only after the threshold; a lasting outage is noticed; a recovery closes |
| Incident lifecycle `incident` | `incident`, timeline, slice | `Open`, `OpenOnTx`, `Close`, `ClosePlanPaused`, `OpenDetect`, `CloseByFingerprint` | check-then-insert without a constraint | one open incident per monitor; none orphaned |
| Monitors API `api/monitors.go` | `monitor`, subscription to a shared target | create, patch, delete | transactions against the fan-out's lists | a joiner gets its incident, a leaver leaves none |
| Plan capacity `worker`, `pgstore/sweep.go` | `monitor.paused_by`, `project.frozen_at` | freeze, budget, close, thaw: once a minute under the lock, and after a deletion without it | runs against everything else and itself, not atomic | settles on the plan; the owner's pauses stay; an outage that spans a thaw is announced |
| Probe leasing `rpc/probeservice.go`, `schedule.sql` | `target_schedule`: due, holder, term, backoff | `Lease`, reschedule, `ReportBlind`, pull | select and update are two statements; nodes die with a batch | one holder; every due target measured |
| Probe node `cmd/ucprobe` | none that survives | lease, execute, submit under two budgets | crash, submit timeout | its budgets fit into the lease term |
| Alert delivery `deliver` | `delivery_queue`, per-process breakers | lease, route, compose, send, settle | crash between send and settle; lost answers and writes; mutes | never again once answered; every row settles; honest follow-ups |
| Telegram bot `channel/telegram` | `alert_channel`, `telegram_invite`, `person`, incidents | mute, unmute, resolve, redeem a link, stop | commands race the workers; merges of two rows of one human | a lifted mute releases what it held; a chat stays with its person |
| Team `api/write_api.go`, `api/telegram.go`, `account/auth` | `project_member`, `person`, `alert_channel`, `telegram_invite` | invite, sign in, add and drop a destination, mint and burn a link, remove | memberships read before the writes they allow; a second connection inside a transaction | only who has proved the address is active; alerts reach the team and nobody else |
| Sequence allocator `ring/seq` | block per instance, counter row | `Next` | lease outside the mutex, restart | a value is returned once |
| Ingest batcher `ingest/batcher` | pending batch per key | `Add`, `Tick`, `Close`, `flush` | mutex dropped around the sink; shutdown | every row in exactly one place, flushed in the end |
| Ingest handler `ingest`, `decode`, `scrub`, `normalize`, `cardinality` | claim of a body, cardinality sets | `Handle` | claim before add; duplicate bodies; crash; a full spool | a body is added once |
| Heartbeats `heartbeat` | `target_facts` and window end per monitor | ping, missed scan, PATCH | a ping, the sweep of any worker and a PATCH at once | silence shows; one incident; it follows the verdict |
| Error-rate detector `detect`, `detect/suppression` | `error_alert_state`, incident by fingerprint | minute scan | deploys, people and stale reads against cooldown and grace | paged a cooldown apart; a lasting spike shows |
| Error-log detector `detect/errorlog` | fingerprints, cursors | scan | scan races ingest and close | one incident per fingerprint |
| Product alerts `productalert`, `api/product_alerts.go` | a rule's row: episode, last fired, pause | evaluate, create, patch, delete | two evaluators on old lists; a PATCH writes the whole row | told once when an episode starts, once when it ends |
| Boards `api/dashboard.go` | `dashboard_board` rows per project | save, append, PUT, create, rename, delete, by session and by key | read, check and write are statements of their own | nobody's save is lost; the plan's count holds |
| Projects `api/install.go`, `projects.go`, `write_api.go`, reapers in `worker` | tenant, project, keys, status page | mint, claim, create, delete, issue a key, reap | two claims of one tenant; a placeholder in use while it is absorbed | one owner; nothing in use is removed |
| Status page addresses `api/write_api.go`, `seeddoor.go`, `removetoken.go`, `monitors.go`, `worker` | `status_page` (slug, host page, root), `blocked_host`, `project.domain` | watch, seed, first save, naming by the first check, removal by a DNS record | a probe of ten seconds between look and mint; four doors race for a slug | no copy of a page that was there; a link that was shared stays |
| Own hosts of status pages `api/write_api.go`, `pgstore/sweep.go` | `status_page.domain`, its proof and its lapse | save, verify, the certificate door, the grace | a DNS answer in flight while the host moves; a plan that comes and goes | a certificate only for a proved host; taken away only after the grace |
| Web and product analytics `analytics`, `web` | buffered events, visitor sets | record, flush, stop | full buffer, drain at shutdown | nothing blocks a request |
| Webhook source `source/webhook` | dedup key | receive | provider retries | one event per delivery |
| Accounts `account/auth`, `account/session` | sessions, magic links | sign in, first workspace | single use under concurrency | a link is used once |
| Read side `ring/query`, `discover`, `api/read_api.go`, dashboards, rendering of status pages | none | queries and rendering | none of their own | functions of the tables |
| Platform `platform/*`, `migrate` | shutdown tasks, health cache | shutdown, probe, migrate | tasks run concurrently | last flush before the pool closes |
| Frontend `front`, SDKs and installer `cli` | client side | | SDK queue and retry | |

### How the components interact

* `SubmitResults` is the only writer of the `target_facts` of a probed target (a heartbeat's
  private target is written by its pings and its sweep). It opens and closes
  incidents for all monitors subscribed to the target; `create`, `patch`,
  `delete`, the sweeps and the bot write the same rows in between.
* `Open` enqueues into `delivery_queue` (an alert per channel now, a follow-up
  later). Delivery workers know nothing of monitors; a follow-up looks at its
  incident again when it is composed.
* The API pulls a target's `next_due_at` forward, a result pushes it one interval
  on, `Lease` hands out what is due.
* `Handle` claims a body, numbers its rows with the allocator and hands them to the
  batcher, whose sink writes to Postgres until the pool is closed.
* The jobs of `ucworker` run under a session-level advisory lock, one worker at a
  time as long as that session lives: the heartbeat sweep, the evaluator of product
  alerts, the error-rate scan, the sweeps of the plan and the reapers.
* Heartbeats and the error-rate scan open and close incidents through the same
  lifecycle as the probes do; people resolve them by the same bot.
* The claim, the reaper and the removal job write `project` and `monitor` rows that
  ingest, the probes and the dashboards go on using.

## 2. Modules

| Module | Models | State and actions |
|---|---|---|
| `Availability` | `Detector.Process`, the verdict of a result | pure operators, used by the next two |
| `DetectorStream` | the stream of one target's results through the detector | `facts` is the row; `Submit` is a result; `edges` the transitions |
| `Outage` | `SubmitResults`, `Lifecycle.Open`/`Close`/`ClosePlanPaused`, monitor create/patch/delete, budget sweep, `/resolve` | `facts`, `monitors`, `open` are the tables; `handler`, `txn`, `deleting`, `swept` say where each call is between two statements |
| `ProbeLease` | `Lease`, `SubmitResults` rescheduling, `ReportBlind`, pull, the node's cycle | `due`, `by`, `lease`, `refusals`, `backoff` are the row; `node` the cycle |
| `DeliveryQueue` | the queue, its workers, breakers, mutes, freeze, the closes of an incident a follow-up reads | `queue` is the table; `batch`, `attempts0`, `task`, `breaker` one process's memory; `Send` decides apart what the channel takes and what the worker hears |
| `AlertLedger` | what delivery promises: absent, owed, then delivered or abandoned for good, with the copies that reach the recipient | abstract |
| `SeqAllocator` | `Next` on several goroutines and instances, `LeaseSeqBlock` | `dbNext` the counter row, `alloc` the block in memory, `caller` the goroutine |
| `Batcher` | `Add`, `Tick`, `Close`, `flush`, the sink, the shutdown beside it | `batch`/`pending` the map, `adder`/`ticker`/`closer` the goroutines |
| `Ingest` | `Handle` in front of `Batcher`: overload, cardinality, the claim of a body, crash and restart | `request` where each POST is, `claims` the table `ingest_batch`, `seen` the Limiter |
| `Heartbeat` | `Ping`, `Tick` under `runWithLock`, the PATCH of a heartbeat, its incident | `facts`, `left`, `interval`, `paused`, `open` the rows; `ping`, `sweep`, `patch` the calls; `lock` the advisory lock |
| `ErrorRate` | `scanProject` and `suppression`, `OpenDetect`, `CloseByFingerprint` | `lastFire`, `deployed` ages of the rows; `scan` what the scan has read |
| `ProductAlert` | `Tick` and `evaluate`, the doors of `product_alerts.go` | `rules` the rows; each evaluator its list, each PATCH the rule it read |
| `Boards` | every door that writes a board, by session and by key | `boards` the committed rows, `pend` each transaction's, `req` where each request is |
| `Ownership` | mints, claim, create and delete of projects, keys, reaper, removal job, what ingest resolves to | `tenants`, `projects`, `keys`, `rows` the tables, `req` the requests, `reaping` the DELETE under way |
| `PlanCapacity` | `PlanCapacity` statement by statement, by the job and by a deletion; `open`, the PATCH and the delivery of a frozen project's row beside it | `projects`, `monitors` the rows; `incident` the open incident with its queue row; `run`, `opener`, `patch` where each call is and what it has read |
| `StatusPages` | `publicWatch`, `seedDoor`, `putStatusPage`'s slug, `nameProjectIfUnnamed`, `removeTokenDoor`, `removeByToken` | `pages`, `projects`, `blocked` the tables; `req` each request with the page it found; `sweep` what the job has listed |
| `CustomDomain` | `putStatusPage`'s domain, `verifyStatusDomain`, `domainAllowed`, `DomainGraceSweep` | `page` the row, `ask` each request, `stage` the sweep's statement |
| `Holdings` | what a person can own: `Ownership`, `StatusPages` and `CustomDomain` side by side | theirs; what one reads of another it models itself (a claim is `TakesOver` in `StatusPages`) |
| `SideBySide` | `DetectorStream`, `ErrorRate`, `ProductAlert` and `SeqAllocator`, which share no row with one another | theirs |
| `Monitoring` | the monitors of a project: `Outage`, beside it one `Heartbeat` with a threshold of one, and the leases of `ProbeLease` | theirs; `beat`, `beatOpen`, `beatFaults` are the heartbeat's `facts`, `open`, `faults`, `leaseChanges` and `leaseFaults` the bounds of the leases |
| `Team` | invitations by mail and link, their redeems, destinations by address or chat, seeded or typed in, removal, the bot's redeem and merge | `person`, `member`, `channels`, `links` the tables, `call` the requests, `bot` the message in hand |
| `SideBySideProofs` (with `Availability`), `MonitoringProofs` (with `Heartbeat` and `ProbeLease`), `DeliveryQueueProofs`, `IngestProofs` (with `Batcher`), `PlanCapacityProofs`, `HoldingsProofs`, `TeamProofs`, `BoardsProofs` | theorems of the module each is named after | |
| `MC*` | TLC instances; `MCSideBySide` is of four components (two in each of its runs) and `MCOwnership` of three, one per behaviour | |

Conventions. A handler is split exactly where another process can get in: at
each database statement, at a send, where a mutex is released; what is one
statement or one critical section is one action. A transaction is split into
what it reads and its commit (Postgres runs READ COMMITTED here). Dropped errors
(`_ = q.X(...)`) are disjuncts where the write does not happen; they, crashes
and cut-off calls draw on `MaxFaults`. A row lock is read off the transactions
that hold it: a statement that would wait is not enabled, and after the wait it
sees what was committed. Clocks are kept as time left, so that the
state space is finite. Ghost variables are marked `ghost` and guard nothing.
An operator commented `MUTANT of X` is a plausible mistake in `X`, used to see that
a property would notice it; nothing refers to it.

Choices a reader may question:

* `Outage` counts open incidents per monitor instead of naming them: `CloseIncident`
  closes all of a monitor's at once, so they are never told apart.
* The detector's streaks are capped at their thresholds in `Outage`; above them
  `Process` treats all values alike (`DetectorStream` does not cap).
* `CutOff` has the rest of a call not happen. The node's 20 s submit budget cancels
  the request's context, and with it every later statement; no node submits again.
* In `DeliveryQueue` a lease has no expiry because the code never reads `lease_until`
  of a queue row: a row leased by a process that died stays leased.
* In `ProbeLease` a live node finishes or gives up within its budgets; the model has
  no result that arrives after the submit budget, since its context is cancelled.
* `Batcher` has one key. Keys share only the mutex. It has no next-state relation of
  its own: `Ingest` composes its actions with the handler's, and each row is added
  by the request that carries it. A request carries one row.
* A refused request of `Ingest` (spool at 100 per cent) changes nothing, so it is no action.
* `Boards` orders rows by `(created_at, id)`, where `created_at` is the start of the
  transaction and not of its commit; ids encode that. Layouts are sets of cards.
* In `Ownership` a failed statement ends its transaction (`Fails`), deadlocks of
  Postgres included. Entitlements are read without failing; frozen projects, members
  and a switched workspace are left out.
* `Heartbeat` has thresholds of one, as `heartbeat.New` sets them. `ErrorRate` counts
  minutes, and its ages stop once no rule can tell them apart.
* `Team` has one bot message at a time (the advisory lock), and the lock's own connection is
  not counted in `Conns`. Destinations are a set: two equal rows are one. `createChannel` asks who is
  behind an address and inserts any other kind as it is sent (`write_api.go:378`), so a chat may be
  typed in, a private one included, and its row names no person; Slack and webhook destinations,
  which are of nobody either way, are left out.
* In `Ownership` the DELETEs of the claim and of the reaper are split at their snapshot and their removal: what waits
  for the row looks again at the row itself, and not at the counter, the events or the checks that
  its subqueries read. A row written after the snapshot of a claim's DELETE is marked (door "late").
* In `Outage` a failed look for an open incident counts as none open (`incident.go:94`); inside the transaction
  of a join it aborts the join (`JoinFails`), and before the close of a delete it ends the close
  quietly (`incident.go:344`) and the monitor is deleted with its incident open.
* A type invariant is stated in every module of state. Theorems prove four of them (section 5);
  the others hold when they are added to the cfg of their module's run. The runs spend their
  properties on behaviour.
* `PlanCapacity` splits each sweep's UPDATE at its snapshot and its write: what it ranked is old,
  but Postgres looks at each row again before it writes it. A project has one destination that
  wants the outage; an open incident and its queue row are one value, and end together.
* In `StatusPages` the insert of a page lands with its commit: `ON CONFLICT` waits for the
  transaction that holds the slug. What one save or one gate reads before it writes is read at
  once. Whether a DNS record is there, in both modules, is any answer at any time. A run lies
  within one day, so no page leaves the day's ceilings; `PerDay = 3` and `HostPagesMax = 2`
  stand for 200 and 500.
* A reading of `ProductAlert` may mean any condition: what a rule measures and how it
  compares is data; whether the verdict is of the rule as it is now is the question.

## 3. What TLC checks

| Run | Properties | Instance | Shows |
|---|---|---|---|
| `detectors` | `StatusIsReference` `Spaced` `SpikeOpens` | either both thresholds 3, as in the code, and every stream of 8 results; or cooldown 5, post-deploy 2, 2 failures | the row equals a reference computed from the whole stream: 8 results let both streaks cross, reset and cross again. The cooldown survives stale reads; four rules that silence a fire do not starve it |
| `outage` | `AlarmIsEarned` `OutageIsNoticed` `PlanPauseCloses` `RecoveryIsNoticedUndisturbed` | 1 monitor, 2 calls in flight, 1 join, 1 command, 1 fault; thresholds 2 and 1 | see below |
| `probe_lease` | `OneHolderUnlessUnmarked` `KeepsBeingMeasured` | 2 nodes, 2 targets, one of them paying, one at a time | term > batch + submit budget is what exclusivity needs; the lease order starves nobody as long as the fleet keeps up |
| `delivery` | `LeaseExclusive` `SendsBounded` `FollowUpHonest` `ImplementsLedger` `EveryRowSettles` | either 2 workers, 2 alerts, 1 crash or lost write; or 1 row of any class on a chat or email channel, 1 worker, 2 mutes of 1 or 2 ticks, freezes, closes; answers lost in both, 3 attempts | implements `AlertLedger`; every path through `processItem` |
| `followup_of_deleted` | `DeletedIsNoRecovery`, violated | the second scene of `delivery` | the follow-up of a deleted monitor says that it is back up (section 4) |
| `batcher` | `AddedOnce` `AccountedUnlessCollided` `EveryRowFlushed` | 3 requests, bodies shared within and across 2 projects, batches full at 2, a stop, 1 failure or crash | the claim keeps a body from being added twice; two goroutines can flush one batch, a third row can meet the fresh one |
| `heartbeat` | `OneOpen` `IncidentFollowsFacts` `SilenceShows` | 1 ping, 2 workers, 1 PATCH at a time, cadences 1 and 2, 1 failure | the look before the insert is safe under the job's lock; silence ends in "down" |
| `rules_and_numbers` | `Unique` `EpisodeIsOfTheRule` `OnceEach` | either 2 instances, 3 goroutines, 3 blocks of 2; or 2 evaluators, 2 PATCHes, 1 POST, 2 rules, 2 runs, 2 edits | two goroutines race for a block on one instance while another instance leases; the guarded UPDATE makes an evaluator on an old list harmless |
| `boards` | `SaveOnItsBase` `LayingKeeps` | 2 requests by session, 1 by key, 3 names, 2 boards in the plan | the locks of the save hold against every other door |
| `ownership` | `WithinPlan` `ClaimedOnce` `UsedProjectStays` `HostPageWasFree` `SharedLinkStands` `AllowedIsProved` `UnboundAfterGrace` | 2 people, any 3 of 2 claims, a create, a delete, a key, a mint, a watch, 2 batches, up to 7 ids, with the reaper and the removal job; or 2 hosts, an account, any 3 of 2 watches, a seed, a save, a naming, a claim, a token, with the removal job and 1 failure; or 2 pages, 2 domains, 2 requests, 3 changes of plan, a grace of 2 days | who wins a tenant, and what an absorb or a reap may take; which addresses the doors hand out; when a host is answered for |
| `team` | `ActiveIsProved` `MailKnowsItsReader` `ChatIsOfItsPerson` `RemovedIsOut` | the owner, one more human and a group; 2 projects, 2 requests at once, 3 in all with the bot's messages, 2 links, 3 seats | which memberships are a proof of the address; links, merges and removals move no alert to another reader |
| `plan_capacity` | `OpenOutageIsPaged` `CutIsNotPaged` `OwnerPauseIsKept` `CapacitySettles` | 2 projects with a check each, 3 plans, the job and a deletion, 2 changes by the owner, 1 failure | see below |

The properties of `outage`, which are the heart of the product:

* `AlarmIsEarned`: whatever interleaves, no incident opens on fewer failing results
  than the threshold since the target was last surely up. Two calls that read the
  same facts may lose a failure, never invent one.
* `OutageIsNoticed`: a target that fails for good ends with an open incident on every
  active monitor, after any resolve by hand, delete, lost statement or cut-off. This
  is the fan-out "by set, not by edge".
* `RecoveryIsNoticedUndisturbed`: the recovery works by edge, so the same statement
  holds only when no statement fails, one call runs at a time and nobody joins while
  one is under way; it then reaches paused monitors as well.
* `PlanPauseCloses`: the close by predicate on every run of the job makes up for a
  fan-out that opens an incident after the sweep, and for a failed close.

Of the others:

* `ImplementsLedger`: the status of a row in the ledger comes from the queue, and from the answers
  workers have heard while the row is pending; the copies are what the channel has taken. So a copy sent after an
  answer, a row given up after one, a settled row sent again or a row marked sent that nobody took
  would each be a step the ledger does not have. A copy whose answer is lost leaves the alert owed:
  the code sends again, and the ledger says so (`DeliverUnheard`).
* `FollowUpHonest` is the guard the code has, against the plan's close; what it lets through is section 4's.
* `SaveOnItsBase` is the one lock of `dashboard.go` that a test hardly reaches: the save of
  several boards reads, locks and compares each base, while the other doors read without
  a lock and write by name. It is stated at the commit, against the rows of that moment.
* `UsedProjectStays` relates three writers that never look at each other: the claim's
  absorb, the reaper's DELETE with its re-check under the row lock, and ingest or a watch
  that uses the project meanwhile. It speaks of what was logged before the snapshot of the
  DELETE; what comes between the two is lost (`LoggedProjectStays`).
* `ChatIsOfItsPerson` is about the destinations that name a person, whatever is typed in beside them; a typed
  chat names nobody, and no merge or removal takes it along.
* `HostPageWasFree` is what the look after the probe buys: a page that was live when the probe
  ended is opened or stood beside, not copied. What comes after that look is lost (`OneHostPage`).
* `SharedLinkStands`: a slug that a door has handed out leads to a page whatever is minted, saved,
  named, claimed or removed later; only the `prj-N` of a project gives way, and still resolves.
* `AllowedIsProved` holds over the guards of two UPDATEs: a save keeps a proof only for the domain
  that stays, and an answer is stamped only on the domain it was asked for.
* `UnboundAfterGrace`: the clock starts over when the sweep finds the plan carrying the domain
  again, however often it flips and wherever a sweep stops.
* `OneOpen` and `IncidentFollowsFacts` separate what `Heartbeat` guarantees from what it
  does not: `apply` acts on the edge, so an overlap of a ping and a sweep, or a failed
  statement on the edge, can part the verdict and the incident; without either they agree
  over any history. `SilenceShows` needs neither exception.
* `OpenOutageIsPaged` is a handshake of two actors that share no lock: `open` inserts and then
  asks whether the project is frozen, the run thaws and then lists. Whichever is second sees the
  other. It is stated for runs without a failure, since the list of what was thawed is kept in
  memory; `hidden` leaves out the transaction of section 4.
* `CapacitySettles` holds although logs reorder the projects for ever: a live project is ranked
  first, so the pick comes to rest even after two runs have ranked two ways.
* `EpisodeIsOfTheRule` has one exception, a PATCH that wrote over another (`crossed`).
* `RemovedIsOut` has one, a removal that another call that adds to the team overlapped (`crossed`).
* `Spaced` has one, the stamp of the cooldown being lost after the insert (`unstamped`).

### Bounds, and why they are enough

Thresholds of 2 are the least where one failure is not an outage. One monitor is
enough for the runs about one monitor's incident, because the fan-out treats its
monitors independently. Two calls, nodes or workers
are the least that race; every race described in section 4 is one of two. One
fault and one command cover every single point of failure; combinations of two
faults are not covered by TLC, but for `DeliveryQueue` the proofs cover any number.
Two alerts are the least that share a lease, a third
attempt the least between the first and the last.
`MaxResults`, `MaxJoins`, `MaxChanges`, `MaxFaults`, `MaxMutes`, `MaxLate`,
`MaxNext`, `MaxNow`, `MaxRules`, `MaxTicks`, `MaxEdits`, `MaxTurns`, `MaxRequests`, `MaxIds` and `Load` are bounds of the
models and no limits of the code. Plans of one or two boards, rules and projects are
the least where two requests compete for the last place; three requests are one more
than any race of section 4 needs, except `ResumeIsFresh`, which needs two PATCHes. The
claims of `Ingest` do not age: a day is longer than any retry. Symmetry sets are
used in the safety runs only, never with a liveness property. Deadlock is not
checked: each model ends when its rows, streams or commands are used up, and the
liveness properties say what must have happened by then.

### Fairness

* `DeliveryQueue!FairSpec`: weak fairness of each worker's steps (`Run` ticks every 2
  seconds until its context ends) and of time; in the instance, of the steps that stay in the scene. `EveryRowSettles` excepts
  behaviours with a crash or a lost settling write: they strand a leased row for ever, since nothing reclaims it.
* `Outage!FairSpec`: a target with an unpaused subscriber keeps being measured (that is
  what `ProbeLease!KeepsBeingMeasured` shows), a call that has begun goes on, the
  plan job runs every minute. Commands and faults are not fair.
* `ProbeLease!FairSpec`: time, and each node's loop, which has no exit. `MaxLate` says an
  idle fleet takes an eligible target within a bounded delay; it asks every 2 to 30 s.
* `Ingest`, with `Batcher!Fairness`: `driveBatcher` every 50 ms, time, goroutines that have
  begun, and requests past their claim. Rows that a crash takes are not owed.
* `Heartbeat!Fairness`: a call that has begun goes on, some worker's ticker fires, Postgres
  notices a dead session in the end and frees its lock, time. Pings and PATCHes are not
  fair, faults neither; `MaxFaults` makes them finite.
* `PlanCapacity!Fairness`: the job runs every minute, and a run, an opener and a PATCH that have
  begun go on. The owner, the outages and the failures are not fair.
* `ErrorRate!Fairness`: the scan goes on, the stream is measured, minutes pass.

## 4. Where the code and its comments part

Each formula below is stated in the module it is named in; TLC refutes it when it is put
into that module's cfg, or, for a module its run reaches through an instance, when the MC
module names it (`L!OneHolder` in `MCProbeLease`) and its cfg lists that name (for `Outage!RecoveryIsNoticed` with 2 monitors, 1 call, 1 join and
no fault, under `FairSpec`; for `Heartbeat!ResumeIsFresh` with two PATCHes; for
`PlanCapacity!ResumedIsPaged` with three changes, `SomethingIsLive` with three projects). One of
them is a run, `followup_of_deleted`, since comments of the repository speak of the very case; none is
spent on the others. The six that matter most:

1. **A subscriber who joins during the recovery keeps its incident for ever**
   (`Outage!RecoveryIsNoticed`, `api/monitors.go:270`). The join reads "down" in its
   transaction, the recovery lists the subscribers before the commit. A fan-out cut off
   after the facts were written (`probeservice.go:203`) leaves the same state behind.
2. **A monitor can have two open incidents** (`Outage!OneOpenIncident`,
   `incident/incident.go:94`): check, then insert, and no unique index.
3. **A size flush can drop rows** (`Batcher!NeverLost`, `ingest/batcher/batcher.go:167`): it
   replaces whatever batch is in the map, which by then may be one another flush has put there.
4. **The pool can close before the last flush** (`Batcher!CloseFlushes`, `cmd/ucapi/main.go:85`):
   shutdown tasks run concurrently; the recorder's drain is ordered before the close, the
   batcher's is not.
5. **A body can be "already accepted" and be nowhere** (`Ingest!ReplayIsOfAccepted`,
   `ingest/ingest.go:205`): the claim commits before the rows are added, so a crash in between
   turns every retry into a replay.

6. **The owner deletes a monitor that is down and is told that it recovered** (`DeliveryQueue!DeletedIsNoRecovery`,
   `deliver/worker.go:146`): the delete closes the incident as `monitor_deleted` and with status ok
   (`monitors.go:523`), the follow-up queued for it stays, and composing it excepts only `plan_paused`.
   `incident.go:363` says of that close that the timeline may not imply a recovery.

| Property | Says | Refuted by |
|---|---|---|
| `DetectorStream!StatusInVocabulary` | `availability.go:11` | a first result that is unmeasured stores the empty status |
| `Outage!NoOrphanedIncident` | `monitors.go:524` | a fan-out inserts between the close and the delete |
| `DeliveryQueue!NothingParkedUnmuted` | `deliver/worker.go:113` | the mute window is read with the channel; an alert is parked behind a mute lifted since |
| `DeliveryQueue!UnmuteReleases` | `bot.go:815` | a longer second `/mute` moves the window past the rows the first one parked |
| `DeliveryQueue!ExhaustedAfterRealSends` | `worker.go:112` | a mute defers through `Reschedule`, which counts an attempt |
| `DeliveryQueue!BreakerClosesOnOwnSuccess` | `deliver.go:81` | the email backup's success closes the chat channel's breaker |
| `DeliveryQueue!RecoveredMeansMeasured` | `delivery.sql:69` | an incident resolved by hand is reported as "back up" |
| `DeliveryQueue!OneCopy` | `deliver.go:31`, "delivered", read as: once | the answer to a taken message is lost or times out; that is a retry (`worker.go:176`) |
| `DeliveryQueue!GivenUpIsUnseen` | `worker.go`, "max retries exceeded", read as: it reached nobody | the same, on the last attempt |
| `ProbeLease!OneHolder` | `probeservice.go:86` | two `Lease` calls select before either updates; both answer with everything selected |
| `ProbeLease!PulledStaysDue` | `schedule.sql:130` | a result in flight pushes the pulled target one interval on |
| `SeqAllocator!Monotonic` | `seq.go:1` | two goroutines lease; the lower block is installed last |
| `Batcher!NeverDoubleFlushed` | `batcher.go:121` | a size flush sends rows a tick has just sent |
| `Ingest!ReplayIsOwn` | `ingest.go:205` | the claim is keyed on the body alone: another project's equal body is a replay |
| `Ingest!OwnCeiling` | `cardinality.go`, "per-field cardinality for one tenant" | `WireIngest` shares one `Limiter` |
| `Heartbeat!SilenceIsReported` | `heartbeat.go`, "a window that closes without one is a failed check" | a ping that read "down" closes what the next sweep opened; no edge is left |
| `Heartbeat!PingedIsClosed` | the same, for the close | a ping that read "ok" while the sweep opened has no closing edge |
| `Heartbeat!ResumeIsFresh` | `monitors.go:437` | the PATCH that resumes had read the monitor before it was paused |
| `ErrorRate!DeployIsQuiet` | `suppression.go`, post-deploy silence | a deploy is marked after the scan has read the last one |
| `ErrorRate!RecoveryIsMeasured` | the incident text "Error rate back to normal" | a window too thin to score closes it too |
| `ProductAlert!NilFieldStays` | `product_alerts.go:40` | PATCH writes every column as it was read |
| `ProductAlert!FiringIsOfTheRule` | the same | a rename brings an old definition back without a reset |
| `Boards!AppendRemovesNothing` | `dashboard.go`, "it removes nothing" | a save lands between the append's read and its write |
| `Boards!CuratedKept` | `putBoardLayout`, "never overwritten by a credential" | the provenance is read before the write |
| `Boards!LastBoardKept` | `deleteBoard`, "keeps its last board" | two deletes count two boards |
| `Boards!AliasStays` | `createBoard`, "keeps the alias where every caller left it" | a create that began before Main was laid down dates its board earlier |
| `Ownership!ClosesAlone` | `write_api.go:965` | the count of a confirmation is read before the transaction |
| `Ownership!ReleasesItsOwn` | `deleteProject` | the project was claimed into another workspace meanwhile (a second delete released it: give the instance two) |
| `Ownership!KeysFollow` | `write_api.go:1052` | a key issued while its project is released |
| `Ownership!DataFollows` | `install.go:461` | a batch resolved before the claim is written after it |
| `Ownership!OwnerlessIsClaimable` | `install.go:216` | a mint that fails between its statements |
| `Ownership!RemovedStaysOut` | `install.go:335` | the page is removed after the claim looked |
| `Ownership!AcceptedIsKept` | `install.go:401`, "Empty is exact" | a batch resolved to the placeholder that a claim absorbs |
| `Ownership!LoggedProjectStays` | `install.go:409`, no account with logs flowing is "mistaken for a placeholder and deleted" | a batch leases its numbers (`ring.sql:5`) between the snapshot of the claim's DELETE and the removal |
| `Ownership!OneWorkspace` | `auth.go`, `OwnTenantID` | two first requests of one account |
| `PlanCapacity!ThawIsAnnounced` | `incident.go:187`, "without this an outage spanning the thaw is never paged" | the run that thawed is cut off, or its list fails: no later run announces them |
| `PlanCapacity!SpanningIsPaged` | the same | a page queued before the freeze dies with it (`worker.go:75`), and the incident counts as notified |
| `PlanCapacity!ResumedIsPaged` | the same | a resume whose transaction read "frozen" commits after the thaw has listed |
| `PlanCapacity!SomethingIsLive` | `write_api.go`, "so the owner never lands on zero live projects" | a deletion's sweep and the job's rank the rest two ways and each freezes one |
| `PlanCapacity!PatchLiftsNoPlanPause` | `monitors.go`, "lifts with the plan, never with a PATCH" | the PATCH has read the check before the sweep paused it; the next run pauses it again |
| `StatusPages!OneHostPage` | `write_api.go:3686`, "one host, one page" | two mints of one host find no page and each writes a host page, the second under another slug |
| `StatusPages!WithinCeiling` | `write_api.go:2904`, "where the count is authoritative" | two mints count before either commits |
| `StatusPages!NeverMintedAgain` | `worker.go:476`, "never minted again" | a visit past the gate mints after the removal, and nothing asks again |
| `StatusPages!NoProjectWithoutPage` | `write_api.go:3445`, DO NOTHING and a re-read | the loser of a slug keeps its tenant and project, has no page, and is answered the winner's slug |
| `StatusPages!SettingsAreItsOwn` | `write_api.go:1334`, "arbitrated above" | the slug a first save has claimed is another project's page by now: the upsert writes its title, settings and domain |
| `CustomDomain!StillAllowed` | `sweep.go:99`, "keeps answering after the plan stops carrying" | until the next sweep has stamped the page the certificate door says no |
| `Team!RemovedStaysOut` | `write_api.go:863`, "Full revocation" | `createChannel` has read the membership before the removal and inserts after it |
| `Team!ChatIsConnected` | `openapi.yaml:531`, "a chat id cannot be typed into a form" | into no form, but `createChannel` inserts the chat id a request carries |
| `Team!RemovedIsUnheard` | `write_api.go:863`, "Full revocation" | such a destination names nobody, and the removal of the person behind the chat leaves it, with nothing overlapping |
| `Team!SeatsWithinPlan` | `telegram.go:149`, the plan's seats (`Seats = 1`) | two links are minted on the count of one free seat |
| `Team!LinkedIsCounted` | `bot.go:479`, "filters on no status" | the count filters on `active`; who was removed and invited again is pending |
| `Team!SomeoneGoesOn` | `write_api.go:680`, the code minted on the pool (`Conns = 2`) | each of two invitations holds a connection and waits for another |

## 5. What is proved

TLAPS checks these for every value of the constants (any number of rows, channels,
workers, crashes, monitors, calls in flight, instances, goroutines; any limits and
thresholds), under the `ASSUME`s of the modules, which only give the constants their
types (thresholds, limits and plans of at least 1, finitely many rows and people, the
absent value outside the present ones) and which TLC evaluates.

**`SideBySideProofs`**, of the availability detector: `TypeCorrect`, `RowIsSummary`, `DownIsEarned`, `AlternatingEdges`,
for streams of any length (`MaxResults` is arbitrary). `StatusIsReference` is inductive:
one lemma per part of the reference says what one more result does to it (`FailsAppend`:
clears, adds one, or leaves; `MeasuredAppend`), and `ProcessSummary` that the detector does
the same to the row.

**`MonitoringProofs`**, of `Outage`: `TypeCorrect`, `EarnedAlarms`. The invariant `Earned`: the row, and what
each call in flight would write, counts no more failures than there were since the target
was last surely up, and says down only if there were enough; and every call that is past
its decision to open, and every transaction that read "down", stands on that many. The
count starts over only when an ok is written with nothing older in flight, which is
when there is no such call or transaction. A lost update between two calls can only
lower the row's count.

Of `Heartbeat` (`H!Spec`): `BeatTypeCorrect`, `OneIncident`, `IncidentsFollow`, for any pings, workers, PATCHes
and cadences. `Locked`: while no session was lost and no look failed, whoever sweeps holds the
job's lock, so two workers never sweep at once, and nothing is open when the holder inserts.
`Followed`: verdict and incident differ only while a call that has written the one has not come
to the other, and then that call knows which of the two it found. It needs that a
ping about to write has read "down" if the row still says so, and a sweep what the row
says; a ping and a sweep that both hold a state break it, which is `met`.

Of `ProbeLease` (`L!Spec`): `Exclusive`. Nothing in the code compares a node's clock with the
lease; two constants do (the term is longer than the two budgets, `LeaseAssumption`).
`Guarded` carries that through a cycle: the row of a target a node has in hand is in the
node's name, and its lease outlasts what is left of the budgets the node may still
spend, the submit budget included while it executes. A tick takes one off both sides, a new
lease starts with the whole term, and a row so guarded is not free, so no other lease, no
blind report and no other node's result touches it. The exception is `unmarked`, the
targets handed out though the update did not take their row.

**`DeliveryQueueProofs`**: `TypeCorrect`, `ExclusiveLeases`, `AtMostOnce`, `Refinement`,
`BoundedSends`, `HonestFollowUps`.
The inductive invariant `IInv` is `TypeOK` and an ownership part. `LeaseExclusive` alone is
inductive only together with "a row in somebody's hands is pending and leased",
since `Leasable` then excludes it. `AtMostOnce` (an action property, `HeardIsFinal`: what was
answered for is neither sent again nor given up) needs more, `ConfirmedIsKept`: a row whose message was
answered for and that is still pending is leased, and if a worker holds it, that worker
is past its send with the answer "ok". So nobody can send it: it is not leasable,
its holder can only settle it, and if the holder dies it stays leased. `Refinement` uses
that and the converse: a row the queue marks sent was answered for (`OkIsConfirmed`), so each
settling write lands where the ledger is already, each give-up is of a row that is owed, and every
other send that the channel takes is a copy of a row that is owed. Every step is then a step of `AlertLedger` or a
stutter, lost answers, lost writes and crashes included; nothing in the mapping itself is final.

`BoundedSends`: the retry counter lives in the row, in the copy
each worker took with its lease, and in the sends themselves. `Budget` says that the copy
agrees with the row while the worker has the row in hand (this needs the ownership part of
`IInv`: nobody else writes the row meanwhile), that all sends but one in flight have been
paid for by an attempt, and that a row which may still be leased has a send left. Mutes
count attempts too, so attempts may pass the limit; sends cannot.

`HonestFollowUps`: a worker that will say a monitor is back up has read an incident that was over
by then, and no step reopens one or gives it another reason.

**`SideBySideProofs`**, of the numbers: `NumbersTypeCorrect`, `SingleOwner`, `NeverTwice`. The invariant keeps
apart the values that may still be handed out: those left in an instance's block,
those of a block a goroutine has leased and not installed, and those at or above
the counter row. They are pairwise disjoint and disjoint from what was returned. A
step moves values from one set to another or forgets them (a restart, a block
passed over for another's).

Of the error-rate scan: `PagesAreSpaced`, for any cooldown, any silence after deploys and any number of
failures. No minute passes while a scan runs, so what it read of the cooldown is still so when it
inserts (`RateInv`), and the row it stamps after the insert is as old as the incident, unless the stamp
was lost; then the property says nothing.

Of the product alerts: `AlertsTypeCorrect`, `EpisodesAreOfTheRule` and `EpisodesAreSaidOnce`, for any
evaluators, requests, rules, measures and plans. The row's own guard is not enough for an
edit: a PATCH writes the whole rule back without looking. `Fresh` says what saves it: until
another PATCH has written, what this one read is still the rule but for its episode, so it
resets the episode whenever it changes what the episode is about. `Episode` adds that a
firing rule is not paused, or a PATCH that finds a pause already there would keep an episode
that began before it.

**`IngestProofs`**: `TypeCorrect`, `EntersOnce`, `OnePlace`, of the door and the batcher as they run
together. `EntersOnce` rests on `ClaimsHold`: whatever entered had its body claimed, or
its claim failed; a crash cuts a request off after its claim, so the sender's retry finds the
body taken and is answered as a replay. `OnePlace` counts: `Places` adds up, one term per
place, how often a row waits, is carried by an adder, the ticker or the closer, is stored
or is lost, and `Accounted` says the sum is one from the moment the row is added, zero
before. Each goroutine's step takes one off a term and puts it on another, whatever the
order; the exception is a size flush that deletes a batch it did not put there (`collided`).

**`PlanCapacityProofs`**: `TypeCorrect`, `OutagesAreAnnounced`, `CutsAreNotPaged`, `OwnerPauseHolds`,
`RestIsKept`, `RunsComeToAnEnd`.
An outage that nobody has announced is in somebody's hands (`Told`): the call that opened it and
has not delivered, or a run that thawed its project and has not come to it. Who
freezes or thaws between the two readings hands it from one to the other, and whoever
closes it closes it for both (`Calls`: calls and lists are of open incidents). With
two checks failing in one project, TLC refuted an earlier form of the property that did not say
a run has the rest of its list in hand too, in whichever order it works it off. `CutsAreNotPaged`:
a check a run paused stays paused until a run starts it again, and what is open of it is on the
list the run closes before it pages anything (`SparesOf`). `OwnerPauseHolds` needs no
invariant: of all statements of the two runs only the write of the budget touches a
check, and the rows it finds again are running or paused by the plan.

The last two are what of `CapacitySettles` needs no fairness. `RestIsKept`: once the plan is kept and
no run holds an older reading it has not written (`Rested`), no step but the owner's changes a project
or a check. A ranking then picks nothing, because live projects come first in it (`LiveFirst`) and
there are as many as the plan carries (`FullPicksNothing`), whatever the logs say of the rest.
`RunsComeToAnEnd`: the phase of a run, the thawed projects it has not come to and its list count it
down (`Left`). Each statement of its own lowers the three, a failed one too, and nobody else's step
raises them: a close or a deletion only takes from its lists. So a run has finitely many statements
before it; that it takes them is the fairness, and stays with TLC.

**`HoldingsProofs`**: the theorems of `Ownership`, `StatusPages` and `CustomDomain`, each about
its own specification (`Spec`, `S!Spec`, `D!Spec`).

`TypeCorrect`, `ClaimedOnlyOnce`, `PlansHold`, `UsedProjectsStay`, for any
people, plans, requests and load. None of the three properties is inductive. The invariant
`IInv` says what each request may count on when its next statement comes, in five parts:

* `OwnIsOwned`: the workspace a session read belongs to somebody, if it is still there;
* `TakesClaimable`: a claim that burned a token holds a tenant that is still ownerless;
* `DropIsUnused`: the placeholder a claim's DELETE has found is the claimer's, has no check and
  had not logged at the snapshot; once the claim holds the row nothing changes that until the commit;
* `HasRoom`: whoever counted the projects behind the tenant's lock still has room for one;
* `MintIsAlone`: a tenant being minted is as its mint left it.

That the others leave these alone is `Apart`: two requests hold no lock in common, and nobody
locates, reads or reaps a tenant being minted, which has no token anybody was told and no
page. One frame lemma (`InHandFrame`) carries a request that does not move over any step that
leaves its rows alone (`Undisturbed`); each action's lemma shows that much and proves the rest for
the request that moves. `Marked` (only an ownerless tenant has a token, and it holds one
project at most) is why a claim adds one project to a workspace, and why neither a claim nor
the reaper deletes a person's. `WonIsGone`: a tenant that was adopted is never there
again, since no id is handed out twice. `UsedProjectsStay` then has three steps to look at.

`AddressTypeCorrect`, `NoSecondHostPage` and `LinksLast`, for any hosts, accounts, requests,
endings and ceilings; the accounts are finitely many, no account and no host is called
nobody, and a request comes in at one door. `AddrInv` follows a visit from its probe to its
page (`AtDoor`): what it found live when the probe ended is the host's page still or has been
removed, and once the second look has found no page all of it has been removed. That rests on
two things. `hostLivePage` finds a page whenever there is one (`LivePageIs`: the order it
chooses by has a first element, `Least`), and no step takes back a removal, a page's project
or the name of a project (`Lasting`). `LinksLast` needs one more: only a service slug is ever renamed.

`HostTypeCorrect`, `CertificatesAreProved` and `GraceIsKept`, for any pages, domains, requests
and days of grace. `HostInv` says which lookup a proof rests on: a request that was answered
yes holds the very page and host that were looked up, the history has them, and a verified
row's host is in the history; so a save that takes the host over in between cannot carry the
proof along. And a stamp is never older than the time the sweep has not found the plan carrying.

**`TeamProofs`**: `TypeCorrect`, `ActivesAreProved`, `MailsAreKnown`, `ChatsStay`, `RemovedAreOut`, for
any humans, groups, projects, plans and requests in flight; the only assumptions are that the
owner is a human, no group is one and nobody is neither. The four properties are conjuncts of `TeamInv`, and not inductive
alone: each write rests on a row somebody read a statement or a transaction ago. `CallFine`
says what that reading is still worth when the write comes: an invitation that carries has seen a
proof (`Carrying`), an activation and a `createChannel` write for somebody who was active in
that project (`Seeding`, `Asking`), and what a removal has found so far is all there is
(`Removing`). That last one, and that the others write for somebody still on the team, holds while no removal has
met a call that adds (`Alone`); without it both are false, which is what TLC's refutation of
`RemovedStaysOut` shows (section 4). `BotFine` is the same for the message in hand: the row it
goes to carries the account or none, and the rows it absorbs carry that very account and are on no team. So
a merge moves destinations between rows of one account, which is `ChatsStay` (a destination
typed in names no row, so a merge passes it by), and absorbs
nothing `RemovedIsOut` speaks of. `RequestStands` and `MessageStands` carry the requests
and the message that do not move over any step that leaves these facts alone.

**`BoardsProofs`**: `TypeCorrect`, `SavesLandOnTheirBase`, `LayingTakesNothing`. Neither property is in
one step: a save compares its entries one by one and commits later, with other doors,
other saves and creates in between. The invariant follows the rows each transaction
holds. `TxFine`: every transaction has a stamp of its own (`created_at` is the start of
the transaction, and the clock has moved on since), and holds rows that are there
or rows it will add under that stamp. `Apart`: no two transactions hold one row. `Below`: no committed row is as new
as the clock, so a stamp just taken is nobody's. `SaveFine`: every row of the workspace a save
holds still has the base of the first entry that names it. A step of one request keeps these
for the others because it writes only rows that nobody else holds (`Undisturbed`): a
statement waits for the row, and a new row is under a new stamp. `CreateFine`, which gives
`LayingKeeps`: a create holds no row of the workspace, since `UpsertBoard` takes over
only what an earlier tenant left. What `LeastIs` says of the smallest id is from the
library's well-foundedness of the natural numbers.

Only model-checked: the nine liveness properties (every safety property of a run has its
theorem, and so have the safety half and the countdown of one of the nine). Not provable with the
installed provers in any case: liveness (fairness and `ENABLED`), induction over data with an operator parameter, and anything in a module
that reaches a `RECURSIVE` operator, so what a recursive definition computes for every
input stays with TLC. The modules to prove about contain none.

## 6. What is not modelled, and why

* The bodies of messages, titles, the frozen log slice and the timeline: data that no
  property here is about. In `Outage` the alert fan-out of `Open` is left out; it is the
  `Enqueue` of `DeliveryQueue`.
* Fetching, DNS, TLS, certificates, SMTP, Telegram's and Slack's APIs: one call each
  whose answer is an input.
* Queries, rendering, dashboards' catalog and series reads, what a status page shows, OG images, the
  frontend: functions of tables, without state of their own.
* The bodies of log rows: decoding, scrubbing and normalising are text processing.
* Around `Ingest`: authentication, the gates and the rate limit of a public key, the purge of
  claims after a day, the four statements of the sink one by one.
* Around `Heartbeat`: the freeze of a project, the delete of the monitor and the resolve by
  hand (both in `Outage`), the limit of 500 rows per sweep.
* Around `PlanCapacity`: heartbeats, which hold no slot; which destinations want a page and which the plan mutes.
* Around `Team`: roles, sessions, frozen projects, the mail that is sent again, the paid
  entitlement of groups, Slack and webhook destinations, a merge's rows in other workspaces, an owner
  who invites himself.
* Around `Ownership`: sign-up, switching workspaces, entitlement reads that fail.
* Around `StatusPages`: the throttle per address, self-hosted installs, the check door, views and
  indexing marks, hosts no page may be named after, deletes of projects (in `Ownership`).
* Generated code (`back/gen`), migrations, configuration, installer, plugin.
* Components of the plan below.

## 7. Plan

Order of work: what pages people first, then what stores their logs, then accounts.

Done: `Availability` and `DetectorStream` and their proofs; `DeliveryQueue` against
`AlertLedger` and its proofs; `Outage` and its proofs; `ProbeLease` and its proof;
`SeqAllocator` and its proofs; `Batcher` and `Ingest`; `Heartbeat`; `ErrorRate`;
`ProductAlert`; `Boards`; `Ownership`; `StatusPages` and `CustomDomain`; `Team`; `PlanCapacity`;
the proofs of `Ingest` with `Batcher`, of `PlanCapacity`, of `ProductAlert`, of `ErrorRate`, of `Ownership`, `StatusPages` and
`CustomDomain`, of `Team`, of `Heartbeat`, and of `Boards`.

Next, in order:

1. `ErrorLog`: fingerprints, cursors and windows of the error-log scan.
2. Magic links, webhook dedup, the analytics recorder.
3. `AlertRouting`: `mutedTelegram`'s seat rule, `backoffFor` and `nextTryAt` as functions, each
   against a reference definition.
4. `AlertPath`: `Outage` composed with `DeliveryQueue`.

Proofs: every safety property a run checks has its theorem; each new module gets its own with it.
