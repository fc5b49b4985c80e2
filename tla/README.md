# A TLA+ model of the dealership platform

This directory holds TLA+ specifications of the dealership software, the TLC configurations that
check them on small instances, and TLAPS proofs of the properties of its core for instances of any
size. The reference is the source; every definition that stands for code is tied to its lines in
the `map` of `PROJECT.json`.

1. [The system](#1-the-system)
2. [The models](#2-the-models)
3. [The runs](#3-the-runs)
4. [The proofs](#4-the-proofs)
5. [Where the code and its comments disagree](#5-where-the-code-and-its-comments-disagree)
6. [What is only model-checked, and what is not modelled](#6-what-is-only-model-checked-and-what-is-not-modelled)
7. [Plan](#7-plan)

## 1. The system

A TypeScript modular monolith over PostgreSQL: an HTTP API (`apps/api`), a worker (`apps/worker`),
static pages (`apps/web`), migration tooling (`scripts`) and one package per business area. There is
no shared memory between requests worth the name: **all state is in tables**, and components interact
by reading and writing each other's rows, mostly inside one `withTransaction` call
(`packages/database/src/pool.ts`) at READ COMMITTED. Three consequences shape everything below.

- A function that locks the row it validates (`SELECT ... FOR UPDATE`) is atomic with respect to
  the others that do so. One that reads without locking is not, and has to be split.
- `NOW()` is the start of the transaction, not the moment of the statement. A request that waits
  for a lock decides with an old clock and stamps rows with it.
- Anything outside the database (the identity provider, a listing site, a mail carrier) is called
  either between two transactions or inside one, and either way the two can disagree afterwards.

| Component | State | Operations | What is hard, and what makes it correct |
|---|---|---|---|
| Repair orders, lines, estimates, authorizations (`fixed-ops`) | `repair_orders`, `ro_line_items`, `ro_estimates`, `ro_authorizations` | create, transition, add and edit lines, quote, send, decide, comeback | Advisor, technician and customer change one order at once. Nobody's approval is invented, doubled or rewritten; no work without approval |
| Intake (`fixed-ops`) | `service_appointments`, `service_waitlist_entries`, `first_service_offers` | book, confirm, check in, no-show, wait, offer, convert, cancel | Double submission, holds that lapse, two doors to one repair order. One open entry per vehicle, bookings that exist, offers counted once |
| Dispatch and time (`fixed-ops`) | `tech_work_tickets`, `tech_time_entries`, the line's assignee | dispatch, update ticket, clock | Simultaneous dispatch, overtaking transactions. One live ticket a line, coherent clocks |
| The floor (`fixed-ops`) | `mpi_sessions`, `mpi_results`, `service_recommendations`, `service_portal_tasks`, `ro_parts_lines`, `ro_sublet_jobs`, `warranty_claims`, `comeback_cases`, `service_queue_items` | inspect, submit, order, receive, claim work, escalate, reopen as a comeback | Readings corrected while they are submitted, a board that copies the order's status, comebacks that lock two orders |
| Service metrics (`fixed-ops`) | gauges in memory, a high-water mark | one pass over groups of queries | Queries of one pass see different moments; passes fail half-way and processes restart; a mark coarser than what it marks |
| Step-up reauthentication (`identity-access`) | `reauthentication_transactions`, `reauthentication_grants` | start, claim, complete, fail, sweep, spend | Replayed callbacks, dying processes, racing terminal facts. A grant pays for one deed of the person who asked |
| Sessions and provider refresh (`identity-access`) | `identity_sessions` | create, validate, claim, exchange, rotate, release, revoke | A single-use token, a provider that may hang, a lease that time ends, logout in the middle |
| Login and bearer sessions (`identity-access`, `apps/api`) | `login_transactions`, `identity_sessions`, links | begin, claim, admit, fail, sweep; resolve or establish | Sweep against success, two first requests with one token. A login and its session stand or fall together |
| Access (`identity-access`, `organization`) | tenants, units, connections, links, role bindings, support requests and sessions, decisions | mutations, bootstrap, the policy engine, approve, revoke, sweep | The engine decides on reads that are stale when it records. Support access that ended serves nothing |
| Administration (`identity-access`) | settings, hours, policies, invitations, `idempotency_keys`, `admin_outbox` | versioned saves, keyed commands, dispatch | Two requests under one key, deliveries that fail inside their transaction |
| Deal jackets and signing (`jacket`) | templates, requirements, jackets, packages, ceremonies, signers, holds | configure, open, assemble, review, send, sign, decline, void, expire, hold, call back | Ordered signers, the sweep against a signature, repeated callbacks, paperwork reconfigured meanwhile |
| Parties, leads, campaigns (`inventory`, `crm`) | parties, leads, touches, intakes, appointments, versions, sends, responses, suppressions | capture, work, escalate, hand off, draft, approve, execute, dispatch, respond | Converging captures, consent at the moment of sending, quiet hours on a clock that is changed twice a year, at-least-once sends |
| Stock and listings (`inventory`) | vehicles, stock items, prices, media, holds, transfers, listings, outbox | acquire, move, price, hold, transfer, publish, withdraw, dispatch, reconcile | Deferred and failing publications, later requests behind them |
| Sales floor and desking (`sales`, `desking`) | opportunities, shortlists, drives, visits, rotation, cases, appraisals, rules, scenarios | work, drive, greet, hand over, appraise, price, submit, decide, expire | Unlocked reads of the opportunity, drives and selections checked before they are written, figures rounded separately |
| Processes (`database`, `apps`) | a pool of clients, the worker's loop, the API's server | `withTransaction`, boot, pass, stop, close | Sessions that the server ends at any moment, exits under load, timers that do not hold the process |
| Migrations (`scripts`) | `schema_migrations`, the schema | judge, apply | No lock between runners of two releases |

`PROJECT.json` lists every component with its status, and under `hazards` each place where the code
is exposed to something a test would hardly reach, with the properties that would catch it.

## 2. The models

| Module | Models | Built on |
|---|---|---|
| `RepairOrder` | repair orders, lines, estimates, authorizations, queue counts | |
| `ServiceIntake` | appointments, the waitlist, check-in, first-service offers | |
| `TechDispatch` | work tickets and the time clock | |
| `ServiceFloor` | inspections, tasks, parts, sublets, claims, comebacks, the work board | `RepairOrder` |
| `ServiceMetrics` | the metrics pass | `ServiceFloor` |
| `OneUseGrant` | abstract: what a step-up promises | |
| `StepUp` | reauthentication and grants; implements `OneUseGrant` | `OneUseGrant` |
| `SessionRefresh` | the refresh of the provider session behind a cookie session | |
| `Access` | organization, identity mutations, policy engine, support access | |
| `Login` | login transactions, admission, bearer sessions | `Access` |
| `Administration` | settings, keyed commands, the invitation outbox | `Login` |
| `Tenants` | which tenants the worker's passes get to | |
| `DocumentConfiguration` | templates, requirements and retention rules in time | |
| `DealJacket` | jackets, packages, ceremonies, callbacks, holds | `DocumentConfiguration`, `Tenants` |
| `Parties` | customers and their contacts | |
| `Totals` | the sum of a sequence, by a recursive function | |
| `Leads` | lead capture, work, clocks, hand-off, attribution | `Parties`, `Totals`, `Tenants` |
| `Campaigns` | consent, versions, sends, responses | `Leads` |
| `Stock` | vehicles, stock items and merchandising | `Parties` |
| `Listings` | publication through the outbox | `Stock` |
| `Selling` | opportunities, drives, visits, the rotation | `Listings` |
| `Desking` | cases, appraisals, rules, the calculator, decisions | `Selling`, `Totals` |
| `Transactions` | the pool and `withTransaction` | |
| `Processes` | the API and worker processes | `Transactions` |
| `Migrations` | the migration runner and its ledger | |
| `MC...` | bounded instances for TLC | |
| `...Proofs` | theorems about the modules they extend | |

A row is a record, a table a function from identities to records or, where rows are only inserted, a
sequence in order of insertion; an exported function is an action with the source's name. Validation
of shapes, permissions, audit text and read-only functions are left out. A request with a stale
`expectedVersion` is refused and changes nothing, which is a stuttering step. Where an operation is
more than one action, the reason is always one of the three consequences above. Clocks are counted
as ticks left, so that a deadline needs no bounded clock.

### Fixed operations

**RepairOrder.** `ro` is the status, `line` the line items, `est` the estimates by version,
`auths` the authorizations in order, `queue` the number of open queue items by type. `transitionRO`
is one action that holds the order's lock: the edge must be in `RO_TRANSITIONS`, then step-up (the
parameter `stepUp` says a live grant was presented), the quality and billing gates, the evidence
gate, the re-quote edge's resets, the status, and `syncQueueForRO`. `generateEstimate` is
`GenerateEstimateRead`, `GenerateEstimateCommit` and `GenerateEstimateAbort`: it holds the order's
lock throughout (`quoting`), so the operations that take that lock wait, but it reads the lines
without locking them and `updateLineItem` takes only the line's lock. Prices, hours and totals are
opaque `Terms`; an estimate remembers the terms it quoted and an authorization the terms it approved.

**ServiceIntake.** `appt`, `entry` and `offer` are rows; `visit[a]` is the repair order an
appointment became; `followup[a]` the no-show queue item. `createWaitlistEntry` is `WaitlistCheck`
then `WaitlistInsert`: nothing is locked between its SELECT and its INSERT, and the partial unique
index `uq_swe_open_vehicle` decides a race. `HoldLapses` is time passing `offer_expires_at`. An
appointment becomes a repair order by `checkIn` or by `createRO`, which differ.

**TechDispatch.** `dispatchTech` locks the line, supersedes live tickets, inserts one and names the
assignee. `recordTimeEntry` is `BeginTimeEntry`, where PostgreSQL fixes `NOW()` and so the
`created_at` of the row to come, and `InsertTimeEntry`, everything under the ticket's lock, or
`RefuseTimeEntry`. `begun` counts transactions and is the clock; `IsLast` is the query's
`ORDER BY created_at DESC`, with ties open because `time_entry_id` is random.

**ServiceFloor.** Composes `RepairOrder` with everything around an order. Each step of an order is
one of `RepairOrder`'s, carried out on `board` too, the rows whose number is all that module knows.
Recording a reading, submitting an inspection (which turns findings into recommendations), sending
it (which opens a portal task), parts, sublets and claims are one action each. `createComebackCase`
locks two orders one after the other, in the order of their ids, and is a process: `openComeback`,
two `lockForComeback`, `openCase`; other operations that need a held order wait.

**ServiceMetrics.** A pass (`pass`) runs group after group; each query of a group is a step
(`readGroup`) that sees the tables as they are then, and the group's series are cleared and
published together (`publishGroup`) unless a query failed (`failGroup`). `restart` is a new process
whose high-water mark starts again. `arriving` holds part updates that have their `NOW()` and have
not committed. `Date` is what a JavaScript date keeps of an instant of the database: the mark
(`Mark`) is cut to `Milli` instants, and `NewArrivals` compares whole instants with it. A rate is its
numerator and denominator. `ServiceSpec` is the floor and the pass
interleaved, with nothing left out: every transition of an order is `transitionAndRecord`, which
writes its event too.

### Identity and access

**StepUp.** `txn` and `grant` are the two tables, `endings` counts the terminal facts written for
each transaction, `overdue` and `lapsed` say which deadlines have passed, `leg` holds the callbacks
waiting for the provider, `request` the business transactions that spend a grant, `broken` the
persons whose session, link or connection no longer holds. A callback claims, leaves for the
provider, and completes, fails or dies (`CallbackDies`). Spending is one conditional UPDATE inside a
business transaction that may still roll back; a second spender waits for the row lock, which is
why `Held` guards it. The parameter `late` is a transaction that began before a deadline and is
decided after it.

**OneUseGrant.** A permit is asked for by a person for an operation, decided once, and used at most
once, by a request that does that operation for that person. The mapping in `StepUp` makes a permit
"used" when the business transaction commits.

**SessionRefresh.** One session, because every statement is keyed by `session_id`. Tokens are
numbers in the order the provider issued them; `latest` is the only one it accepts and `sent` the
exchanges on their way to it. `row` carries the digest (what the row says it holds) and the sealed
token (what it can present), the lease and `authTime`. `att[a]` is a request: it judges the session
due, claims (`claimRefreshAttempt`), exchanges under no lock, and persists, releases or revokes.
The provider is external: it may answer, refuse, answer after the deadline, or never.
`readable` stands for the sealed state being of the right key, age and shape; `matches` for
`identityStillMatches`; `gone` and `leaseOver` for what a transaction sees of the clock (the lease
is compared with the host's clock first and the database's in the UPDATE; the UPDATE decides).

**Access.** Tenants, units, provider connections, user links and active role bindings, with every
mutation of `mutations.ts` and the bootstrap as an action. Composite foreign keys (migration 057)
make a link's binding that of its connection, so a binding is the connection alone and mutations
that would break it are refused. Approving a support request checks, then writes (`approving`);
revoking reads its authority, then ends the session (`revoking`); `decide` reads
(`deciding`) and records in a later transaction, which asks again whether the support session still
runs. The catalogue of actions is a constant with the checks `createActionCatalog` makes.

**Login.** A callback claims its transaction, talks to the provider, admits the person in a custody
transaction that also writes success, or writes a failure in another; it may stop after any of
these. `expireStaleLoginTransactions` runs in between. A bearer request resolves, classifies and
establishes in separate statements. Sealed cookies and signatures are cryptography and enter as who
presents what.

**Administration.** `runIdempotentAdminCommand` looks for its key, runs and stores it in one
transaction; the unique index decides between two that found none, and the loser is rolled back and
tried once more. The dispatcher hands an event to the port inside its transaction; a failure is
written in a second one, which may never run (`unwritten`).

### The worker's tenants

**Tenants.** A pass of the worker lists the active tenants by id, 200 at most, and works through the
list; what one of them throws ends the pass. The modules built on `Tenants` describe one tenant, and
`standing` is where it stands: whether it is active, how many active tenants have smaller ids, and
whether one of those makes the pass throw. All three may change at any time (`TenantsMove`).
`Visited` guards every action of a pass: the expiry sweep of ceremonies, the campaign dispatcher with
its outbox, and the escalation sweep.

### Jackets

**DocumentConfiguration.** Rows with a scope and a half-open interval; the exclusion constraints of
migration 066 refuse overlaps, and recording a version may close its predecessor. A scope names a
legal entity, a rooftop, both or neither. Resolving picks the most specific row in force; a row for
the rooftop and one for the rooftop and its legal entity score the same, so `pickMostSpecific` is the
set of resolutions the database's row order may lead to, and the operations that resolve take any.

**DealJacket.** One desking case. A jacket is opened from an approved scenario, resolves its
checklist, is assembled into packages whose rendering may fail, reviewed, sent, signed in the order
of roles, declined, voided, superseded, expired by the worker, held and released. Provider callbacks
are recorded once per event and reconciled; they may repeat. Every operation is one transaction that
locks what it decides about and is one action, so lock waits are not visible here.

### Customers, selling and desking

**Parties, Leads, Campaigns.** A create or edit of a party takes advisory locks on the contact
values it claims. A capture is three steps: the replay check runs before the lock on the interest,
and the lock keeps out captures but not a close. Logging an activity and closing one read the lead
without a lock and write later.
A dispatch is a claim with the second permission check, then the provider's answer with its record;
a dispatcher that dies in between has sent a message nobody recorded. `minute` is the wall clock of
the rooftop's zone, a day whose quiet hours span midnight; now and then it moves `ClockChange`
minutes too far or back (`WallClock`), while deferrals count elapsed minutes. `steady` is the time
left until it may be changed again. Attribution divides 10,000 basis points over a lead's touches.
`CrmSpec` is the three together, from empty tables.

**Stock, Listings.** Stock operations lock the row and are one action; an acquisition has no row to
lock and is decided by unique indexes. A listing request changes the listing and appends an event;
a dispatcher claims any due event (it asks for the oldest, but skips those that others hold, and
`occurred_at` is the start of the transaction that wrote it), calls the provider inside the transaction, and commits listing,
ledger and event together, or rolls back and writes the deferral or failure in a second transaction
that may never run. The provider is the simulated one in `providers.ts`.

**Selling, Desking.** Five operations check that the opportunity is open by an unlocked read
(`reading`) and write later. Two of these have a second gap, and a request between its check and its
write is a record with its phase. Issuing a drive checks car, driver and escort under an advisory
lock on the car alone (`issueDemonstrationChecked`, `CarLocked`); the three partial unique indexes
decide at the INSERT (`DriveAdmitted`). Selecting a vehicle locks its row and the rows it stands
down, not the opportunity (`selectVehicleChecked`, `Locked`); the index on the selected row decides
at the UPDATE (`SelectionAdmitted`). Who loses is rolled back (`uniqueViolation`). The rotation of a rooftop is a sequence. Desking computes in integers:
rates in units of `PPM`, payments at `PAYMENT_SCALE`, rounding as in `money.ts`; rules apply in the
order of their codes within their dates and scope; a scenario keeps the figures and rules it was
priced with. `ShowroomSpec` is customers, stock, listings, floor and desk together, from empty tables.

### Processes

**Transactions.** A caller borrows a client, sends BEGIN, runs its body and sends COMMIT. The server
may end a session between statements, under one, or with COMMIT in flight, before or after the
commit; the process learns of it by a rejected statement or by the socket. `tx[p]` records what the
caller was told, `conns[c]` what the server knows, including whose writes became permanent.

**Processes.** Boot with the posture gate; the worker's three modes, its pass over the jobs, re-arming,
`stop`; the API's server with requests, clients that hang up, the signals, the deadline; closing the
pool; and the rule that Node ends a process when nothing referenced is left. A job or a request is
one transaction.

**Migrations.** A run admits its directory, judges every row of the ledger against its own bodies,
and applies what the ledger lacked when it read it, one transaction a file. Runs of several releases
overlap, fail anywhere and are run again.

## 3. The runs

| Run | Distinct states | Shows |
|---|---|---|
| `repair_order` | 315,268 | `DecisionsStand`, `WorkHasEvidence`, `AnswersAreFinal`: decisions keep their evidence and terms, are made once and for good; declined work stays down; no work without approval |
| `service_intake` | 342,665 | `IntakeAgrees`, `LapsedHoldsAndClosedEntries`: one open entry per vehicle, bookings match, offers follow check-in, lapsed holds book nothing |
| `tech_dispatch` | 397,204 | `DispatchIsCoherent`, `TicketsCloseForGood`: one live ticket a line, held by its assignee; coherent clocks when transactions do not overtake |
| `service_floor` | 117,964 | `BoardCountsTheWork`, `FindingsAreRecommendedOnce`, `DoneStaysDone`, `MetricsAddUp`: the board counts the orders' work, a finding is recommended once, finished work stays finished, published shares are shares and the mark follows what was observed; `ComebacksAreAnswered`, `DrainedQueuesAreForgotten`: crossed comebacks do not wait for each other for ever, a drained queue leaves the gauges |
| `step_up` | 128,624 | `GrantsAreEarned`, the refinement `ImplementsOneUseGrant`, `EveryStepUpEnds` |
| `session_refresh` | 262,372 | `TokenIsGuarded`, `RefreshOnlyRenews`, `EveryAttemptAnswered` |
| `access` | 87,479 | `AccessIsWellFormed`, `SessionsHaveOneOrigin`, `CommandsRunOnce`, `SupportEndsForGood`, `LoginsEnd`, `InvitationsAreAnnounced` |
| `deal_jacket` | 490,085 | `JacketIsWellFormed`, `CeremonyMatchesPackage`, `SignaturesStand`, `CeremoniesEnd` |
| `crm` | 130,239 | `CustomersAndLeadsAgree`, `SendsAreMeasured`, `CrmFinishes` |
| `showroom` | 324,822 | `ShowroomAgrees`, `DrivesAndSelectionsAreExclusive`, `FiguresAddUp`, `PendingListingsAreAnswered` |
| `processes` | 177,653 | `TransactionsAreHonest`, `ExitsAreHonest`, `SchemaIsOneChain`, `ProcessesLive` |
| `worker_drains` | violation | the worker does not run until it is signalled (section 5) |

The comment above each property says what it means; a property that is a conjunction names its
parts, each with a comment of its own.

**Bounds.** `repair_order`: one order, two lines, two terms (free and priced, the only distinction
the gates make), two estimate versions and two authorizations. Two lines give partial approval and
overlap; two versions give superseding and re-quoting. No statement touches two orders except
`createComebackCase`, which moves the original order only. `LineStatusInput` names what callers ask
of `updateLineItem`: finishing a line and putting it back to `proposed`; the proofs cover every
subset of the line statuses. `service_intake`: two vehicles, two appointments, three entries, one
deal, so that a vehicle can wait twice and race a third create. `tech_dispatch`: two lines,
technicians, tickets and callers, `MaxEntries = 3`, `MaxBegun = 4`, `MaxTime = 2`; an incoherent
clock needs three entries and one overtaking. `step_up`: two of everything, so that every pair can
be confused. `session_refresh`: three attempts, since one stalls, the second reclaims its lease and
the third claims what the second left; `AuthTime = {0, 2}` is older and newer than the login's.

**Scenes.** The larger modules compose more tables than one state graph can hold. Their MC modules
have a variable `scene`, chosen in the initial state and never changed: it fixes which rows exist at
the start, states the code's own operations can produce, and which tables the environment leaves
alone. Within a scene every action of the module is as it is; the scenes together fire every action.
What they give up is interleavings across scenes, for instance a merge of two customers in the
middle of a campaign.

- `service_floor` (two orders, one line each): inspection, board, parts, comeback with crossed pairs
  by two clerks, and three scenes of the metrics pass (gauges with up to two boots, arrivals that
  overtake, quality). `Milli = 2`: two days' arrivals fall into one millisecond; `MaxObserved = 2`.
- `access` (two tenants, a unit of each level, three connections, three links): setup from the
  bootstrap on, people, roles, policy, support, login and admission with two logins, bearer with two
  requests on one token, keys with two clerks on one key, office, outbox with two invitations.
- `deal_jacket` (two approved versions, two packages, a customer and a dealer): paperwork, rooftop
  (rows of the tied scopes), desk, holds, provider, tenants (a ceremony of a tenant with up to two
  ahead of it, of which the pass lists two: it drops off the list and comes back).
  `TokenTTL < CeremonyTTL < MaxTime`, so a link lapses before its ceremony does.
- `crm`: customers, consents, captures (two at once, three keys), work, clock, campaign (two
  dispatchers, one crash, two attempts), night (a deferred message over changes of the clock by one
  minute of a day of five, with quiet hours over midnight), tenants.
- `showroom` (two vehicles, two rooftops, two customers): stock, lot, merch, listing (a slow
  channel, three events, one failure), floor, drives (two requests for two opportunities at two
  rooftops, with one salesperson who works both), choose (two requests selecting among the two
  vehicles of one customer), sell, trade, price (three rules, two
  scenarios; `PPM` and `PAYMENT_SCALE` are 100, so that rounding happens at small amounts).
- `processes`: the processes with two callers on two clients, two jobs and two lost sessions; or two
  migration runners and four runs over three releases, two of which disagree about the second file.

Symmetry is used where only invariants and action properties are checked (`repair_order`,
`service_intake`, `tech_dispatch`), never with liveness. Deadlock is checked in `repair_order`. The
other runs switch it off: their identities are finite, and once all rows are closed there is
rightly nothing left to do.

**Fairness.** Only of what the code or its scheduler keeps doing; never of people.

- Time passes: weak fairness of each clock (`JacketTick`, `Tick`, `tickLogin`, `tickAdmin`,
  `backoffTick`, a step-up's deadline).
- The worker's jobs run again and again, since `startWorker` arms the next pass after each one
  whether or not a job failed (`ProcessesLive` checks this of the loop itself, up to the exit of
  section 5): weak fairness of the step-up sweep, `ExpirySweep`, `expireStaleLoginTransactions`,
  `runEscalationSweep`, `completeFinishedVersions`, `drainMarketingOutbox`,
  `dispatchDueListingEvents`, `dispatchEvent`. Failures and crashes are bounded by constants, which
  is how "not for ever" is said of them. The passes that fan out over the tenants are fair as passes
  only: their actions are guarded by `Visited`, and `CeremoniesEnd` and `CrmFinishes` promise
  something of a tenant that is, from some time on, listed and not behind one that makes the pass
  throw (`<>[]Visited`). Of an active tenant as such they promise nothing, and nothing could be
  promised (section 5).
- The campaign dispatcher's claim outside quiet hours: strong fairness, because a pass comes round
  every minute and the hours between two quiet times are many of them.
- A request whose process lives goes on (`Advance(a)` in `SessionRefresh`, `Progress(p)` in
  `Processes`, `GenerateEstimateEnds`, `openCase`). `AttemptDies` stays possible, and a dead
  request counts as over. Callbacks get none: a sweep must end what they leave.
- A transaction that waits for a row gets it: strong fairness of `lockForComeback`, since PostgreSQL
  queues waiters in order of arrival.
- The metrics interval fires, its queries are answered or fail, and the queue group's queries,
  repeated for ever, do not fail for ever (strong fairness). A database that never answers again
  leaves the last gauges standing, as it does in the code. This is assumed in the scene `gauges`
  only: in the other scenes the environment lets some queries fail for ever.
- `crm` checks liveness in the scenes with a clock; in the others time stands still.
- The provider, the network and other clocks get none: `EveryAttemptAnswered` says that a request's
  answer never depends on them.

**Mutants.** Each property of a passing run has a plausible bug in `PROJECT.json` (a dropped guard,
a missing reset, a lost predicate, a swapped order) under which TLC finds it violated in the same
run.

## 4. The proofs

Each `...Proofs` module proves, for every value of the constants, that an inductive invariant holds
initially and is kept by each action, and derives the properties the runs check.

| Module | Specification | Inductive invariant | Properties it gives |
|---|---|---|---|
| `RepairOrderProofs`, first half | `Spec` | `IInv` = type, evidence, declined, work, queue + `AuthorizationsHold` + `AbsentUndecided` | `DecisionsStand`, `WorkHasEvidence`, `QueueFollowsStatus`, `AnswersAreFinal` |
| `RepairOrderProofs`, second half | `ServiceSpec` | `ServiceInv` = `IInv` + `EstimatesBounded`, `FloorTypes`, `RowsAreCounted`, `FindingsAreRecommendedOnce`, `ArrivalsInv`, `GaugesInv` | `BoardCountsTheWork`, `FindingsAreRecommendedOnce`, `MetricsAddUp`, `DoneStaysDone`, and `ServiceSpec => Spec` |
| `ServiceProofs`, intake | `Spec` | `IntakeInv` = the invariants + `BlankRows` | `IntakeAgrees`, `LapsedHoldsAndClosedEntries` |
| `ServiceProofs`, dispatch | `DispatchSpec` | `DispatchInv` = the invariants + `RequestsNameTickets` | `DispatchIsCoherent`, `TicketsCloseForGood` |
| `SessionRefreshProofs` | `Safety` | `SessionInv` = the invariants + `TokensKnown` | `TokenIsGuarded`, `RefreshOnlyRenews` |
| `AccessProofs`, step-up | `Safety` | `StepUpInv` = the invariants + `RowsFit` | `GrantsAreEarned`, `ImplementsOneUseGrant` |
| `AccessProofs`, access | `AdministrationSpec` | `Inv` = `IdentityInv`, `SupportInv`, `DecisionInv`, `LoginInv`, `CommandInv`, `OfficeTyped` | `AccessIsWellFormed`, `SupportEndsForGood`, `SessionsHaveOneOrigin`, `CommandsRunOnce` |
| `DealJacketProofs` | `Spec` | `ConfigInv` and `PaperInv` | `JacketIsWellFormed`, `CeremonyMatchesPackage`, `SignaturesStand` |
| `CrmProofs` | `CrmSpec` | `CrmInv` = `PartiesInv`, `CaptureInv`, `WorkTyped`, `SendInv` | `CustomersAndLeadsAgree`, `SendsAreMeasured` |
| `ShowroomProofs` | `ShowroomSpec` | `ShowroomInv` = `PartiesInv`, `StockInv`, `ListingsInv`, `SellingInv`, `DeskingInv` | `ShowroomAgrees`, `DrivesAndSelectionsAreExclusive`, `FiguresAddUp` |
| `ProcessesProofs`, processes | `Spec` | `TxInv` (pool and callers), `ExitInv` = `TxInv` + `RolesTyped`, `PoolGone`, `ApiCloseOrder`, `SinglePass` | `TransactionsAreHonest`, `ExitsAreHonest` |
| `ProcessesProofs`, migrations | `MigrationsSpec` | `RunnersTyped`, `LedgerRecords`, `RunnersKnow`, `OneChain` | `SchemaIsOneChain` |

**Specifications.** `Safety` is a specification without its fairness. `AdministrationSpec` starts
from an empty database, which only the bootstrap can change, and `ServiceSpec` from orders just
checked in with their rows on the board. The scenes of the runs `access` and `service_floor` start
later, from states the operations of these specifications produce, and every step of a scene is one
of theirs; the theorems know no scenes, so they also cover the interleavings across scenes that the
runs give up. `CrmSpec` and `ShowroomSpec` start from empty tables; the scenes of `crm` and
`showroom` start with customers, vehicles or an opportunity already entered, so that a race is a few
steps away, and take steps of the same next-state relations. What the theorems add there is mostly
this: captures, edits, campaigns and the clock may interleave freely, and so may stock, listings,
floor and desk, which no run of a size TLC finishes would allow.

**Assumptions.** Only the named `ASSUME`s of the component modules, which TLC evaluates in each run:

- `None`, `Nobody`, `NoBody` and `NotQuoted` are not real values, bounds are natural numbers, inputs
  are of the type of their parameter, `LineRO` maps lines to orders, the worker registers at least
  one job.
- `ContactAssumption`, `LeadAssumption`, `CampaignAssumption`: the missing contact is no contact; a
  day has minutes, the quiet hours and the clock's change lie in it, and a send is tried at least once; every response to a
  version has an intake key, since the code builds the key from the two.
- `StockAssumption`, `ListingAssumption`, `SellingAssumption`: stock ids are numbered, and what the
  CRM hands over names a rooftop and a customer there can be.
- `DeskingAssumption`: `PPM` and `PAYMENT_SCALE` are positive, a manager of a rooftop works there,
  "no end date" is after every day.
- `FloorAssumption`: repair orders and inspection items are finite sets; the order's ids are numbers,
  since they sort.
- `AccessAssumption`, `CatalogAssumption`, `HierarchyAssumption`: the platform is no tenant, and what
  `createActionCatalog` and the hierarchy of `UNIT_PARENT` refuse at load does not occur.
- `NumberingAssumption` (`Migrations`): a directory holds the first so many files. Releases add their
  migrations at the end; the numbers in `migrations/` themselves have gaps, and the model numbers the
  files consecutively. The theorem needs it: had one release an early file another lacks, the
  file would be applied behind later ones, and the code has no check against that.

**Why the strengthenings are needed**

- `IInv`. `DecisionHasEvidence` and `DecidedOnce` speak of lines and of authorizations; neither
  survives a decision without the converse, `AuthorizationsHold`: every line named by an
  authorization still carries that decision and points back at it. So a pending line is named by
  none, and deciding it cannot decide it twice. `AbsentUndecided` says a row not yet inserted has no
  decision.
- `ServiceInv`. The board has as many open rows as `queue` counts (`RowsAreCounted`), through
  transitions because an order has one at most, where its status says (`QueueFollowsStatus`, in
  `IInv`): `syncRows` closes the rows of queues it left and opens one where none is. To the board every step of the system is one of three: it stands
  still, an order moves on, or a row is rewritten without becoming open. `ArrivalsInv`: the mark has reached the millisecond of
  every part that was observed (`Marked`). It only rises while the process lives, a part's arrival
  is never moved, however late an update of it commits, and a restart forgets the mark and what was
  observed together. What may be read again is therefore of the mark's own millisecond. `GaugesInv`: what is
  published was read earlier, so the shares already read by the pass under way must be shares too,
  each because its numerator and its denominator come from one query. `EstimatesBounded`: an estimate
  being generated has its version reserved, since nobody else generates one under the order's lock.
- `BlankRows`: a create between its check and its INSERT owns a row not yet inserted, an appointment
  not yet inserted has no source, and an offer names an appointment that exists. Without it a
  conversion could give a used appointment a second meaning.
- `RequestsNameTickets`: a clock request in flight names a ticket. `SerialClockCoherent` then
  follows because on a serial ticket the query's last entry is the last inserted.
- `RowsFit`: a step-up not yet started is not claimed, and a request that has paid names a completed
  step-up of its own person and operation whose grant is still unspent for everyone else.
- `TokensKnown`: before login nothing is claimed or sent; an exchange on its way presents the stored
  token or an older one; an answer in hand is the successor of the token presented. So the provider
  can be at most one token ahead of the row, because only the stored token can be presented with
  effect, and a rotation closes the gap.
- `AccessProofs`. Every step either leaves the identity tables alone or has one of a few shapes
  (`IdentityShape`), all of which keep a link's existence and its home (`LinksKept`); that is what
  carries the facts an earlier read established over the steps in between. `SupportInv`: an approval
  under way holds its request's lock, so the request is still pending when it is written, and its
  approver is still of the tenant. `DecisionInv`: a verdict in hand that rests on support access
  relied on a platform role of its actor; recording asks again whether the session runs and the role
  is held, and the two together are `EndedIsNotServed`. `LoginInv` replaces the cardinality in
  `LoginAndSessionTogether` by three facts that steps can be checked against: a session's login
  succeeded, no login has two sessions, a login that succeeded has one. `CommandInv`: a command that
  ran under a key left its row, so a key found free under the unique index has run nothing.
- `DealJacketProofs`. `ConfigInv`: rows of one code, scope and type are disjoint in time, so one at most is in
  force, and two that are equally specific have different scopes of one score, which only the two
  that name a rooftop have (`OnlyRooftopRowsTie`); the versions of a code have a largest (`CodesHaveLatest`), so the next number exists.
  `PaperInv` adds to the properties that a package without a ceremony has no signers (in `AllMatch`:
  a ceremony begins with nobody's signature) and that a package's jacket was opened (`OpenedFirst`: a
  jacket just opened has no package, live or under a hold). Signing, declining, voiding, expiring and
  superseding are then one shape, `Moves`: a package and its ceremony change together, to a pair that
  matches and in which every signature stands.
- `CaptureInv`. `OneOpenLead` is not inductive: a capture decides under the lock and writes later.
  `DecisionsStand`: a capture that found no open lead of its customer and interest is still right
  when it writes. Only captures open leads, and `DecisionsApart`, the lock, says no two decide about
  the same pair; a close in between can only help. `IntakesCounted` replaces `TouchPerIntake`'s
  count by facts a step can be checked against: an intake names a lead that exists, nothing recorded
  names none, and the intakes of a lead are finitely many.
- `SendInv`. `ClaimsHold` and `ClaimsApart`: a claimed message still waits, in a version that was
  executed, and has one dispatcher, so each answer counts one attempt. `RetriesCounted`: the provider
  was called no oftener than the row's attempts and the crashes explain; a crash adds one to both
  sides. `FreshUntilExecuted`: executing a version writes fresh rows, which is sound only because
  nothing has gone out before. `WakesAtTheEnd` counts without the
  remainder the property takes: a deferred message wakes within a day, at the end of the quiet hours
  today or tomorrow; or, if the clock was changed while it waited, at one of the minutes
  `ClockChange` off (`HourOff`). Then it wakes before the clock may be changed again
  (`availableIn <= steady`), which is what keeps the error from adding up.
- `WorkTyped`. `LoggingHolds`: an activity being logged or closed is of a lead and of a row that
  exist, since neither is ever deleted.
- `StockInv`. `TransfersAgree`: while a transfer waits, its vehicle stays at the rooftop it leaves and
  has no other transfer waiting. Settling moves the vehicle, and without the second half it would
  move it from under another transfer.
- `ListingsInv`. `PendingBacked`: a pending listing has an undelivered event of its own kind, across
  later requests, reconciliations and failures written afterwards; a failure still to be written is
  of an event of the outbox.
- `SellingInv`. Exclusiveness is stated pairwise, per customer for selections and over all rows for
  drives, so that a new row has to be compared with the others only once. `CarsHeld`: no drive that
  is out has the car whose lock a request holds, and no two requests hold the lock of one car; so the
  index on the car is never what refuses a request. Of driver and escort nothing of the kind holds:
  there the indexes carry the proof, as the index on the selected vehicle does for selections.
- `DeskingInv`. `PricedAsShown`: the figures of a version are those of its own inputs and of the
  finitely many rules recorded with it, whatever happens to the book later. `ApprovalsOK`: an approval
  is by a manager of the case's rooftop, in time, one per case; an approved case has its approved
  version. It stands because a case keeps its rooftop and a new approval supersedes the old one.
- `TxInv`: what a caller is told is right only if its row fits its phase (`Fits`: durable only once
  COMMIT was sent, a client exactly in the phases that need one), borrowed clients are those some
  caller holds (`OutIsHeld`), a session's open transaction is that of its borrower and not yet
  durable (`OpenIsOurs`), and a client whose socket was seen to close is never lent
  (`OutIsQueryable`).
- `ExitInv`: without a pool nobody holds a client (`PoolGone`); once the server has closed no
  request that is still awaited is in flight, and none begins (`ApiCloseOrder`); a single pass has a
  job in hand while it is up and its failures on record when it is done (`SinglePass`).
- Migrations. `RunnersKnow`: whatever a run read in the ledger or has passed is there with the body
  its own directory has. So the file it applies next follows exactly the files already executed, and
  these are its directory's; a second run that gets there first leaves a row, and the primary key
  refuses the other.

Most proofs first classify each step into a few shapes (for example "the row is untouched", "a
rotation", "a revocation") and prove each part of the invariant once per shape rather than once per
action. Two results are refinements: each step of `StepUp` is `Ask`, `Decide`, `Use` or a stutter of
`OneUseGrant`, under `StepUpInv`; and each step of the floor or the metrics pass is one of
`RepairOrder` or leaves its variables alone (`FloorImplementsRepairOrder`), so all that is proved of
repair orders alone holds of them on the floor.

**What sums and growth compute.** The library's induction theorems take an operator, which the
installed provers cannot instantiate, but the well-foundedness of `<` on `Nat` is a statement about
sets. `LeastNat` takes from it that a set of naturals that is not empty has a least member, and
`EveryNat` that a set with 0 and every successor is all of `Nat`. On these two rest what the
recursive functions of the model compute:

- `Total` over sequences of any length (in `CrmProofs`): its recursion equation, and that the credits
  of a lead, the first of which take the remainder one unit each, add up to the whole
  (`CreditIsWhole`);
- the order in which rules apply: every finite book can be sorted, so that `ordered` is a list of as
  many of its rules as it has (`BookIsOrdered`);
- the calculator (`ScenarioAddsUp`, in `ShowroomProofs`): the lines of a deal add up to the amount
  financed. The growth of a debt, truncated month by month, is bounded by what as many months of simple
  interest on the grown debt make of it (`GrowthIsBounded`), so the payments
  repay the amount financed to within half a unit each (`PaymentsRepay`), for every rate, term and
  rule book.

## 5. Where the code and its comments disagree

The run `worker_drains` is the one kept as a run: it contradicts the worker's own contract.

- **`worker_drains` / `RunsUntilSignalled`** (`apps/worker/src/main.ts:29-30`, `:413`). The default
  mode "runs each job on its configured interval until SIGTERM/SIGINT". The interval's timer is
  unreferenced and the pool drops its idle clients after 30 s by default, before the 60 s interval
  is over: nothing referenced is left and Node ends the process with status 0 and no signal.

The others are definitions in the modules that no run asserts. Each is a promise of the source that
TLC refutes; to see the trace, put the definition as the only INVARIANT (an action or temporal formula as
the only PROPERTY) into the configuration of the run named.

| Definition (run) | What the source says, and what happens |
|---|---|
| `PendingAsQuoted` (`repair_order`) | "The lines marked pending are exactly the lines that were totalled." `generateEstimate` reads a line, `updateLineItem` reprices it and commits, `generateEstimate` marks it pending: the customer answers for a price the totals do not contain |
| `HandedBackFinished` (`repair_order`) | "Nothing may be handed back to the customer while work is still open." The gate runs on entering `ready_for_pickup`; a line added or reopened there is carried into `closed`, which has no gate |
| `AuthorizedOnLiveEstimate` (`repair_order`) | The evidence "must belong to the estimate currently in front of the customer". A partly approved estimate is withdrawn by the re-quote edge; its approval still satisfies the gate |
| `DeclinedEstimateHasNoApproval` (`repair_order`) | The cumulative count exists so as not to "report `declined` and lose the approval". A decision may cover a pending line of an older estimate, and the count does not |
| `VisitConvertsOffer` (`service_intake`) | "`checkIn` marks it `converted` when the appointment becomes a repair order." `createRO` with the appointment makes the order first; `checkIn` then replays it before it reaches the conversion |
| `ClockCoherent` (`tech_dispatch`) | Two racing entries "must not both read the same last event". The order is by the start of the inserting transaction; one that began first and got the lock second sorts behind the entry it followed |
| `SilenceNeverRevokes` (`session_refresh`) | A transient failure "changes nothing at all". The deadline passes with the request at the provider, the claim is released, the provider spends the token; the next request is refused and revokes the session |
| `ResolutionIsDetermined` (`deal_jacket`) | "A checklist that could resolve two answers cannot say what the deal needs, and the only cheap place to refuse that is the write" (migration 066). A row for the rooftop and one for the rooftop and its legal entity differ for the exclusion constraint and score the same (`configuration.ts:771-781`); the database's row order decides |
| `CeremoniesOfActiveTenantsEnd` (`deal_jacket`) | "One pass over every active tenant" (`reconcile.ts:101`). The pass lists the first 200 and stops at the first that throws; the ceremonies of the tenants behind wait past their expiry for ever |
| `SignedJacketHasItsPackage` (`deal_jacket`) | "A jacket that had finished signing and is re-assembled is open paperwork again" (`assembly.ts:895`). A re-assembly whose rendering fails retires the signed package and leaves the jacket `signed_complete` |
| `WorkOfActiveTenantsGetsDone` (`crm`) | "This visits every active tenant on every pass" (`crm/src/worker.ts:15-16`). As above: campaigns of a tenant beyond the limit, or behind one that throws, never end and its leads are never escalated |
| `WakesInTheOpen` (`crm`) | "The next instant at which the window is open" (`consent.ts:163`). The minutes until the end are read off the wall clock and added to the instant; when the clock is set back meanwhile, the message wakes inside the quiet hours. It is then deferred again, not sent |
| `OptOutSilencesTheAddress` (`crm`) | "An opt-out becomes silence" (`sends.ts:427-437`). It suppresses the address read when the version was executed, not the one the message went to (`:182` against `:504`) |
| `HandoffSnapshotStands` (`crm`) | Nothing moves what was handed over (`activities.ts:116-119`). An activity that had read the lead before the hand-off marks it responded afterwards |
| `RetiredIsNotAdvertised` (`showroom`) | Retiring asks for the listing's withdrawal first, "or the dealership would keep advertising something it no longer holds" (`stock.ts:415-416`). A publication that failed once is retried after the withdrawal was delivered and the vehicle retired |
| `FloorDoesNotLeak` (`showroom`) | "A floor that leaks people is a floor that stops giving out turns" (`showroom.ts:747-748`). A greeter whose visitor was accepted by somebody else stays `with_customer` after the visitor has left |
| `NeverPricedWithoutTax` (`showroom`) | "A tax book that is empty or entirely expired is reported" (`rules.ts:218-220`). One whose rules all begin later is not, and the deal is priced without tax |
| `OneOpenReviewTask` (`service_floor`) | The customer has one review task at a time. `updatePortalTaskStatus` reads nothing first and sets a closed task back to open beside its successor |
| `ClosedInTimeStays` (`service_floor`) | "An item that is closed and was never overdue while open cannot become overdue afterwards." Escalating a closed row, or closing it again, moves `updated_at` |
| `ComebacksAreAShare` (`service_floor`) | The cohort was chosen because the other "can report more comebacks than there were closures". An order that came back twice counts twice. Needs a longer history than the run keeps: `MaxHistory = 7`, `MaxRow = 20` and a scene `quality` in which the second order is repaired again |
| `ArrivalsAreObservedOnce` (`service_floor`) | "Observed once per part" (`metrics-aggregator.ts:97`). The mark is a JavaScript date; the last part's `received_at` is later by its microseconds, and every pass observes it again |
| `ArrivalsAreObserved` (`service_floor`) | The mark follows what was read so that no part is "never observed at all". A part whose update began earlier and committed later lies behind the mark |
| `StopWaitsForThePass` (`processes`) | `stop` "resolves once the loop has stopped and the pass in flight has finished". During any pass but the first the timer variable still holds the fired timer (`main.ts:423-427` against `:385`), and it resolves at once |

Smaller things met on the way, which no property is about:

- *Fixed operations.* The comment at `service-cockpit-service.ts:390-394` says `authorized` and
  `sublet_in_progress` are in no queue, the table below it puts them in `in_repair`; the comment in
  `addLineItem` says only `recordAuthorization` and `generateEstimate` write a line's authorization
  status, the re-quote edge does too. Two inspections of one order recommend the same finding twice.
  `updatePartLine`, `updateSubletJob` and `updateComebackCase` accept any status after any other.
  `dispatchTech` can deadlock with an operation holding the order (`:3076`); PostgreSQL's detector
  ends one of them. The quality-check failure rate can exceed one.
- *Identity.* A grant's `expires_at` is compared with the start of the transaction
  (`reauthentication.ts:951`); nothing finer is claimed. A link that ever had a session cannot be
  relinked (foreign key). An approval whose requester loses authority between its two reads leaves
  an approved request without a session. The outbox's ledger row commits with `delivered_at`, so its
  `deduplicated` branch is unreachable and a lost commit delivers again. Jacket events match no
  dispatcher's prefix (`admin-outbox.ts:137`). A keyed command repeated while the first still runs
  with its step-up token gets 403, not a replay. `idempotency_keys.expires_at` is never read.
- *Jackets.* A voided jacket cannot be reopened from the same approved scenario. A waiver after
  assembly escapes `reviewRequired`. Signing, sweeping and voiding lock the same rows in different
  orders.
- *Inventory and sales.* `ON CONFLICT DO NOTHING` in `recordListingEvent` drops a second first
  attempt. Settling a transfer moves a retired vehicle. A refused acquisition keeps the vehicle it
  resolved. `receiveHandoff` meets a unique violation while the customer has an open walk-in.
  `setVehicleStatus` can change the selection after the hand-over to desking. A race for a driver,
  an escort or a selection that the index decides reaches the caller as a 500. `issueDemonstration`
  does not check the visit's state.
- *CRM.* `mergeParties` repoints neither leads nor purpose consents.
- *Processes.* After such an early `stop`, closing the pool makes the remaining jobs fail or opens a
  pool nobody closes. A second SIGTERM lets the API exit with the transactions of clients that hung
  up still open. A runner whose directory lacks a file another release adds at the same time can
  apply on top of it; what keeps the schema one chain is the ledger's primary key and that releases
  extend one another.
- *Web.* The pages make an `Idempotency-Key` per call, so a double click is two commands.

## 6. What is only model-checked, and what is not modelled

Only model-checked:

- all liveness properties: `ComebacksAreAnswered`, `DrainedQueuesAreForgotten`, `EveryStepUpEnds`,
  `EveryAttemptAnswered`, `LoginsEnd`, `InvitationsAreAnnounced`, `CeremoniesEnd`, `CrmFinishes`,
  `PendingListingsAreAnswered`, `ProcessesLive` (liveness under fairness and ENABLED are out of the
  prover's reach);
- the refutations of section 5.

Every safety property of a passing run, invariant or action property, is also a theorem.

Left out of the modelled components:

- Lock waits, except of comebacks, quoting, step-up spending, drives and selections: elsewhere an
  action is a whole transaction, or the part of one between two unlocked reads.
  The deadlocks that lock order allows are therefore not visible; PostgreSQL's detector turns one
  into a request that did nothing, which the models admit.
- `updateAppointment`, which touches nothing the model keeps; listing, describing and searching.
- Amounts outside desking, texts, digests, VIN decoding, audit rows, permission middleware.
- The tenant context and read-only variants of `withTransaction`; nested calls; bodies that swallow
  a statement's error without a savepoint. A worker's job is one transaction.
- `decide`'s queries are one read; in the code they are several statements.
- In `Migrations`, files are numbered and a body is its own digest.

Not modelled because there is nothing for these tools to check: the web pages, read models, logging
and configuration, HTTP parsing, token verification (cryptography), and the repository's own
checking scripts, which inspect the source tree and test databases and are no part of the running
system.

## 7. Plan

1. Row locks as steps in `DealJacket`, so that the lock orders of signing, sweeping and voiding can
   be told apart from one another.
2. An abstract specification of at-least-once delivery that the three outboxes (`Administration`,
   `Listings`, `Campaigns`) implement.
3. `Selling` against `Leads`: the CRM's hand-offs and appointments are constants of `Selling` now.
