# LicenseSrv in TLA+

Formal models of LicenseSrv, a multi-tenant license server (TypeScript, Fastify, PostgreSQL) with an offline
verifier (Rust). The models are written from the code under `src/`; they cover the parts where several
requests, workers, servers or clients work on the same rows. TLC checks them on small instances; TLAPS proves
the safety properties of all of them but the condition language for every value of their constants.

1. [The system](#1-the-system): components, state, operations, what is hard
2. [What PostgreSQL and Node give](#2-what-postgresql-and-node-give): the assumptions every module shares
3. [The modules](#3-the-modules): how each corresponds to the code
4. [The runs](#4-the-runs): what each shows, its bounds, its fairness
5. [The proofs](#5-the-proofs)
6. [Where the code and its documents disagree](#6-where-the-code-and-its-documents-disagree)
7. [What is only model-checked, and what is not modelled](#7-what-is-only-model-checked-and-what-is-not-modelled)
8. [Plan](#8-plan)

`PROJECT.json` is the index: components, runs, the source lines of every definition, the hazards of the code
with the properties that cover them, the theorems, and for every property a mutant, a plausible bug written as
an operator next to the definition it replaces (`Lock_NotExclusive` next to `Lock`), under which TLC finds the
property violated. To repeat a run: `tlc -config lease_seats.cfg MCLeaseSeats`; to repeat a proof:
`tlapm LeaseSeats_proofs.tla`.

## 1. The system

`src/src/server/main.ts` starts one HTTP server with one pool of database connections and eight background
workers (revocation list, grace, reconciliation, billing retention, lease reclaim, usage rollup, usage
retention, policy retention). Any number of servers may share a database. All durable state is in PostgreSQL;
what a client can do offline is decided by the signed tokens it holds.

| Component | State it keeps | Operations | Meets the others through | Hard | Correct when |
|---|---|---|---|---|---|
| **Floating seats** `modules/lease` | `lease` rows (token, holder, status, expiry, overage), the handles clients hold | acquire, renew, release, force-release, reclaim worker | license row (read), signer, plan, audit | races for the last seat, retries with the same or a new token, renew against reclaim, `now()` older than the lock | never more live seats than the cap; one per holder; overage metered; an ended lease stays ended; offline use ends soon after revocation |
| **Node-locked activation** `modules/activation` | `activation` rows (fingerprint, nonce, status) | activate online or from a file, deactivate | license row lock, signer | races for the last seat, drifting hardware, replays, deactivation without the lock | never more seats than sold, none taken twice by one machine, none on a stopped license |
| **Online enforcement** `modules/enforcement` | `checkin` rows, `last_anchor_at`, short-lived tokens | validate, heartbeat, prune | reads license, activation, plan; signer | status read before the token is minted, retries, reordered commits | what a stopped machine holds lapses in one window |
| **Revocation list** `modules/enforcement/crl*` | `revocation_list` versions | publish worker (one per server), fetch | reads licenses and activations | projection, numbering and insert without a lock | lists name only what is revoked; every revocation arrives |
| **Database pool** `db/client.ts` | connections, row and advisory locks | `withTenant`, nested transactions | every handler | holding one connection while waiting for another | no leak; somebody can always go on |
| **Billing** `modules/billing` | `subscription`, `billing_event` ledger | webhooks, grace worker, reconciliation | issues and changes licenses inside its transaction | at-least-once, unordered delivery; workers racing webhooks | each event applied once; newest wins; access follows standing |
| **Usage** `modules/usage` | raw events, rollup buckets, the worker's watermark in memory | ingest, rollup, query, retention, erasure | license (key), plan quota, audit | late commits below the watermark, batches cut at a limit, one tenant's failure, pruning | no event counted twice or passed over; totals outlive their events |
| **Issuance** `modules/issuance` | `license`, `customer` | issue, renew, suspend, reinstate, revoke, transfer, erase customer | everything above reads it; signer | every status change races with those readers | terminal states stay terminal; snapshot and token agree |
| **Signing** `modules/signing` | `signing_key`, wrapped private keys, the master key in memory | unlock, provision, rotate, revoke, retire a key, sign, publish keyring | a nested transaction inside callers | two rotations, a rotation and a revocation at once | one key to sign with; what was signed verifies for the overlap |
| **Policy** `modules/policy` | rule versions, evaluations | create, edit (a new version), stage, evaluate, dry-run, prune | issuance asks it before it signs; the catalog sets its bounds | concurrent edits of one rule, an evaluation over four transactions | no author's edit is lost; every recorded decision can be recomputed |
| **Reseller hierarchy** `modules/reseller/lifecycle.ts` | resellers, the parent of each sub-tenant | onboard, provision a sub-tenant, suspend, reinstate, move, offboard | its suspension makes sub-tenants read-only | the quota is counted and the sub-tenant created and linked in transactions of their own | quotas hold but for the race for the last place; one level of resellers |
| **Domains and branding** `modules/reseller/verify.ts`, `branding.ts` | domain bindings, branding profiles | claim, verify and activate a host; set and resolve a branding | inherits along the hierarchy | two claims of one host; five reads make one answer | a domain shown is held by the layer it comes from, and by nobody else |
| **Catalog** `modules/catalog` | products, plans, entitlements | CRUD, archive, effective plan | issuance, billing, enforcement | archive while in use | snapshots stay consistent |
| **Admin users** `modules/admin/users.ts` | users with role and status, their row locks | create, change role or status | the owners of a tenant administer one another | two owners removing each other | a tenant keeps an owner |
| **API keys, sessions** `modules/admin`, `auth`, `console` | hashed keys, sessions | login, rotate, revoke, authenticate | first transaction of every request | revoked key in a running request | nothing accepted after revocation |
| **Audit, RLS, GDPR** `audit`, `db/gdpr.ts`, policies | append-only log | insert; erase a tenant | in the caller's transaction | | one row per committed change |
| **Verifier core** `verifier-core` (Rust) with C, FFI, UniFFI and WASM bindings | the anchor of the client's clock | verify token, keyring, fingerprint, CRL | signed documents only | clock going backwards | accepts what the server would |
| **Health, metrics, admin console** | none of their own | probes, logging, a browser client | reads | | |

## 2. What PostgreSQL and Node give

Every module relies on these, and on nothing else about its platform.

* READ COMMITTED: each statement sees what was committed when it started. A statement that reads or writes
  shared rows is a step of its own; the last write of a transaction and its COMMIT are one step, since nothing
  uncommitted is visible. `now()` is the start of the transaction, however long it waits afterwards.
* `FOR UPDATE`, advisory transaction locks and the row lock of an UPDATE are held to COMMIT or ROLLBACK.
  An UPDATE with a guard that waited for a lock re-evaluates its guard.
* A unique violation aborts the transaction. The INSERT that meets an uncommitted duplicate waits for it.
* A fault anywhere rolls the transaction back. A server that crashes loses its connections, and PostgreSQL
  rolls back their transactions: a crash is the same step as a fault (`Rollback`, `Fail`).
* A handler keeps its local variables across `await`: what it read earlier stays what it read.

## 3. The modules

### SeatPool: what a pool of seats promises
No transactions, locks or clocks. Each license has a set of occupied seats. `Grant` gives a seat nobody ever
held to a holder that has none, below the capacity; `End` ends some. `LeaseSeats` and `Activation` both
implement it through `INSTANCE SeatPool WITH` and a refinement mapping from their rows.

### LeaseSeats: floating seats
| Code | Model |
|---|---|
| `lease` row, one per acquire token (`lease_nonce_uniq`) | `lease[n]`, `None` while no row is committed |
| `acquireLease` phase A, then phase B in `LeaseRepo.acquire` | `AcquirePrepare`; `AcquireLock` (BEGIN, advisory lock and the lookup by token); `AcquireByHolder`; `AcquireCount`; `AcquireInsert`; `AcquireCommitNew` or `AcquireCommitReplay` |
| `renewLease`, guarded UPDATE | `RenewRead`, `RenewCommit`, `RenewRefuse` |
| `releaseLease`, force-release | `Release`, `ForceRelease` |
| `reclaimSweep`: grace, revoked, suspended or expired by policy, oldest first, batched | `ReclaimSweep` with `GraceDue`, `PolicyDue`, `OldestFirst` |
| `suspendLicense`, `reinstateLicense`, `revokeLicense` | actions of the same name |
| signed handle delivered with an answer | `handleExp[n]`, the latest expiry any client holds |

Nothing that a seat is worth is left out: caps with overage, metering, the license's own expiry, its policy per
state and the handles that outlive the row's state. `MaxTx` bounds how long a request may run, which is what
`TimerReclaimSafe` depends on; the code has no such bound of its own (no `statement_timeout`), so the property
is stated under that bound and the run uses `MaxTx <= Grace`.

### Activation: node-locked seats
A machine is the set of signal hashes it presents, so that `chooseMatch`'s K-of-N is `overlapCount(f, g) >=
FpMin`. `activate` holds the license's row lock from `Lock` to its end; the signer's call between the match and
the write is where `deactivate`, which takes no such lock, fits in. Air-gap files are checked in a transaction
of their own (`AirGapCheck`) before the one that activates (`ActivateFile`).

### CheckIn: validate and heartbeat
A beat is `Begin`, `resolveActivation`, `readLicense`, then `Replay`, `recordCheckin` or `Rollback`. Between the
reads the license and the machine may change. `outstanding` is every unexpired token in some client's hands,
and `stoppedAt` the moment a machine was first cut off: the properties compare the two. Nonces are those of one
license's machines; pruning (`pruneExpiredCheckins`, a job the platform owner runs) makes a nonce new again.

### Crl: the revocation list
`publishIfStale` as its seven statements per worker: two projections of two SELECTs each, the decision, the
number, the INSERT. `published` is the sequence of versions; the unique index on the version is `Insert` against
`LoseRace`. `Fetch` hands a client a version, which it takes if `isFresherCrlVersion`: caches may serve older ones.

### DbPool: connections
A handler is the sequence of things it waits for: `begin`, `lock`, `read` (a nested transaction on a second
connection), `commit`. `Script` has one for each kind of handler, all starting with the transaction that
authenticates. `Connect` queues, `Grant` serves the queue's head, `Leave` is every early exit through `finally`.

### Billing: subscriptions
One subscription. `sent` is what the provider has to say, in its order, and a webhook may be delivered at any
later time, any number of times, or never (`Receive`). `handleWebhook`'s transaction is `Receive` (lookup
without a lock), then `Create`/`Provision`, `DeadLetter`, `Refuse`, or `Claim`/`Commit`. Events are dated to the
second and may share one. The grace worker lists (`ListElapsed`) and then takes each subscription in a
transaction of its own (`suspendElapsed`); reconciliation lists, asks the provider outside any transaction and
applies (`ListCandidates`, `providerFetch`, `reconcileOne`). The provider's interface is external: `Emit`,
`Standing`. The server ships without an adapter that fetches (`noopProviderFetch`); the model is of a
deployment that has one. `Stamped` says whether it dates its answer. Plans and customers are taken as mapped;
an event that is not is one more dead letter.

### Usage: metering
An ingest is `ingestBatch` (BEGIN, every event judged, rows stamped with the time of BEGIN) and `appendBatch`
(INSERT .. ON CONFLICT DO NOTHING and COMMIT). A sweep of the roll-up worker is `SweepBegin` (the tenants with
rows above the watermark), then for each tenant `selectRawSince` (a bounded batch in the order of the stamps) and
`rollupTenant` (add up every bucket touched, from what is in the table by then), and in the end `nextSince`. The
watermark is the worker's memory: `Restart` sets it to 0. `SweepFails` loses one tenant of a sweep, `pruneTenant`
and `eraseTenantUsage` delete. PostgreSQL stamps rows to the microsecond and JavaScript reads milliseconds: a
stamp is twice the clock and a fraction, and the watermark loses the fraction. `folded`, `late` and `tainted` are
history: rows that went into a total, rows a sweep may pass over, buckets whose rows went while they were read.

### Signing: keys and custody
`masterKey` is the set of shares custody was unlocked with: `shamirCombine` gives the right key from enough
of them and another one of the same length from fewer. Each admin's request is one transaction, at the statement
where it is: `ProvisionRead`, `ProvisionInsert`; `RotateFind`, `RotateDemote`, `RotateInsert`. What it wrote and
did not commit stays in `change`, whose `rows` are locked (`Locked`); the partial unique index on the active key
is `OneActive`. `keyring` and `KeyValid` are what a verifier goes by.

### Issuance: licenses and customers
Extends `Signing`. `issueLicense` is its four transactions (`IssuePlan`, `IssueCustomer`, `IssueSign`,
`IssueInsert`), a life-cycle request two steps under the license's row lock (`LifecycleLock`, then
`LifecycleUpdate` or `TransferUpdate`), `eraseCustomer` a read and a write with no lock between (`EraseRead`,
`EraseWrite`). `audit[l]` is the trail of a license: `Replay` folds it back into the row it should give.

### Condition and Policy: the rule engine
`Condition` has the two walks over a condition as recursive functions on trees: `validateCondition`, when an author
saves it, and `evaluateCondition`, with its short circuits, its operator count and its depth. Values are truth
values; strings and the arithmetic on numbers are left out. `AcceptedIsEvaluated` compares the two walks. `Policy`
extends it with the versions of each rule, the requests that write them (each checks in one transaction and writes
in another: `CreateCheck`/`CreateInsert`, `EditRead`/`EditWrite`, `StatusRead`/`StatusWrite`), the catalog requests
that change the plan's value and the bounds, the issuance that reads all of them in turn (`IssueBase`,
`loadEntitlementBounds`, `evaluatePolicy`, `IssueInsert`, `writeAudit`), the dry run and the pruning of audit rows.
The context of a decision is the set of fields its sources provide (`buildDecisionContext`), refused past
`MaxFields`. The partial unique index on live versions is `OneLiveIndex`, applied to the state a transaction leaves.

### Reseller, Branding and AdminUsers: tenancy
In `Reseller` no row is locked and no write repeats the condition it rests on, so each read and each write is an
action, and `op[r]` is what a request knows: `ProvisionRead` (status and quota), `ProvisionCount`,
`ProvisionTenant`, `ProvisionLink`; `MoveRead` .. `MoveLink`; `OnboardNew` or `OnboardExisting` ..
`createReseller`; `StatusRead`, `setStatus`. `Abandon` is a server that stops between two of them. `Branding`
extends it with the claim of a host (`Initiate` .. `BindingUpdate`, the unique index as `HostIndex`), the two
requests that set a branding and the read that resolves one from five queries (`GetProfile` .. `GetInherited`). Of
the branding fields it has the custom domain and its lock: only this one takes effect through a binding.
`AdminUsers` has users and the row locks `updateUser` takes before it removes an owner, one row after the other;
`AbortUpdate` is PostgreSQL breaking a cycle of waiting transactions.

### MC modules
Each run has an `MC` module with the constants a .cfg cannot write. Two of them compose what shares a run:
`MCTrust` has the key ring and the revocation list, one or the other in each behaviour; `MCTenancy` has the
hierarchy, the brandings on it and the users of a tenant, with constraints that explore one at a time and bounds
on what is under way together. `MCLeaseSeats`, `MCActivation` and `MCPolicy` do the same with questions that need
different bounds (`OneAtATime`, `Small`): a CONSTRAINT leaves out the states that belong to neither question. Where a
liveness property meets such a constraint, no fair action leads out of what is explored: clocks, clients, authors and
faults owe nothing. `SYMMETRY` is declared where nothing tells the permuted values apart, no property, no constraint
and no fairness; `StaleFileNeverActivates`, a temporal formula without fairness, speaks of none of them.

## 4. The runs

All finish with no state left on the queue. `CHECK_DEADLOCK FALSE` is set everywhere: every run bounds
something (tokens, rows, time, operator actions), so a behaviour may really come to its end. For the pool, the
one component where standing still would be the error, `NotStuck` says so explicitly.

| Run | Question | Properties | Distinct states |
|---|---|---|---|
| `lease_seats` | Are seats counted right when three holders race for two seats of one license and share a token with another? | `SeatInv`, `ImplementsSeatPool` | 314 thousand |
| `lease_timing` | Are reclaimed seats dark, do revoked ones go dark in time, and is every revoked or lapsed seat given back, one per sweep? | `TimerReclaimSafe`, `RevocationWindow`, `NoRevival`, `LapsedReclaimed`, `RevokedDrains` | 403 thousand |
| `activation` | Do machines, one drifting and one in a file, ever hold more than was sold? | `OneSeatPerMachine`, `ImplementsSeatPool`, `DriftTakesNoSeat`, `SeatOnlyOnActiveLicense`, `StaleFileNeverActivates` | 145 thousand |
| `checkin` | Is what a stopped machine holds bounded, with two beats, retries and pruning? | `StalenessBounded`, `AnchorCoversRenewals`, `OneRenewalPerNonce` | 2.2 million |
| `pool` | Does a pool with room ever stand still? | `NotStuck`, `EveryRequestAnswered` | 45 thousand |
| `billing` | Webhooks twice, late, out of order, lost or at the same time, with workers and an operator: does the subscription end where the provider says? | `AppliedOnce`, `OneLicense`, `NewestWins`, `AccessFollowsStanding`, `GraceEnds`, `MissedEventsHealed` | 494 thousand |
| `usage` | Is every event counted once and in the end, whatever is late, cut off, pruned or restarted, and do totals outlive their events? | `WatermarkSafe`, `TotalsSurvive`, `AccruedOnce`, `AlwaysEventuallyFolded` | 812 thousand |
| `trust` | Do offline clients always have a key to trust, and in the end the list of what is revoked? | `Signable`, `StaysTrusted`, `ChangesEnd`, `RevocationReachesClients` | 311 thousand |
| `issuance` | Do licenses, customers and the audit trail stay consistent under racing operators? | `OwnersKept`, `AuditReplays` | 1.3 million |
| `policy` | Is each decision the one of the active rules, explained for ever by what was recorded, and no author's edit lost? | `Explained`, `Decides`, `NoLostEdit` | 1.4 million |
| `tenancy` | Quotas, brandings and owners under racing consoles | `QuotaHeld`, `ShownIsBound`, `OwnerRemains` | 1.3 million |
| `reseller_levels` | violated: a tenant is a reseller or under one | `OneLevel` | |

Most take about a minute with two workers, `lease_timing`, `billing`, `usage` and `policy` two or three.

**Bounds and why they are enough.**
* `lease_seats`: two requests, since the lock admits one at a time and the races are between two; three holders with
  three tokens on a license with a base and an overage seat, so that the last seat is raced for, the third holder is
  refused and the count crosses the metering boundary in both directions; a license with one hard seat, and a token
  valid on both, for the replay across licenses. Time stands still, and no operator acts: neither property mentions
  them. `SeatInv` is the invariant of the proof, the cap, holder and metering properties in it.
* `lease_timing`: one license, seven instants, `Ttl = 3 * Heartbeat`, `Grace = 1`, and one of two things. One token and
  two requests that last an instant at most (`MaxTx = 1 = Grace`): enough for acquire, renew, expiry, grace and reclaim
  to follow each other and for the license to expire at 5. Or two tokens with a holder each on two seats, one request
  that takes no time, and no operator: two leases come due at once, or one while another is not, and a sweep of one
  lease (`SweepBatch = 1`) leaves the other.
* `activation`: two seats, three rows, two handlers, four fingerprints of which two match by two of three signals, and
  every change of the license's status. Either three online tokens: two machines race for the last seat, a third is
  refused, and takes a seat once it is given up. Or two machines with one online token and one in a file; a row holds
  one token, so there are two rows then.
* `checkin`: one machine, two beats at a time, two nonces, four instants with a window and a retention of two:
  a row can be written, pruned and its nonce used again while the first token is still out.
* `pool`: three requests of three kinds (two transactions with a read under a lock; two reads without; a lock
  only), one lock, four connections: one more than requests, the smallest roomy pool. The theorem covers the rest.
* `billing`: three events (creation; a repeated one or a failed payment; a renewal, cancellation, refund or one
  of an unknown kind), two handlers while the first two are out and one after that (`Racing`), one operator
  intervention, two seconds in which events are sent plus one of grace; the provider does not date its answers.
* `usage`: two tenants, so that one can be passed over because of the other; a sum with a reversal, a set of values
  and an entitlement that is not metered; an event repeated in its batch and after it; buckets of two ticks and a
  window of one, so that the window ends inside a bucket; two faults (restart, failed sweep, erasure), two to the
  effect that one follows another. Batches of three, and stamps with and without a fraction of a millisecond (with
  one only, after a second fault): a tenant may have four rows due, on two stamps with an ingest each, and the full
  batch then ends inside the second one while the other tenant's rows are younger. Cut there, the row left is folded by
  the next sweep, unless the stamp is a whole millisecond (`Split`).
* `trust`: two admins and three keys, so that a rotation meets a rotation or a revocation and a third follows;
  three shares, all needed; an overlap of one tick and one tick of time; one restart. Two publishing workers, one
  license and one machine: the two kinds of id whose SELECTs are apart. One fault, and one list that falls due
  unchanged.
* `issuance`: two requests, two customers, a license that may be transferred once, an admin with two keys, an audit
  trail of three entries before the operators stop (`AuditBound`): each life-cycle action meets each other one.
* `policy`: conditions on each side of every limit (depth two, five nodes), two rules of two versions in all, two
  requests, one license; a context of at most one field of three sources, so that it is refused as well; bounds
  with and without a maximum, which the catalog changes. The plan's value is always the same one: an issuance reads it
  once and goes on with what it read. A dry run changes only the audit and ends what is explored. Or, while nothing is
  decided, two authors on one rule of up to four versions and two contents (`Edits`): an edit meets an edit, a status
  change or both, twice over.
* `tenancy`: quotas of zero and one, two operations: two requests for one last place. Four tenants with one reseller,
  which may then have three sub-tenants as far as there are tenants, where `QuotaHeld` says two; or three tenants of
  which two may be resellers, one of them inactive or with a lowered quota beside one request (`Bounded`): for
  `QuotaHeld` these only matter as stale reads. Two hosts, two bindings and two calls: two claims of one host, or an
  edit beside a read, with a move in between. Three users and two updates: a cycle needs two of each, the third lets
  one succeed.
* `reseller_levels`: three tenants, otherwise as `tenancy`.

**Fairness and what justifies it.** Only the specifications of `lease_timing`, `pool`, `billing`, `usage` and
`trust` have any.
* Workers: weak fairness of a sweep. `setInterval` fires for as long as the process lives, and each worker catches
  every fault per tenant and goes on (`startReclaimWorker`, `startCrlWorker`, `startGraceWorker`,
  `startReconcileWorker`, `startRollupWorker`). In `trust` and `usage` faults are bounded by `MaxFaults`: a
  worker that failed for ever would do nothing.
* Handlers: weak fairness of finishing, one way or the other, which Node's event loop and PostgreSQL give;
  `Rollback` counts as finishing for leases, so nothing is promised to a client. In `trust` it is an
  admin's transaction once it has begun (`ChangeStep`).
* Locks: strong fairness of taking one (`pool`) and of the billing sweeps, which need the row between webhooks
  and an answer from the provider: PostgreSQL queues waiters, and the sweep tries again for ever.
* Clients in `trust` keep fetching; `RevocationReachesClients` is about those.
* In `billing` time passes. Neither operators nor webhooks' deliveries are fair: an event may never be delivered.
* In `usage` neither producers nor pruning are fair, only the roll-up.

Every property is stated in words above its definition.

## 5. The proofs

Eight modules hold theorems, for any sets of licenses, holders, tokens, requests, customers, users, tenants, hosts, keys,
rules, hooks, machines, workers, producers or batches, and any values of caps, timings and bounds that satisfy the
named assumptions of their module: bounds are numbers, `None` is no row, no status and no member of a set (`NoneIsNoLicense`, `NoBindingAssumption`), a
rule's contents are records of the shape authors can save (`PolicyAssumption`), a producer that repeats an event id
repeats the event (`BatchesAssumption`). `PROJECT.json` lists the theorems.

**LeaseSeats_proofs.** The three seat invariants are not inductive: `CapRespected` says nothing about a request
that has already counted. `SeatInv` adds what the protocol rests on: a request past the lock holds it (`LockHeld`);
what it counted can only have gone down since (`CountStands`); two requests about to insert carry different
tokens (`PendingUnique`); a request's fields are what its position says (`RequestShape`); the live sets are
finite (`LiveFinite`), without which cardinalities mean nothing. Only `AcquireCommitNew` adds a live
lease, and under the lock: `CommitAddsOne` does the cardinality step, `StepOnlyEnds` says every other step only
ends leases. From `SeatInvariant` follow the safety properties (`TypeCorrect`, `CapIsRespected`,
`HolderHasOneSeat`, `OverageIsMetered`), `EndedStaysEnded` (`NoRevival`) and `LeasesImplementSeatPool`: a commit of a
new lease is a `Grant` (`CommitIsGrant`), every other step an `End` or a stutter (`OtherIsEnd`).

The second half of the module is about times. Expiries do not only grow: a slow renew commits, after a quick one, an
expiry counted from its own earlier begin. `TimeInv` says how far back that reaches: what a lease ever promised is at
most its present expiry and `MaxTx`. `TimerReclaimIsSafe` assumes `MaxTx <= Grace`, the relation the code relies on
and does not enforce. `RevocationIsBounded` assumes `TokensApart`, no token used on two licenses; its invariant
`RevokeInv` bounds the handle of a revoked license, and of every request still on its way to one.

**Activation_proofs.** `ActivationInv` says what a transaction under the license's row lock knows: the license is
active (`Shaped`), no other active row is its machine's and, when it takes no row over, none is near it and a seat is
left (`Alone`), and it has the lock (`Holds`). Deactivations happen without the lock but only free seats. Hence
`MachineHasOneSeat`, without the unique index that backs the code up, `SeatsNeedActiveLicense`, `DriftKeepsTheSeat` and
the refinement `ActivationImplementsSeatPool`. `ExpiredFilesStayDead` is an action property: rows and
requests get no token that none of them has (`TokensComeFromRequests`), so a file past its age that nobody holds stays
so (`ExpiredStays`).

**Enforcement_proofs.** `CheckIn` first. A token is what a row or a running beat gave it, so `CheckInInv` says the
same of the three: none is dated after its machine was stopped (`BeatsInv`), and each recorded, unexpired one is the one of its row
(`TokensInv`). `StalenessIsBounded`, `AnchorIsAFloor` and `OneRenewal` need `Retain >= TTL`, which
`TimingAssumption` states: rows outlive the tokens they stand for.

Then `Crl`, as an instance (`List`) of its own. `ListsOnlyRevoked` is not inductive without what the workers have in
hand: `ListInv` adds that their projections are of revoked ids. Revocations are final (`RevocationsStand`), so a
projection overtaken by others before it is numbered is out of date and never wrong: `ListNamesOnlyRevoked`. The
property is proved only and no run's; TLC confirms it when `trust` is given it as an INVARIANT.

**Issuance_proofs.** Keys first. `KeysInv`: what a rotation has demoted and not committed is active for everybody else
and locked (`Demoted`), `Signable` without cardinalities (`OneActiveKey`), nobody acts on the future (`Dated`), and the
end of a key is its revocation or the overlap after a later key (`Superseded`). From it `AlwaysSignable` and
`SignaturesStayTrusted`. `LicensingKeepsKeys`, `Spec => SigningSpec`, carries all of it over to `Issuance`, whose steps
are the key ring's or leave it alone.

Then the licenses. `AuditReplays` relates a row to its trail and says nothing of the operator who has read the row and
not written it. `IssuanceInv` adds that one operator at a time is past the lock of a license (`OneUpdater`), that what
the life cycle was told there is still allowed (`Shaped`), and that each trail tells the life of its row
(`TrailsTell`): it starts with the issue, some entry gives the status at every point, each entry was allowed by the
ones before it, and the whole gives the row. `FirstEntry` and `NextEntry` show that an issue and an update keep it so;
the replay counts the transfers and takes the last other entry for the status, which `TransferCounts` and `LastWord`
say of a longer log. `TrailsReplay` and `OwnersAreKept` follow; the second rests on the foreign key alone
(`CustomerExists`), as nothing in the code serializes an erasure with an issue.

**Policy_proofs.** Three things make `Explained` inductive. Saved versions keep their content, whatever their status
does (`VersionsStand`): an edit appends. One request at a time issues a given license (`OneIssuer`), so the row it
writes is the value it has in hand. And what an issuance has in hand follows from the versions it names (`Fits`,
`Pending`), as what is recorded does (`Faithful`, in `Kept`). That a value follows from its versions needs the selection
to be a choice: any finite set of candidates has a first one in the order of the query (`FirstExists`: strict inclusion
of finite sets is well founded), so a decision names the rule that made it (`DecisionIsBacked`, `WithinIsSound`).
`NobodysEditIsLost` says that of two authors who read a rule before either writes, the second never takes the first
one's version out: an edit retires the version it read (`UpdateKeeps`), so after another's there would be two live
ones, which the partial unique index refuses (`CommitReplaces`). `ActiveRulesDecide` is an action property: while the
live versions are within the cap the LIMIT of the query cuts nothing off (`FirstFew`), and the decision is what the
active rules alone give.

**Tenancy_proofs.** `UsersInv`: an update that is about to remove an owner holds the row of another, which is an active
owner still. `QuotaInv`: a reseller has at most as many sub-tenants and requests past their count as its peak quota
and the requests under way allow; `QuotaIsHeld` gives the bound `Cardinality(Operations) - 1` above the quota, for
any number of them. That this is as good as the code keeps it is why the property is not `<= quota` (section 6).
`BrandingInv`: one tenant has a host verified or active (`HostsUnique`, the unique index), the domains of every profile
are bound by its own tenant (`ProfilesBacked`), and so is what a call has read so far (`CallsOK`). An active binding is
for good (`BindingsStand`), so a read stays true while the other reads go on. `ShownDomainIsBound` follows
for `BrandingSpec`, in which the hierarchy takes any step.

The last part of the module is about `Usage`. None of its three invariants is inductive. What a total stands for is
said bucket by bucket (`Standing`): each event in it is still in the raw table (`Whole`); or the bucket is closed and
no row of it is there or in anybody's hands (`Gone`), so nothing will be added up again; or a prune took it while
somebody read it (`tainted`). A sweep adds up a bucket anew from what is there, so it must never meet one that lost
rows: a bucket with a row read is `Whole`, or tainted, since what has been read is still there otherwise
(`NotOvertaken`), and no event gets into a closed bucket: the acceptance window of an ingest and the horizon of the
prune are the same number, and buckets are pruned whole (`BucketsInOrder`, `OpenBucket`). `UsageInvariant` has this,
with one row per key (`Keys`) and totals that are those of the folded rows (`Totals`); `EventsCountOnce` and
`TotalsOutliveEvents` follow, the second because a query by bucket reads one row (`ReadsOneBucket`) and a net is an
integer. That takes a proof of its own: a sum over a finite set is a choice among functions defined by recursion,
whose existence is shown by minimal counterexample (`SumExists`, `SmallestSubset`), as is that it yields integers
(`SumsAreInts`).

`NoEventIsPassed` rests on an invariant that says where an event that is not folded and not late can be (`Scanned`):
with a tenant the sweep has yet to reach, or past the batch that holds the watermark back (`cappedMin`); and, while a
tenant's batch is folded, in it or younger than all of it (`Picked`), because the batch is the oldest and full
(`FS_Subset` on `Oldest`). `Done` takes the one to the other (`DoneAwaits`): rounding down to milliseconds keeps the
watermark below every stamp with a fraction, and rows that a full batch leaves on a whole millisecond are `late` from
then on (`Split`). Of fractions it assumes nothing.

**DbPool_proofs.** `PoolInv` ties what a request holds to where it stands in its script: it has a transaction's
connection exactly when past `begin` (`TxShape`), it is in the queue at most once and only to ask for a
connection (`QueueShape`), and a lock's holder is past the statement that took it (`LockShape`). Scripts are
well formed (`ScriptWellFormed`): transactions in sequence, each with its lock first. Then `PoolNeverLeaks`
(`NoLeak`) and `RoomyPoolNeverStuck`: with more connections than requests a free connection remains for the
head of the queue, and a lock's holder waits for nothing else. It assumes `Cardinality(Requests) < PoolMax`;
section 6 shows that the assumption is needed.

**Billing_proofs.** `BillingInv`: the provider's history is in order and the ledger is about it (`History`); what a
handler found when it claimed its event, that it is not in the ledger and is newer than the subscription, stays true
because it holds the subscription's row, and only one handler does (`Handlers`); a snapshot counts every renewal
older than the date it is given (`Workers`); only the worker moves the state shown away from the one called for
(`Overlaid`). The four invariants of the run follow.

## 6. Where the code and its documents disagree

The run `reseller_levels` shows that `moveSubTenant` never asks whether the tenant it moves is a reseller
(`lifecycle.ts:136`: "a tenant cannot be both a reseller and a sub-tenant").

Seven more sentences of the documents are stated as properties at the end of their modules, under "What the documents
say and the code does not do". TLC refutes each in the run named, once it is given the property and the changes below.

| Property | Run and changes | What the code does |
|---|---|---|
| `NonceMakesOneSeat` (FR-009) | `activation`, as an INVARIANT | A refresh overwrites the token a row was created with (`activate.ts`), so the first request, sent again after the machine left, takes a second seat. |
| `ConcurrentActivationsFinish` (SC-002) | `pool`, as a PROPERTY, with `Kinds = {"activate"}` and `PoolMax = 3` | `activate` signs inside its transaction and the signer takes a second connection from the same pool, with no timeout. As many concurrent activations as the pool has connections wait for each other for ever. `licenses.ts` states the rule that is broken. |
| `EveryTokenRecorded` (`checkin-repo.ts`) | `checkin`, as an INVARIANT | The retry of a refused beat, once the license is active again, is answered with a token no row records. |
| `NewerCoversOlder` (FR-022) | `trust`, as an INVARIANT | The revoked ids are projected before the version is numbered, so a worker overtaken in between publishes an older list under a newer number. `RevocationReachesClients` shows that the next sweeps repair it. |
| `LockedBelowThreshold` (`custody.ts:106-109`) | `trust`, as an INVARIANT | Two shares or more, fewer than enough, combine to a wrong key, and custody reports itself unlocked. The signer then refuses for every key wrapped before (`CanSign`); a key provisioned now is wrapped under the wrong one. |
| `HardQuota` (`lifecycle.ts:177`, "its HARD sub-tenant quota"; FR-003; SC-008, "A reseller cannot exceed its configured sub-tenant quota") | `tenancy`, as an INVARIANT | `provisionSubTenant` and `moveSubTenant` count in one transaction and link in a later one, with no lock: requests at the same time all find the last place free, and all take it. `QuotaHeld` says by how much at most. |
| `PreviewNeverDisplaces` (`evaluate.ts:256-258`) | `policy`, as a PROPERTY, with `Contents <- Always`, `Bounds <- TierBounds`, `RuleKeys = {1, 2, 3}`, `MaxRulesPerIssuance = 1`, `MaxRulesPerEntitlement = 3`, `MaxRulesPerTenant = 3`, `MaxTotal = 3` | Preview and active rules share the LIMIT of one query: enough previews of a high priority and no active rule is applied. |

Read in the code while modelling; the models behave so, and the properties allow it:
* billing: a renewal whose webhook was lost is not healed, since `driftsTo("active")` asks only whether the local
  state is active, and the term stays where it was (FR-017); an event in the second of the last applied one is refused
  as stale (`isStaleEvent` uses `<=`), a refund included, and reconciliation heals that only while the provider does
  not date its answer (`Stamped = FALSE`); an event delivered before the creation is dead-lettered for good; a renewal
  reinstates a license an operator had suspended, so `AccessFollowsStanding` speaks of the worker's suspensions; a
  failed payment announced again starts the grace period again;
* leases: the catch of a unique violation in `LeaseRepo.acquire` runs a SELECT in a transaction that is already
  aborted, so a token used on another license is answered 500;
* usage: an event committed under or behind a sweep, or of a tenant whose sweep failed, stays out of every total until
  a restart (`late`); a millisecond with as many rows of a tenant as a batch holds stops the roll-up of it (`Crowded`);
  rows stamped on a whole millisecond inside which a batch was cut are skipped, and count as `late` (`Split`); an ingest
  that commits after its bucket was pruned overwrites the durable total (`tainted`);
* signing: provisioning while the active key is revoked leaves none active (the key is added as a spare), and the "later
  rotate" of `registry.ts:71` that would promote a spare never does: a rotation makes a key of its own;
* issuance: a license may carry the signature of a key revoked meanwhile, and be issued or transferred to a customer
  anonymized meanwhile;
* policy: two edits at a time end in a unique violation answered 500; an edit re-activates a rule disabled meanwhile;
  a status change goes by the newest version it read, so two of them together make a transition that
  `PERMITTED_TRANSITIONS` forbids; the caps on authored rules are checked in another transaction than the INSERT; the
  plan's value may be raised above `rule_max`; a dry run of an unsaved candidate records the stored version's id;
* reseller: a server that stops half-way leaves a tenant without its parent; a suspension that races an offboarding
  overwrites it;
* users: two owners removing each other are broken by PostgreSQL, one with a 500.

## 7. What is only model-checked, and what is not modelled

Only model-checked, on the instances of section 4: every liveness property, and all of `Condition`.
Liveness under fairness and `ENABLED` are beyond the prover, as is induction over data: what the recursive functions
of `Condition` compute for every tree. `AcceptedIsEvaluated`, that a condition accepted from an author is never
skipped for its size, depth or operators, is therefore evaluated for the conditions of `MCPolicy`, as an assumption of
the run `policy`. No module uses a RECURSIVE operator.

Left out of the modelled components: cursors and filters of lists, wording of answers and errors, metrics, signatures
and their verification (a signature is what it was made with), the HTTP layer, rate limits, row-level security
(every module but those of tenancy and usage is one tenant's rows, and each transaction names its tenant), billing's
connections and their secrets, the retention of its ledger, the shape of usage dimensions and the audit entry of an
over-quota crossing, strings and arithmetic in conditions, the wall-clock limit of an evaluation, the lint of
overlapping rules, the DNS records of a challenge (answered either way), e-mail senders (bound as domains are).

Not modelled:
* the audit log as such: one INSERT in the caller's transaction, which commits or fails with it (`Issuance` and
  `Policy` have the entries their properties are about);
* login, sessions and API keys, but for the connections authentication takes (`DbPool`). Read while surveying: two
  failed logins at once count as one, and rotating a revoked API key gives an active one;
* row-level security and the erasure of a whole tenant: PostgreSQL policies, one tenant per transaction;
* products and plans of the catalog: create, read and update of rows of their own; concurrent updates of one row
  overwrite each other;
* the verifier's decision and its bindings: a pure function of token, key ring and anchor. What a holder may still do
  offline is the expiry of its token in `CheckIn` and `LeaseSeats`, and the window of a key in `Signing`;
* health, metrics and the admin console, which keep nothing the others depend on.

## 8. Plan

In order of what the system would lose most by:
1. **Verifier core** as pure operators (token, key ring, anchor, list) against a reference definition, so that a
   client's decision can be composed with `CheckIn`, `Signing` and `Crl`.
2. **Sessions and API keys** revoked or rotated under a running request.
3. Composition: `LeaseSeats` with `Billing` driving its license status (billing's suspend, reinstate and revoke
   are the same operations), so that `RevokedDrains` holds from the refund on; `Issuance` with `Policy`, which it asks.
4. **Billing's ledger retention**: a webhook delivered after its entry was pruned.

Every safety property and action property that a run shows to hold has its theorem. What is left to prove is
liveness; `Scanned` and `ListInv` are where a proof that the roll-up catches up, or that revocations arrive, would
begin.
