# Verification of the JOBEN scan platform

TLA+ specifications of the platform in this repository (a TypeScript server that scans AWS
accounts for security findings and keeps its state in PostgreSQL), the TLC configurations that
model-check them, and theorems about them that TLAPS proves. Paths below are relative to the
repository's root; line numbers are in `PROJECT.json`, whose `map` names the code each
definition translates.

## The system

| part | state | operations | hard because |
|---|---|---|---|
| Scan queue and worker (`src/scan-worker.ts`, `src/security-service.ts`) | `SecurityScanRun`, `ScanJob`, `ScanEvent` rows; the local state of each `runOnce` | `enqueueScan`, `cancelScan`, `replayDeadLetter`; `claim`, `runScan`, release, `handleFailure`, `heartbeat`, `recoverExpiredLeases` | several processes, several activations per process, leases that time out, crashes between transactions, cancellation racing completion |
| Circuit breaker (`src/scan-worker.ts`, `src/aws-service.ts`) | `AwsConnection.status`, `scanFailureStreak` | count a failure, reset on success, `verifyConnection` | read, AWS call, write |
| Retry policy, progress (`src/scan-orchestration.ts`) | none | `classifyRetry`, `retryDelayMs`, `calculateProgress` | bounds |
| AWS connections (`src/aws-service.ts`) | `AwsConnection`, `AwsAccount` | `createConnection`, `verifyConnection`, `revokeConnection` | checks made before an AWS call and used after it |
| AWS discovery (`src/aws-service.ts`, `src/aws.ts`) | `DiscoveryRun`, `AwsResource` | `runDiscovery`, `persistResources`, `markStale`, `recoverStaleRuns` | scopes that fail one by one, runs that die or overlap |
| Findings (`src/security-service.ts`) | `SecurityFinding` | the final transaction of `runScan`, `acknowledgeFinding`, `resolveFinding` | rows read before the transaction that writes them |
| Schedules (`src/security-service.ts`) | `ScanSchedule` | create, pause, `processDueSchedules` | the occurrence is claimed before its scan exists |
| Evidence vault (`src/evidence-service.ts`, `src/evidence-storage.ts`) | `Evidence`, legal holds, an object store | commit, verify, hold, release, supersede, `deleteExpired` | a store outside the database's transactions |
| Identity (`src/identity-service.ts`, `src/session.ts`, `src/persistence.ts`) | users, organizations, memberships, invitations, sessions | login, invite, accept, change role, remove, transfer, sessions | invariants over several rows checked outside the transaction |
| Root MFA control (`src/security-service.ts`, `src/root-mfa-control.ts`) | `ScanCheckOutcome`, `ControlResult` | `executeRootMfaControl`, `persistRootMfaResult` | four statements and two vault calls that may each fail |
| Security rules (`src/security-rules.ts`), HTTP (`src/server.ts`), rate limit, configuration, logging | - | - | pure or input/output |

The parts meet in the database. The HTTP server and the worker of one process
(`src/index.ts`) share nothing but it: a request creates the scan and its job in one transaction,
a worker of any process claims the job, executes the scan through
`SecurityAnalysisService.executeQueuedRun`, and settles both rows. The circuit breaker ties scans to
the AWS connection: total failures of scans open it, `enqueueScan` refuses while it is open and a
verification closes it.

A schedule enqueues its scan through the same `enqueueScan`, so the connection's status admits it or
not; a scan reads the inventory that discovery writes, and writes findings; its root MFA control
stores evidence in the vault. A session selects the organization that every request is authorized
in. `src/server.ts` exposes sign-in, sign-out, switching, inviting and accepting; `changeRole`,
`removeMembership`, `transferOwnership` and `revokeInvitation` are methods of the service that its
tests call.

What makes each part correct is the list of `hazards` in `PROJECT.json`, each with the properties
that cover it or the reason none does.

## The modules

| module | part | composed with |
|---|---|---|
| `ScanLifecycle` | what users of the API see: each scan's status and announced outcomes | abstract specification of `ScanOrchestrator` |
| `ScanOrchestrator` | queue, workers, leases, circuit breaker | implements `ScanLifecycle` |
| `EvidenceRetention` | what the vault keeps of its retention policy: evidence stays, with its retention, until a deletion finds it expired, intact and not flagged as held | abstract specification of `EvidenceVault` |
| `EvidenceVault` | rows, holds, object store and the requests between them | implements `EvidenceRetention` |
| `RootMfaControl` | the control as a client of the vault | extends `EvidenceVault` |
| `AwsConnections` | connections and the accounts they claim | |
| `ScanCalendar` | what schedules promise: an occurrence comes due once, at its time and unless its schedule is paused; it fires at most once, and only for an inventory that has no scan yet | abstract specification of `ScanSchedule` |
| `ScanSchedule` | schedules and the activations that process them | extends `AwsConnections`, whose status admits their scans; implements `ScanCalendar` |
| `CloudInventory` | discovery of an account's resources | |
| `FindingLifecycle` | what a scan and its users do to findings | extends `CloudInventory`, which the scan reads |
| `Membership` | members, invitations, sessions | |
| `MCScanOrchestrator`, `MCEvidenceVault`, `MCScanSchedule`, `MCFindingLifecycle`, `MCMembership` | values of the constants for TLC | |
| `ScanLifecycleProofs`, `ScanOrchestratorProofs`, `AwsConnectionsProofs`, `ScanScheduleProofs`, `CloudInventoryProofs`, `FindingLifecycleProofs`, `MembershipProofs`, `EvidenceVaultProofs` | theorems | |

In every module one action is one committed database transaction, one statement outside a
transaction, or one call of AWS or of the object store, because those are the points where processes
interleave. What a request read and uses later is in its local state (`run`, `req`, `call`, `loop`,
`disc`, `scan`), so that it may be stale when it is used. `Environment` is a constant of each
concrete module: the faults and overlaps a run allows besides normal execution.

### How ScanOrchestrator's state and actions correspond to the code

One action is one committed database transaction (or one read whose result is used after an
`await`), because PostgreSQL and Prisma make those the points where processes interleave.

| model | code |
|---|---|
| `scan[s].status`, `.activeKey`, `.leaseOwner` | `SecurityScanRun.status`, whether `activeKey` is set (it is always the account's), `leaseOwner` |
| `job[s]` | the `ScanJob` of the scan; `lease` says whether `leaseExpiresAt` is null, ahead or past; `attempt` saturates above `MAX_RETRIES` |
| `queue` | the jobs with status QUEUED and `availableAt <= now`, in the order of `claim`'s `orderBy`; a job that waits for its retry is QUEUED and not in it, `RetryDue` puts it there |
| `conn[a]` | the account's connection: ACTIVE or ERROR, `scanFailureStreak` (saturating at the threshold) |
| `verifying[a]` | what a `verifyConnection` in flight read of the breaker before it called AWS |
| `events[s]` | the kinds of terminal `ScanEvent` written for the scan |
| `asked` | requests between `enqueueScan`'s checks and its transaction |
| `run[r]` | one activation of `runOnce`: where it is, its scan, and what it decided |
| `down` | processes that died; a restarted one has a new worker id, so it is another worker |

| `run[r].pc` | the activation is about to |
|---|---|
| `claimed` | read the scan in `runScan` (`ReadScan`) |
| `starting`, `late` | run the conditional QUEUED to RUNNING update, read who was faster (`StartQueued`, `StartTooLate`, `ReadWhoStarted`) |
| `executing` | evaluate the rules and read the status in the final transaction (`ReadCancellation`) |
| `publishing` | write the outcome by id and announce it (`Publish`) |
| `releasing` | run the transaction of `runOnce` after the executor returned (`Release`, `ReleaseFails`) |
| `failed` | read job and scan in `handleFailure` and decide (`HandleFailure`) |
| `settling` | write that decision (`SettleCancelled`, `SettleRetry`, `SettleTerminal`, `SettleFails`) |

Transactions run at PostgreSQL's default isolation, so a read inside a transaction can be stale when
the transaction writes. The model splits the two transactions where that matters: `runScan`'s status
read from its unconditional update, `handleFailure`'s reads from its conditional updates. In the
others (`claim`, the release, `replayDeadLetter`, `cancelScan`) the writes repeat what was read in
their `where` clause, or what was read cannot change before the write, and one action stands for
the transaction. The first two reads of `handleFailure` (attempts, then status) are one step.

Abstracted: what an execution computes (it ends COMPLETED or PARTIAL, CANCELLED if it saw the
cancellation, or throws a retryable or permanent error), idempotency keys (a known key returns its
run and changes nothing), audit records, messages and timestamps. Time is what may have passed:
a lease expires when its process is dead or, in runs with `"stall"`, at any moment. One connection
serves one account. Connections are not revoked here.

`Environment` lists what may happen besides normal execution: `cancel`, `replay`, `verify`,
`failure` (executions throw), `crash`, `stall` (an event loop does not run for longer than a lease)
and `dbError` (a settling transaction fails). Each run says which kinds it needs, so that a property
is checked under exactly the faults it survives.

### The evidence vault and the root MFA control

| model | code |
|---|---|
| `objects[k]` | the object under storageRef `k`: absent, intact or corrupt, its version and its own retention |
| `rows[i]` | an `Evidence` row: key, version, retention, integrity status, hold flag, `supersedes` |
| `holds[h]` | an `EvidenceLegalHold` row |
| `req[c]` | a request: its operation, program counter and the row or count it read |
| `outcomes[e]`, `results[e]` | `ScanCheckOutcome` and `ControlResult` of an execution |

A commit is `Commit` (or `Supersede`), `ReadBack`, then `CreateRow`, `ReturnExisting` or
`OriginalGone`: put, read back and insert are three calls. A verification is `VerifyRead`,
`Inspect`, `MarkValid` and `Reread`, or `MarkFailed`; `retrieve` and `deleteExpired` go on from there
(`Judge`; then `Retrieve`, or `DeleteObject` and `DeleteRow`). A failed inspection is an error only when the
transaction that records it aborts, as a second incident of the same evidence does on a unique key;
the first one answers with the failed row, so `deleteExpired` refuses it by its integrity status and
`retrieve` goes on to the bytes, corrupt as they are. `releaseLegalHold` is split in the middle of its
transaction (`CountHolds`, `ReleaseHold`) because it counts rows that another transaction may be
changing; `Locked` is the lock its own update holds. The key stands for the canonical bytes, which
schema validation and redaction precede; `meta` stands for the other fields `isSameEvidenceMetadata`
compares. A control (`RootMfaControl`) observes, commits, verifies, persists its result, concludes
and writes an audit entry; the catch around all of it is `OutcomeError` and `ResultError`. The audit entry
at its start is written before the try: if that fails, the outcome stays RUNNING (`ControlDbError`). The
process may crash with an object store that survives or, with `memory`, with the in-memory default.

### Connections and schedules

`conns[c]` and `accounts[a]` are the rows of `AwsConnection` and `AwsAccount`, `call[r]` a request
inside `createConnection` or `verifyConnection`. `VerifyRead`, `Identify`, `StoreVerified` are the read,
STS's answer with the checks after it, and the transaction; `RecordVerificationFailure` is the
catch. `BreakerOpens` is what `handleFailure` does to the row. `sched[s]` is a `ScanSchedule` row,
`loop[l]` an activation of `processDueSchedules` with the batch it read and the occurrence it claimed;
`ClaimSchedule` is the conditional update. What follows is `enqueueScan`, which `processDueSchedules`
calls with the occurrence as correlation id and without a key: `CheckAccount` is its checks of
the account and the connection, `FindSnapshot` reads the inventory and the scan that has its fingerprint for
a key, `EnqueueOccurrence` is the transaction. An occurrence of an inventory that was scanned before is
answered with the old scan and creates none. `RequestScan` is a user's request without a key,
`InventoryChanges` a discovery that leaves another fingerprint behind, or an old one again. Scans in
progress are one of the reasons of `OccurrenceRefused`; `lastRunId` decides nothing and is left out. Time is in hours
of UTC; `NextScheduleRun` is `nextScheduleRun` for time zones with a fixed offset of whole hours.

### Discovery and findings

`cloud` is the account itself, `inv` the `AwsResource` rows, `disc[d]` a `DiscoveryRun` row with what
its process holds: the scope it is in, what the scope listed and has still to upsert, the scopes that
failed. A run visits the regions that `DescribeRegions` has just answered, which need not be those
of the run before (`ListRegions`, `ScopesOf`): EC2 in each of them, then S3, then IAM. Resources may
lie outside them, in a region that was closed or, for a bucket, under a location that is no region's name;
no scope marks such rows. Upserts are one statement each, then `MarkStale`. `Lists` and `MarksStale` keep
apart what a scope lists and which rows it marks, which differ.
`scan` is a scan in `runScan`: it reads the inventory (`ReadInventory`), evaluates rules and reads
the findings (`Evaluate`), and writes all of them in one transaction (`PublishFindings`). A rule's
verdict is one of a failing, passing or unknown posture.

### Membership

`member`, `invite`, `session` are rows, `req[r]` a request between authorization (`Authorize`), its
checks (`Check`) and its conditional write. The optimistic versions of rows are modelled as `fresh`:
whether the row was written since the request read it. `acceptInvitation` is one serializable
transaction and one action. A session is active in the one organization modelled (`here`) or in another.

## The runs

| run | instance | distinct states | shows |
|---|---|---|---|
| `Orch_all` | every fault but `verify`, one account | 1 910 499 | `TypeOK`, `OneScanPerAccount`, `LeasesAgree`, `OnlyReplayReopens` hold under every fault at once; no queued scan lacks its queued job (`QueuedScanIsClaimable`), dead letters used their retries (`DeadLettersAreExhausted`), and no scan that was asked to stop is queued, started, retried or failed again (`CancelledWorkIsNotRetried`; that it still ends COMPLETED or PARTIAL is not excluded) |
| `Orch_failures` | failure, replay, verify, crash; two accounts | 513 598 | with leases kept, a scan is executed by one run at a time (`OneExecutor`), finished scans and announced outcomes stand, and the queue implements `ScanLifecycle` |
| `Orch_live` | failure, replay, cancel; fair; two accounts | 30 864 | unless a cancellation falls between a failing run's look at its scan and its settlement (`Overtaken`): every accepted scan finishes, its account is freed and the queue holds only runnable jobs; in any case a scan asked to stop before its run's last look ends CANCELLED (`CancellationIsHeeded`) |
| `Vault_all` | every fault; two custodians, one of them also the collector; one content, two rows, one hold | 807 502 | objects outlive their retention, lost evidence stays an incident, verdicts rest on their own evidence, outcomes have results, and the vault implements `EvidenceRetention` |
| `Sched_all` | two connections, two accounts, two requests, a daily schedule, two activations, two instants, two inventories; failure, crash, breaker, refused | 557 528 | accounts follow verified connections, identities stand, each occurrence is claimed once and none is skipped, and schedules implement `ScanCalendar` |
| `Posture_all` | bucket, instance and IAM summary, a region that AWS lists or not, two discoveries; failure, crash, cancel, triage | 526 328 | a discovery without errors is exact in the regions it was told, nothing but a bucket goes stale unseen, recorded outcomes stand, a scan undoes only triage it had not read, and it resolves a summary's finding only because its rule passed |
| `Members_all` | two users, one invitation, two sessions, two requests; failure, expiry | 349 524 | an owner remains, sessions follow the membership, every admission uses up an invitation |

### Why the bounds are enough

*Queue.* Two scans, two workers with one activation each, `MaxRetries = 1` (an attempt, one retry,
the dead letter), a threshold of one or two. Scans meet at the active key of an account
(`SameAccount`) and in the queue (`TwoAccounts`). Two activations are enough for one to be stale
while the other executes; that they belong to different workers is the harder case for crashes. That
two activations of one process share a worker id is in `OneExecutorHolds` only.

*Vault.* Rows share state only under one content, so the one content is the interesting case; two
rows let a row be deleted and its content committed again, or superseded. Two clients may both hold,
release and delete, so a hold may be created while the other client's deletion of the same evidence is under
way, and two deletions overlap; the second client also commits, verifies and runs controls. Two overlapping
releases need two holds of one row, which the violation run has and the passing run does not:
what they can spoil is the flag, and `RefinesRetentionHolds` has any number of them. One tick
separates evidence that has expired from evidence that has not. With `MaxVersions = 1` a lost object
is not stored anew; that a new one does not pass for it is `LostEvidenceIsKeptHolds`, for any number of versions.

*Schedules.* Two connections can claim one account at once, or one connection two accounts. The
schedule is due at hour 27 (three in the morning, five hours behind UTC) and moves on to 51; the instants are
those at which something changes. Two activations may hold the same occurrence, and one of them
may find the inventory scanned, or changed, by the time it inserts; two fingerprints are one inventory
and another.

*Posture.* One resource per service, because scopes differ by service and not by resource; the region
is the bucket's and the instance's, which is where the scopes overlap, and AWS lists it to one discovery and
perhaps not to the other. Two discoveries: one to damage the inventory, one to repair it. The client of
`aws.ts` reports a posture that rules can judge for the IAM summary only.

*Membership.* Two users are the smallest organization that an owner may leave; two requests and
two sessions give every pair of operations a chance to interleave.

Users, sessions, requests, connections, loops, discoveries, inventories, evidence rows, scans with
their runs and workers are interchangeable where the cfg says `SYMMETRY` (never in a run with liveness
properties); the vault's two clients are not, they have different roles. `ExceptEvents` leaves announcements, which no
guard reads, out of the fingerprint of `Orch_all`, which does not speak of them. `ExceptForgotten` does so
in `Posture_all` with what AWS holds once every discovery has listed it, and with what a scan remembers of
resources that no rule judges: nothing reads either again. Deadlock is not checked in the
`Orch_` and `Vault_` runs: when all of the finite set of scans have ended, or all rows are used
and time is over, nothing is left to do.

### Fairness

`FairSpec` assumes what `src/index.ts` and the clock give. A timer starts an activation every 500ms,
so a claimable head of the queue is claimed by some free activation (weak fairness of the claims
together: no particular activation is owed one). An activation that was started goes on: its
awaits resolve or throw (weak fairness of `Execute` and of `Settle` of each run). Time passes: retry
delays end, leases of dead workers expire, and a live worker recovers them. Users, operators and
faults owe nothing.

### Where the code departs from its documents

Five runs expect a violation; TLC's counterexample is the finding (`findings` in `PROJECT.json`
quotes the documents):

| run | what happens |
|---|---|
| `Orch_x_blocked` | a worker dies between a scan's commit and the release of its job; the recovered job can never be claimed, stays at the head of the queue, and scans behind it never start |
| `Vault_x_hold` | a hold that is created after `deleteExpired` has read the row is deleted together with the evidence it should keep |
| `Sched_x_revoked` | a revoked connection becomes active again, by a verification that read it before or by way of the circuit breaker |
| `Posture_x_triage` | a scan reads the findings, a user acknowledges one, the scan's transaction opens it again |
| `Members_x_owner` | two owners remove each other at the same time, and the organization has none |

### What the passing runs leave out, and what it would break

Each property is checked under the faults it survives. These are the ones it does not, all of which
the models can express (an `Environment` kind, or another value of a constant):

- `stall` breaks `OneExecutor` and `FinishedScanStands`: a worker that outlived its lease overwrites, by
  id, the outcome another worker published.
- A worker that dies while its scan is CANCELLING leaves it CANCELLING for ever (`crash` with `cancel`,
  against `ScansFinish` and `CancellationIsHeeded`): recovery brings back the job only.
- `cancel` with `failure` breaks `EveryScanFinishes`, `AnnouncedOutcomeStands`, `RefinesLifecycle` and
  `QueueIsRunnable`: a cancellation that commits between `handleFailure`'s reads and its updates is not seen;
  the job is settled or queued again, ScanFailed may be announced, and the scan stays CANCELLING for
  ever with its account's key. `Orch_live` has both and excludes exactly that window (`Overtaken`). What
  survives it is `CancelledWorkIsNotRetried`: the scan never runs again.
- A cancellation after the final read is overwritten by COMPLETED or PARTIAL, and with `stall` so is a
  scan that was CANCELLED already. `transitions` in `src/scan-orchestration.ts`, a table used by tests
  only, and `DOC/completion/M-03/contract.md:5-6` let CANCELLING lead only to CANCELLED. No property
  here says so, because the code does not keep it: `CancelledWorkIsNotRetried` and the
  `Finish` of `ScanLifecycle` allow the outcome, and `CancellationIsHeeded` is about requests
  that commit before the run's last look. A request that passed `enqueueScan`'s check
  before the breaker opened is accepted, too.
- `dbError` breaks `AnnouncedOutcomeStands`: a release that fails after the outcome was committed is
  handled as a failed scan, and ScanFailed is announced beside ScanCompleted.
- `deleteExpired` trusts a flag it read before, and overlapping creations and releases of holds do
  not count each other. So the vault implements `EvidenceRetention` with its `condemned` evidence, which a
  later hold does not save, and not the policy's "active hold always blocks deletion"
  (`HeldEvidenceIsKept`, `Vault_x_hold`).
- `retrieve` may return corrupt bytes the first time they are found corrupt (see above). No property
  forbids it; the documents promise the record of the incident, which is written.
- Two connections that are verified as one account at once both pass `verifyConnection`'s conflict check,
  and the second takes the account over. `AccountsAreVerified` allows it: the account still belongs to a
  connection that was verified as it. The first connection stays ACTIVE without an account.
- `overlap` in `AwsConnections` breaks `IdentityStands` and `AccountsAreVerified`: two verifications of one
  connection may see two accounts.
- An occurrence of an inventory that has a scan under its fingerprint creates no scan, however long
  ago that was. `ScanCalendar` says so; no property asks that every occurrence fires.
- A schedule whose local time, taken as an hour of UTC, is on another date in its time zone breaks
  `SchedulesKeepTime`; `SameDay` in `ScanScheduleProofs` is the exact condition. With hour + offset at 24 or more, each
  claim moves two days on; a WEEKLY schedule with hour + offset below 0 runs every six days.
- `OnlyBucketsGoStaleUnseen` names its exception: the EC2 scope of a region marks buckets filed under
  the region, and if S3 then fails they stay stale, although `DOC/AWS-DISCOVERY.md:33-36` reads as if only a
  resource's own scope did that.
- `CompletedDiscoveryIsExact` is about the regions the run was told. A row of a region that is not
  listed any more, or of a deleted bucket under a location that never is (the legacy "EU", `src/aws.ts:183`),
  stays ACTIVE.
- `overlap` and `slow` discoveries break `CompletedDiscoveryIsExact` and `DiscoveryOutcomeStands`
  (`recoverStaleRuns` fails a run whose process lives and then writes its outcome by id). The latter
  excepts the outcome that a failing audit entry turns into FAILED.
- `overlap` in `Membership` breaks `OwnerRemains` (`Members_x_owner`) and, with a login that read the
  membership before a removal, `SessionsFollowMembership`; `ownerAccepts` breaks `OwnerRemains`,
  because `acceptInvitation` writes the invitation's role over the sole owner's.

## The proofs

Every theorem is about all values of the constants: any number of scans, workers, connections, users and
so on. The assumptions are the `ASSUME` of each module: the types of the functions and bounds that
the constants are, and that the nulls are not members of the sets they stand beside. TLC evaluates
them in every run. Some theorems also assume that a kind is not in `Environment`; they say so.

`ScanOrchestratorProofs` proves, for every `Environment` unless a kind is excluded:

- `TypeCorrect`: `TypeOK` is inductive. `TypeParts` splits it by variable, and one lemma per kind of
  row update says what it keeps; each action is one step of `TypeStep`.
- `OneScanPerAccountHolds`, by `KeyInv`: a scan in progress holds its account's key, and no two scans
  of an account hold it. `OneScanPerAccount` alone is not inductive: it does not say that a
  replayed or new scan finds the key taken.
- `LeasesAgreeHolds`, by `LeaseInv`: a scan that may be started (NONE, QUEUED, DEAD_LETTER) has no lease, and a
  run about to settle a cancellation settles a scan that cannot be running again (`CancelSeen`).
  Without the first, a stale `StartQueued` could start a scan under an old lease; without the
  second, `SettleCancelled` could take the job from a running scan. `CancelSeen` rests on
  `NotRetriedStep`: once a cancellation was requested the scan never runs again.
- `OnlyReplayReopensHolds`: every step keeps finished scans finished, replays apart.
- `OneExecutorHolds` and `FinishedScanStandsHolds` without `stall`, for any number of activations of each
  worker, by `ExecInv`: a run that has a scan holds
  its job's lease, which has not run out, and executes only a scan in progress. `OneExecutor` alone is
  not inductive: a recovery or a claim keeps it only because the job it takes is in no run's hands.
- `AnnouncedOutcomeStandsHolds` and `RefinesLifecycleHolds` without `stall` and `dbError`, and without
  `cancel` or without `failure` (`Quiet`), by `QuietInv`: a run that has not published holds the scan's
  lease too and its scan is RUNNING or, where users cancel, CANCELLING, so every conditional update takes
  effect. `QuietSteps` says what each step then does to the life of a scan (`Lives`); the invariant, the
  announcements and the refinement all follow from it. Cancellations and failing executions together
  are excluded because the code then breaks all three (see above).
- `QueueIsRunnableHolds` without `crash` either, by `WorkInv`: a leased job has a run, so no lease is recovered.
- `QueuedScanIsClaimableHolds`, by `Twins`: a scan that is queued or a dead letter has a job in the same state.
  Dead letters belong to it because a replay moves both rows by two conditional updates. A stale
  run's updates may take effect on one row only; `LeasesAgree` shows that they then move no job that a
  waiting scan needs (`SettleTwins`).
- `DeadLettersAreExhaustedHolds`, by `SpentInv`: the decision to give up is taken in `HandleFailure` and applied
  later, so the invariant carries it along: a run about to write DEAD_LETTER has a job with more than
  `MAX_RETRIES` attempts, and attempts only grow (`AttemptsGrow`).
- `CancelledWorkIsNotRetriedHolds`, from `NotRetriedStep`: no step leads from a scan that was asked to stop back
  to work.

`ScanLifecycleProofs` proves of the abstract specification that an account has one scan in progress at
a time and that what was announced never contradicts the row.

`AwsConnectionsProofs` assumes that verifications of one connection do not overlap:

- `AccountsAreVerifiedHolds`, by `ConnInv`: the identity that a request has seen is still its
  connection's (`SeenIsCurrent`), because no other request verifies that connection (`RequestsApart`). Without
  it a request could store an account over another that was stored since, and the first account would
  keep pointing at a connection that is another's.
- `ConnTypeCorrect` needs no assumption.

`ScanScheduleProofs`:

- `OccurrencesAreClaimedOnceHolds`, by `SchedInv`, in every environment: an occurrence that fired, like
  one in an activation's hands, lies before the schedule's next run. `NextRunIsLater` says that a claim moves
  the next run on, in every time zone.
- `SchedulesKeepTimeHolds` under `SameDay` (above); `NextRunOnTheHour` is its arithmetic.
- `RefinesCalendarHolds`, in every environment, by `CalendarInv`: `SchedInv`, what an activation read was due
  (`OnTheHour`), and a schedule has a next run from its creation on (`Planned`). `CalendarStep` maps each step
  to one of `ScanCalendar`: a claim is `ComeDue`, the insert of the scan `Fire`; a refusal, an
  inventory that has its scan and a crash are `Miss`; looking for due schedules is not seen.
- `OccurrencesFireOnce`: in the calendar, and therefore in the schedules, nothing is handled early, what
  fired does not come due again, and no two scans are of one inventory or by one occurrence.
  `HandledInv` adds the types to `HandledInTime` and `OneScanEach`.
- `SchedulesImplementConnections`: every behaviour of the composition is one of `ConnSpec`, so
  `ScheduledAccountsAreVerified` follows from the theorems about connections alone.

`MembershipProofs`:

- `TypeCorrect` and `AdmissionUsesInvitationHolds`, in every environment.
- `SessionsFollowMembershipHolds` without `overlap`, by `SessionInv`: a switch whose session is unwritten
  since it was authorized is a member's, because a removal writes every session of its user.
- `OwnerRemainsHolds` without `overlap` and `ownerAccepts`, by `OwnerInv`: a request that has passed
  `assertNotLastOwner` still leaves an owner, because no other request that changes owners is under way.

`CloudInventoryProofs`:

- `InventoryTypeCorrect` needs no assumption.
- `CompletedDiscoveryIsExactHolds` and `OnlyBucketsGoStaleUnseenHolds` without `overlap`, by
  `InventoryInv`: no row is newer than the clock, and `Discovering` says scope by scope what
  a run has listed so far, that the active rows it listed carry its stamp or are still to be
  upserted, and that rows of a scope it has finished without error and did not list are stale.
  `OneAtATime` is why no other discovery disturbs this. Resources may lie in any regions
  and AWS may list any of them to a run: `RegionSequence` shows that `SetToSeq` visits each listed region
  once, from which `ScopesDistinct` follows.
- `DiscoveryOutcomeStandsHolds` without `slow`: a run is recovered only when its process is dead.

`FindingLifecycleProofs`:

- `FindingTypeCorrect` needs no assumption.
- `FindingsImplementInventory`: every behaviour of the composition is one of `InvSpec`, so what is proved
  of discoveries holds beside scans and triage (`ComposedDiscoveryIsExact`, `ComposedOutcomeStands`).
- `OnlyRacingTriageIsLostHolds`, in every environment, by `TriageStep`: whatever users do meanwhile, only a
  scan's transaction can part a finding's date from its status or open an acknowledged finding, and only
  if it had read another status.
- `ResolvedWasFixedHolds` without `overlap`, by `SummaryIsActive`: the IAM summary is never stale, in
  the inventory or in the scan's snapshot, because a scope marks rows only if its list succeeded.

`EvidenceVaultProofs`, of the vault composed with the control (`ControlSpec`):

- `VaultTypeCorrect`, `VerdictsAreEvidencedHolds`, `OutcomesHaveResultsHolds` and
  `ObjectsOutliveRetentionHolds`, in every environment and for any number of clients, by `VaultInv`. No
  property is inductive alone: `Sound` says for each program counter what the request carries (a row
  to insert has an object of at least its version, a remembered row agrees with the row if that is
  still kept, a verdict about to be concluded is the stored result), and `Stands` what no step takes
  back: versions grow, a kept row keeps its key, version, metadata and retention.
- `LostEvidenceIsKeptHolds`, in every environment and for any number of overlapping deletions: a
  deletion that is about to remove a row has found its object intact (`Deciding`), which no step makes true of
  a row whose object is gone, because versions of an object never come back (`LostObjectStays`,
  `LostIsNotDecided`). `EarlySteps` puts aside the steps before a request's inspection.
- `RefinesRetentionHolds`, likewise: a deletion condemns evidence in the step that reads it expired, intact
  and not flagged, and `VaultInv` is why what it remembers (`Condemns`) still holds of the row's retention
  when it deletes it. The flag is not remembered, which is what `Vault_x_hold` is about.

Only model-checked: liveness (`ScansFinish`, `AccountIsFreed`, `CancellationIsHeeded`, and
`QueueStaysRunnable`, whose premise speaks of the whole behaviour; `QueueIsRunnableHolds` is its
unconditional form without `crash` and without `cancel` or `failure`), which is out of the prover's reach, and
`IdentityStands`. Every other property of a passing run is the subject of a theorem, on all the
environments its runs use and usually more.

## Not modelled, and why

- Routing, request parsing, cookies and the fixed-window rate limiter (`src/server.ts`,
  `src/rate-limit.ts`): a request is an action of the modules above, the limiter a counter of one process.
- Configuration, logging, the database client and the sign-in provider: input and output.
- The AWS SDK: what a list or a call answers is a nondeterministic choice.
- Predicates of single rules, `retryDelayMs`, `calculateProgress`, `classifyRetry`'s table: pure functions
  that no other state depends on, each with unit tests; the models keep the choice they lead to.
- `SessionManager.rotate` is called by tests only; no code suspends users or organizations.
- Row-level deadlocks that PostgreSQL breaks by failing a transaction: the victim is the failing
  transaction the models have.
