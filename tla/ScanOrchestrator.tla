-------------------------- MODULE ScanOrchestrator --------------------------
(***************************************************************************)
(* The durable scan queue: SecurityScanRun and ScanJob rows in PostgreSQL, *)
(* the HTTP operations that create, cancel and replay scans, and the       *)
(* ScanWorker loop that claims, executes, settles and recovers them        *)
(* (src/src/scan-worker.ts, src/src/security-service.ts).                  *)
(*                                                                         *)
(* One action is one committed database transaction or one read whose      *)
(* result is used after an await.  A run is one activation of              *)
(* ScanWorker.runOnce; index.ts starts one every 500ms without waiting for *)
(* the previous one, so several runs may share a worker.                   *)
(***************************************************************************)
EXTENDS Naturals, Sequences, SequencesExt

CONSTANTS
  Scans,        \* SecurityScanRun rows that may be created
  Accounts,     \* AWS accounts, each with its own connection
  AccountOf,    \* the account of each scan
  Workers,      \* worker ids, one per process
  Runs,         \* concurrent activations of runOnce (bounds the model)
  WorkerOf,     \* the worker each run belongs to
  MaxRetries,   \* MAX_RETRIES
  Threshold,    \* CIRCUIT_BREAKER_THRESHOLD
  Environment,  \* what may happen besides normal execution
  NoWorker,     \* a null leaseOwner or workerId
  NoScan        \* an idle run has no scan

(* What the environment may do: users cancel, operators replay and verify  *)
(* connections, executions throw, processes die (index.ts' shutdown does   *)
(* not drain them either), event loops stall past the 30s lease, a         *)
(* settling transaction fails.                                             *)
EnvironmentKinds ==
  {"cancel", "replay", "verify", "failure", "crash", "stall", "dbError"}

ASSUME OrchestratorAssumption ==
  /\ AccountOf \in [Scans -> Accounts]
  /\ WorkerOf \in [Runs -> Workers]
  /\ MaxRetries \in Nat
  /\ Threshold \in Nat \ {0}
  /\ Environment \subseteq EnvironmentKinds
  /\ NoWorker \notin Workers
  /\ NoScan \notin Scans

VARIABLES
  asked,   \* scans whose request passed enqueueScan's checks
  scan,    \* SecurityScanRun: status, activeKey, leaseOwner
  job,     \* ScanJob: status, attempt, workerId and its lease
  queue,   \* QUEUED jobs whose availableAt has come, in claim order
  conn,    \* AwsConnection of each account: status, scanFailureStreak
  verifying, \* what a verification in flight read of the circuit breaker
  events,  \* the outcomes announced in ScanEvent for each scan
  run,     \* local state of each activation of runOnce
  down     \* workers whose process has died

requests == <<asked, verifying>>
vars == <<requests, scan, job, queue, conn, events, run, down>>

Terminal == {"COMPLETED", "PARTIAL", "FAILED", "CANCELLED", "DEAD_LETTER"}
InProgress == {"QUEUED", "RUNNING", "CANCELLING"}
ScanStates == {"NONE"} \union InProgress \union Terminal
JobStates == {"NONE", "QUEUED", "RUNNING", "COMPLETED", "CANCELLED", "DEAD_LETTER"}

(* A run's program counter, and the local value it carries to the next     *)
(* step: the outcome it will publish, the kind of error it caught, or what *)
(* handleFailure decided.                                                  *)
Pcs == {"idle", "claimed", "starting", "late", "executing", "publishing",
        "releasing", "failed", "settling"}
Locals == {"-", "COMPLETED", "PARTIAL", "CANCELLED", "retryable", "permanent",
           "RETRY", "DEAD_LETTER", "FAILED"}
IdleRun == [pc |-> "idle", scan |-> NoScan, local |-> "-"]

TypeOK ==
  /\ asked \subseteq Scans
  /\ scan \in [Scans -> [status: ScanStates, activeKey: BOOLEAN,
                         leaseOwner: Workers \union {NoWorker}]]
  /\ job \in [Scans -> [status: JobStates, attempt: 0..(MaxRetries + 1),
                        workerId: Workers \union {NoWorker},
                        lease: {"none", "live", "expired"}]]
  /\ queue \in Seq(Scans)
  /\ verifying \in [Accounts -> {"no", "open", "closed"}]
  /\ conn \in [Accounts -> [status: {"ACTIVE", "ERROR"}, streak: 0..Threshold]]
  /\ events \in [Scans -> SUBSET Terminal]
  /\ run \in [Runs -> [pc: Pcs, scan: Scans \union {NoScan}, local: Locals]]
  /\ \A r \in Runs :
       /\ run[r].scan = NoScan <=> run[r].pc = "idle"
       /\ run[r].pc = "publishing" => run[r].local \in {"COMPLETED", "PARTIAL", "CANCELLED"}
  /\ down \subseteq Workers

Init ==
  /\ asked = {}
  /\ scan = [s \in Scans |-> [status |-> "NONE", activeKey |-> FALSE,
                              leaseOwner |-> NoWorker]]
  /\ job = [s \in Scans |-> [status |-> "NONE", attempt |-> 0,
                             workerId |-> NoWorker, lease |-> "none"]]
  /\ queue = <<>>
  /\ conn = [a \in Accounts |-> [status |-> "ACTIVE", streak |-> 0]]
  /\ verifying = [a \in Accounts |-> "no"]
  /\ events = [s \in Scans |-> {}]
  /\ run = [r \in Runs |-> IdleRun]
  /\ down = {}

-----------------------------------------------------------------------------
(* Helpers.                                                                *)

Mine(r) == run[r].scan
At(r, pc) == run[r].pc = pc /\ WorkerOf[r] \notin down
Goto(r, pc, local) == run' = [run EXCEPT ![r] = [pc |-> pc, scan |-> Mine(r), local |-> local]]
\* Mistake: the run ends but keeps its scan (its heartbeat is not cleared).
FinishHeartbeating(r) == run' = [run EXCEPT ![r] = [IdleRun EXCEPT !.scan = Mine(r)]]
Finish(r) == run' = [run EXCEPT ![r] = IdleRun]

\* Mistake: activeKey is not unique.
KeyNotUnique(s) == s \in Scans

(* The unique index on activeKey: no other scan of the account holds it.   *)
KeyFree(s) ==
  \A t \in Scans \ {s} : AccountOf[t] = AccountOf[s] => ~scan[t].activeKey

\* Mistake: claim does not count the attempt.
SameAttempt(n) == n

(* Comparisons with MAX_RETRIES and with the threshold do not tell values  *)
(* above these bounds apart, so the counters saturate there.               *)
NextAttempt(n) == IF n <= MaxRetries THEN n + 1 ELSE n
NextStreak(n) == IF n < Threshold THEN n + 1 ELSE n

Waiting(s) == \E i \in DOMAIN queue : queue[i] = s

\* Mistakes: the job's owner, the scan's status, the lease's age is ignored.
AnyoneHoldsJob(r) == job[Mine(r)].status = "RUNNING"
OwnsScanInAnyState(r) == scan[Mine(r)].leaseOwner = WorkerOf[r]
LeaseOfAnyAge(s) == job[s].status = "RUNNING"

(* This worker holds the job's lease, the scan's; the job's lease ran out. *)
HoldsJob(r) == job[Mine(r)].status = "RUNNING" /\ job[Mine(r)].workerId = WorkerOf[r]
HoldsScan(r) == scan[Mine(r)].leaseOwner = WorkerOf[r]
RunsScan(r) == HoldsScan(r) /\ scan[Mine(r)].status = "RUNNING"
LeaseRanOut(s) == job[s].status = "RUNNING" /\ job[s].lease = "expired"

(* Row updates.                                                            *)
SetScan(s, status, activeKey, leaseOwner) ==
  scan' = [scan EXCEPT ![s] = [status |-> status, activeKey |-> activeKey,
                               leaseOwner |-> leaseOwner]]
SetJob(s, status, attempt, workerId, lease) ==
  job' = [job EXCEPT ![s] = [status |-> status, attempt |-> attempt,
                             workerId |-> workerId, lease |-> lease]]
SetConn(a, status, streak) ==
  conn' = [conn EXCEPT ![a] = [status |-> status, streak |-> streak]]

(* The job gives up its lease.                                             *)
UnleaseJob(s, status) == SetJob(s, status, job[s].attempt, NoWorker, "none")

\* Mistakes: a scan that ends keeps the active key, or is not announced.
EndScanKeepingKey(s, status) == SetScan(s, status, scan[s].activeKey, NoWorker)
AnnounceNothing(s, outcome) == s \in Scans /\ outcome \in Terminal /\ UNCHANGED events

(* The scan ends, gives up its lease and frees its account; ScanEvent says *)
(* how it ended.                                                           *)
EndScan(s, status) == SetScan(s, status, FALSE, NoWorker)
Announce(s, outcome) == events' = [events EXCEPT ![s] = @ \union {outcome}]

(* updateMany on the job, conditional on this worker's lease.              *)
SettleJob(r, status) ==
  IF HoldsJob(r) THEN UnleaseJob(Mine(r), status) ELSE UNCHANGED job

(* One more consecutive total failure on the account's connection.         *)
RecordFailure(a) ==
  LET n == NextStreak(conn[a].streak)
  IN  SetConn(a, IF n >= Threshold THEN "ERROR" ELSE conn[a].status, n)

-----------------------------------------------------------------------------
(* HTTP operations.                                                        *)

(* enqueueScan with a new idempotency key (a known key returns the run it  *)
(* names and changes nothing) reads the connection first ...               *)
AskScan(s) ==
  /\ scan[s].status = "NONE"
  /\ conn[AccountOf[s]].status = "ACTIVE"
  /\ asked' = asked \union {s}
  /\ UNCHANGED <<scan, job, queue, conn, verifying, events, run, down>>

(* ... and creates run and job in a transaction that reads it no more.     *)
EnqueueScan(s) ==
  /\ s \in asked
  /\ scan[s].status = "NONE"
  /\ KeyFree(s)
  /\ SetScan(s, "QUEUED", TRUE, NoWorker)
  /\ SetJob(s, "QUEUED", 0, NoWorker, "none")
  /\ queue' = Append(queue, s)
  /\ asked' = asked \ {s}
  /\ UNCHANGED <<verifying, conn, events, run, down>>

(* cancelScan: a queued scan is cancelled with its job, a running one is   *)
(* only asked to stop.  The update is conditional on the status just read. *)
CancelJob(s) ==
  IF job[s].status = "QUEUED" THEN UnleaseJob(s, "CANCELLED") ELSE UNCHANGED job

CancelQueued(s) ==
  /\ "cancel" \in Environment
  /\ scan[s].status = "QUEUED"
  /\ SetScan(s, "CANCELLED", FALSE, scan[s].leaseOwner)
  /\ CancelJob(s)
  /\ \/ ~Waiting(s) /\ queue' = queue
     \/ \E i \in DOMAIN queue : queue[i] = s /\ queue' = RemoveAt(queue, i)
  /\ UNCHANGED <<requests, conn, events, run, down>>

CancelRunning(s) ==
  /\ "cancel" \in Environment
  /\ scan[s].status = "RUNNING"
  /\ SetScan(s, "CANCELLING", scan[s].activeKey, scan[s].leaseOwner)
  /\ UNCHANGED <<requests, job, queue, conn, events, run, down>>

(* replayDeadLetter: re-takes the active key, keeps the attempt count.     *)
ReplayDeadLetter(s) ==
  /\ "replay" \in Environment
  /\ scan[s].status = "DEAD_LETTER"
  /\ KeyFree(s)
  /\ SetScan(s, "QUEUED", TRUE, scan[s].leaseOwner)
  /\ IF job[s].status = "DEAD_LETTER"
     THEN UnleaseJob(s, "QUEUED") /\ queue' = Append(queue, s)
     ELSE UNCHANGED <<job, queue>>
  /\ UNCHANGED <<requests, conn, events, run, down>>

(* verifyConnection reads whether the circuit breaker is open, calls AWS,  *)
(* and closes it on success; the failures are forgotten only if it was     *)
(* open when read.                                                         *)
VerifyReads(a) ==
  /\ "verify" \in Environment
  /\ verifying[a] = "no"
  /\ verifying' = [verifying EXCEPT ![a] =
       IF conn[a].status = "ERROR" \/ conn[a].streak >= Threshold THEN "open" ELSE "closed"]
  /\ UNCHANGED <<asked, scan, job, queue, conn, events, run, down>>

VerifySucceeds(a) ==
  /\ verifying[a] # "no"
  /\ SetConn(a, "ACTIVE", IF verifying[a] = "open" THEN 0 ELSE conn[a].streak)
  /\ verifying' = [verifying EXCEPT ![a] = "no"]
  /\ UNCHANGED <<asked, scan, job, queue, events, run, down>>

VerifyFails(a) ==
  /\ verifying[a] # "no"
  /\ SetConn(a, "ERROR", conn[a].streak)
  /\ verifying' = [verifying EXCEPT ![a] = "no"]
  /\ UNCHANGED <<asked, scan, job, queue, events, run, down>>

-----------------------------------------------------------------------------
(* The worker loop: claim and execute.                                     *)

(* claim: the head of the queue, if its scan is still queued.              *)
Claim(r) ==
  /\ At(r, "idle")
  /\ queue # <<>>
  /\ LET s == Head(queue) IN
     /\ job[s].status = "QUEUED" /\ scan[s].status = "QUEUED"
     /\ SetJob(s, "RUNNING", NextAttempt(job[s].attempt), WorkerOf[r], "live")
     /\ SetScan(s, "RUNNING", scan[s].activeKey, WorkerOf[r])
     /\ run' = [run EXCEPT ![r] = [pc |-> "claimed", scan |-> s, local |-> "-"]]
  /\ queue' = Tail(queue)
  /\ UNCHANGED <<requests, conn, events, down>>

(* claim of a job whose scan is not queued: the job is put back where it   *)
(* was, one attempt older.                                                 *)
ClaimBounces(r) ==
  /\ At(r, "idle")
  /\ queue # <<>>
  /\ LET s == Head(queue) IN
     /\ job[s].status = "QUEUED" /\ scan[s].status # "QUEUED"
     /\ SetJob(s, "QUEUED", NextAttempt(job[s].attempt), NoWorker, "none")
  /\ UNCHANGED <<requests, scan, queue, conn, events, run, down>>

(* runScan reads the scan; a claimed scan it finds queued again, because   *)
(* its lease was recovered meanwhile, it will start itself.                *)
ReadScan(r) ==
  /\ At(r, "claimed")
  /\ Goto(r, IF scan[Mine(r)].status = "QUEUED" THEN "starting" ELSE "executing", "-")
  /\ UNCHANGED <<requests, scan, job, queue, conn, events, down>>

(* ... conditionally, and without taking the lease.                        *)
StartQueued(r) ==
  /\ At(r, "starting")
  /\ scan[Mine(r)].status = "QUEUED"
  /\ SetScan(Mine(r), "RUNNING", scan[Mine(r)].activeKey, scan[Mine(r)].leaseOwner)
  /\ Goto(r, "executing", "-")
  /\ UNCHANGED <<requests, job, queue, conn, events, down>>

StartTooLate(r) ==
  /\ At(r, "starting")
  /\ scan[Mine(r)].status # "QUEUED"
  /\ Goto(r, "late", "-")
  /\ UNCHANGED <<requests, scan, job, queue, conn, events, down>>

(* Somebody else started it: nothing to do if the scan has ended by now, a *)
(* conflict, which is not retried, otherwise.                              *)
ReadWhoStarted(r) ==
  /\ At(r, "late")
  /\ \/ scan[Mine(r)].status \in Terminal /\ Goto(r, "releasing", "-")
     \/ scan[Mine(r)].status \notin Terminal /\ Goto(r, "failed", "permanent")
  /\ UNCHANGED <<requests, scan, job, queue, conn, events, down>>

(* The executor throws before its final transaction commits.               *)
ExecutionFails(r) ==
  /\ "failure" \in Environment
  /\ \E pc \in {"claimed", "starting", "late", "executing", "publishing"} : At(r, pc)
  /\ \E kind \in {"retryable", "permanent"} : Goto(r, "failed", kind)
  /\ UNCHANGED <<requests, scan, job, queue, conn, events, down>>

\* Mistake: the status is not read again.
ReadNoCancellation(r) ==
  /\ At(r, "executing")
  /\ \E outcome \in {"COMPLETED", "PARTIAL"} : Goto(r, "publishing", outcome)
  /\ UNCHANGED <<requests, scan, job, queue, conn, events, down>>

(* The final transaction of runScan reads the status once, late ...        *)
ReadCancellation(r) ==
  /\ At(r, "executing")
  /\ \E outcome \in IF scan[Mine(r)].status = "CANCELLING" THEN {"CANCELLED"}
                     ELSE {"COMPLETED", "PARTIAL"} : Goto(r, "publishing", outcome)
  /\ UNCHANGED <<requests, scan, job, queue, conn, events, down>>

(* ... then writes the outcome by id, whatever the row now says, and       *)
(* announces it.                                                           *)
Publish(r) ==
  /\ At(r, "publishing")
  /\ SetScan(Mine(r), run[r].local, scan[Mine(r)].activeKey, scan[Mine(r)].leaseOwner)
  /\ Announce(Mine(r), run[r].local)
  /\ Goto(r, "releasing", "-")
  /\ UNCHANGED <<requests, job, queue, conn, down>>

(* runOnce's own transaction after the executor returns: settle the job,   *)
(* give up the lease and the active key, count the outcome.                *)
Release(r) ==
  LET s == Mine(r)
      a == AccountOf[s] IN
  /\ At(r, "releasing")
  /\ scan[s].status \in Terminal
  /\ SettleJob(r, IF scan[s].status = "CANCELLED" THEN "CANCELLED" ELSE "COMPLETED")
  /\ IF HoldsScan(r) THEN EndScan(s, scan[s].status) ELSE UNCHANGED scan
  /\ \/ scan[s].status \in {"COMPLETED", "PARTIAL"} /\ SetConn(a, conn[a].status, 0)
     \/ scan[s].status = "FAILED" /\ RecordFailure(a)
     \/ scan[s].status \in {"CANCELLED", "DEAD_LETTER"} /\ UNCHANGED conn
  /\ Finish(r)
  /\ UNCHANGED <<requests, queue, events, down>>

(* The executor's work did not last (the scan was replayed meanwhile), or  *)
(* the database refuses the transaction: both end in handleFailure.        *)
ReleaseFails(r) ==
  /\ At(r, "releasing")
  /\ \/ scan[Mine(r)].status \notin Terminal /\ Goto(r, "failed", "permanent")
     \/ /\ "dbError" \in Environment
        /\ \E kind \in {"retryable", "permanent"} : Goto(r, "failed", kind)
  /\ UNCHANGED <<requests, scan, job, queue, conn, events, down>>

-----------------------------------------------------------------------------
(* handleFailure, leases and processes.                                    *)

\* Mistake: one attempt too few.
RetriesEarlySpent(s) == job[s].attempt < MaxRetries
RetriesLeft(s) == job[s].attempt <= MaxRetries

(* handleFailure reads the job's attempts and the scan's status and decides. *)
HandleFailure(r) ==
  /\ At(r, "failed")
  /\ Goto(r, "settling",
          IF scan[Mine(r)].status = "CANCELLING" THEN "CANCELLED"
          ELSE IF run[r].local = "permanent" THEN "FAILED"
          ELSE IF RetriesLeft(Mine(r)) THEN "RETRY" ELSE "DEAD_LETTER")
  /\ UNCHANGED <<requests, scan, job, queue, conn, events, down>>

SettleCancelled(r) ==
  LET s == Mine(r) IN
  /\ At(r, "settling") /\ run[r].local = "CANCELLED"
  /\ IF scan[s].status = "CANCELLING"
     THEN EndScan(s, "CANCELLED") ELSE UNCHANGED scan
  /\ SettleJob(r, "CANCELLED")
  /\ Announce(s, "CANCELLED")
  /\ Finish(r)
  /\ UNCHANGED <<requests, queue, conn, down>>

\* Mistake: only the job is queued again, not its scan.
SettleRetryJobOnly(r) ==
  /\ At(r, "settling") /\ run[r].local = "RETRY"
  /\ SettleJob(r, "QUEUED")
  /\ Finish(r)
  /\ UNCHANGED <<requests, scan, queue, conn, events, down>>

(* The retried job is queued for later: RetryDue lets the time come.       *)
SettleRetry(r) ==
  LET s == Mine(r) IN
  /\ At(r, "settling") /\ run[r].local = "RETRY"
  /\ SettleJob(r, "QUEUED")
  /\ IF RunsScan(r) THEN SetScan(s, "QUEUED", scan[s].activeKey, NoWorker) ELSE UNCHANGED scan
  /\ Finish(r)
  /\ UNCHANGED <<requests, queue, conn, events, down>>

SettleTerminal(r) ==
  LET s == Mine(r) IN
  /\ At(r, "settling") /\ run[r].local \in {"FAILED", "DEAD_LETTER"}
  /\ SettleJob(r, IF run[r].local = "DEAD_LETTER" THEN "DEAD_LETTER" ELSE "COMPLETED")
  /\ IF RunsScan(r) THEN EndScan(s, run[r].local) ELSE UNCHANGED scan
  /\ RecordFailure(AccountOf[s])
  /\ Announce(s, run[r].local)
  /\ Finish(r)
  /\ UNCHANGED <<requests, queue, down>>

(* The settling transaction fails: runOnce rejects, the heartbeat stops.   *)
SettleFails(r) ==
  /\ "dbError" \in Environment
  /\ At(r, "settling")
  /\ Finish(r)
  /\ UNCHANGED <<requests, scan, job, queue, conn, events, down>>

(* The retry delay passes.                                                 *)
RetryDue(s) ==
  /\ job[s].status = "QUEUED"
  /\ ~Waiting(s)
  /\ queue' = Append(queue, s)
  /\ UNCHANGED <<requests, scan, job, conn, events, run, down>>

(* A lease outlives neither its process nor, when event loops may stall,   *)
(* a heartbeat that comes too late.                                        *)
Heartbeating(s) ==
  \E r \in Runs : Mine(r) = s /\ WorkerOf[r] = job[s].workerId /\ WorkerOf[r] \notin down

LeaseExpires(s) ==
  /\ job[s].lease = "live"
  /\ "stall" \in Environment \/ ~Heartbeating(s)
  /\ SetJob(s, job[s].status, job[s].attempt, job[s].workerId, "expired")
  /\ UNCHANGED <<requests, scan, queue, conn, events, run, down>>

Heartbeat(r) ==
  /\ Mine(r) # NoScan /\ WorkerOf[r] \notin down
  /\ HoldsJob(r)
  /\ job[Mine(r)].lease = "expired"
  /\ SetJob(Mine(r), "RUNNING", job[Mine(r)].attempt, WorkerOf[r], "live")
  /\ UNCHANGED <<requests, scan, queue, conn, events, run, down>>

(* recoverExpiredLeases, for one expired job: the scan goes back with it   *)
(* only if it is still running under a lease.                              *)
RecoverExpiredLease(s) ==
  /\ Workers \ down # {}
  /\ LeaseRanOut(s)
  /\ UnleaseJob(s, "QUEUED")
  /\ queue' = Append(queue, s)
  /\ IF scan[s].status = "RUNNING" /\ scan[s].leaseOwner # NoWorker
     THEN SetScan(s, "QUEUED", scan[s].activeKey, NoWorker) ELSE UNCHANGED scan
  /\ UNCHANGED <<requests, conn, events, run, down>>

(* A process dies with every run it had in flight; a restarted process has *)
(* a new worker id.  One worker is left (a bound).                         *)
Crash(w) ==
  /\ "crash" \in Environment
  /\ w \notin down
  /\ Workers \ (down \union {w}) # {}
  /\ down' = down \union {w}
  /\ run' = [r \in Runs |-> IF WorkerOf[r] = w THEN IdleRun ELSE run[r]]
  /\ UNCHANGED <<requests, scan, job, queue, conn, events>>

-----------------------------------------------------------------------------
(* The specification.                                                      *)

Execute(r) ==
  \/ ReadScan(r) \/ StartQueued(r) \/ StartTooLate(r) \/ ReadWhoStarted(r)
  \/ ReadCancellation(r) \/ Publish(r) \/ Release(r) \/ ReleaseFails(r)

Settle(r) == HandleFailure(r) \/ SettleCancelled(r) \/ SettleRetry(r) \/ SettleTerminal(r)

RunStep(r) ==
  \/ Claim(r) \/ ClaimBounces(r) \/ Execute(r) \/ Settle(r)
  \/ ExecutionFails(r) \/ SettleFails(r) \/ Heartbeat(r)

ScanStep(s) ==
  \/ AskScan(s) \/ EnqueueScan(s) \/ CancelQueued(s) \/ CancelRunning(s) \/ ReplayDeadLetter(s)
  \/ RetryDue(s) \/ LeaseExpires(s) \/ RecoverExpiredLease(s)

Next ==
  \/ \E r \in Runs : RunStep(r)
  \/ \E s \in Scans : ScanStep(s)
  \/ \E a \in Accounts : VerifyReads(a) \/ VerifySucceeds(a) \/ VerifyFails(a)
  \/ \E w \in Workers : Crash(w)

Spec == Init /\ [][Next]_vars

(* index.ts polls every 500ms, so some free run of a live worker claims;   *)
(* a run that was started goes on; time passes.  Users, operators and      *)
(* faults owe nothing.                                                     *)
Fairness ==
  /\ WF_vars(\E r \in Runs : Claim(r) \/ ClaimBounces(r))
  /\ \A r \in Runs : WF_vars(Execute(r)) /\ WF_vars(Settle(r))
  /\ \A s \in Scans : /\ WF_vars(RetryDue(s))
                      /\ WF_vars(~Heartbeating(s) /\ LeaseExpires(s))
                      /\ WF_vars(RecoverExpiredLease(s))

FairSpec == Spec /\ Fairness

-----------------------------------------------------------------------------
(* Properties.                                                             *)

(* A scan in progress holds its account's active key, so no two scans of   *)
(* an account are in progress at once, whatever workers die, stall or race *)
(* (enqueueScan's and replayDeadLetter's unique activeKey).                *)
OneScanPerAccount ==
  \A s, t \in Scans :
    /\ scan[s].status \in InProgress => scan[s].activeKey
    /\ (/\ s # t /\ AccountOf[s] = AccountOf[t]
        /\ scan[s].status \in InProgress) => scan[t].status \notin InProgress

(* A scan running under a lease has a running job leased to the same       *)
(* worker: claim, handleFailure, the release and the recovery move the two *)
(* rows together.                                                          *)
LeasesAgree ==
  \A s \in Scans :
    scan[s].status = "RUNNING" /\ scan[s].leaseOwner # NoWorker =>
      job[s].status = "RUNNING" /\ job[s].workerId = scan[s].leaseOwner

(* A finished scan is put back in progress by the replay of a dead letter  *)
(* and by nothing else: no claim, recovery or retry of a stale worker      *)
(* revives it.                                                             *)
OnlyReplayReopens ==
  [][\A s \in Scans :
       scan[s].status \in Terminal /\ scan'[s].status \notin Terminal =>
         scan[s].status = "DEAD_LETTER" /\ scan'[s].status = "QUEUED"
           /\ scan'[s].activeKey]_scan

(* No queued scan is lost: it has a queued job, which a worker will claim, *)
(* although some updates move the job and not the scan, others the scan    *)
(* and not the job (handleFailure, recoverExpiredLeases, replayDeadLetter). *)
QueuedScanIsClaimable ==
  \A s \in Scans : scan[s].status = "QUEUED" => job[s].status = "QUEUED"

(* A scan is given up only after its retries, and can be replayed: its job *)
(* is a dead letter too, with more than MAX_RETRIES attempts counted.      *)
DeadLettersAreExhausted ==
  \A s \in Scans :
    scan[s].status = "DEAD_LETTER" =>
      job[s].status = "DEAD_LETTER" /\ job[s].attempt > MaxRetries

(* What a scan that was asked to stop may be from then on.  A worker that   *)
(* has looked for the request before it was made publishes its outcome all *)
(* the same, so COMPLETED and PARTIAL are among it.                        *)
NotWaiting == {"CANCELLING", "CANCELLED", "COMPLETED", "PARTIAL"}

(* A scan that was asked to stop is never queued, started or retried       *)
(* again, nor counted as failed, in every environment: no failure, retry   *)
(* or recovery that has not seen the request puts it back to work (the     *)
(* conditional updates of handleFailure and recoverExpiredLeases against   *)
(* cancelScan).  It may still end with an outcome: see                     *)
(* CancellationIsHeeded.                                                   *)
CancelledWorkIsNotRetried ==
  [][\A s \in Scans : scan[s].status \in NotWaiting => scan'[s].status \in NotWaiting]_scan

(* While event loops keep their leases, a scan is executed by one run at a *)
(* time, crashes and recoveries included.                                  *)
OneExecutor ==
  \A q, r \in Runs :
    Mine(q) = Mine(r) /\ Mine(q) # NoScan => q = r

(* While event loops keep their leases, a finished scan keeps its outcome: *)
(* only dead letters change again, whichever transactions fail and         *)
(* whichever worker dies (scan-orchestration.ts' transitions).             *)
FinishedScanStands ==
  [][\A s \in Scans :
       scan[s].status \in Terminal \ {"DEAD_LETTER"} => scan'[s].status = scan[s].status]_scan

(* Besides dead letters that were replayed, the outcome announced for a    *)
(* scan is the one its row shows, as long as leases are kept, transactions *)
(* commit and cancellations do not meet failing executions: no retry,      *)
(* recovery or replay announces a second outcome (runScan, handleFailure). *)
AnnouncedOutcomeStands ==
  \A s \in Scans : events[s] \subseteq {scan[s].status, "DEAD_LETTER"}

(* The queue holds runnable work: a queued job belongs to a queued scan,   *)
(* so no claim bounces and no job blocks those behind it.                  *)
QueueIsRunnable ==
  \A s \in Scans : job[s].status = "QUEUED" => scan[s].status = "QUEUED"

(* Every scan asked for is finished in the end.                            *)
EveryScanFinishes ==
  \A s \in Scans : scan[s].status \in InProgress ~> scan[s].status \in Terminal

(* A run is about to settle a failure of a scan that was asked to stop     *)
(* after handleFailure had looked: its updates will miss the scan's row.   *)
Overtaken ==
  \E r \in Runs : /\ At(r, "settling") /\ run[r].local # "CANCELLED"
                  /\ scan[Mine(r)].status = "CANCELLING"

(* As long as no cancellation overtakes a failure in that window, retries, *)
(* dead letters, replays and cancellations leave no job in the queue that  *)
(* cannot be claimed (cancelScan, handleFailure, replayDeadLetter).        *)
QueueStaysRunnable == []~Overtaken => []QueueIsRunnable

(* Then every scan asked for is finished in the end (runOnce) ...          *)
ScansFinish == []~Overtaken => EveryScanFinishes

(* ... and its account can be scanned again (the release, handleFailure    *)
(* and cancelScan give up the active key).                                 *)
AccountIsFreed ==
  []~Overtaken => \A s \in Scans : scan[s].activeKey ~> ~scan[s].activeKey

(* The run of scan s has still to read its status before it settles.       *)
WillLook(s) ==
  \E r \in Runs : /\ Mine(r) = s
                  /\ run[r].pc \in {"claimed", "starting", "late", "executing", "failed"}

(* A request to stop that commits before the run's last look at the scan   *)
(* ends it CANCELLED, whether the execution succeeds or fails (runScan's   *)
(* final transaction, handleFailure).  One that commits later is           *)
(* overwritten by COMPLETED or PARTIAL, or not seen by a failure.          *)
CancellationIsHeeded ==
  \A s \in Scans :
    scan[s].status = "CANCELLING" /\ WillLook(s) ~> scan[s].status = "CANCELLED"

(* The queue implements the life of a scan its API promises.               *)
Lifecycle == INSTANCE ScanLifecycle WITH
  status <- [s \in Scans |-> scan[s].status], announced <- events

RefinesLifecycle == Lifecycle!Spec
=============================================================================
