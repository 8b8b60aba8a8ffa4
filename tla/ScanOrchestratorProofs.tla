----------------------- MODULE ScanOrchestratorProofs -----------------------
(***************************************************************************)
(* Proofs about the scan queue, for any scans, accounts, workers, runs,    *)
(* retry and circuit-breaker limits, and for every environment: users,     *)
(* operators, crashes, stalls and failed transactions included.            *)
(***************************************************************************)
EXTENDS ScanOrchestrator, SequenceTheorems, TLAPS

(* Abbreviations of the specification that are always expanded.            *)
USE DEF EndScan, Announce, CancelJob, RunsScan, LeaseRanOut

-----------------------------------------------------------------------------
(* The queue as a sequence.                                                *)

LEMMA RemoveAtType ==
  ASSUME NEW S, NEW q \in Seq(S), NEW i \in DOMAIN q
  PROVE  RemoveAt(q, i) \in Seq(S)
<1>1. Len(q) \in Nat /\ DOMAIN q = 1..Len(q)
  BY LenProperties
<1>2. \A j \in 1..Len(q) : q[j] \in S
  BY ElementOfSeq
<1>3. SubSeq(q, 1, i - 1) \in Seq(S)
  BY <1>1, <1>2, SubSeqProperties
<1>4. SubSeq(q, i + 1, Len(q)) \in Seq(S)
  BY <1>1, <1>2, SubSeqProperties
<1> QED
  BY <1>3, <1>4, ConcatProperties DEF RemoveAt

LEMMA HeadTailType ==
  ASSUME NEW S, NEW q \in Seq(S), q # <<>>
  PROVE  Head(q) \in S /\ Tail(q) \in Seq(S)
BY HeadTailProperties

LEMMA AppendType ==
  ASSUME NEW S, NEW q \in Seq(S), NEW e \in S
  PROVE  Append(q, e) \in Seq(S)
BY AppendProperties

-----------------------------------------------------------------------------
(* The type invariant in parts, and what each kind of update keeps.        *)

ScanTyped == scan \in [Scans -> [status: ScanStates, activeKey: BOOLEAN,
                                 leaseOwner: Workers \union {NoWorker}]]
JobTyped == job \in [Scans -> [status: JobStates, attempt: 0..(MaxRetries + 1),
                               workerId: Workers \union {NoWorker},
                               lease: {"none", "live", "expired"}]]
QueueTyped == queue \in Seq(Scans)
ConnTyped == conn \in [Accounts -> [status: {"ACTIVE", "ERROR"}, streak: 0..Threshold]]
EventsTyped == events \in [Scans -> SUBSET Terminal]
RunTyped == /\ run \in [Runs -> [pc: Pcs, scan: Scans \union {NoScan}, local: Locals]]
            /\ \A r \in Runs :
                 /\ run[r].scan = NoScan <=> run[r].pc = "idle"
                 /\ run[r].pc = "publishing" =>
                      run[r].local \in {"COMPLETED", "PARTIAL", "CANCELLED"}
OthersTyped == /\ asked \subseteq Scans
               /\ verifying \in [Accounts -> {"no", "open", "closed"}]
               /\ down \subseteq Workers

LEMMA TypeParts ==
  TypeOK <=> /\ ScanTyped /\ JobTyped /\ QueueTyped /\ ConnTyped
             /\ EventsTyped /\ RunTyped /\ OthersTyped
BY DEF TypeOK, ScanTyped, JobTyped, QueueTyped, ConnTyped, EventsTyped, RunTyped, OthersTyped

LEMMA SetScanType ==
  ASSUME ScanTyped, NEW s, NEW status \in ScanStates, NEW key \in BOOLEAN,
         NEW owner \in Workers \union {NoWorker}, SetScan(s, status, key, owner)
  PROVE  ScanTyped'
BY DEF ScanTyped, SetScan

LEMMA SetJobType ==
  ASSUME JobTyped, NEW s, NEW status \in JobStates, NEW attempt \in 0..(MaxRetries + 1),
         NEW worker \in Workers \union {NoWorker}, NEW lease \in {"none", "live", "expired"},
         SetJob(s, status, attempt, worker, lease)
  PROVE  JobTyped'
BY DEF JobTyped, SetJob

LEMMA UnleaseJobType ==
  ASSUME JobTyped, NEW s \in Scans, NEW status \in JobStates, UnleaseJob(s, status)
  PROVE  JobTyped'
<1>1. job[s].attempt \in 0..(MaxRetries + 1)
  BY DEF JobTyped
<1> QED
  BY <1>1, SetJobType DEF UnleaseJob

LEMMA SettleJobType ==
  ASSUME JobTyped, NEW r \in Runs, Mine(r) \in Scans, NEW status \in JobStates,
         SettleJob(r, status)
  PROVE  JobTyped'
BY UnleaseJobType DEF SettleJob, JobTyped

LEMMA CountersType ==
  /\ \A n \in 0..(MaxRetries + 1) : NextAttempt(n) \in 0..(MaxRetries + 1)
  /\ \A n \in 0..Threshold : NextStreak(n) \in 0..Threshold
BY OrchestratorAssumption DEF OrchestratorAssumption, NextAttempt, NextStreak

LEMMA SetConnType ==
  ASSUME ConnTyped, NEW a, NEW status \in {"ACTIVE", "ERROR"}, NEW streak \in 0..Threshold,
         SetConn(a, status, streak)
  PROVE  ConnTyped'
BY DEF ConnTyped, SetConn

LEMMA RecordFailureType ==
  ASSUME ConnTyped, NEW a \in Accounts, RecordFailure(a)
  PROVE  ConnTyped'
<1>1. conn[a].status \in {"ACTIVE", "ERROR"} /\ NextStreak(conn[a].streak) \in 0..Threshold
  BY CountersType DEF ConnTyped
<1> QED
  BY <1>1, SetConnType DEF RecordFailure

LEMMA GotoType ==
  ASSUME RunTyped, NEW r \in Runs, run[r].pc # "idle",
         NEW pc \in Pcs \ {"idle"}, NEW local \in Locals, Goto(r, pc, local),
         pc = "publishing" => local \in {"COMPLETED", "PARTIAL", "CANCELLED"}
  PROVE  RunTyped'
BY DEF RunTyped, Goto, Mine

LEMMA FinishType ==
  ASSUME RunTyped, NEW r \in Runs, Finish(r)
  PROVE  RunTyped'
BY DEF RunTyped, Finish, IdleRun, Pcs, Locals

-----------------------------------------------------------------------------
(* Type correctness.                                                       *)

LEMMA TypeInit == Init => TypeOK
<1> SUFFICES ASSUME Init PROVE TypeOK
  OBVIOUS
<1>1. queue \in Seq(Scans)
  BY EmptySeq DEF Init
<1> QED
  BY <1>1, OrchestratorAssumption
  DEF OrchestratorAssumption, Init, TypeOK, IdleRun, ScanStates, JobStates, Pcs, Locals

LEMMA TypeStep == TypeOK /\ [Next]_vars => TypeOK'
<1> SUFFICES ASSUME TypeOK, [Next]_vars
             PROVE  TypeOK'
  OBVIOUS
<1>0. /\ ScanTyped /\ JobTyped /\ QueueTyped /\ ConnTyped
      /\ EventsTyped /\ RunTyped /\ OthersTyped
  BY TypeParts
<1>p. /\ ScanTyped' /\ JobTyped' /\ QueueTyped' /\ ConnTyped'
      /\ EventsTyped' /\ RunTyped' /\ OthersTyped'
      => TypeOK'
  BY TypeParts, PTL
<1>u. /\ UNCHANGED scan => ScanTyped'
      /\ UNCHANGED job => JobTyped'
      /\ UNCHANGED queue => QueueTyped'
      /\ UNCHANGED conn => ConnTyped'
      /\ UNCHANGED events => EventsTyped'
      /\ UNCHANGED run => RunTyped'
      /\ UNCHANGED <<requests, down>> => OthersTyped'
  BY <1>0 DEF ScanTyped, JobTyped, QueueTyped, ConnTyped, EventsTyped, RunTyped, OthersTyped,
     requests
<1>s. /\ \A s \in Scans : /\ scan[s].status \in ScanStates /\ scan[s].activeKey \in BOOLEAN
                          /\ scan[s].leaseOwner \in Workers \union {NoWorker}
      /\ NoWorker \in Workers \union {NoWorker}
      /\ {"QUEUED", "RUNNING", "CANCELLING", "CANCELLED"} \subseteq ScanStates
      /\ Terminal \subseteq ScanStates
      /\ TRUE \in BOOLEAN /\ FALSE \in BOOLEAN
  BY <1>0 DEF ScanTyped, ScanStates, InProgress, Terminal
<1>j. /\ \A s \in Scans : /\ job[s].status \in JobStates /\ job[s].attempt \in 0..(MaxRetries + 1)
                          /\ job[s].workerId \in Workers \union {NoWorker}
                          /\ NextAttempt(job[s].attempt) \in 0..(MaxRetries + 1)
      /\ {"QUEUED", "RUNNING", "COMPLETED", "CANCELLED", "DEAD_LETTER"} \subseteq JobStates
      /\ 0 \in 0..(MaxRetries + 1)
      /\ {"none", "live", "expired"} \subseteq {"none", "live", "expired"}
  BY <1>0, CountersType, OrchestratorAssumption DEF JobTyped, JobStates, OrchestratorAssumption
<1>c. /\ \A a \in Accounts : /\ conn[a].status \in {"ACTIVE", "ERROR"}
                             /\ conn[a].streak \in 0..Threshold
      /\ 0 \in 0..Threshold
  BY <1>0, OrchestratorAssumption DEF ConnTyped, OrchestratorAssumption
<1>w. /\ \A r \in Runs : WorkerOf[r] \in Workers /\ WorkerOf[r] \in Workers \union {NoWorker}
      /\ \A s \in Scans : AccountOf[s] \in Accounts
  BY OrchestratorAssumption DEF OrchestratorAssumption
<1>a. \A s \in Scans : Append(queue, s) \in Seq(Scans)
  BY <1>0, AppendType DEF QueueTyped
<1>h. queue # <<>> => Head(queue) \in Scans /\ Tail(queue) \in Seq(Scans)
  BY <1>0, HeadTailType DEF QueueTyped
<1>r. \A r \in Runs : run[r].pc # "idle" => Mine(r) \in Scans
  BY <1>0 DEF RunTyped, Mine
<1>1. ASSUME NEW s \in Scans, AskScan(s) PROVE TypeOK'
  <2>1. OthersTyped'
    BY <1>0, <1>1 DEF AskScan, OthersTyped
  <2> QED
    BY <1>1, <1>p, <1>u, <2>1 DEF AskScan
<1>2. ASSUME NEW s \in Scans, EnqueueScan(s) PROVE TypeOK'
  <2>1. ScanTyped'
    BY <1>0, <1>2, <1>s, SetScanType DEF EnqueueScan
  <2>2. JobTyped'
    BY <1>0, <1>2, <1>s, <1>j, SetJobType DEF EnqueueScan
  <2>3. QueueTyped' /\ OthersTyped'
    BY <1>0, <1>2, <1>a DEF EnqueueScan, QueueTyped, OthersTyped
  <2> QED
    BY <1>2, <1>p, <1>u, <2>1, <2>2, <2>3 DEF EnqueueScan
<1>3. ASSUME NEW s \in Scans, CancelQueued(s) PROVE TypeOK'
  <2>1. ScanTyped'
    BY <1>0, <1>3, <1>s, SetScanType DEF CancelQueued
  <2>2. JobTyped'
    BY <1>0, <1>3, <1>j, <1>u, UnleaseJobType DEF CancelQueued
  <2>3. QueueTyped'
    BY <1>0, <1>3, RemoveAtType DEF CancelQueued, QueueTyped
  <2> QED
    BY <1>3, <1>p, <1>u, <2>1, <2>2, <2>3 DEF CancelQueued
<1>4. ASSUME NEW s \in Scans, CancelRunning(s) PROVE TypeOK'
  <2>1. ScanTyped'
    BY <1>0, <1>4, <1>s, SetScanType DEF CancelRunning
  <2> QED
    BY <1>4, <1>p, <1>u, <2>1 DEF CancelRunning
<1>5. ASSUME NEW s \in Scans, ReplayDeadLetter(s) PROVE TypeOK'
  <2>1. ScanTyped'
    BY <1>0, <1>5, <1>s, SetScanType DEF ReplayDeadLetter
  <2>2. JobTyped'
    BY <1>0, <1>5, <1>j, <1>u, UnleaseJobType DEF ReplayDeadLetter
  <2>3. QueueTyped'
    BY <1>5, <1>a, <1>u DEF ReplayDeadLetter, QueueTyped
  <2> QED
    BY <1>5, <1>p, <1>u, <2>1, <2>2, <2>3 DEF ReplayDeadLetter
<1>6. ASSUME NEW a \in Accounts, VerifyReads(a) PROVE TypeOK'
  <2>1. OthersTyped'
    BY <1>0, <1>6 DEF VerifyReads, OthersTyped
  <2> QED
    BY <1>6, <1>p, <1>u, <2>1 DEF VerifyReads
<1>7. ASSUME NEW a \in Accounts, VerifySucceeds(a) \/ VerifyFails(a) PROVE TypeOK'
  <2>1. OthersTyped'
    BY <1>0, <1>7 DEF VerifySucceeds, VerifyFails, OthersTyped
  <2>2. ConnTyped'
    BY <1>0, <1>7, <1>c, SetConnType DEF VerifySucceeds, VerifyFails
  <2> QED
    BY <1>7, <1>p, <1>u, <2>1, <2>2 DEF VerifySucceeds, VerifyFails
<1>8. ASSUME NEW r \in Runs, Claim(r) PROVE TypeOK'
  <2>1. Head(queue) \in Scans /\ QueueTyped'
    BY <1>8, <1>h DEF Claim, QueueTyped
  <2>2. ScanTyped'
    BY <1>0, <1>8, <1>s, <1>w, <2>1, SetScanType DEF Claim
  <2>3. JobTyped'
    BY <1>0, <1>8, <1>j, <1>w, <2>1, SetJobType DEF Claim
  <2>4. RunTyped'
    BY <1>0, <1>8, <2>1, OrchestratorAssumption
    DEF Claim, RunTyped, Pcs, Locals, OrchestratorAssumption
  <2> QED
    BY <1>8, <1>p, <1>u, <2>1, <2>2, <2>3, <2>4 DEF Claim
<1>9. ASSUME NEW r \in Runs, ClaimBounces(r) PROVE TypeOK'
  <2>1. Head(queue) \in Scans
    BY <1>9, <1>h DEF ClaimBounces
  <2>2. JobTyped'
    BY <1>0, <1>9, <1>j, <1>s, <2>1, SetJobType DEF ClaimBounces
  <2> QED
    BY <1>9, <1>p, <1>u, <2>2 DEF ClaimBounces
<1>10. ASSUME NEW r \in Runs, ReadScan(r) PROVE TypeOK'
  <2>1. RunTyped'
    BY <1>0, <1>10, GotoType DEF ReadScan, At, Pcs, Locals
  <2> QED
    BY <1>10, <1>p, <1>u, <2>1 DEF ReadScan
<1>11. ASSUME NEW r \in Runs, StartQueued(r) PROVE TypeOK'
  <2>1. RunTyped' /\ Mine(r) \in Scans
    BY <1>0, <1>11, <1>r, GotoType DEF StartQueued, At, Pcs, Locals
  <2>2. ScanTyped'
    BY <1>0, <1>11, <1>s, <2>1, SetScanType DEF StartQueued
  <2> QED
    BY <1>11, <1>p, <1>u, <2>1, <2>2 DEF StartQueued
<1>12. ASSUME NEW r \in Runs, StartTooLate(r) PROVE TypeOK'
  <2>1. RunTyped'
    BY <1>0, <1>12, GotoType DEF StartTooLate, At, Pcs, Locals
  <2> QED
    BY <1>12, <1>p, <1>u, <2>1 DEF StartTooLate
<1>12a. ASSUME NEW r \in Runs, ReadWhoStarted(r) PROVE TypeOK'
  <2>1. RunTyped'
    BY <1>0, <1>12a, GotoType DEF ReadWhoStarted, At, Pcs, Locals
  <2> QED
    BY <1>12a, <1>p, <1>u, <2>1 DEF ReadWhoStarted
<1>13. ASSUME NEW r \in Runs, ExecutionFails(r) PROVE TypeOK'
  <2>1. RunTyped'
    BY <1>0, <1>13, GotoType DEF ExecutionFails, At, Pcs, Locals
  <2> QED
    BY <1>13, <1>p, <1>u, <2>1 DEF ExecutionFails
<1>14. ASSUME NEW r \in Runs, ReadCancellation(r) PROVE TypeOK'
  <2>1. RunTyped'
    BY <1>0, <1>14, GotoType DEF ReadCancellation, At, Pcs, Locals
  <2> QED
    BY <1>14, <1>p, <1>u, <2>1 DEF ReadCancellation
<1>15. ASSUME NEW r \in Runs, Publish(r) PROVE TypeOK'
  <2>1. RunTyped' /\ Mine(r) \in Scans
    BY <1>0, <1>15, <1>r, GotoType DEF Publish, At, Pcs, Locals
  <2>2. run[r].local \in Terminal
    BY <1>0, <1>15 DEF Publish, At, RunTyped, Terminal
  <2>3. ScanTyped'
    BY <1>0, <1>15, <1>s, <2>1, <2>2, SetScanType DEF Publish
  <2>4. EventsTyped'
    BY <1>0, <1>15, <2>2 DEF Publish, EventsTyped
  <2> QED
    BY <1>15, <1>p, <1>u, <2>1, <2>3, <2>4 DEF Publish
<1>16. ASSUME NEW r \in Runs, Release(r) PROVE TypeOK'
  <2>1. RunTyped' /\ Mine(r) \in Scans
    BY <1>0, <1>16, <1>r, FinishType DEF Release, At
  <2>2. JobTyped'
    BY <1>0, <1>16, <1>j, <2>1, SettleJobType DEF Release
  <2>3. ScanTyped'
    BY <1>0, <1>16, <1>s, <1>u, <2>1, SetScanType DEF Release
  <2>4. ConnTyped'
    BY <1>0, <1>16, <1>c, <1>w, <1>u, <2>1, SetConnType, RecordFailureType DEF Release
  <2> QED
    BY <1>16, <1>p, <1>u, <2>1, <2>2, <2>3, <2>4 DEF Release
<1>17. ASSUME NEW r \in Runs, ReleaseFails(r) PROVE TypeOK'
  <2>1. RunTyped'
    BY <1>0, <1>17, GotoType DEF ReleaseFails, At, Pcs, Locals
  <2> QED
    BY <1>17, <1>p, <1>u, <2>1 DEF ReleaseFails
<1>18. ASSUME NEW r \in Runs, HandleFailure(r) PROVE TypeOK'
  <2>1. RunTyped'
    BY <1>0, <1>18, GotoType DEF HandleFailure, At, Pcs, Locals
  <2> QED
    BY <1>18, <1>p, <1>u, <2>1 DEF HandleFailure
<1>19. ASSUME NEW r \in Runs, SettleCancelled(r) PROVE TypeOK'
  <2>1. RunTyped' /\ Mine(r) \in Scans
    BY <1>0, <1>19, <1>r, FinishType DEF SettleCancelled, At
  <2>2. JobTyped'
    BY <1>0, <1>19, <1>j, <2>1, SettleJobType DEF SettleCancelled
  <2>3. ScanTyped'
    BY <1>0, <1>19, <1>s, <1>u, <2>1, SetScanType DEF SettleCancelled
  <2>4. EventsTyped'
    BY <1>0, <1>19 DEF SettleCancelled, EventsTyped, Terminal
  <2> QED
    BY <1>19, <1>p, <1>u, <2>1, <2>2, <2>3, <2>4 DEF SettleCancelled
<1>20. ASSUME NEW r \in Runs, SettleRetry(r) PROVE TypeOK'
  <2>1. RunTyped' /\ Mine(r) \in Scans
    BY <1>0, <1>20, <1>r, FinishType DEF SettleRetry, At
  <2>2. JobTyped'
    BY <1>0, <1>20, <1>j, <2>1, SettleJobType DEF SettleRetry
  <2>3. ScanTyped'
    BY <1>0, <1>20, <1>s, <1>u, <2>1, SetScanType DEF SettleRetry
  <2> QED
    BY <1>20, <1>p, <1>u, <2>1, <2>2, <2>3 DEF SettleRetry
<1>21. ASSUME NEW r \in Runs, SettleTerminal(r) PROVE TypeOK'
  <2>1. RunTyped' /\ Mine(r) \in Scans
    BY <1>0, <1>21, <1>r, FinishType DEF SettleTerminal, At
  <2>2. JobTyped'
    BY <1>0, <1>21, <1>j, <2>1, SettleJobType DEF SettleTerminal
  <2>3. run[r].local \in Terminal
    BY <1>21 DEF SettleTerminal, Terminal
  <2>4. ScanTyped'
    BY <1>0, <1>21, <1>s, <1>u, <2>1, <2>3, SetScanType DEF SettleTerminal
  <2>5. ConnTyped'
    BY <1>0, <1>21, <1>w, <2>1, RecordFailureType DEF SettleTerminal
  <2>6. EventsTyped'
    BY <1>0, <1>21, <2>3 DEF SettleTerminal, EventsTyped
  <2> QED
    BY <1>21, <1>p, <1>u, <2>1, <2>2, <2>4, <2>5, <2>6 DEF SettleTerminal
<1>22. ASSUME NEW r \in Runs, SettleFails(r) PROVE TypeOK'
  <2>1. RunTyped'
    BY <1>0, <1>22, FinishType DEF SettleFails
  <2> QED
    BY <1>22, <1>p, <1>u, <2>1 DEF SettleFails
<1>23. ASSUME NEW s \in Scans, RetryDue(s) PROVE TypeOK'
  <2>1. QueueTyped'
    BY <1>23, <1>a DEF RetryDue, QueueTyped
  <2> QED
    BY <1>23, <1>p, <1>u, <2>1 DEF RetryDue
<1>24. ASSUME NEW s \in Scans, LeaseExpires(s) PROVE TypeOK'
  <2>1. JobTyped'
    BY <1>0, <1>24, <1>j, SetJobType DEF LeaseExpires
  <2> QED
    BY <1>24, <1>p, <1>u, <2>1 DEF LeaseExpires
<1>25. ASSUME NEW r \in Runs, Heartbeat(r) PROVE TypeOK'
  <2>1. Mine(r) \in Scans
    BY <1>0, <1>25 DEF Heartbeat, RunTyped, Mine
  <2>2. JobTyped'
    BY <1>0, <1>25, <1>j, <1>w, <2>1, SetJobType DEF Heartbeat
  <2> QED
    BY <1>25, <1>p, <1>u, <2>2 DEF Heartbeat
<1>26. ASSUME NEW s \in Scans, RecoverExpiredLease(s) PROVE TypeOK'
  <2>1. JobTyped'
    BY <1>0, <1>26, <1>j, UnleaseJobType DEF RecoverExpiredLease
  <2>2. ScanTyped'
    BY <1>0, <1>26, <1>s, <1>u, SetScanType DEF RecoverExpiredLease
  <2>3. QueueTyped'
    BY <1>26, <1>a DEF RecoverExpiredLease, QueueTyped
  <2> QED
    BY <1>26, <1>p, <1>u, <2>1, <2>2, <2>3 DEF RecoverExpiredLease
<1>27. ASSUME NEW w \in Workers, Crash(w) PROVE TypeOK'
  <2>1. RunTyped'
    BY <1>0, <1>27 DEF Crash, RunTyped, IdleRun, Pcs, Locals
  <2>2. OthersTyped'
    BY <1>0, <1>27 DEF Crash, OthersTyped, requests
  <2> QED
    BY <1>27, <1>p, <1>u, <2>1, <2>2 DEF Crash
<1>28. CASE UNCHANGED vars
  BY <1>28, <1>p, <1>u DEF vars
<1> QED
  BY <1>1, <1>2, <1>3, <1>4, <1>5, <1>6, <1>7, <1>8, <1>9, <1>10, <1>11, <1>12, <1>12a, <1>13, <1>14,
     <1>15, <1>16, <1>17, <1>18, <1>19, <1>20, <1>21, <1>22, <1>23, <1>24, <1>25, <1>26, <1>27,
     <1>28
  DEF Next, RunStep, ScanStep, Execute, Settle

(* Every row, queue entry and local state stays within its type.           *)
THEOREM TypeCorrect == Spec => []TypeOK
BY TypeInit, TypeStep, PTL DEF Spec

-----------------------------------------------------------------------------
(* One scan per account.                                                   *)

(* The inductive form: a scan in progress holds its account's active key,  *)
(* which no two scans hold.                                                *)
KeyInv ==
  /\ \A s \in Scans : scan[s].status \in InProgress => scan[s].activeKey
  /\ \A s, t \in Scans :
       s # t /\ AccountOf[s] = AccountOf[t] => ~(scan[s].activeKey /\ scan[t].activeKey)

(* A row that does not gain the key, and is not put in progress without    *)
(* it, keeps KeyInv.                                                       *)
LEMMA SetScanKeys ==
  ASSUME ScanTyped, KeyInv, NEW s \in Scans, NEW status \in ScanStates, NEW key \in BOOLEAN,
         NEW owner, SetScan(s, status, key, owner),
         status \in InProgress => key,
         key => scan[s].activeKey \/ KeyFree(s)
  PROVE  KeyInv'
<1>1. \A t \in Scans : /\ scan'[t].status = IF t = s THEN status ELSE scan[t].status
                       /\ scan'[t].activeKey = IF t = s THEN key ELSE scan[t].activeKey
  BY DEF SetScan, ScanTyped
<1> QED
  BY <1>1 DEF KeyInv, KeyFree

LEMMA KeyInit == Init => KeyInv
BY DEF Init, KeyInv, InProgress

LEMMA KeyStep == TypeOK /\ KeyInv /\ [Next]_vars => KeyInv'
<1> SUFFICES ASSUME TypeOK, KeyInv, [Next]_vars
             PROVE  KeyInv'
  OBVIOUS
<1>0. ScanTyped /\ RunTyped /\ QueueTyped
  BY TypeParts
<1>u. UNCHANGED scan => KeyInv'
  BY DEF KeyInv
<1>s. /\ \A s \in Scans : scan[s].activeKey \in BOOLEAN /\ scan[s].status \in ScanStates
      /\ {"QUEUED", "RUNNING", "CANCELLING", "CANCELLED"} \subseteq ScanStates
      /\ Terminal \subseteq ScanStates
      /\ TRUE \in BOOLEAN /\ FALSE \in BOOLEAN
  BY <1>0 DEF ScanTyped, ScanStates, InProgress, Terminal
<1>k. /\ \A s \in Scans : scan[s].status \in {"QUEUED", "RUNNING", "CANCELLING"} => scan[s].activeKey
      /\ Terminal \intersect InProgress = {} /\ "CANCELLED" \in Terminal
  BY DEF KeyInv, InProgress, Terminal
<1>r. \A r \in Runs : run[r].pc # "idle" => Mine(r) \in Scans
  BY <1>0 DEF RunTyped, Mine
<1>1. ASSUME NEW s \in Scans, EnqueueScan(s) PROVE KeyInv'
  BY <1>0, <1>1, <1>s, SetScanKeys DEF EnqueueScan
<1>2. ASSUME NEW s \in Scans, CancelQueued(s) PROVE KeyInv'
  BY <1>0, <1>2, <1>s, <1>k, SetScanKeys DEF CancelQueued
<1>3. ASSUME NEW s \in Scans, CancelRunning(s) PROVE KeyInv'
  BY <1>0, <1>3, <1>s, <1>k, SetScanKeys DEF CancelRunning
<1>4. ASSUME NEW s \in Scans, ReplayDeadLetter(s) PROVE KeyInv'
  BY <1>0, <1>4, <1>s, SetScanKeys DEF ReplayDeadLetter
<1>5. ASSUME NEW r \in Runs, Claim(r) PROVE KeyInv'
  <2>1. Head(queue) \in Scans
    BY <1>0, <1>5, HeadTailType DEF Claim, QueueTyped
  <2> QED
    BY <1>0, <1>5, <1>s, <1>k, <2>1, SetScanKeys DEF Claim
<1>6. ASSUME NEW r \in Runs, StartQueued(r) PROVE KeyInv'
  BY <1>0, <1>6, <1>s, <1>k, <1>r, SetScanKeys DEF StartQueued, At
<1>7. ASSUME NEW r \in Runs, Publish(r) PROVE KeyInv'
  <2>1. run[r].local \in Terminal /\ Mine(r) \in Scans
    BY <1>0, <1>7, <1>r DEF Publish, At, RunTyped, Terminal
  <2> QED
    BY <1>0, <1>7, <1>s, <1>k, <2>1, SetScanKeys DEF Publish
<1>8. ASSUME NEW r \in Runs, Release(r) PROVE KeyInv'
  BY <1>0, <1>8, <1>s, <1>k, <1>r, <1>u, SetScanKeys DEF Release, At
<1>9. ASSUME NEW r \in Runs, SettleCancelled(r) PROVE KeyInv'
  BY <1>0, <1>9, <1>s, <1>k, <1>r, <1>u, SetScanKeys DEF SettleCancelled, At
<1>10. ASSUME NEW r \in Runs, SettleRetry(r) PROVE KeyInv'
  BY <1>0, <1>10, <1>s, <1>k, <1>r, <1>u, SetScanKeys DEF SettleRetry, At
<1>11. ASSUME NEW r \in Runs, SettleTerminal(r) PROVE KeyInv'
  <2>1. run[r].local \in Terminal /\ Mine(r) \in Scans
    BY <1>11, <1>r DEF SettleTerminal, At, Terminal
  <2> QED
    BY <1>0, <1>11, <1>s, <1>k, <1>u, <2>1, SetScanKeys DEF SettleTerminal
<1>12. ASSUME NEW s \in Scans, RecoverExpiredLease(s) PROVE KeyInv'
  BY <1>0, <1>12, <1>s, <1>k, <1>u, SetScanKeys DEF RecoverExpiredLease
<1>13. CASE UNCHANGED scan
  BY <1>13, <1>u
<1> QED
  BY <1>1, <1>2, <1>3, <1>4, <1>5, <1>6, <1>7, <1>8, <1>9, <1>10, <1>11, <1>12, <1>13
  DEF Next, RunStep, ScanStep, Execute, Settle, vars, AskScan, VerifyReads, VerifySucceeds,
      VerifyFails, ClaimBounces, ReadScan, StartTooLate, ReadWhoStarted, ExecutionFails, ReadCancellation,
      ReleaseFails, HandleFailure, SettleFails, RetryDue, LeaseExpires, Heartbeat, Crash

(* Whatever dies, stalls or races, no two scans of an account are in       *)
(* progress at once (activeKey in enqueueScan and replayDeadLetter).       *)
THEOREM OneScanPerAccountHolds == Spec => []OneScanPerAccount
<1>1. KeyInv => OneScanPerAccount
  BY DEF KeyInv, OneScanPerAccount
<1> QED
  BY <1>1, KeyInit, KeyStep, TypeCorrect, PTL DEF Spec

-----------------------------------------------------------------------------
(* Finished scans.                                                         *)

LEMMA SetScanStatus ==
  ASSUME ScanTyped, NEW s \in Scans, NEW status, NEW key, NEW owner,
         SetScan(s, status, key, owner)
  PROVE  \A t \in Scans : /\ scan'[t].status = IF t = s THEN status ELSE scan[t].status
                          /\ scan'[t].activeKey = IF t = s THEN key ELSE scan[t].activeKey
                          /\ scan'[t].leaseOwner = IF t = s THEN owner ELSE scan[t].leaseOwner
BY DEF SetScan, ScanTyped

(* A step that keeps finished scans finished, replays apart.               *)
Kept ==
  \A s \in Scans :
    scan[s].status \in Terminal /\ scan'[s].status \notin Terminal =>
      scan[s].status = "DEAD_LETTER" /\ scan'[s].status = "QUEUED" /\ scan'[s].activeKey

LEMMA SetScanKept ==
  ASSUME ScanTyped, NEW s \in Scans, NEW status, NEW key, NEW owner,
         SetScan(s, status, key, owner),
         \/ scan[s].status \in InProgress \union {"NONE"}
         \/ status \in Terminal
         \/ scan[s].status = "DEAD_LETTER" /\ status = "QUEUED" /\ key
  PROVE  Kept
<1>1. \A x \in InProgress \union {"NONE"} : x \notin Terminal
  BY DEF InProgress, Terminal
<1> QED
  BY <1>1, SetScanStatus DEF Kept

(* Only the replay of a dead letter puts a finished scan back in progress, *)
(* in every environment: the conditional updates of claim, handleFailure   *)
(* and recoverExpiredLeases never revive one.                              *)
THEOREM OnlyReplayReopensHolds == Spec => OnlyReplayReopens
<1>1. TypeOK /\ [Next]_vars => Kept
  <2> SUFFICES ASSUME TypeOK, [Next]_vars
               PROVE  Kept
    OBVIOUS
  <2>0. ScanTyped /\ RunTyped /\ QueueTyped
    BY TypeParts
  <2>u. UNCHANGED scan => Kept
    BY DEF Kept
  <2>t. "NONE" \in InProgress \union {"NONE"} /\ "QUEUED" \in InProgress \union {"NONE"}
        /\ "RUNNING" \in InProgress \union {"NONE"} /\ "CANCELLED" \in Terminal
    BY DEF Terminal, InProgress
  <2>r. \A r \in Runs : run[r].pc # "idle" => Mine(r) \in Scans
    BY <2>0 DEF RunTyped, Mine
  <2>1. ASSUME NEW s \in Scans,
               \/ EnqueueScan(s) \/ CancelQueued(s) \/ CancelRunning(s)
               \/ ReplayDeadLetter(s) \/ RecoverExpiredLease(s)
        PROVE  Kept
    BY <2>0, <2>1, <2>t, <2>u, SetScanKept
    DEF EnqueueScan, CancelQueued, CancelRunning, RecoverExpiredLease, ReplayDeadLetter
  <2>2. ASSUME NEW r \in Runs, Claim(r)
        PROVE  Kept
    BY <2>0, <2>2, <2>t, SetScanKept, HeadTailType DEF Claim, QueueTyped
  <2>3. ASSUME NEW r \in Runs, StartQueued(r) \/ Release(r) \/ SettleRetry(r) \/ SettleCancelled(r)
        PROVE  Kept
    BY <2>0, <2>3, <2>t, <2>r, <2>u, SetScanKept
    DEF StartQueued, Release, SettleRetry, SettleCancelled, At
  <2>4. ASSUME NEW r \in Runs, Publish(r) \/ SettleTerminal(r)
        PROVE  Kept
    <3>1. run[r].local \in Terminal /\ Mine(r) \in Scans
      BY <2>0, <2>4, <2>r DEF Publish, SettleTerminal, At, RunTyped, Terminal
    <3> QED
      BY <2>0, <2>4, <2>u, <3>1, SetScanKept DEF Publish, SettleTerminal
  <2> QED
    BY <2>1, <2>2, <2>3, <2>4, <2>u
    DEF Next, RunStep, ScanStep, Execute, Settle, vars, AskScan, VerifyReads, VerifySucceeds,
        VerifyFails, ClaimBounces, ReadScan, StartTooLate, ReadWhoStarted, ExecutionFails, ReadCancellation,
        ReleaseFails, HandleFailure, SettleFails, RetryDue, LeaseExpires, Heartbeat, Crash
<1>2. Kept => [\A s \in Scans :
                 scan[s].status \in Terminal /\ scan'[s].status \notin Terminal =>
                   scan[s].status = "DEAD_LETTER" /\ scan'[s].status = "QUEUED"
                     /\ scan'[s].activeKey]_scan
  BY DEF Kept
<1> QED
  BY <1>1, <1>2, TypeCorrect, PTL DEF Spec, OnlyReplayReopens

-----------------------------------------------------------------------------
(* Leases.                                                                 *)

LEMMA SetJobFields ==
  ASSUME JobTyped, NEW s \in Scans, NEW status, NEW attempt, NEW worker, NEW lease,
         SetJob(s, status, attempt, worker, lease)
  PROVE  \A t \in Scans : /\ job'[t].status = IF t = s THEN status ELSE job[t].status
                          /\ job'[t].attempt = IF t = s THEN attempt ELSE job[t].attempt
                          /\ job'[t].workerId = IF t = s THEN worker ELSE job[t].workerId
                          /\ job'[t].lease = IF t = s THEN lease ELSE job[t].lease
BY DEF SetJob, JobTyped

(* LeasesAgree, and what makes it inductive: a scan that may be started    *)
(* has no lease, and a run that saw a cancellation settles a scan that     *)
(* cannot be running again.                                                *)
Unleased == \A s \in Scans :
  scan[s].status \in {"NONE", "QUEUED", "DEAD_LETTER"} => scan[s].leaseOwner = NoWorker
CancelSeen == \A r \in Runs :
  run[r].pc = "settling" /\ run[r].local = "CANCELLED" =>
    scan[Mine(r)].status \in NotWaiting
LeaseInv == LeasesAgree /\ Unleased /\ CancelSeen

(* A scan that was asked to stop stays out of the queue.                   *)
StaysOut == \A s \in Scans : scan[s].status \in NotWaiting => scan'[s].status \in NotWaiting

LEMMA SetScanStaysOut ==
  ASSUME ScanTyped, NEW s \in Scans, NEW status, NEW key, NEW owner,
         SetScan(s, status, key, owner),
         status \in NotWaiting \/ scan[s].status \notin NotWaiting
  PROVE  StaysOut
BY SetScanStatus DEF StaysOut

LEMMA NotRetriedStep == TypeOK /\ [Next]_vars => StaysOut
<1> SUFFICES ASSUME TypeOK, [Next]_vars
             PROVE  StaysOut
  OBVIOUS
<1>0. ScanTyped /\ RunTyped /\ QueueTyped
  BY TypeParts
<1>u. UNCHANGED scan => StaysOut
  BY DEF StaysOut
<1>r. \A r \in Runs : run[r].pc # "idle" => Mine(r) \in Scans
  BY <1>0 DEF RunTyped, Mine
<1>t. /\ {"NONE", "QUEUED", "RUNNING", "DEAD_LETTER"} \intersect NotWaiting = {}
      /\ "CANCELLING" \in NotWaiting /\ "CANCELLED" \in NotWaiting
  BY DEF NotWaiting
<1>1. ASSUME NEW s \in Scans,
             \/ EnqueueScan(s) \/ CancelQueued(s) \/ CancelRunning(s)
             \/ ReplayDeadLetter(s) \/ RecoverExpiredLease(s)
      PROVE  StaysOut
  BY <1>0, <1>1, <1>t, <1>u, SetScanStaysOut
  DEF EnqueueScan, CancelQueued, CancelRunning, RecoverExpiredLease, ReplayDeadLetter
<1>2. ASSUME NEW r \in Runs, Claim(r)
      PROVE  StaysOut
  BY <1>0, <1>2, <1>t, SetScanStaysOut, HeadTailType DEF Claim, QueueTyped
<1>3. ASSUME NEW r \in Runs,
             StartQueued(r) \/ Release(r) \/ SettleRetry(r) \/ SettleCancelled(r) \/ SettleTerminal(r)
      PROVE  StaysOut
  BY <1>0, <1>3, <1>t, <1>r, <1>u, SetScanStaysOut
  DEF StartQueued, Release, SettleRetry, SettleCancelled, SettleTerminal, At
<1>4. ASSUME NEW r \in Runs, Publish(r)
      PROVE  StaysOut
  <2>1. run[r].local \in NotWaiting /\ Mine(r) \in Scans
    BY <1>0, <1>4, <1>r DEF Publish, At, RunTyped, NotWaiting
  <2> QED
    BY <1>0, <1>4, <2>1, SetScanStaysOut DEF Publish
<1> QED
  BY <1>1, <1>2, <1>3, <1>4, <1>u
  DEF Next, RunStep, ScanStep, Execute, Settle, vars, AskScan, VerifyReads, VerifySucceeds,
      VerifyFails, ClaimBounces, ReadScan, StartTooLate, ReadWhoStarted, ExecutionFails, ReadCancellation,
      ReleaseFails, HandleFailure, SettleFails, RetryDue, LeaseExpires, Heartbeat, Crash

(* No step of a worker, a user or the environment puts a scan that was     *)
(* asked to stop back to work or counts it as failed.                      *)
THEOREM CancelledWorkIsNotRetriedHolds == Spec => CancelledWorkIsNotRetried
<1>1. TypeOK /\ [Next]_vars =>
        [\A s \in Scans : scan[s].status \in NotWaiting => scan'[s].status \in NotWaiting]_scan
  BY NotRetriedStep DEF StaysOut
<1> QED
  BY <1>1, TypeCorrect, PTL DEF Spec, CancelledWorkIsNotRetried

(* A run that settles has just decided how, or did before.                 *)
LEMMA SettlingFrom ==
  ASSUME TypeOK, [Next]_vars, NEW r \in Runs, run'[r].pc = "settling"
  PROVE  run'[r] = run[r] \/ HandleFailure(r)
<1>0. RunTyped
  BY TypeParts
<1>1. ASSUME NEW q \in Runs, NEW pc, NEW local, Goto(q, pc, local), pc # "settling"
      PROVE  run'[r] = run[r]
  BY <1>0, <1>1 DEF RunTyped, Goto
<1>2. ASSUME NEW q \in Runs, Finish(q)
      PROVE  run'[r] = run[r]
  BY <1>0, <1>2 DEF RunTyped, Finish, IdleRun
<1>3. ASSUME NEW q \in Runs, Claim(q)
      PROVE  run'[r] = run[r]
  BY <1>0, <1>3 DEF RunTyped, Claim
<1>4. ASSUME NEW q \in Runs, q # r, HandleFailure(q)
      PROVE  run'[r] = run[r]
  <2>1. PICK pc, local : Goto(q, pc, local)
    BY <1>4 DEF HandleFailure
  <2>2. run \in [Runs -> [pc: Pcs, scan: Scans \union {NoScan}, local: Locals]]
    BY <1>0 DEF RunTyped
  <2> QED
    BY <1>4, <2>1, <2>2 DEF Goto
<1>5. ASSUME NEW w \in Workers, Crash(w)
      PROVE  run'[r] = run[r]
  BY <1>0, <1>5 DEF RunTyped, Crash, IdleRun
<1>6. UNCHANGED run => run'[r] = run[r]
  OBVIOUS
<1> QED
  BY <1>1, <1>2, <1>3, <1>4, <1>5, <1>6, ZenonT(30)
  DEF Next, RunStep, ScanStep, Execute, Settle, vars, AskScan, EnqueueScan, CancelQueued,
      CancelRunning, ReplayDeadLetter, VerifyReads, VerifySucceeds, VerifyFails, ClaimBounces,
      ReadScan, StartQueued, StartTooLate, ReadWhoStarted, ExecutionFails, ReadCancellation, Publish, Release,
      ReleaseFails, SettleCancelled, SettleRetry, SettleTerminal, SettleFails, RetryDue,
      LeaseExpires, Heartbeat, RecoverExpiredLease

(* What handleFailure decides, from the scan and the job it read.          *)
LEMMA Decides ==
  ASSUME TypeOK, NEW r \in Runs, HandleFailure(r)
  PROVE  /\ run'[r].scan = run[r].scan
         /\ run'[r].local = "CANCELLED" => scan[Mine(r)].status = "CANCELLING"
         /\ run'[r].local = "DEAD_LETTER" => ~RetriesLeft(Mine(r))
<1>1. run \in [Runs -> [pc: Pcs, scan: Scans \union {NoScan}, local: Locals]]
  BY TypeParts DEF RunTyped
<1>2. PICK local : /\ Goto(r, "settling", local)
                   /\ local = "CANCELLED" => scan[Mine(r)].status = "CANCELLING"
                   /\ local = "DEAD_LETTER" => ~RetriesLeft(Mine(r))
  BY DEF HandleFailure
<1>3. run'[r].scan = run[r].scan /\ run'[r].local = local
  BY <1>1, <1>2 DEF Goto, Mine
<1> QED
  BY <1>2, <1>3

(* A run that starts settling a cancellation has just read it.             *)
LEMMA SettlingStep ==
  ASSUME TypeOK, [Next]_vars, NEW r \in Runs,
         run'[r].pc = "settling", run'[r].local = "CANCELLED"
  PROVE  /\ run'[r].scan = run[r].scan
         /\ \/ run[r].pc = "settling" /\ run[r].local = "CANCELLED"
            \/ scan[Mine(r)].status = "CANCELLING"
<1>1. CASE run'[r] = run[r]
  BY <1>1
<1>2. CASE HandleFailure(r)
  BY <1>2, Decides
<1> QED
  BY <1>1, <1>2, SettlingFrom

LEMMA LeaseInit == Init => LeaseInv
BY DEF Init, LeaseInv, LeasesAgree, Unleased, CancelSeen, IdleRun

LEMMA LeaseStep == TypeOK /\ LeaseInv /\ [Next]_vars => LeaseInv'
<1> SUFFICES ASSUME TypeOK, LeaseInv, [Next]_vars
             PROVE  LeaseInv'
  OBVIOUS
<1>0. ScanTyped /\ JobTyped /\ RunTyped /\ QueueTyped /\ RunTyped'
  BY TypeParts, TypeStep, PTL
<1>r. \A r \in Runs : run[r].pc # "idle" => Mine(r) \in Scans
  BY <1>0 DEF RunTyped, Mine
<1>w. \A r \in Runs : WorkerOf[r] # NoWorker
  BY OrchestratorAssumption DEF OrchestratorAssumption
<1> USE DEF LeaseInv, LeasesAgree, Unleased
<1>1. ASSUME NEW s \in Scans, EnqueueScan(s) PROVE LeasesAgree' /\ Unleased'
  <2>1. \A t \in Scans \ {s} : /\ scan'[t].status = scan[t].status
                                /\ scan'[t].leaseOwner = scan[t].leaseOwner
    BY <1>0, <1>1 DEF EnqueueScan, SetScan, ScanTyped
  <2>2. \A t \in Scans \ {s} : /\ job'[t].status = job[t].status
                                /\ job'[t].workerId = job[t].workerId
    BY <1>0, <1>1, SetJobFields DEF EnqueueScan
  <2>3. scan'[s].status # "RUNNING" /\ (scan'[s].status = "CANCELLED" \/ scan'[s].leaseOwner = NoWorker)
    BY <1>0, <1>1 DEF EnqueueScan, SetScan, ScanTyped
  <2> QED
    BY <2>1, <2>2, <2>3
<1>2. ASSUME NEW s \in Scans, CancelQueued(s) PROVE LeasesAgree' /\ Unleased'
  <2>1. \A t \in Scans \ {s} : /\ scan'[t].status = scan[t].status
                                /\ scan'[t].leaseOwner = scan[t].leaseOwner
    BY <1>0, <1>2 DEF CancelQueued, SetScan, ScanTyped
  <2>2. \A t \in Scans \ {s} : /\ job'[t].status = job[t].status
                                /\ job'[t].workerId = job[t].workerId
    BY <1>0, <1>2, SetJobFields DEF CancelQueued, UnleaseJob
  <2>3. scan'[s].status # "RUNNING" /\ (scan'[s].status = "CANCELLED" \/ scan'[s].leaseOwner = NoWorker)
    BY <1>0, <1>2 DEF CancelQueued, SetScan, ScanTyped
  <2> QED
    BY <2>1, <2>2, <2>3
<1>3. ASSUME NEW s \in Scans, CancelRunning(s) PROVE LeasesAgree' /\ Unleased'
  BY <1>0, <1>3, SetScanStatus DEF CancelRunning
<1>4. ASSUME NEW s \in Scans, ReplayDeadLetter(s) PROVE LeasesAgree' /\ Unleased'
  <2>1. \A t \in Scans \ {s} : /\ scan'[t].status = scan[t].status
                                /\ scan'[t].leaseOwner = scan[t].leaseOwner
    BY <1>0, <1>4 DEF ReplayDeadLetter, SetScan, ScanTyped
  <2>2. \A t \in Scans \ {s} : /\ job'[t].status = job[t].status
                                /\ job'[t].workerId = job[t].workerId
    BY <1>0, <1>4, SetJobFields DEF ReplayDeadLetter, UnleaseJob
  <2>3. scan'[s].status # "RUNNING" /\ (scan'[s].status = "CANCELLED" \/ scan'[s].leaseOwner = NoWorker)
    BY <1>0, <1>4 DEF ReplayDeadLetter, SetScan, ScanTyped
  <2> QED
    BY <2>1, <2>2, <2>3
<1>5. ASSUME NEW r \in Runs, Claim(r) PROVE LeasesAgree' /\ Unleased'
  <2>1. Head(queue) \in Scans
    BY <1>0, <1>5, HeadTailType DEF Claim, QueueTyped
  <2> QED
    BY <1>0, <1>5, <2>1, SetScanStatus, SetJobFields DEF Claim
<1>6. ASSUME NEW r \in Runs, ClaimBounces(r) PROVE LeasesAgree' /\ Unleased'
  <2>1. Head(queue) \in Scans
    BY <1>0, <1>6, HeadTailType DEF ClaimBounces, QueueTyped
  <2> QED
    BY <1>0, <1>6, <2>1, SetJobFields DEF ClaimBounces
<1>7. ASSUME NEW r \in Runs, StartQueued(r) PROVE LeasesAgree' /\ Unleased'
  BY <1>0, <1>7, <1>r, SetScanStatus DEF StartQueued, At
<1>8. ASSUME NEW r \in Runs, Publish(r) PROVE LeasesAgree' /\ Unleased'
  <2>1. run[r].local \in {"COMPLETED", "PARTIAL", "CANCELLED"} /\ Mine(r) \in Scans
    BY <1>0, <1>8, <1>r DEF Publish, At, RunTyped
  <2> QED
    BY <1>0, <1>8, <2>1, SetScanStatus DEF Publish
<1>9. ASSUME NEW r \in Runs, Release(r) PROVE LeasesAgree' /\ Unleased'
  <2>1. scan[Mine(r)].status # "RUNNING" /\ Mine(r) \in Scans
    BY <1>9, <1>r DEF Release, At, Terminal
  <2>2. \/ UNCHANGED scan
        \/ SetScan(Mine(r), scan[Mine(r)].status, FALSE, NoWorker)
    BY <1>9 DEF Release
  <2>3. UNCHANGED job \/ \E status : UnleaseJob(Mine(r), status)
    BY <1>9 DEF Release, SettleJob
  <2>4. \A t \in Scans \ {Mine(r)} : /\ scan'[t].status = scan[t].status
                                      /\ scan'[t].leaseOwner = scan[t].leaseOwner
    BY <1>0, <2>1, <2>2 DEF SetScan, ScanTyped
  <2>5. \A t \in Scans \ {Mine(r)} : /\ job'[t].status = job[t].status
                                      /\ job'[t].workerId = job[t].workerId
    BY <1>0, <2>1, <2>3, SetJobFields DEF UnleaseJob
  <2>6. /\ scan'[Mine(r)].status # "RUNNING"
        /\ scan'[Mine(r)].status = scan[Mine(r)].status \/ scan'[Mine(r)].status = "CANCELLED"
        /\ scan'[Mine(r)].leaseOwner \in {scan[Mine(r)].leaseOwner, NoWorker}
    BY <1>0, <2>1, <2>2 DEF SetScan, ScanTyped
  <2> QED
    BY <2>4, <2>5, <2>6
<1>10. ASSUME NEW r \in Runs, SettleCancelled(r) PROVE LeasesAgree' /\ Unleased'
  <2>1. scan[Mine(r)].status # "RUNNING" /\ Mine(r) \in Scans
    BY <1>10, <1>r DEF SettleCancelled, At, CancelSeen, NotWaiting
  <2>2. UNCHANGED scan \/ SetScan(Mine(r), "CANCELLED", FALSE, NoWorker)
    BY <1>10 DEF SettleCancelled
  <2>3. UNCHANGED job \/ \E status : UnleaseJob(Mine(r), status)
    BY <1>10 DEF SettleCancelled, SettleJob
  <2>4. \A t \in Scans \ {Mine(r)} : /\ scan'[t].status = scan[t].status
                                      /\ scan'[t].leaseOwner = scan[t].leaseOwner
    BY <1>0, <2>1, <2>2 DEF SetScan, ScanTyped
  <2>5. \A t \in Scans \ {Mine(r)} : /\ job'[t].status = job[t].status
                                      /\ job'[t].workerId = job[t].workerId
    BY <1>0, <2>1, <2>3, SetJobFields DEF UnleaseJob
  <2>6. /\ scan'[Mine(r)].status # "RUNNING"
        /\ scan'[Mine(r)].status = scan[Mine(r)].status \/ scan'[Mine(r)].status = "CANCELLED"
        /\ scan'[Mine(r)].leaseOwner \in {scan[Mine(r)].leaseOwner, NoWorker}
    BY <1>0, <2>1, <2>2 DEF SetScan, ScanTyped
  <2> QED
    BY <2>4, <2>5, <2>6
<1>11. ASSUME NEW r \in Runs, SettleRetry(r) \/ SettleTerminal(r) PROVE LeasesAgree' /\ Unleased'
  <2>1. Mine(r) \in Scans
    BY <1>11, <1>r DEF SettleRetry, SettleTerminal, At
  <2>2. \E status \in {"QUEUED", "FAILED", "DEAD_LETTER"}, key \in {scan[Mine(r)].activeKey, FALSE} :
          IF HoldsScan(r) /\ scan[Mine(r)].status = "RUNNING"
          THEN SetScan(Mine(r), status, key, NoWorker) ELSE UNCHANGED scan
    BY <1>11 DEF SettleRetry, SettleTerminal
  <2>3. \E status : IF HoldsJob(r) THEN UnleaseJob(Mine(r), status) ELSE UNCHANGED job
    BY <1>11 DEF SettleRetry, SettleTerminal, SettleJob
  <2>4. CASE scan[Mine(r)].status = "RUNNING" /\ HoldsScan(r)
    BY <1>0, <2>1, <2>2, <2>3, <2>4, SetScanStatus, SetJobFields DEF UnleaseJob
  <2>5. CASE ~(scan[Mine(r)].status = "RUNNING" /\ HoldsScan(r))
    BY <1>0, <1>w, <2>1, <2>2, <2>3, <2>5, SetScanStatus, SetJobFields
    DEF UnleaseJob, HoldsJob, HoldsScan
  <2> QED
    BY <2>4, <2>5
<1>12. ASSUME NEW s \in Scans, LeaseExpires(s) PROVE LeasesAgree' /\ Unleased'
  BY <1>0, <1>12, SetJobFields DEF LeaseExpires
<1>13. ASSUME NEW r \in Runs, Heartbeat(r) PROVE LeasesAgree' /\ Unleased'
  <2>1. Mine(r) \in Scans
    BY <1>0, <1>13 DEF Heartbeat, RunTyped, Mine
  <2> QED
    BY <1>0, <1>13, <2>1, SetJobFields DEF Heartbeat, HoldsJob
<1>14. ASSUME NEW s \in Scans, RecoverExpiredLease(s) PROVE LeasesAgree' /\ Unleased'
  <2>1. CASE scan[s].status = "RUNNING" /\ scan[s].leaseOwner # NoWorker
    BY <1>0, <1>14, <2>1, SetScanStatus, SetJobFields DEF RecoverExpiredLease, UnleaseJob
  <2>2. CASE ~(scan[s].status = "RUNNING" /\ scan[s].leaseOwner # NoWorker)
    BY <1>0, <1>14, <2>2, SetJobFields DEF RecoverExpiredLease, UnleaseJob
  <2> QED
    BY <2>1, <2>2
<1>15. ASSUME UNCHANGED <<scan, job>> PROVE LeasesAgree' /\ Unleased'
  BY <1>15
<1>16. LeasesAgree' /\ Unleased'
  BY <1>1, <1>2, <1>3, <1>4, <1>5, <1>6, <1>7, <1>8, <1>9, <1>10, <1>11, <1>12, <1>13, <1>14, <1>15
  DEF Next, RunStep, ScanStep, Execute, Settle, vars, AskScan, VerifyReads, VerifySucceeds,
      VerifyFails, ReadScan, StartTooLate, ReadWhoStarted, ExecutionFails, ReadCancellation,
      ReleaseFails, HandleFailure, SettleFails, RetryDue, Crash
<1>17. CancelSeen'
  <2> SUFFICES ASSUME NEW r \in Runs, run'[r].pc = "settling", run'[r].local = "CANCELLED"
               PROVE  scan'[Mine(r)'].status \in NotWaiting
    BY DEF CancelSeen, Mine
  <2>1. /\ run'[r].scan = run[r].scan
        /\ scan[Mine(r)].status \in NotWaiting
    BY SettlingStep DEF CancelSeen, NotWaiting
  <2>2. Mine(r) \in Scans /\ Mine(r)' = Mine(r)
    BY <1>0, <2>1 DEF Mine, RunTyped
  <2> QED
    BY <2>1, <2>2, NotRetriedStep DEF StaysOut
<1> QED
  BY <1>16, <1>17

(* A scan running under a lease has a running job leased to the same       *)
(* worker, in every environment.                                           *)
THEOREM LeasesAgreeHolds == Spec => []LeasesAgree
<1>1. LeaseInv => LeasesAgree
  BY DEF LeaseInv
<1> QED
  BY <1>1, LeaseInit, LeaseStep, TypeCorrect, PTL DEF Spec

-----------------------------------------------------------------------------
(* No queued scan is lost, no scan is given up early.                      *)

(* A scan that waits for a worker or for an operator has a job in the same *)
(* state.                                                                  *)
Waits == {"QUEUED", "DEAD_LETTER"}
Twins == \A s \in Scans : scan[s].status \in Waits => job[s].status = scan[s].status

LEMMA TwinsStay ==
  ASSUME Twins, NEW s \in Scans,
         \A t \in Scans \ {s} : /\ scan'[t].status = scan[t].status
                                /\ job'[t].status = job[t].status,
         \/ scan'[s].status \notin Waits
         \/ scan'[s].status = job'[s].status
         \/ /\ scan'[s].status = scan[s].status
            /\ job'[s].status = job[s].status \/ job[s].status = "RUNNING"
  PROVE  Twins'
<1>1. job[s].status = "RUNNING" => scan[s].status \notin Waits
  BY DEF Twins, Waits
<1>2. scan'[s].status \in Waits => job'[s].status = scan'[s].status
  BY <1>1 DEF Twins
<1> QED
  BY <1>2 DEF Twins

(* The conditional updates at the end of a run move a job only while this  *)
(* worker holds it, and its scan with it.                                  *)
LEMMA SettleTwins ==
  ASSUME TypeOK, LeaseInv, Twins, NEW r \in Runs, Mine(r) \in Scans, NEW jobStatus,
         SettleJob(r, jobStatus), NEW status, NEW key,
         \/ UNCHANGED scan
         \/ SetScan(Mine(r), status, key, NoWorker) /\ status \notin Waits
         \/ SetScan(Mine(r), status, key, NoWorker) /\ status = scan[Mine(r)].status
         \/ SetScan(Mine(r), status, key, NoWorker) /\ status = jobStatus /\ RunsScan(r)
  PROVE  Twins'
<1> DEFINE s == Mine(r)
<1>0. ScanTyped /\ JobTyped /\ WorkerOf[r] # NoWorker
  BY TypeParts, OrchestratorAssumption DEF OrchestratorAssumption
<1>1. /\ \A t \in Scans : t # s => job'[t].status = job[t].status
      /\ IF HoldsJob(r) THEN job'[s].status = jobStatus /\ job[s].status = "RUNNING"
         ELSE job'[s].status = job[s].status
  <2>1. CASE HoldsJob(r)
    <3>1. SetJob(s, jobStatus, job[s].attempt, NoWorker, "none") /\ job[s].status = "RUNNING"
      BY <2>1 DEF SettleJob, UnleaseJob, HoldsJob
    <3> QED
      BY <1>0, <2>1, <3>1, SetJobFields
  <2>2. CASE ~HoldsJob(r)
    BY <2>2 DEF SettleJob
  <2> QED
    BY <2>1, <2>2
<1>2. CASE UNCHANGED scan
  BY <1>1, <1>2, TwinsStay
<1>3. ASSUME SetScan(s, status, key, NoWorker)
      PROVE  \A t \in Scans : scan'[t].status = IF t = s THEN status ELSE scan[t].status
  BY <1>0, <1>3, SetScanStatus
<1>4. CASE SetScan(s, status, key, NoWorker) /\ (status \notin Waits \/ status = scan[s].status)
  BY <1>1, <1>3, <1>4, TwinsStay
<1>5. CASE SetScan(s, status, key, NoWorker) /\ status = jobStatus /\ RunsScan(r)
  <2>1. HoldsJob(r)
    BY <1>0, <1>5 DEF HoldsScan, HoldsJob, LeaseInv, LeasesAgree
  <2> QED
    BY <1>1, <1>3, <1>5, <2>1, TwinsStay
<1> QED
  BY <1>2, <1>4, <1>5

LEMMA TwinsStep == TypeOK /\ LeaseInv /\ Twins /\ [Next]_vars => Twins'
<1> SUFFICES ASSUME TypeOK, LeaseInv, Twins, [Next]_vars
             PROVE  Twins'
  OBVIOUS
<1>0. ScanTyped /\ JobTyped /\ RunTyped /\ QueueTyped
  BY TypeParts
<1>r. \A r \in Runs : run[r].pc # "idle" => Mine(r) \in Scans
  BY <1>0 DEF RunTyped, Mine
<1>w. {"NONE", "RUNNING", "CANCELLING", "CANCELLED", "COMPLETED", "PARTIAL", "FAILED"}
        \intersect Waits = {}
  BY DEF Waits
<1>u. UNCHANGED <<scan, job>> => Twins'
  BY DEF Twins
<1>s. ASSUME NEW s \in Scans, NEW status, UNCHANGED scan \/ \E key, owner : SetScan(s, status, key, owner)
      PROVE  /\ \A t \in Scans \ {s} : scan'[t].status = scan[t].status
             /\ UNCHANGED scan \/ scan'[s].status = status
  BY <1>0, <1>s, SetScanStatus
<1>j. ASSUME NEW s \in Scans, NEW status,
             UNCHANGED job \/ \E attempt, worker, lease : SetJob(s, status, attempt, worker, lease)
      PROVE  /\ \A t \in Scans \ {s} : job'[t].status = job[t].status
             /\ UNCHANGED job \/ job'[s].status = status
  BY <1>0, <1>j, SetJobFields
<1>1. ASSUME NEW s \in Scans, EnqueueScan(s) \/ ReplayDeadLetter(s)
      PROVE  Twins'
  <2>1. \E key, owner : SetScan(s, "QUEUED", key, owner)
    BY <1>1 DEF EnqueueScan, ReplayDeadLetter
  <2>2. \E attempt, worker, lease : SetJob(s, "QUEUED", attempt, worker, lease)
    <3>1. ReplayDeadLetter(s) => job[s].status = "DEAD_LETTER"
      BY DEF ReplayDeadLetter, Twins, Waits
    <3> QED
      BY <1>1, <3>1 DEF EnqueueScan, ReplayDeadLetter, UnleaseJob
  <2>3. \A t \in Scans : /\ scan'[t].status = IF t = s THEN "QUEUED" ELSE scan[t].status
                         /\ job'[t].status = IF t = s THEN "QUEUED" ELSE job[t].status
    BY <1>0, <2>1, <2>2, SetScanStatus, SetJobFields
  <2> QED
    BY <2>3, TwinsStay
<1>2. ASSUME NEW s \in Scans, CancelQueued(s)
      PROVE  Twins'
  <2>1. \E key, owner : SetScan(s, "CANCELLED", key, owner)
    BY <1>2 DEF CancelQueued
  <2>2. UNCHANGED job \/ \E attempt, worker, lease : SetJob(s, "CANCELLED", attempt, worker, lease)
    BY <1>2 DEF CancelQueued, UnleaseJob
  <2>3. \A t \in Scans : scan'[t].status = IF t = s THEN "CANCELLED" ELSE scan[t].status
    BY <1>0, <2>1, SetScanStatus
  <2> QED
    BY <1>j, <1>w, <2>2, <2>3, TwinsStay
<1>3. ASSUME NEW s \in Scans, NEW status \in {"RUNNING", "CANCELLING", "COMPLETED", "PARTIAL", "CANCELLED"},
             UNCHANGED job, \E key, owner : SetScan(s, status, key, owner)
      PROVE  Twins'
  <2>1. \A t \in Scans : scan'[t].status = IF t = s THEN status ELSE scan[t].status
    BY <1>0, <1>3, SetScanStatus
  <2> QED
    BY <1>3, <1>w, <2>1, TwinsStay
<1>4. ASSUME NEW r \in Runs, Claim(r) \/ ClaimBounces(r)
      PROVE  Twins'
  <2> DEFINE s == Head(queue)
  <2>1. s \in Scans /\ job[s].status = "QUEUED"
    BY <1>0, <1>4, HeadTailType DEF Claim, ClaimBounces, QueueTyped
  <2>2. CASE Claim(r)
    <3>1. /\ \E key, owner : SetScan(s, "RUNNING", key, owner)
          /\ \E attempt, worker, lease : SetJob(s, "RUNNING", attempt, worker, lease)
      BY <2>2 DEF Claim
    <3>2. \A t \in Scans : /\ scan'[t].status = IF t = s THEN "RUNNING" ELSE scan[t].status
                           /\ job'[t].status = IF t = s THEN "RUNNING" ELSE job[t].status
      BY <1>0, <2>1, <3>1, SetScanStatus, SetJobFields
    <3> QED
      BY <1>w, <2>1, <3>2, TwinsStay
  <2>3. CASE ClaimBounces(r)
    <3>1. UNCHANGED scan /\ \E attempt, worker, lease : SetJob(s, "QUEUED", attempt, worker, lease)
      BY <2>3 DEF ClaimBounces
    <3>2. \A t \in Scans : job'[t].status = job[t].status
      BY <1>0, <2>1, <3>1, SetJobFields
    <3> QED
      BY <2>1, <3>1, <3>2, TwinsStay
  <2> QED
    BY <1>4, <2>2, <2>3
<1>5. ASSUME NEW r \in Runs, Release(r) \/ SettleCancelled(r) \/ SettleRetry(r) \/ SettleTerminal(r)
      PROVE  Twins'
  <2>1. Mine(r) \in Scans
    BY <1>5, <1>r DEF Release, SettleCancelled, SettleRetry, SettleTerminal, At
  <2>2. CASE Release(r)
    <3>1. PICK jobStatus : SettleJob(r, jobStatus)
      BY <2>2 DEF Release
    <3>2. UNCHANGED scan \/ SetScan(Mine(r), scan[Mine(r)].status, FALSE, NoWorker)
      BY <2>2 DEF Release
    <3> QED
      BY <2>1, <3>1, <3>2, SettleTwins
  <2>3. CASE SettleCancelled(r)
    <3>1. /\ SettleJob(r, "CANCELLED")
          /\ UNCHANGED scan \/ SetScan(Mine(r), "CANCELLED", FALSE, NoWorker)
      BY <2>3 DEF SettleCancelled
    <3> QED
      BY <1>w, <2>1, <3>1, SettleTwins
  <2>4. CASE SettleRetry(r)
    <3>1. /\ SettleJob(r, "QUEUED")
          /\ \/ UNCHANGED scan
             \/ RunsScan(r) /\ SetScan(Mine(r), "QUEUED", scan[Mine(r)].activeKey, NoWorker)
      BY <2>4 DEF SettleRetry
    <3> QED
      BY <2>1, <3>1, SettleTwins
  <2>5. CASE SettleTerminal(r)
    <3>1. PICK status \in {"FAILED", "DEAD_LETTER"} :
            /\ SettleJob(r, IF status = "DEAD_LETTER" THEN "DEAD_LETTER" ELSE "COMPLETED")
            /\ UNCHANGED scan \/ (RunsScan(r) /\ SetScan(Mine(r), status, FALSE, NoWorker))
      BY <2>5 DEF SettleTerminal
    <3>2. CASE status = "FAILED"
      BY <1>w, <2>1, <3>1, <3>2, SettleTwins
    <3>3. CASE status = "DEAD_LETTER"
      BY <2>1, <3>1, <3>3, SettleTwins
    <3> QED
      BY <3>1, <3>2, <3>3
  <2> QED
    BY <1>5, <2>2, <2>3, <2>4, <2>5
<1>6. ASSUME NEW s \in Scans, RecoverExpiredLease(s)
      PROVE  Twins'
  <2>1. /\ job[s].status = "RUNNING"
        /\ \E attempt, worker, lease : SetJob(s, "QUEUED", attempt, worker, lease)
        /\ UNCHANGED scan \/ \E key, owner : SetScan(s, "QUEUED", key, owner)
    BY <1>6 DEF RecoverExpiredLease, UnleaseJob
  <2>2. \A t \in Scans : job'[t].status = IF t = s THEN "QUEUED" ELSE job[t].status
    BY <1>0, <2>1, SetJobFields
  <2>3. /\ \A t \in Scans \ {s} : scan'[t].status = scan[t].status
        /\ UNCHANGED scan \/ scan'[s].status = "QUEUED"
    BY <1>s, <2>1
  <2>4. CASE UNCHANGED scan
    BY <2>1, <2>2, <2>3, <2>4, TwinsStay
  <2>5. CASE scan'[s].status = "QUEUED"
    BY <2>2, <2>3, <2>5, TwinsStay
  <2> QED
    BY <2>3, <2>4, <2>5
<1>7. ASSUME NEW s \in Scans, UNCHANGED scan,
             \E attempt, worker, lease : SetJob(s, job[s].status, attempt, worker, lease)
      PROVE  Twins'
  <2>1. \A t \in Scans : job'[t].status = job[t].status
    BY <1>0, <1>7, SetJobFields
  <2> QED
    BY <1>7, <2>1, TwinsStay
<1>8. ASSUME NEW s \in Scans, LeaseExpires(s)
      PROVE  Twins'
  BY <1>7, <1>8 DEF LeaseExpires
<1>9. ASSUME NEW r \in Runs, Heartbeat(r)
      PROVE  Twins'
  <2>1. Mine(r) \in Scans /\ job[Mine(r)].status = "RUNNING" /\ UNCHANGED scan
    BY <1>0, <1>9 DEF Heartbeat, HoldsJob, RunTyped, Mine
  <2> QED
    BY <1>7, <1>9, <2>1 DEF Heartbeat
<1>10. ASSUME NEW r \in Runs, StartQueued(r) \/ Publish(r)
       PROVE  Twins'
  <2>1. Mine(r) \in Scans /\ UNCHANGED job
    BY <1>10, <1>r DEF StartQueued, Publish, At
  <2>2. Publish(r) => run[r].local \in {"COMPLETED", "PARTIAL", "CANCELLED"}
    BY <1>0 DEF Publish, At, RunTyped
  <2> QED
    BY <1>3, <1>10, <2>1, <2>2 DEF StartQueued, Publish
<1>11. ASSUME NEW s \in Scans, CancelRunning(s)
       PROVE  Twins'
  BY <1>3, <1>11 DEF CancelRunning
<1> QED
  BY <1>1, <1>2, <1>4, <1>5, <1>6, <1>8, <1>9, <1>10, <1>11, <1>u
  DEF Next, RunStep, ScanStep, Execute, Settle, vars, AskScan, VerifyReads, VerifySucceeds,
      VerifyFails, ReadScan, StartTooLate, ReadWhoStarted, ExecutionFails, ReadCancellation,
      ReleaseFails, HandleFailure, SettleFails, RetryDue, Crash

LEMMA TwinsHold == Spec => []Twins
<1>1. Init => Twins
  BY DEF Init, Twins, Waits
<1> QED
  BY <1>1, TwinsStep, LeaseInit, LeaseStep, TypeCorrect, PTL DEF Spec

(* No queued scan is lost: whatever dies, stalls or fails to settle, its   *)
(* job is queued with it.                                                  *)
THEOREM QueuedScanIsClaimableHolds == Spec => []QueuedScanIsClaimable
<1>1. Twins => QueuedScanIsClaimable
  BY DEF Twins, Waits, QueuedScanIsClaimable
<1> QED
  BY <1>1, TwinsHold, PTL

(* Attempts are counted up only, once there is a scan; a scan that exists  *)
(* stays.                                                                  *)
LEMMA AttemptsGrow ==
  ASSUME TypeOK, [Next]_vars, NEW t \in Scans, scan[t].status # "NONE"
  PROVE  job[t].attempt <= job'[t].attempt
<1>0. /\ JobTyped /\ RunTyped /\ QueueTyped /\ job[t].attempt \in Nat
      /\ \A r \in Runs : run[r].pc # "idle" => Mine(r) \in Scans
  BY TypeParts, OrchestratorAssumption DEF JobTyped, RunTyped, Mine, OrchestratorAssumption
<1>1. ASSUME NEW s \in Scans, NEW status, NEW attempt, NEW worker, NEW lease,
             SetJob(s, status, attempt, worker, lease),
             attempt \in {job[s].attempt, NextAttempt(job[s].attempt)} \/ s # t
      PROVE  job[t].attempt <= job'[t].attempt
  <2>1. job'[t].attempt = IF t = s THEN attempt ELSE job[t].attempt
    BY <1>0, <1>1, SetJobFields
  <2>2. t = s => attempt \in {job[t].attempt, job[t].attempt + 1}
    BY <1>1 DEF NextAttempt
  <2> QED
    BY <1>0, <2>1, <2>2
<1>u. UNCHANGED job => job[t].attempt <= job'[t].attempt
  BY <1>0
<1>2. ASSUME NEW s \in Scans,
             \/ EnqueueScan(s) \/ CancelQueued(s) \/ ReplayDeadLetter(s)
             \/ LeaseExpires(s) \/ RecoverExpiredLease(s)
      PROVE  job[t].attempt <= job'[t].attempt
  BY <1>1, <1>2, <1>u
  DEF EnqueueScan, CancelQueued, ReplayDeadLetter, LeaseExpires, RecoverExpiredLease, UnleaseJob
<1>3. ASSUME NEW r \in Runs, Claim(r) \/ ClaimBounces(r)
      PROVE  job[t].attempt <= job'[t].attempt
  <2>1. Head(queue) \in Scans
    BY <1>0, <1>3, HeadTailType DEF Claim, ClaimBounces, QueueTyped
  <2> QED
    BY <1>1, <1>3, <2>1 DEF Claim, ClaimBounces
<1>4. ASSUME NEW r \in Runs,
             \/ Release(r) \/ SettleCancelled(r) \/ SettleRetry(r) \/ SettleTerminal(r)
             \/ Heartbeat(r)
      PROVE  job[t].attempt <= job'[t].attempt
  <2>1. Mine(r) \in Scans
    BY <1>0, <1>4
    DEF Release, SettleCancelled, SettleRetry, SettleTerminal, Heartbeat, At, RunTyped, Mine
  <2>2. UNCHANGED job \/ \E status, worker, lease : SetJob(Mine(r), status, job[Mine(r)].attempt, worker, lease)
    BY <1>4
    DEF Release, SettleCancelled, SettleRetry, SettleTerminal, Heartbeat, SettleJob, UnleaseJob
  <2> QED
    BY <1>1, <1>u, <2>1, <2>2
<1> QED
  BY <1>2, <1>3, <1>4, <1>u
  DEF Next, RunStep, ScanStep, Execute, Settle, vars, AskScan, CancelRunning, VerifyReads,
      VerifySucceeds, VerifyFails, ReadScan, StartQueued, StartTooLate, ReadWhoStarted,
      ExecutionFails, ReadCancellation, Publish, ReleaseFails, HandleFailure, SettleFails,
      RetryDue, Crash

(* The rows that runs work on exist, and no step removes one or gives a    *)
(* scan up but the settling of a run that decided so.                      *)
GivesUp(r, t) ==
  run[r].pc = "settling" /\ run[r].local = "DEAD_LETTER" /\ Mine(r) = t

LEMMA StatusStep ==
  ASSUME TypeOK, [Next]_vars, NEW t \in Scans
  PROVE  /\ scan[t].status # "NONE" => scan'[t].status # "NONE"
         /\ scan'[t].status = "DEAD_LETTER" =>
              scan[t].status = "DEAD_LETTER" \/ \E r \in Runs : GivesUp(r, t)
<1> DEFINE Stays == /\ scan[t].status # "NONE" => scan'[t].status # "NONE"
                    /\ scan'[t].status = "DEAD_LETTER" =>
                         scan[t].status = "DEAD_LETTER" \/ \E r \in Runs : GivesUp(r, t)
<1>0. /\ ScanTyped /\ RunTyped /\ QueueTyped
      /\ \A r \in Runs : run[r].pc # "idle" => Mine(r) \in Scans
  BY TypeParts DEF RunTyped, Mine
<1>u. UNCHANGED scan => Stays
  OBVIOUS
<1>1. ASSUME NEW s \in Scans, NEW status, NEW key, NEW owner, SetScan(s, status, key, owner),
             status \notin {"NONE", "DEAD_LETTER"} \/ status = scan[s].status
      PROVE  Stays
  <2>1. scan'[t].status = IF t = s THEN status ELSE scan[t].status
    BY <1>0, <1>1, SetScanStatus
  <2> QED
    BY <1>1, <2>1
<1>2. ASSUME NEW s \in Scans,
             \/ EnqueueScan(s) \/ CancelQueued(s) \/ CancelRunning(s)
             \/ ReplayDeadLetter(s) \/ RecoverExpiredLease(s)
      PROVE  Stays
  BY <1>1, <1>2, <1>u
  DEF EnqueueScan, CancelQueued, CancelRunning, ReplayDeadLetter, RecoverExpiredLease
<1>3. ASSUME NEW r \in Runs, Claim(r)
      PROVE  Stays
  <2>1. Head(queue) \in Scans
    BY <1>0, <1>3, HeadTailType DEF Claim, QueueTyped
  <2> QED
    BY <1>1, <1>3, <2>1 DEF Claim
<1>4. ASSUME NEW r \in Runs, StartQueued(r) \/ Release(r) \/ SettleCancelled(r) \/ SettleRetry(r)
      PROVE  Stays
  <2>1. Mine(r) \in Scans
    BY <1>0, <1>4 DEF StartQueued, Release, SettleCancelled, SettleRetry, At
  <2> QED
    BY <1>1, <1>4, <1>u, <2>1 DEF StartQueued, Release, SettleCancelled, SettleRetry
<1>5. ASSUME NEW r \in Runs, Publish(r)
      PROVE  Stays
  <2>1. Mine(r) \in Scans /\ run[r].local \notin {"NONE", "DEAD_LETTER"}
    BY <1>0, <1>5 DEF Publish, At, RunTyped
  <2> QED
    BY <1>1, <1>5, <2>1 DEF Publish
<1>6. ASSUME NEW r \in Runs, SettleTerminal(r)
      PROVE  Stays
  <2>1. Mine(r) \in Scans /\ run[r].local \in {"FAILED", "DEAD_LETTER"}
    BY <1>0, <1>6 DEF SettleTerminal, At
  <2>2. UNCHANGED scan \/ \E key, owner : SetScan(Mine(r), run[r].local, key, owner)
    BY <1>6 DEF SettleTerminal
  <2>3. UNCHANGED scan \/ scan'[t].status = IF t = Mine(r) THEN run[r].local ELSE scan[t].status
    BY <1>0, <2>1, <2>2, SetScanStatus
  <2>4. run[r].local = "DEAD_LETTER" => GivesUp(r, Mine(r))
    BY <1>6 DEF GivesUp, SettleTerminal, At
  <2> QED
    BY <1>u, <2>1, <2>3, <2>4
<1> QED
  BY <1>2, <1>3, <1>4, <1>5, <1>6, <1>u
  DEF Next, RunStep, ScanStep, Execute, Settle, vars, AskScan, VerifyReads, VerifySucceeds,
      VerifyFails, ClaimBounces, ReadScan, StartTooLate, ReadWhoStarted, ExecutionFails, ReadCancellation,
      ReleaseFails, HandleFailure, SettleFails, RetryDue, LeaseExpires, Heartbeat, Crash

(* A run keeps its scan, gives it up or claims one.                        *)
LEMMA RunScanStep ==
  ASSUME TypeOK, [Next]_vars, NEW r \in Runs
  PROVE  \/ Mine(r)' = Mine(r) \/ Mine(r)' = NoScan
         \/ scan'[Mine(r)'].status = "RUNNING"
<1>0. ScanTyped /\ RunTyped /\ QueueTyped
  BY TypeParts
<1> DEFINE Follows == \/ Mine(r)' = Mine(r) \/ Mine(r)' = NoScan
                      \/ scan'[Mine(r)'].status = "RUNNING"
<1>1. ASSUME NEW q \in Runs, NEW pc, NEW local, Goto(q, pc, local)
      PROVE  Follows
  BY <1>0, <1>1 DEF RunTyped, Goto, Mine
<1>2. ASSUME NEW q \in Runs, Finish(q)
      PROVE  Follows
  BY <1>0, <1>2 DEF RunTyped, Finish, IdleRun, Mine
<1>3. ASSUME NEW q \in Runs, Claim(q)
      PROVE  Follows
  <2>1. Head(queue) \in Scans
    BY <1>0, <1>3, HeadTailType DEF Claim, QueueTyped
  <2>2. scan'[Head(queue)].status = "RUNNING"
    BY <1>0, <1>3, <2>1, SetScanStatus DEF Claim
  <2>3. Mine(r)' = IF r = q THEN Head(queue) ELSE Mine(r)
    BY <1>0, <1>3 DEF Claim, RunTyped, Mine
  <2> QED
    BY <2>2, <2>3
<1>4. ASSUME NEW w \in Workers, Crash(w)
      PROVE  Follows
  BY <1>0, <1>4 DEF RunTyped, Crash, IdleRun, Mine
<1>5. UNCHANGED run => Follows
  BY DEF Mine
<1> HIDE DEF Follows
<1>6. Follows
  BY <1>1, <1>2, <1>3, <1>4, <1>5, ZenonT(30)
  DEF Next, RunStep, ScanStep, Execute, Settle, vars, AskScan, EnqueueScan, CancelQueued,
      CancelRunning, ReplayDeadLetter, VerifyReads, VerifySucceeds, VerifyFails, ClaimBounces,
      ReadScan, StartQueued, StartTooLate, ReadWhoStarted, ExecutionFails, ReadCancellation, Publish, Release,
      ReleaseFails, HandleFailure, SettleCancelled, SettleRetry, SettleTerminal, SettleFails,
      RetryDue, LeaseExpires, Heartbeat, RecoverExpiredLease
<1> QED
  BY <1>6 DEF Follows

(* The retries of a scan that was, or is being, given up are spent.        *)
SpentInv ==
  /\ \A r \in Runs : Mine(r) # NoScan => scan[Mine(r)].status # "NONE"
  /\ \A s \in Scans : scan[s].status = "DEAD_LETTER" => job[s].attempt > MaxRetries
  /\ \A r \in Runs, s \in Scans : GivesUp(r, s) => job[s].attempt > MaxRetries

LEMMA SpentStep ==
  ASSUME TypeOK, SpentInv, [Next]_vars
  PROVE  SpentInv'
<1>0. /\ MaxRetries \in Nat
      /\ \A s \in Scans : job[s].attempt \in Nat /\ job'[s].attempt \in Nat
      /\ \A r \in Runs : Mine(r) \in Scans \union {NoScan} /\ Mine(r)' \in Scans \union {NoScan}
      /\ NoScan \notin Scans
  <2>1. TypeOK'
    BY TypeStep
  <2>2. JobTyped /\ JobTyped' /\ RunTyped /\ RunTyped'
    BY <2>1, TypeParts, PTL
  <2> QED
    BY <2>2, OrchestratorAssumption DEF OrchestratorAssumption, JobTyped, RunTyped, Mine
<1>1. \A r \in Runs : Mine(r)' # NoScan => scan'[Mine(r)'].status # "NONE"
  BY <1>0, RunScanStep, StatusStep DEF SpentInv
<1>2. ASSUME NEW s \in Scans, scan[s].status # "NONE", job[s].attempt > MaxRetries
      PROVE  job'[s].attempt > MaxRetries
  BY <1>0, <1>2, AttemptsGrow
<1>3. ASSUME NEW r \in Runs, NEW s \in Scans, GivesUp(r, s)
      PROVE  scan[s].status # "NONE" /\ job[s].attempt > MaxRetries
  BY <1>0, <1>3 DEF SpentInv, GivesUp
<1>4. ASSUME NEW s \in Scans, scan'[s].status = "DEAD_LETTER"
      PROVE  job'[s].attempt > MaxRetries
  <2>1. CASE scan[s].status = "DEAD_LETTER"
    BY <1>2, <2>1 DEF SpentInv
  <2>2. CASE \E r \in Runs : GivesUp(r, s)
    BY <1>2, <1>3, <2>2
  <2> QED
    BY <1>4, <2>1, <2>2, StatusStep
<1>5. ASSUME NEW r \in Runs, NEW s \in Scans, GivesUp(r, s)'
      PROVE  job'[s].attempt > MaxRetries
  <2>1. run'[r].pc = "settling" /\ run'[r].local = "DEAD_LETTER" /\ run'[r].scan = s
    BY <1>5 DEF GivesUp, Mine
  <2>2. CASE run'[r] = run[r]
    <3>1. GivesUp(r, s)
      BY <2>1, <2>2 DEF GivesUp, Mine
    <3> QED
      BY <1>2, <1>3, <3>1
  <2>3. CASE HandleFailure(r)
    <3>1. Mine(r) = s /\ ~RetriesLeft(s)
      BY <2>1, <2>3, Decides DEF Mine
    <3>2. scan[s].status # "NONE"
      BY <1>0, <3>1 DEF SpentInv
    <3>3. job[s].attempt > MaxRetries
      BY <1>0, <3>1 DEF RetriesLeft
    <3> QED
      BY <1>2, <3>2, <3>3
  <2> QED
    BY <2>1, <2>2, <2>3, SettlingFrom
<1> QED
  BY <1>1, <1>4, <1>5 DEF SpentInv

(* A scan is given up only after its retries, in every environment, and    *)
(* what is given up can be replayed: its job is a dead letter too.         *)
THEOREM DeadLettersAreExhaustedHolds == Spec => []DeadLettersAreExhausted
<1>1. Init => SpentInv
  BY DEF Init, SpentInv, GivesUp, IdleRun, Mine
<1>2. TypeOK /\ SpentInv /\ [Next]_vars => SpentInv'
  BY SpentStep
<1>3. Twins /\ SpentInv => DeadLettersAreExhausted
  BY DEF Twins, Waits, SpentInv, DeadLettersAreExhausted
<1> QED
  BY <1>1, <1>2, <1>3, TwinsHold, TypeCorrect, PTL DEF Spec

-----------------------------------------------------------------------------
(* While leases are kept.                                                  *)
LeasesKept == "stall" \notin Environment

(* A run that has a scan holds its job's lease, which has not run out: the *)
(* process lives and the heartbeat keeps it.                               *)
Leased(r) ==
  Mine(r) # NoScan =>
    /\ Mine(r) \in Scans /\ WorkerOf[r] \notin down
    /\ job[Mine(r)].status = "RUNNING" /\ job[Mine(r)].workerId = WorkerOf[r]
    /\ job[Mine(r)].lease # "expired"

(* A run that executes a scan executes one that is in progress, and has no *)
(* need to start it.                                                       *)
Executing(r) ==
  /\ run[r].pc \notin {"starting", "late"}
  /\ run[r].pc \in {"claimed", "executing", "publishing"} =>
       scan[Mine(r)].status \in {"RUNNING", "CANCELLING"}

(* A scan that does not exist has no job.                                  *)
JobsOfScans == \A s \in Scans : scan[s].status = "NONE" => job[s].status = "NONE"

ExecInv ==
  /\ JobsOfScans /\ OneExecutor
  /\ \A r \in Runs : Leased(r) /\ Executing(r)

(* A process dies with its runs and no others.                             *)
LEMMA CrashFields ==
  ASSUME RunTyped, NEW w, Crash(w)
  PROVE  \A q \in Runs :
           IF WorkerOf[q] = w THEN run'[q].pc = "idle" /\ run'[q].local = "-" /\ Mine(q)' = NoScan
           ELSE run'[q] = run[q]
  BY DEF RunTyped, Crash, IdleRun, Mine

(* A run whose rows are left alone stays as it is.                         *)
LEMMA RunStays ==
  ASSUME RunTyped, NEW q \in Runs, Leased(q), Executing(q),
         run'[q].pc = run[q].pc, Mine(q)' = Mine(q), Mine(q) # NoScan => WorkerOf[q] \notin down',
         Mine(q) # NoScan =>
           /\ job'[Mine(q)].status = job[Mine(q)].status
           /\ job'[Mine(q)].workerId = job[Mine(q)].workerId
           /\ job'[Mine(q)].lease = job[Mine(q)].lease
           /\ scan[Mine(q)].status \in {"RUNNING", "CANCELLING"} =>
                scan'[Mine(q)].status \in {"RUNNING", "CANCELLING"}
  PROVE  Leased(q)' /\ Executing(q)'
  BY DEF RunTyped, Leased, Executing, Mine

LEMMA SetScanElsewhere ==
  ASSUME ScanTyped, NEW s, NEW status, NEW key, NEW owner, SetScan(s, status, key, owner)
  PROVE  \A t \in Scans \ {s} : scan'[t] = scan[t]
BY DEF SetScan, ScanTyped

(* An operation on a scan that a run has leaves the job alone.             *)
LEMMA ScanStepStays ==
  ASSUME LeasesKept, TypeOK, ExecInv, NEW s \in Scans, ScanStep(s)
  PROVE  ExecInv'
<1>0. ScanTyped /\ JobTyped /\ RunTyped /\ UNCHANGED <<run, down>>
  BY TypeParts DEF ScanStep, AskScan, EnqueueScan, CancelQueued, CancelRunning, ReplayDeadLetter,
                   RetryDue, LeaseExpires, RecoverExpiredLease
<1>n. s # NoScan
  BY OrchestratorAssumption DEF OrchestratorAssumption
<1> DEFINE Same(t) == /\ job'[t].status = job[t].status /\ job'[t].workerId = job[t].workerId
                      /\ job'[t].lease = job[t].lease
           On(t) == scan[t].status \in {"RUNNING", "CANCELLING"} =>
                      scan'[t].status \in {"RUNNING", "CANCELLING"}
           None(t) == scan'[t].status = "NONE" => job'[t].status = "NONE"
<1>1. CASE UNCHANGED <<scan, job>>
  <2>1. \A t \in Scans : Same(t) /\ On(t) /\ None(t)
    BY <1>1 DEF ExecInv, JobsOfScans
  <2> QED
    BY <1>0, <2>1, RunStays DEF ExecInv, JobsOfScans, OneExecutor, Mine, Leased
<1>2. CASE EnqueueScan(s)
  <2>1. \A t \in Scans : t # s => Same(t) /\ scan'[t].status = scan[t].status
    <3>1. \A t \in Scans : t # s => Same(t)
      BY <1>0, <1>2, SetJobFields DEF EnqueueScan
    <3>2. SetScan(s, "QUEUED", TRUE, NoWorker)
      BY <1>2 DEF EnqueueScan
    <3>3. \A t \in Scans \ {s} : scan'[t] = scan[t]
      BY <1>0, <3>2, SetScanElsewhere, Zenon
    <3> HIDE DEF Same
    <3> QED
      BY <3>1, <3>3
  <2>2. job[s].status = "NONE" /\ scan'[s].status = "QUEUED"
    <3>1. scan[s].status = "NONE" /\ SetScan(s, "QUEUED", TRUE, NoWorker)
      BY <1>2 DEF EnqueueScan
    <3> QED
      BY <1>0, <3>1, SetScanStatus DEF ExecInv, JobsOfScans
  <2>3. \A q \in Runs : Mine(q) # s
    BY <1>n, <2>2 DEF ExecInv, Leased
  <2> QED
    BY <1>0, <2>1, <2>2, <2>3, RunStays DEF ExecInv, JobsOfScans, OneExecutor, Mine, Leased
<1>3. CASE CancelQueued(s) \/ ReplayDeadLetter(s)
  <2>1. \A t \in Scans : /\ t # s => Same(t) /\ scan'[t].status = scan[t].status
                         /\ job[t].status = "RUNNING" => Same(t)
    <3>1. UNCHANGED job \/ (job[s].status # "RUNNING" /\ \E status : UnleaseJob(s, status))
      BY <1>3 DEF CancelQueued, ReplayDeadLetter
    <3>2. \A t \in Scans : t # s \/ job[t].status = "RUNNING" => Same(t)
      BY <1>0, <3>1, SetJobFields DEF UnleaseJob
    <3>3. \E status, key, owner : SetScan(s, status, key, owner)
      BY <1>3 DEF CancelQueued, ReplayDeadLetter
    <3>4. \A t \in Scans : t # s => scan'[t].status = scan[t].status
      BY <1>0, <3>3, SetScanStatus
    <3> QED
      BY <3>2, <3>4
  <2>2. scan[s].status \in {"QUEUED", "DEAD_LETTER"} /\ scan'[s].status \in {"QUEUED", "CANCELLED"}
    <3>1. /\ scan[s].status \in {"QUEUED", "DEAD_LETTER"}
          /\ \E status \in {"QUEUED", "CANCELLED"} : \E key, owner : SetScan(s, status, key, owner)
      BY <1>3 DEF CancelQueued, ReplayDeadLetter
    <3> QED
      BY <1>0, <3>1, SetScanStatus
  <2> QED
    BY <1>0, <2>1, <2>2, RunStays DEF ExecInv, JobsOfScans, OneExecutor, Mine, Leased
<1>4. CASE CancelRunning(s)
  <2>1. \A t \in Scans : Same(t) /\ On(t) /\ None(t)
    BY <1>0, <1>4, SetScanStatus DEF CancelRunning, ExecInv, JobsOfScans
  <2> QED
    BY <1>0, <2>1, RunStays DEF ExecInv, JobsOfScans, OneExecutor, Mine, Leased
<1>5. CASE LeaseExpires(s)
  <2>1. \A t \in Scans : /\ t # s => Same(t)
                         /\ job'[t].status = job[t].status
    BY <1>0, <1>5, SetJobFields DEF LeaseExpires
  <2>2. \A q \in Runs : Mine(q) # s
    BY <1>5, <1>n DEF LeaseExpires, LeasesKept, Heartbeating, ExecInv, Leased
  <2>3. UNCHANGED scan
    BY <1>5 DEF LeaseExpires
  <2> QED
    BY <1>0, <2>1, <2>2, <2>3, RunStays DEF ExecInv, JobsOfScans, OneExecutor, Mine, Leased
<1>6. CASE RecoverExpiredLease(s)
  <2>1. \A t \in Scans : t # s => Same(t) /\ scan'[t].status = scan[t].status
    <3>1. \A t \in Scans : t # s => Same(t)
      BY <1>0, <1>6, SetJobFields DEF RecoverExpiredLease, UnleaseJob
    <3>2. \A t \in Scans : t # s => scan'[t].status = scan[t].status
      BY <1>0, <1>6, SetScanStatus DEF RecoverExpiredLease
    <3> QED
      BY <3>1, <3>2
  <2>2. \A q \in Runs : Mine(q) # s
    BY <1>6, <1>n DEF RecoverExpiredLease, ExecInv, Leased
  <2>3. scan'[s].status # "NONE"
    BY <1>0, <1>6, SetScanStatus DEF RecoverExpiredLease, ExecInv, JobsOfScans
  <2> QED
    BY <1>0, <2>1, <2>2, <2>3, RunStays DEF ExecInv, JobsOfScans, OneExecutor, Mine, Leased
<1> QED
  BY <1>1, <1>2, <1>3, <1>4, <1>5, <1>6 DEF ScanStep, AskScan, RetryDue

(* What a step of a run may change besides the run.                        *)
LEMMA RunStepElsewhere ==
  ASSUME TypeOK, ExecInv, NEW r \in Runs, RunStep(r), NEW t \in Scans, t # Mine(r)
  PROVE  /\ \/ job'[t].status = job[t].status /\ job'[t].workerId = job[t].workerId
               /\ job'[t].lease = job[t].lease
            \/ /\ Mine(r) = NoScan /\ job[t].status = "QUEUED"
               /\ scan[t].status # "NONE"
         /\ \/ scan'[t] = scan[t]
            \/ Mine(r) = NoScan /\ job[t].status = "QUEUED" /\ scan'[t].status = "RUNNING"
<1>0. ScanTyped /\ JobTyped /\ RunTyped /\ QueueTyped /\ (run[r].pc # "idle" => Mine(r) \in Scans)
  BY TypeParts DEF RunTyped, Mine
<1>n. job[t].status = "QUEUED" => scan[t].status # "NONE"
  BY DEF ExecInv, JobsOfScans
<1>1. CASE UNCHANGED <<scan, job>>
  BY <1>1
<1>2. CASE Claim(r) \/ ClaimBounces(r)
  <2>1. Head(queue) \in Scans /\ Mine(r) = NoScan
    BY <1>0, <1>2, HeadTailType DEF Claim, ClaimBounces, QueueTyped, RunTyped, At, Mine
  <2>2. \/ job'[t].status = job[t].status /\ job'[t].workerId = job[t].workerId
           /\ job'[t].lease = job[t].lease
        \/ job[t].status = "QUEUED"
    BY <1>0, <1>2, <2>1, SetJobFields DEF Claim, ClaimBounces
  <2>3. \/ scan'[t] = scan[t]
        \/ job[t].status = "QUEUED" /\ scan'[t].status = "RUNNING"
    BY <1>0, <1>2, <2>1, SetScanStatus, SetScanElsewhere DEF Claim, ClaimBounces
  <2> QED
    BY <1>n, <2>1, <2>2, <2>3
<1>3. ASSUME Mine(r) \in Scans, UNCHANGED job \/ \E status : UnleaseJob(Mine(r), status)
      PROVE  /\ job'[t].status = job[t].status /\ job'[t].workerId = job[t].workerId
             /\ job'[t].lease = job[t].lease
  BY <1>0, <1>3, SetJobFields DEF UnleaseJob
<1>4. ASSUME Mine(r) \in Scans,
             UNCHANGED scan \/ \E status, key, owner : SetScan(Mine(r), status, key, owner)
      PROVE  scan'[t] = scan[t]
  BY <1>0, <1>4, SetScanElsewhere
<1>5. CASE StartQueued(r) \/ Publish(r)
  BY <1>0, <1>4, <1>5 DEF StartQueued, Publish, At
<1>6. CASE Release(r) \/ SettleCancelled(r) \/ SettleRetry(r) \/ SettleTerminal(r)
  <2>1. Mine(r) \in Scans
    BY <1>0, <1>6 DEF Release, SettleCancelled, SettleRetry, SettleTerminal, At
  <2>2. UNCHANGED job \/ \E status : UnleaseJob(Mine(r), status)
    BY <1>6 DEF Release, SettleCancelled, SettleRetry, SettleTerminal, SettleJob
  <2>3. UNCHANGED scan \/ \E status, key, owner : SetScan(Mine(r), status, key, owner)
    BY <1>6 DEF Release, SettleCancelled, SettleRetry, SettleTerminal
  <2> QED
    BY <1>3, <1>4, <2>1, <2>2, <2>3
<1>7. CASE Heartbeat(r)
  BY <1>0, <1>7, SetJobFields DEF Heartbeat, RunTyped, Mine
<1> QED
  BY <1>1, <1>2, <1>5, <1>6, <1>7
  DEF RunStep, Execute, Settle, ReadScan, StartTooLate, ReadWhoStarted, ReadCancellation,
      ReleaseFails, HandleFailure, ExecutionFails, SettleFails

(* What a step of a run does to the run itself.                            *)
OnlyRun(r) == UNCHANGED down /\ \A q \in Runs : q # r => run'[q] = run[q]
KeepsOrFinishes(r) == Mine(r)' = Mine(r) \/ Mine(r)' = NoScan

LEMMA GotoKeeps ==
  ASSUME TypeOK, ExecInv, NEW r \in Runs, run[r].pc # "idle", UNCHANGED <<job, down>>,
         NEW pc \in Pcs \ {"idle", "starting", "late"}, NEW local, Goto(r, pc, local),
         pc \in {"claimed", "executing", "publishing"} =>
           scan'[Mine(r)].status \in {"RUNNING", "CANCELLING"}
  PROVE  Leased(r)' /\ Executing(r)' /\ OnlyRun(r) /\ KeepsOrFinishes(r)
<1>0. RunTyped /\ Leased(r)
  BY TypeParts DEF ExecInv
<1>1. run'[r].pc = pc /\ Mine(r)' = Mine(r) /\ \A q \in Runs : q # r => run'[q] = run[q]
  BY <1>0 DEF RunTyped, Goto, Mine
<1> QED
  BY <1>0, <1>1 DEF Leased, Executing, OnlyRun, KeepsOrFinishes

LEMMA FinishKeeps ==
  ASSUME RunTyped, NEW r \in Runs, Finish(r), UNCHANGED down
  PROVE  Leased(r)' /\ Executing(r)' /\ OnlyRun(r) /\ KeepsOrFinishes(r)
<1>1. run'[r].pc = "idle" /\ Mine(r)' = NoScan /\ \A q \in Runs : q # r => run'[q] = run[q]
  BY DEF RunTyped, Finish, IdleRun, Mine
<1> QED
  BY <1>1 DEF Leased, Executing, OnlyRun, KeepsOrFinishes

LEMMA ClaimTakes ==
  ASSUME TypeOK, NEW r \in Runs, Claim(r)
  PROVE  /\ Leased(r)' /\ Executing(r)' /\ OnlyRun(r)
         /\ Mine(r)' \in Scans /\ job[Mine(r)'].status = "QUEUED"
<1>0. ScanTyped /\ JobTyped /\ RunTyped /\ QueueTyped
  BY TypeParts
<1> DEFINE s == Head(queue)
<1>1. s \in Scans /\ job[s].status = "QUEUED" /\ UNCHANGED down /\ WorkerOf[r] \notin down
  BY <1>0, HeadTailType DEF Claim, QueueTyped, At
<1>2. run'[r].pc = "claimed" /\ Mine(r)' = s /\ \A q \in Runs : q # r => run'[q] = run[q]
  BY <1>0 DEF RunTyped, Claim, Mine
<1>3. scan'[s].status = "RUNNING"
  BY <1>0, <1>1, SetScanStatus DEF Claim
<1>4. job'[s].status = "RUNNING" /\ job'[s].workerId = WorkerOf[r] /\ job'[s].lease = "live"
  BY <1>0, <1>1, SetJobFields DEF Claim
<1> QED
  BY <1>1, <1>2, <1>3, <1>4 DEF Leased, Executing, OnlyRun

LEMMA RunStepOwn ==
  ASSUME TypeOK, ExecInv, NEW r \in Runs, RunStep(r)
  PROVE  /\ Leased(r)' /\ Executing(r)' /\ OnlyRun(r)
         /\ KeepsOrFinishes(r) \/ (Mine(r)' \in Scans /\ job[Mine(r)'].status = "QUEUED")
<1>0. /\ ScanTyped /\ JobTyped /\ RunTyped
      /\ run[r].pc # "idle" => Mine(r) \in Scans
      /\ Leased(r) /\ Executing(r) /\ NoScan \notin Scans
  BY TypeParts, OrchestratorAssumption DEF RunTyped, Mine, ExecInv, OrchestratorAssumption
<1>1. CASE Claim(r)
  BY <1>1, ClaimTakes
<1>2. CASE ClaimBounces(r)
  BY <1>0, <1>2 DEF ClaimBounces, At, RunTyped, Mine, Leased, Executing, OnlyRun, KeepsOrFinishes
<1>3. CASE Heartbeat(r)
  <2>1. /\ job'[Mine(r)].status = "RUNNING" /\ job'[Mine(r)].workerId = WorkerOf[r]
        /\ job'[Mine(r)].lease = "live"
    BY <1>0, <1>3, SetJobFields DEF Heartbeat, RunTyped, Mine
  <2> QED
    BY <1>0, <1>3, <2>1 DEF Heartbeat, Leased, Executing, OnlyRun, KeepsOrFinishes, Mine
<1>4. CASE Release(r) \/ SettleCancelled(r) \/ SettleRetry(r) \/ SettleTerminal(r) \/ SettleFails(r)
  BY <1>0, <1>4, FinishKeeps DEF Release, SettleCancelled, SettleRetry, SettleTerminal, SettleFails
<1>5. CASE StartQueued(r) \/ StartTooLate(r) \/ ReadWhoStarted(r)
  BY <1>0, <1>5 DEF StartQueued, StartTooLate, ReadWhoStarted, At, Executing
<1>6. CASE ReadScan(r)
  <2>1. run[r].pc # "idle" /\ UNCHANGED <<job, down>> /\ Goto(r, "executing", "-")
        /\ scan'[Mine(r)].status \in {"RUNNING", "CANCELLING"}
    BY <1>0, <1>6 DEF ReadScan, At, Executing
  <2> QED
    BY <2>1, GotoKeeps DEF Pcs
<1>7. CASE ReadCancellation(r)
  <2>1. run[r].pc # "idle" /\ UNCHANGED <<job, down>> /\ \E local : Goto(r, "publishing", local)
    BY <1>7 DEF ReadCancellation, At
  <2>2. scan'[Mine(r)].status \in {"RUNNING", "CANCELLING"}
    BY <1>0, <1>7 DEF ReadCancellation, At, Executing
  <2> QED
    BY <2>1, <2>2, GotoKeeps DEF Pcs
<1>8. CASE Publish(r) \/ ExecutionFails(r) \/ ReleaseFails(r) \/ HandleFailure(r)
  <2>1. /\ run[r].pc # "idle" /\ UNCHANGED <<job, down>>
        /\ \E pc \in {"releasing", "failed", "settling"} : \E local : Goto(r, pc, local)
    BY <1>8 DEF Publish, ExecutionFails, ReleaseFails, HandleFailure, At
  <2> QED
    BY <2>1, GotoKeeps DEF Pcs
<1> QED
  BY <1>1, <1>2, <1>3, <1>4, <1>5, <1>6, <1>7, <1>8 DEF RunStep, Execute, Settle

LEMMA ScansExist ==
  ASSUME TypeOK, ExecInv, NEW r \in Runs, RunStep(r), Mine(r) \in Scans
  PROVE  scan'[Mine(r)].status # "NONE"
<1>0. /\ ScanTyped /\ RunTyped /\ QueueTyped /\ Leased(r) /\ NoScan \notin Scans
      /\ scan[Mine(r)].status # "NONE"
  BY TypeParts, OrchestratorAssumption
  DEF RunTyped, Mine, ExecInv, OrchestratorAssumption, Leased, JobsOfScans
<1>1. CASE UNCHANGED scan
  BY <1>0, <1>1
<1>2. CASE Claim(r)
  BY <1>0, <1>2 DEF Claim, RunTyped, At, Mine
<1>3. ASSUME NEW status, NEW key, NEW owner, status # "NONE", SetScan(Mine(r), status, key, owner)
      PROVE  scan'[Mine(r)].status # "NONE"
  BY <1>0, <1>3, SetScanStatus
<1>4. CASE StartQueued(r) \/ Release(r) \/ SettleCancelled(r) \/ SettleRetry(r) \/ SettleTerminal(r)
  BY <1>0, <1>1, <1>3, <1>4 DEF StartQueued, Release, SettleCancelled, SettleRetry, SettleTerminal
<1>5. CASE Publish(r)
  <2>1. run[r].local # "NONE"
    BY <1>0, <1>5 DEF Publish, At, RunTyped
  <2> QED
    BY <1>3, <1>5, <2>1 DEF Publish
<1> QED
  BY <1>1, <1>2, <1>4, <1>5
  DEF RunStep, Execute, Settle, ClaimBounces, ReadScan, StartTooLate, ReadWhoStarted, ReadCancellation,
      ReleaseFails, HandleFailure, ExecutionFails, SettleFails, Heartbeat

LEMMA RunStepExec ==
  ASSUME TypeOK, ExecInv, NEW r \in Runs, RunStep(r)
  PROVE  ExecInv'
<1>0. RunTyped /\ NoScan \notin Scans /\ \A q \in Runs : Leased(q) /\ Executing(q)
  BY TypeParts, OrchestratorAssumption DEF ExecInv, OrchestratorAssumption
<1>1. \A q \in Runs : q # r => Mine(q)' = Mine(q) /\ run'[q] = run[q]
  BY RunStepOwn DEF OnlyRun, Mine
<1>2. ASSUME NEW q \in Runs, q # r
      PROVE  Leased(q)' /\ Executing(q)'
  <2>1. CASE Mine(q) = NoScan
    BY <1>0, <1>1, <1>2, <2>1, RunStays
  <2>2. CASE Mine(q) # NoScan
    <3>1. Mine(q) \in Scans /\ Mine(q) # Mine(r) /\ job[Mine(q)].status = "RUNNING"
      BY <1>0, <1>2, <2>2 DEF ExecInv, OneExecutor, Leased
    <3>2. WorkerOf[q] \notin down'
      BY <1>0, <2>2, RunStepOwn DEF Leased, OnlyRun
    <3>3. /\ job'[Mine(q)].status = job[Mine(q)].status
          /\ job'[Mine(q)].workerId = job[Mine(q)].workerId
          /\ job'[Mine(q)].lease = job[Mine(q)].lease
          /\ scan'[Mine(q)].status = scan[Mine(q)].status
      BY <3>1, RunStepElsewhere
    <3> QED
      BY <1>0, <1>1, <1>2, <3>2, <3>3, RunStays
  <2> QED
    BY <2>1, <2>2
<1>3. OneExecutor'
  <2>1. ASSUME NEW q \in Runs, q # r, Mine(q)' = Mine(r)', Mine(r)' # NoScan
        PROVE  FALSE
    <3>1. Mine(q) = Mine(r)' /\ job[Mine(q)].status = "RUNNING"
      BY <1>0, <1>1, <2>1 DEF Leased
    <3> QED
      BY <2>1, <3>1, RunStepOwn DEF KeepsOrFinishes, ExecInv, OneExecutor
  <2> QED
    BY <1>1, <2>1 DEF ExecInv, OneExecutor
<1>4. JobsOfScans'
  <2> SUFFICES ASSUME NEW t \in Scans, scan'[t].status = "NONE"
               PROVE  job'[t].status = "NONE"
    BY DEF JobsOfScans
  <2>1. t # Mine(r)
    BY ScansExist
  <2> QED
    BY <2>1, RunStepElsewhere DEF ExecInv, JobsOfScans
<1> QED
  BY <1>2, <1>3, <1>4, RunStepOwn DEF ExecInv

LEMMA ExecStep == LeasesKept /\ TypeOK /\ ExecInv /\ [Next]_vars => ExecInv'
<1> SUFFICES ASSUME LeasesKept, TypeOK, ExecInv, [Next]_vars
             PROVE  ExecInv'
  OBVIOUS
<1>0. RunTyped
  BY TypeParts
<1>1. ASSUME NEW r \in Runs, RunStep(r)
      PROVE  ExecInv'
  BY <1>1, RunStepExec
<1>2. ASSUME NEW s \in Scans, ScanStep(s)
      PROVE  ExecInv'
  BY <1>2, ScanStepStays
<1>3. CASE UNCHANGED <<scan, job, run, down>>
  BY <1>3 DEF ExecInv, JobsOfScans, OneExecutor, Leased, Executing, Mine
<1>4. ASSUME NEW w \in Workers, Crash(w)
      PROVE  ExecInv'
  <2>1. UNCHANGED <<scan, job>> /\ down' = down \union {w}
    BY <1>4 DEF Crash
  <2>2. \A q \in Runs :
          IF WorkerOf[q] = w THEN run'[q].pc = "idle" /\ Mine(q)' = NoScan
          ELSE run'[q].pc = run[q].pc /\ Mine(q)' = Mine(q)
    BY <1>0, <1>4, CrashFields DEF Mine
  <2>3. \A q \in Runs : Leased(q)' /\ Executing(q)'
    <3> SUFFICES ASSUME NEW q \in Runs
                 PROVE  Leased(q)' /\ Executing(q)'
      OBVIOUS
    <3>1. CASE WorkerOf[q] = w
      BY <2>2, <3>1 DEF Leased, Executing
    <3>2. CASE WorkerOf[q] # w
      BY <1>0, <2>1, <2>2, <3>2, RunStays DEF ExecInv, Leased
    <3> QED
      BY <3>1, <3>2
  <2>4. OneExecutor'
    BY <2>2 DEF ExecInv, OneExecutor
  <2> QED
    BY <2>1, <2>3, <2>4 DEF ExecInv, JobsOfScans
<1> QED
  BY <1>1, <1>2, <1>3, <1>4 DEF Next, vars, VerifyReads, VerifySucceeds, VerifyFails

LEMMA ExecInit == Init => ExecInv
  BY DEF Init, ExecInv, JobsOfScans, OneExecutor, Leased, Executing, Mine, IdleRun

LEMMA ExecInvHolds ==
  ASSUME LeasesKept
  PROVE  Spec => []ExecInv
  BY ExecInit, ExecStep, TypeCorrect, PTL DEF Spec

(* While leases are kept, a scan is executed by one run at a time, however *)
(* many workers die and whichever leases are recovered.                    *)
THEOREM OneExecutorHolds ==
  ASSUME LeasesKept
  PROVE  Spec => []OneExecutor
<1>1. ExecInv => OneExecutor
  BY DEF ExecInv
<1> QED
  BY <1>1, ExecInvHolds, PTL

(* A step that leaves the outcome of finished scans alone.                 *)
Stands ==
  \A s \in Scans :
    scan[s].status \in Terminal \ {"DEAD_LETTER"} => scan'[s].status = scan[s].status

LEMMA SetScanStands ==
  ASSUME ScanTyped, NEW s \in Scans, NEW status, NEW key, NEW owner,
         SetScan(s, status, key, owner),
         scan[s].status \in InProgress \union {"NONE", "DEAD_LETTER"} \/ status = scan[s].status
  PROVE  Stands
<1>1. \A x \in InProgress \union {"NONE", "DEAD_LETTER"} : x \notin Terminal \ {"DEAD_LETTER"}
  BY DEF InProgress, Terminal
<1> QED
  BY <1>1, SetScanStatus DEF Stands

(* While leases are kept, a finished scan keeps its outcome: the only      *)
(* unconditional write, the one that publishes it, comes from the run that *)
(* holds the scan's lease, and finds the scan in progress.                 *)
THEOREM FinishedScanStandsHolds ==
  ASSUME LeasesKept
  PROVE  Spec => FinishedScanStands
<1>1. TypeOK /\ ExecInv /\ [Next]_vars => Stands
  <2> SUFFICES ASSUME TypeOK, ExecInv, [Next]_vars
               PROVE  Stands
    OBVIOUS
  <2>0. ScanTyped /\ RunTyped /\ QueueTyped
    BY TypeParts
  <2>u. UNCHANGED scan => Stands
    BY DEF Stands
  <2>t. \A x \in {"NONE", "QUEUED", "RUNNING", "CANCELLING", "DEAD_LETTER"} :
          x \in InProgress \union {"NONE", "DEAD_LETTER"}
    BY DEF InProgress
  <2>r. \A r \in Runs : run[r].pc # "idle" => Mine(r) \in Scans
    BY <2>0 DEF RunTyped, Mine
  <2>1. ASSUME NEW s \in Scans,
               \/ EnqueueScan(s) \/ CancelQueued(s) \/ CancelRunning(s)
               \/ ReplayDeadLetter(s) \/ RecoverExpiredLease(s)
        PROVE  Stands
    BY <2>0, <2>1, <2>t, <2>u, SetScanStands
    DEF EnqueueScan, CancelQueued, CancelRunning, RecoverExpiredLease, ReplayDeadLetter
  <2>2. ASSUME NEW r \in Runs, Claim(r)
        PROVE  Stands
    BY <2>0, <2>2, <2>t, SetScanStands, HeadTailType DEF Claim, QueueTyped
  <2>3. ASSUME NEW r \in Runs, StartQueued(r) \/ SettleRetry(r) \/ SettleCancelled(r)
        PROVE  Stands
    BY <2>0, <2>3, <2>t, <2>r, <2>u, SetScanStands
    DEF StartQueued, SettleRetry, SettleCancelled, At, RunsScan, EndScan
  <2>4. ASSUME NEW r \in Runs, Release(r) \/ SettleTerminal(r)
        PROVE  Stands
    BY <2>0, <2>4, <2>t, <2>r, <2>u, SetScanStands
    DEF Release, SettleTerminal, At, RunsScan, EndScan
  <2>5. ASSUME NEW r \in Runs, Publish(r)
        PROVE  Stands
    <3>1. scan[Mine(r)].status \in {"RUNNING", "CANCELLING"} /\ Mine(r) \in Scans
      BY <2>5, <2>r DEF Publish, At, ExecInv, Executing
    <3> QED
      BY <2>0, <2>5, <2>t, <3>1, SetScanStands DEF Publish
  <2> QED
    BY <2>1, <2>2, <2>3, <2>4, <2>5, <2>u
    DEF Next, RunStep, ScanStep, Execute, Settle, vars, AskScan, VerifyReads, VerifySucceeds,
        VerifyFails, ClaimBounces, ReadScan, StartTooLate, ReadWhoStarted, ExecutionFails, ReadCancellation,
        ReleaseFails, HandleFailure, SettleFails, RetryDue, LeaseExpires, Heartbeat, Crash
<1>2. Stands => [\A s \in Scans :
                   scan[s].status \in Terminal \ {"DEAD_LETTER"} =>
                     scan'[s].status = scan[s].status]_scan
  BY DEF Stands
<1> QED
  BY <1>1, <1>2, ExecInvHolds, TypeCorrect, PTL DEF Spec, FinishedScanStands

-----------------------------------------------------------------------------
(* While leases are kept, transactions commit and either nothing is        *)
(* cancelled or no execution fails: a cancellation between handleFailure's *)
(* reading the scan and its settling it leaves the scan as it is.          *)
Uncancelled == "cancel" \notin Environment
Quiet == /\ LeasesKept /\ "dbError" \notin Environment
         /\ Uncancelled \/ "failure" \notin Environment

NothingCancelled ==
  Uncancelled => \A s \in Scans : scan[s].status \notin {"CANCELLING", "CANCELLED"}

(* A run that has not published holds its scan's lease as well as the      *)
(* job's, and the scan it publishes is in progress; a cancellation it      *)
(* publishes was asked for, and what it settles nobody cancels.            *)
InHand(r) ==
  /\ run[r].pc \in {"claimed", "executing", "publishing", "failed", "settling"} =>
       HoldsScan(r) /\ scan[Mine(r)].status \in {"RUNNING", "CANCELLING"}
  /\ run[r].pc \in {"failed", "settling"} => Uncancelled
  /\ run[r].pc = "settling" => run[r].local # "CANCELLED"
  /\ run[r].pc = "publishing" /\ run[r].local = "CANCELLED" =>
       scan[Mine(r)].status = "CANCELLING"
  /\ run[r].pc = "releasing" => scan[Mine(r)].status \in {"COMPLETED", "PARTIAL", "CANCELLED"}

QuietInv == NothingCancelled /\ \A r \in Runs : InHand(r)

LEMMA InHandStays ==
  ASSUME NEW r \in Runs, InHand(r), run'[r] = run[r],
         Mine(r) # NoScan => scan'[Mine(r)] = scan[Mine(r)], RunTyped
  PROVE  InHand(r)'
  BY DEF InHand, RunsScan, HoldsScan, Mine, RunTyped

(* An operation leaves the scans that runs have alone.                     *)
LEMMA ScanStepInHand ==
  ASSUME Quiet, TypeOK, ExecInv, QuietInv, NEW s \in Scans, ScanStep(s)
  PROVE  \A r \in Runs : InHand(r)'
<1>0. /\ ScanTyped /\ RunTyped /\ UNCHANGED run /\ NoScan \notin Scans
      /\ \A r \in Runs : Leased(r) /\ Executing(r) /\ InHand(r)
  BY TypeParts, OrchestratorAssumption
  DEF OrchestratorAssumption, ExecInv, QuietInv, ScanStep, AskScan, EnqueueScan, CancelQueued,
      CancelRunning, ReplayDeadLetter, RetryDue, LeaseExpires, RecoverExpiredLease
<1>1. CASE UNCHANGED scan
  BY <1>0, <1>1, InHandStays
<1>2. ASSUME \E status, key, owner : SetScan(s, status, key, owner), \A r \in Runs : Mine(r) # s
      PROVE  \A r \in Runs : InHand(r)'
  <2>1. \A t \in Scans \ {s} : scan'[t] = scan[t]
    BY <1>0, <1>2, SetScanElsewhere
  <2> QED
    BY <1>0, <1>2, <2>1, InHandStays DEF Leased
<1>3. CASE EnqueueScan(s)
  <2>1. job[s].status = "NONE"
    BY <1>3 DEF EnqueueScan, ExecInv, JobsOfScans
  <2>2. \A r \in Runs : Mine(r) # s
    BY <1>0, <2>1 DEF Leased
  <2> QED
    BY <1>2, <1>3, <2>2 DEF EnqueueScan
<1>4. CASE ReplayDeadLetter(s) \/ CancelQueued(s)
  <2>1. \A r \in Runs : run[r].pc # "idle" => Mine(r) # s
    <3> SUFFICES ASSUME NEW r \in Runs, run[r].pc # "idle"
                 PROVE  Mine(r) # s
      OBVIOUS
    <3>1. run[r].pc \in {"claimed", "executing", "publishing", "releasing", "failed", "settling"}
      BY <1>0 DEF RunTyped, Pcs, Executing
    <3>2. scan[s].status \in {"DEAD_LETTER", "QUEUED"}
      BY <1>4 DEF ReplayDeadLetter, CancelQueued
    <3> QED
      BY <1>0, <3>1, <3>2 DEF InHand
  <2>2. \A r \in Runs : Mine(r) # s
    BY <1>0, <2>1 DEF RunTyped, Mine
  <2> QED
    BY <1>2, <1>4, <2>2 DEF ReplayDeadLetter, CancelQueued
<1>6. CASE CancelRunning(s)
  <2> SUFFICES ASSUME NEW r \in Runs
               PROVE  InHand(r)'
    OBVIOUS
  <2>1. scan[s].status = "RUNNING" /\ ~Uncancelled
    BY <1>6 DEF CancelRunning, Uncancelled
  <2>4. SetScan(s, "CANCELLING", scan[s].activeKey, scan[s].leaseOwner)
    BY <1>6 DEF CancelRunning
  <2>5. \A t \in Scans : /\ scan'[t].status = IF t = s THEN "CANCELLING" ELSE scan[t].status
                         /\ scan'[t].leaseOwner = scan[t].leaseOwner
    BY <1>0, <2>4, SetScanStatus
  <2>2. CASE Mine(r) = NoScan
    BY <1>0, <1>1, <2>2, InHandStays
  <2>3. CASE Mine(r) # NoScan
    <3>1. Mine(r) \in Scans /\ Mine(r)' = Mine(r) /\ run'[r] = run[r]
      BY <1>0, <2>3 DEF Leased, Mine
    <3>2. /\ scan'[Mine(r)].leaseOwner = scan[Mine(r)].leaseOwner
          /\ \/ scan'[Mine(r)].status = "CANCELLING" /\ scan[Mine(r)].status = "RUNNING"
             \/ scan'[Mine(r)].status = scan[Mine(r)].status
      BY <2>1, <2>5, <3>1
    <3>3. InHand(r)
      BY <1>0
    <3> QED
      BY <2>1, <3>1, <3>2, <3>3 DEF InHand, HoldsScan
  <2> QED
    BY <2>2, <2>3
<1>5. CASE RecoverExpiredLease(s)
  <2>1. \A r \in Runs : Mine(r) # s
    BY <1>0, <1>5 DEF RecoverExpiredLease, LeaseRanOut, Leased
  <2> QED
    BY <1>1, <1>2, <1>5, <2>1 DEF RecoverExpiredLease
<1> QED
  BY <1>1, <1>3, <1>4, <1>5, <1>6 DEF ScanStep, AskScan, RetryDue, LeaseExpires

LEMMA RunStepOwnHand ==
  ASSUME Quiet, TypeOK, ExecInv, QuietInv, NEW r \in Runs, RunStep(r)
  PROVE  InHand(r)'
<1>0. /\ ScanTyped /\ RunTyped /\ QueueTyped /\ InHand(r) /\ Executing(r)
      /\ run[r].pc # "idle" => Mine(r) \in Scans
  BY TypeParts DEF RunTyped, Mine, ExecInv, QuietInv
<1>1. CASE Claim(r)
  <2>1. Head(queue) \in Scans
    BY <1>0, <1>1, HeadTailType DEF Claim, QueueTyped
  <2>2. run'[r].pc = "claimed" /\ Mine(r)' = Head(queue)
    BY <1>0, <1>1 DEF Claim, RunTyped, Mine
  <2>3. scan'[Head(queue)].status = "RUNNING" /\ scan'[Head(queue)].leaseOwner = WorkerOf[r]
    BY <1>0, <1>1, <2>1, SetScanStatus DEF Claim
  <2> QED
    BY <2>2, <2>3 DEF InHand, HoldsScan
<1>2. CASE ClaimBounces(r) \/ Heartbeat(r)
  BY <1>0, <1>2, InHandStays DEF ClaimBounces, Heartbeat
<1>3. CASE Release(r) \/ SettleCancelled(r) \/ SettleRetry(r) \/ SettleTerminal(r) \/ SettleFails(r)
  <2>1. run'[r].pc = "idle"
    <3>1. Finish(r)
      BY <1>3 DEF Release, SettleCancelled, SettleRetry, SettleTerminal, SettleFails
    <3> QED
      BY <1>0, <3>1 DEF Finish, IdleRun, RunTyped
  <2> QED
    BY <2>1 DEF InHand
<1>h. ASSUME run[r].pc \in {"claimed", "executing", "publishing", "failed", "settling"}
      PROVE  HoldsScan(r) /\ scan[Mine(r)].status \in {"RUNNING", "CANCELLING"}
  BY <1>0, <1>h DEF InHand
<1>4. ASSUME NEW pc \in {"executing", "publishing", "failed", "settling"}, NEW local,
             Goto(r, pc, local), UNCHANGED scan,
             HoldsScan(r), scan[Mine(r)].status \in {"RUNNING", "CANCELLING"},
             pc \in {"failed", "settling"} => Uncancelled,
             pc = "settling" => local # "CANCELLED",
             pc = "publishing" /\ local = "CANCELLED" => scan[Mine(r)].status = "CANCELLING"
      PROVE  InHand(r)'
  <2>1. run'[r].pc = pc /\ run'[r].local = local /\ Mine(r)' = Mine(r)
    BY <1>0, <1>4 DEF Goto, RunTyped, Mine
  <2> QED
    BY <1>4, <2>1 DEF InHand, HoldsScan
<1>5. CASE ReadScan(r)
  <2>1. run[r].pc = "claimed" /\ UNCHANGED scan
    BY <1>5 DEF ReadScan, At
  <2>2. Goto(r, "executing", "-")
    BY <1>5, <1>h, <2>1 DEF ReadScan
  <2> QED
    BY <1>4, <1>h, <2>1, <2>2
<1>6. CASE ReadCancellation(r)
  <2>1. run[r].pc = "executing" /\ UNCHANGED scan
    BY <1>6 DEF ReadCancellation, At
  <2>2. PICK outcome \in IF scan[Mine(r)].status = "CANCELLING" THEN {"CANCELLED"}
                         ELSE {"COMPLETED", "PARTIAL"} : Goto(r, "publishing", outcome)
    BY <1>6 DEF ReadCancellation
  <2>3. outcome = "CANCELLED" => scan[Mine(r)].status = "CANCELLING"
    BY <2>2
  <2>4. HoldsScan(r) /\ scan[Mine(r)].status \in {"RUNNING", "CANCELLING"}
    BY <1>h, <2>1
  <2> QED
    BY <1>4, <2>1, <2>2, <2>3, <2>4
<1>7. CASE ExecutionFails(r)
  <2>1. run[r].pc \in {"claimed", "executing", "publishing"} /\ UNCHANGED scan /\ Uncancelled
    BY <1>0, <1>7 DEF ExecutionFails, At, Executing, Quiet
  <2>2. \E local : Goto(r, "failed", local)
    BY <1>7 DEF ExecutionFails
  <2> QED
    BY <1>4, <1>h, <2>1, <2>2
<1>8. CASE HandleFailure(r)
  <2>1. run[r].pc = "failed" /\ UNCHANGED scan /\ Mine(r) \in Scans
    BY <1>0, <1>8 DEF HandleFailure, At
  <2>2. Uncancelled /\ scan[Mine(r)].status # "CANCELLING"
    BY <1>0, <2>1 DEF InHand, QuietInv, NothingCancelled
  <2>3. \E local : local # "CANCELLED" /\ Goto(r, "settling", local)
    BY <1>8, <2>2 DEF HandleFailure
  <2> QED
    BY <1>4, <1>h, <2>1, <2>2, <2>3
<1>9. CASE Publish(r)
  <2>1. run[r].local \in {"COMPLETED", "PARTIAL", "CANCELLED"} /\ Mine(r) \in Scans
    BY <1>0, <1>9 DEF Publish, At, RunTyped
  <2>2. run'[r].pc = "releasing" /\ Mine(r)' = Mine(r)
    BY <1>0, <1>9 DEF Publish, Goto, RunTyped, Mine
  <2>3. scan'[Mine(r)].status = run[r].local
    BY <1>0, <1>9, <2>1, SetScanStatus DEF Publish
  <2> QED
    BY <2>1, <2>2, <2>3 DEF InHand
<1>10. ~ReleaseFails(r)
  BY <1>0 DEF ReleaseFails, At, InHand, Terminal, Quiet
<1> QED
  BY <1>0, <1>1, <1>2, <1>3, <1>5, <1>6, <1>7, <1>8, <1>9, <1>10
  DEF RunStep, Execute, Settle, StartQueued, StartTooLate, ReadWhoStarted, At, Executing

LEMMA RunStepInHand ==
  ASSUME Quiet, TypeOK, ExecInv, QuietInv, NEW r \in Runs, RunStep(r)
  PROVE  \A q \in Runs : InHand(q)'
<1>0. RunTyped /\ \A q \in Runs : Leased(q) /\ InHand(q)
  BY TypeParts DEF ExecInv, QuietInv
<1>1. ASSUME NEW q \in Runs, q # r
      PROVE  InHand(q)'
  <2>1. run'[q] = run[q]
    BY <1>1, RunStepOwn DEF OnlyRun
  <2>2. ASSUME Mine(q) # NoScan
        PROVE  scan'[Mine(q)] = scan[Mine(q)]
    <3>1. Mine(q) \in Scans /\ Mine(q) # Mine(r) /\ job[Mine(q)].status = "RUNNING"
      BY <1>0, <1>1, <2>2 DEF ExecInv, OneExecutor, Leased
    <3> QED
      BY <3>1, RunStepElsewhere
  <2> QED
    BY <1>0, <2>1, <2>2, InHandStays
<1> QED
  BY <1>1, RunStepOwnHand

(* What a step does to the life of a scan.                                 *)
Rewrites(s, from, to) ==
  /\ scan[s].status = from
  /\ \E key, owner : SetScan(s, to, key, owner)
  /\ UNCHANGED events
Concludes(s, outcome) ==
  /\ \/ scan[s].status = "RUNNING" /\ outcome # "CANCELLED"
     \/ scan[s].status = "CANCELLING" /\ outcome \in {"CANCELLED", "COMPLETED", "PARTIAL"}
  /\ \E key, owner : SetScan(s, outcome, key, owner)
  /\ Announce(s, outcome)
KeepsLife ==
  /\ \A s \in Scans : scan'[s].status = scan[s].status
  /\ UNCHANGED events
Lives ==
  \/ KeepsLife
  \/ \E s \in Scans :
       \/ Rewrites(s, "NONE", "QUEUED") /\ KeyFree(s)
       \/ Rewrites(s, "DEAD_LETTER", "QUEUED") /\ KeyFree(s)
       \/ Rewrites(s, "QUEUED", "RUNNING") \/ Rewrites(s, "RUNNING", "QUEUED")
       \/ Rewrites(s, "QUEUED", "CANCELLED") /\ ~Uncancelled
       \/ Rewrites(s, "RUNNING", "CANCELLING") /\ ~Uncancelled
       \/ \E outcome \in Terminal : Concludes(s, outcome)

LEMMA QuietSteps ==
  ASSUME Quiet, TypeOK, ExecInv, QuietInv, [Next]_vars
  PROVE  Lives
<1>0. /\ ScanTyped /\ RunTyped /\ QueueTyped
      /\ \A r \in Runs : InHand(r) /\ Executing(r) /\ (run[r].pc # "idle" => Mine(r) \in Scans)
  BY TypeParts DEF RunTyped, Mine, ExecInv, QuietInv
<1>u. UNCHANGED <<scan, events>> => Lives
  BY DEF Lives, KeepsLife
<1>1. ASSUME NEW s \in Scans, EnqueueScan(s) \/ ReplayDeadLetter(s) \/ RecoverExpiredLease(s)
      PROVE  Lives
  BY <1>1, <1>u DEF EnqueueScan, ReplayDeadLetter, RecoverExpiredLease, Lives, Rewrites
<1>2. ASSUME NEW r \in Runs, Claim(r)
      PROVE  Lives
  BY <1>0, <1>2, HeadTailType DEF Claim, QueueTyped, Lives, Rewrites
<1>3. ASSUME NEW r \in Runs, SettleRetry(r)
      PROVE  Lives
  BY <1>0, <1>3, <1>u DEF SettleRetry, RunsScan, At, Lives, Rewrites
<1>8. ASSUME NEW s \in Scans, CancelQueued(s) \/ CancelRunning(s)
      PROVE  Lives
  BY <1>8 DEF CancelQueued, CancelRunning, Lives, Rewrites, Uncancelled
<1>4. ASSUME NEW r \in Runs, Publish(r)
      PROVE  Lives
  <2>1. run[r].local \in {"COMPLETED", "PARTIAL", "CANCELLED"} /\ Mine(r) \in Scans
    BY <1>0, <1>4 DEF Publish, At, RunTyped
  <2>2. /\ scan[Mine(r)].status \in {"RUNNING", "CANCELLING"}
        /\ run[r].local = "CANCELLED" => scan[Mine(r)].status = "CANCELLING"
    BY <1>0, <1>4 DEF Publish, At, InHand
  <2>3. Concludes(Mine(r), run[r].local)
    BY <1>4, <2>1, <2>2 DEF Publish, Concludes
  <2> QED
    BY <2>1, <2>3 DEF Lives, Terminal
<1>5. ASSUME NEW r \in Runs, SettleTerminal(r)
      PROVE  Lives
  <2>1. /\ run[r].local \in Terminal \ {"CANCELLED"} /\ Mine(r) \in Scans
        /\ HoldsScan(r) /\ Uncancelled /\ scan[Mine(r)].status \in {"RUNNING", "CANCELLING"}
    BY <1>0, <1>5 DEF SettleTerminal, At, InHand, Terminal
  <2>3. scan[Mine(r)].status = "RUNNING"
    BY <2>1 DEF QuietInv, NothingCancelled
  <2>2. Concludes(Mine(r), run[r].local)
    BY <1>5, <2>1, <2>3 DEF SettleTerminal, Concludes
  <2> QED
    BY <2>1, <2>2 DEF Lives
<1>6. ASSUME NEW r \in Runs, Release(r)
      PROVE  Lives
  <2>1. Mine(r) \in Scans /\ UNCHANGED events
    BY <1>0, <1>6 DEF Release, At
  <2>2. UNCHANGED scan \/ SetScan(Mine(r), scan[Mine(r)].status, FALSE, NoWorker)
    BY <1>6 DEF Release, EndScan
  <2>3. \A s \in Scans : scan'[s].status = scan[s].status
    <3>1. CASE UNCHANGED scan
      BY <3>1
    <3>2. CASE SetScan(Mine(r), scan[Mine(r)].status, FALSE, NoWorker)
      <4>1. \A t \in Scans : scan'[t].status = IF t = Mine(r) THEN scan[Mine(r)].status
                                               ELSE scan[t].status
        BY <1>0, <2>1, <3>2 DEF SetScan, ScanTyped
      <4> QED
        BY <4>1
    <3> QED
      BY <2>2, <3>1, <3>2
  <2> QED
    BY <2>1, <2>3 DEF Lives, KeepsLife
<1>7. ASSUME NEW r \in Runs
      PROVE  ~SettleCancelled(r) /\ ~StartQueued(r)
  BY <1>0 DEF SettleCancelled, StartQueued, At, InHand, Executing
<1> QED
  BY <1>1, <1>2, <1>3, <1>4, <1>5, <1>6, <1>7, <1>8, <1>u
  DEF Next, RunStep, ScanStep, Execute, Settle, vars, AskScan, VerifyReads, VerifySucceeds,
      VerifyFails, ClaimBounces, ReadScan, StartTooLate, ReadWhoStarted, ExecutionFails, ReadCancellation,
      ReleaseFails, HandleFailure, SettleFails, RetryDue, LeaseExpires, Heartbeat, Crash

LEMMA QuietStep == Quiet /\ TypeOK /\ ExecInv /\ QuietInv /\ [Next]_vars => QuietInv'
<1> SUFFICES ASSUME Quiet, TypeOK, ExecInv, QuietInv, [Next]_vars
             PROVE  QuietInv'
  OBVIOUS
<1>0. ScanTyped /\ RunTyped /\ Lives
  BY TypeParts, QuietSteps
<1>1. NothingCancelled'
  <2>1. CASE KeepsLife
    BY <2>1 DEF KeepsLife, QuietInv, NothingCancelled
  <2>2. ASSUME NEW s \in Scans, NEW from, NEW to, to \notin {"CANCELLING", "CANCELLED"},
               Rewrites(s, from, to) \/ Concludes(s, to)
        PROVE  NothingCancelled'
    BY <1>0, <2>2, SetScanStatus DEF Rewrites, Concludes, QuietInv, NothingCancelled
  <2>3. ASSUME Uncancelled, NEW s \in Scans, NEW outcome \in Terminal, Concludes(s, outcome)
        PROVE  outcome \notin {"CANCELLING", "CANCELLED"}
    <3>1. scan[s].status # "CANCELLING"
      BY <2>3 DEF QuietInv, NothingCancelled
    <3> QED
      BY <2>3, <3>1 DEF Concludes, Terminal
  <2>4. ~Uncancelled => NothingCancelled'
    BY DEF NothingCancelled, Uncancelled
  <2> QED
    BY <1>0, <2>1, <2>2, <2>3, <2>4 DEF Lives
<1>2. \A r \in Runs : InHand(r)'
  <2>1. ASSUME NEW r \in Runs, RunStep(r)
        PROVE  \A q \in Runs : InHand(q)'
    BY <2>1, RunStepInHand
  <2>2. ASSUME NEW s \in Scans, ScanStep(s)
        PROVE  \A q \in Runs : InHand(q)'
    BY <2>2, ScanStepInHand
  <2>3. CASE UNCHANGED <<scan, run>>
    BY <1>0, <2>3, InHandStays DEF QuietInv
  <2>4. ASSUME NEW w \in Workers, Crash(w)
        PROVE  \A q \in Runs : InHand(q)'
    <3> SUFFICES ASSUME NEW q \in Runs
                 PROVE  InHand(q)'
      OBVIOUS
    <3>1. CASE WorkerOf[q] = w
      BY <1>0, <2>4, <3>1, CrashFields DEF InHand
    <3>2. CASE WorkerOf[q] # w
      BY <1>0, <2>4, <3>2, CrashFields, InHandStays DEF QuietInv, Crash
    <3> QED
      BY <3>1, <3>2
  <2> QED
    BY <2>1, <2>2, <2>3, <2>4 DEF Next, vars, VerifyReads, VerifySucceeds, VerifyFails
<1> QED
  BY <1>1, <1>2 DEF QuietInv

LEMMA QuietInit == Init => QuietInv
  BY DEF Init, QuietInv, NothingCancelled, InHand, IdleRun

LEMMA QuietInvHolds ==
  ASSUME Quiet
  PROVE  Spec => []QuietInv
<1>1. LeasesKept
  BY DEF Quiet
<1> QED
  BY <1>1, QuietInit, QuietStep, ExecInvHolds, TypeCorrect, PTL DEF Spec

(* While leases are kept, transactions commit and cancellations do not     *)
(* meet failures, the only outcome announced for a scan, besides dead letters that were   *)
(* replayed, is the one its row shows, whichever executions fail and       *)
(* whichever workers die.                                                  *)
THEOREM AnnouncedOutcomeStandsHolds ==
  ASSUME Quiet
  PROVE  Spec => []AnnouncedOutcomeStands
<1>1. Init => AnnouncedOutcomeStands
  BY DEF Init, AnnouncedOutcomeStands
<1>2. TypeOK /\ ExecInv /\ QuietInv /\ AnnouncedOutcomeStands /\ [Next]_vars
        => AnnouncedOutcomeStands'
  <2> SUFFICES ASSUME TypeOK, ExecInv, QuietInv, AnnouncedOutcomeStands, [Next]_vars
               PROVE  AnnouncedOutcomeStands'
    OBVIOUS
  <2>0. ScanTyped /\ EventsTyped /\ Lives
    BY TypeParts, QuietSteps
  <2>1. CASE KeepsLife
    BY <2>1 DEF KeepsLife, AnnouncedOutcomeStands
  <2>2. ASSUME NEW s \in Scans, NEW from \in {"NONE", "DEAD_LETTER", "QUEUED", "RUNNING"}, NEW to,
               Rewrites(s, from, to)
        PROVE  AnnouncedOutcomeStands'
    <3>1. /\ \A t \in Scans : scan'[t].status = IF t = s THEN to ELSE scan[t].status
          /\ events' = events
      BY <2>0, <2>2, SetScanStatus DEF Rewrites
    <3>2. events[s] \subseteq {"DEAD_LETTER"}
      BY <2>0, <2>2 DEF Rewrites, AnnouncedOutcomeStands, EventsTyped, Terminal
    <3> QED
      BY <3>1, <3>2 DEF AnnouncedOutcomeStands
  <2>3. ASSUME NEW s \in Scans, NEW outcome, Concludes(s, outcome)
        PROVE  AnnouncedOutcomeStands'
    <3>1. \A t \in Scans : scan'[t].status = IF t = s THEN outcome ELSE scan[t].status
      BY <2>0, <2>3, SetScanStatus DEF Concludes
    <3>2. \A t \in Scans : events'[t] = IF t = s THEN events[t] \union {outcome} ELSE events[t]
      BY <2>0, <2>3 DEF Concludes, Announce, EventsTyped
    <3>3. events[s] \subseteq {"DEAD_LETTER"}
      <4>1. /\ events[s] \subseteq {scan[s].status, "DEAD_LETTER"}
            /\ scan[s].status \in {"RUNNING", "CANCELLING"}
        BY <2>3 DEF Concludes, AnnouncedOutcomeStands
      <4>2. events[s] \subseteq Terminal /\ {"RUNNING", "CANCELLING"} \intersect Terminal = {}
        BY <2>0 DEF EventsTyped, Terminal
      <4> QED
        BY <4>1, <4>2
    <3>4. ASSUME NEW t \in Scans
          PROVE  events'[t] \subseteq {scan'[t].status, "DEAD_LETTER"}
      <4>1. CASE t = s
        BY <3>1, <3>2, <3>3, <4>1
      <4>2. CASE t # s
        BY <3>1, <3>2, <4>2 DEF AnnouncedOutcomeStands
      <4> QED
        BY <4>1, <4>2
    <3> QED
      BY <3>4 DEF AnnouncedOutcomeStands
  <2> QED
    BY <2>0, <2>1, <2>2, <2>3 DEF Lives
<1>3. LeasesKept
  BY DEF Quiet
<1> QED
  BY <1>1, <1>2, <1>3, ExecInvHolds, QuietInvHolds, TypeCorrect, PTL DEF Spec

(* Steps of the queue as steps of ScanLifecycle.                           *)
LEMMA MovesLife ==
  ASSUME ScanTyped, NEW s \in Scans, NEW from, NEW to, Rewrites(s, from, to)
  PROVE  Lifecycle!Move(s, from, to)
<1>1. /\ \A t \in Scans : scan'[t].status = IF t = s THEN to ELSE scan[t].status
      /\ events' = events /\ scan[s].status = from
  BY SetScanStatus DEF Rewrites
<1> QED
  BY <1>1 DEF Lifecycle!Move

LEMMA FinishesLife ==
  ASSUME ScanTyped, NEW s \in Scans, NEW outcome \in Terminal, Concludes(s, outcome)
  PROVE  Lifecycle!Finish(s)
<1>1. /\ \A t \in Scans : scan'[t].status = IF t = s THEN outcome ELSE scan[t].status
      /\ \/ scan[s].status = "RUNNING" /\ outcome # "CANCELLED"
         \/ scan[s].status = "CANCELLING" /\ outcome \in {"CANCELLED", "COMPLETED", "PARTIAL"}
      /\ events' = [events EXCEPT ![s] = @ \union {outcome}]
  BY SetScanStatus DEF Concludes, Announce
<1>2. outcome \in Lifecycle!Terminal
  BY DEF Terminal, Lifecycle!Terminal
<1> QED
  BY <1>1, <1>2 DEF Lifecycle!Finish

LEMMA AccountsFree ==
  ASSUME KeyInv, NEW s \in Scans, KeyFree(s)
  PROVE  Lifecycle!AccountIsFree(s)
  BY DEF KeyInv, KeyFree, InProgress, Lifecycle!AccountIsFree, Lifecycle!InProgress

(* The queue implements the promised life of a scan under the same         *)
(* conditions: every step of a worker, a user or an operator is a step of  *)
(* ScanLifecycle or leaves the scan's state and its announcements alone.   *)
THEOREM RefinesLifecycleHolds ==
  ASSUME Quiet
  PROVE  Spec => RefinesLifecycle
<1>1. Init => Lifecycle!Init
  BY DEF Init, Lifecycle!Init
<1>2. TypeOK /\ KeyInv /\ ExecInv /\ QuietInv /\ [Next]_vars => [Lifecycle!Next]_Lifecycle!vars
  <2> SUFFICES ASSUME TypeOK, KeyInv, ExecInv, QuietInv, [Next]_vars
               PROVE  [Lifecycle!Next]_Lifecycle!vars
    OBVIOUS
  <2>0. ScanTyped /\ Lives
    BY TypeParts, QuietSteps
  <2>1. CASE KeepsLife
    BY <2>0, <2>1 DEF KeepsLife, Lifecycle!vars
  <2>2. ASSUME NEW s \in Scans,
               \/ (Rewrites(s, "NONE", "QUEUED") \/ Rewrites(s, "DEAD_LETTER", "QUEUED")) /\ KeyFree(s)
               \/ Rewrites(s, "QUEUED", "RUNNING") \/ Rewrites(s, "RUNNING", "QUEUED")
               \/ Rewrites(s, "QUEUED", "CANCELLED") \/ Rewrites(s, "RUNNING", "CANCELLING")
               \/ \E outcome \in Terminal : Concludes(s, outcome)
        PROVE  Lifecycle!Next
    <3>1. \/ Lifecycle!Request(s) \/ Lifecycle!Replay(s) \/ Lifecycle!Start(s)
          \/ Lifecycle!Requeue(s) \/ Lifecycle!Cancel(s) \/ Lifecycle!Finish(s)
      BY <2>0, <2>2, MovesLife, FinishesLife, AccountsFree
      DEF Lifecycle!Request, Lifecycle!Replay, Lifecycle!Start, Lifecycle!Requeue, Lifecycle!Cancel
    <3> QED
      BY <3>1 DEF Lifecycle!Next
  <2> QED
    BY <2>0, <2>1, <2>2 DEF Lives
<1>3. LeasesKept
  BY DEF Quiet
<1> QED
  BY <1>1, <1>2, <1>3, KeyInit, KeyStep, ExecInvHolds, QuietInvHolds, TypeCorrect, PTL
  DEF Spec, RefinesLifecycle, Lifecycle!Spec

(* ... and no worker dies: a leased job has a run, which settles it.       *)
WorkInv ==
  /\ QueueIsRunnable
  /\ \A s \in Scans : job[s].status = "RUNNING" => \E r \in Runs : Mine(r) = s

LEMMA WorkStep ==
  ASSUME Quiet, "crash" \notin Environment, TypeOK, ExecInv, QuietInv, WorkInv, [Next]_vars
  PROVE  WorkInv'
<1>0. /\ ScanTyped /\ JobTyped /\ RunTyped /\ QueueTyped /\ NoScan \notin Scans
      /\ \A r \in Runs : /\ InHand(r) /\ Executing(r) /\ Leased(r)
                         /\ run[r].pc # "idle" => Mine(r) \in Scans
  BY TypeParts, OrchestratorAssumption
  DEF RunTyped, Mine, ExecInv, QuietInv, OrchestratorAssumption
<1> DEFINE Runnable(t) == job'[t].status = "QUEUED" => scan'[t].status = "QUEUED"
           Led(t) == job'[t].status = "RUNNING" => \E r \in Runs : Mine(r)' = t
<1>s. (\A t \in Scans : Runnable(t) /\ Led(t)) => WorkInv'
  BY DEF WorkInv, QueueIsRunnable
<1> HIDE DEF Runnable, Led
<1>e. \A t \in Scans : /\ job[t].status = "QUEUED" => scan[t].status = "QUEUED"
                       /\ job[t].status = "RUNNING" => \E r \in Runs : Mine(r) = t
  BY DEF WorkInv, QueueIsRunnable
<1>k. ASSUME NEW t \in Scans, job'[t].status = job[t].status, scan'[t].status = scan[t].status,
             \A r \in Runs : Mine(r) = t => Mine(r)' = t
      PROVE  Runnable(t) /\ Led(t)
  BY <1>e, <1>k DEF Runnable, Led
<1>u. CASE UNCHANGED <<scan, job, run>>
  BY <1>k, <1>s, <1>u DEF Mine
<1>1. ASSUME NEW s \in Scans, EnqueueScan(s) \/ ReplayDeadLetter(s)
      PROVE  WorkInv'
  <2>1. UNCHANGED job \/ \E worker, lease, attempt : SetJob(s, "QUEUED", attempt, worker, lease)
    BY <1>1 DEF EnqueueScan, ReplayDeadLetter, UnleaseJob
  <2>2. UNCHANGED run /\ \E key, owner : SetScan(s, "QUEUED", key, owner)
    BY <1>1 DEF EnqueueScan, ReplayDeadLetter
  <2>3. \A t \in Scans : /\ scan'[t].status = IF t = s THEN "QUEUED" ELSE scan[t].status
                         /\ job'[t].status = job[t].status
                              \/ (t = s /\ job'[t].status = "QUEUED")
    <3>1. \A t \in Scans : scan'[t].status = IF t = s THEN "QUEUED" ELSE scan[t].status
      BY <1>0, <2>2, SetScanStatus
    <3>2. \A t \in Scans : job'[t].status = job[t].status \/ (t = s /\ job'[t].status = "QUEUED")
      BY <1>0, <2>1, SetJobFields
    <3> QED
      BY <3>1, <3>2
  <2>4. \A t \in Scans : Runnable(t)
    BY <1>e, <2>3 DEF Runnable
  <2>5. \A t \in Scans : Led(t)
    BY <1>e, <2>2, <2>3 DEF Led, Mine
  <2> QED
    BY <1>s, <2>4, <2>5
<1>2. ASSUME NEW s \in Scans, RecoverExpiredLease(s)
      PROVE  FALSE
  <2>1. job[s].status = "RUNNING" /\ job[s].lease = "expired"
    BY <1>2 DEF RecoverExpiredLease, LeaseRanOut
  <2>2. PICK r \in Runs : Mine(r) = s
    BY <1>e, <2>1
  <2> QED
    BY <1>0, <2>1, <2>2 DEF Leased
<1>6. ASSUME NEW s \in Scans, CancelQueued(s)
      PROVE  WorkInv'
  <2>1. IF job[s].status = "QUEUED" THEN UnleaseJob(s, "CANCELLED") ELSE UNCHANGED job
    BY <1>6 DEF CancelQueued
  <2>2. UNCHANGED run /\ \E key, owner : SetScan(s, "CANCELLED", key, owner)
    BY <1>6 DEF CancelQueued
  <2>3. \A t \in Scans : scan'[t].status = IF t = s THEN "CANCELLED" ELSE scan[t].status
    BY <1>0, <2>2, SetScanStatus
  <2>4. \A t \in Scans : job'[t].status = IF t = s /\ job[s].status = "QUEUED" THEN "CANCELLED"
                                          ELSE job[t].status
    BY <1>0, <2>1, SetJobFields DEF UnleaseJob
  <2>5. \A t \in Scans : Runnable(t)
    BY <1>e, <2>3, <2>4 DEF Runnable
  <2>6. \A t \in Scans : Led(t)
    BY <1>e, <2>2, <2>4 DEF Led, Mine
  <2> QED
    BY <1>s, <2>5, <2>6
<1>7. ASSUME NEW s \in Scans, CancelRunning(s)
      PROVE  WorkInv'
  <2>1. UNCHANGED <<run, job>> /\ scan[s].status = "RUNNING"
    BY <1>7 DEF CancelRunning
  <2>2. \A t \in Scans : t # s => scan'[t].status = scan[t].status
    BY <1>0, <1>7, SetScanStatus DEF CancelRunning
  <2>3. \A t \in Scans : Runnable(t)
    BY <1>e, <2>1, <2>2 DEF Runnable
  <2>4. \A t \in Scans : Led(t)
    BY <1>e, <2>1 DEF Led, Mine
  <2> QED
    BY <1>s, <2>3, <2>4
<1>3. ASSUME NEW s \in Scans, LeaseExpires(s)
      PROVE  WorkInv'
  <2>1. UNCHANGED <<scan, run>> /\ \A t \in Scans : job'[t].status = job[t].status
    BY <1>0, <1>3, SetJobFields DEF LeaseExpires
  <2> QED
    BY <1>k, <1>s, <2>1 DEF Mine
<1>4. ASSUME NEW r \in Runs, Claim(r)
      PROVE  WorkInv'
  <2> DEFINE s == Head(queue)
  <2>1. s \in Scans /\ Mine(r) = NoScan
    BY <1>0, <1>4, HeadTailType DEF Claim, QueueTyped, At, RunTyped, Mine
  <2>2. \A t \in Scans : job'[t].status = IF t = s THEN "RUNNING" ELSE job[t].status
    BY <1>0, <1>4, <2>1, SetJobFields DEF Claim
  <2>3. \A t \in Scans : scan'[t].status = IF t = s THEN "RUNNING" ELSE scan[t].status
    BY <1>0, <1>4, <2>1, SetScanStatus DEF Claim
  <2>4. Mine(r)' = s /\ \A q \in Runs : q # r => Mine(q)' = Mine(q)
    BY <1>0, <1>4 DEF Claim, RunTyped, Mine
  <2> HIDE DEF s
  <2>5. \A t \in Scans : Runnable(t)
    BY <1>e, <2>2, <2>3 DEF Runnable
  <2>6. \A t \in Scans : Led(t)
    BY <1>0, <1>e, <2>1, <2>2, <2>4 DEF Led
  <2> QED
    BY <1>s, <2>5, <2>6
<1>5. ASSUME NEW r \in Runs, RunStep(r), ~Claim(r)
      PROVE  WorkInv'
  <2>1. CASE UNCHANGED <<scan, job>> /\ \A q \in Runs : Mine(q)' = Mine(q)
    BY <1>k, <1>s, <2>1
  <2>2. CASE Heartbeat(r)
    <3>1. Mine(r) \in Scans /\ UNCHANGED <<scan, run>> /\ job[Mine(r)].status = "RUNNING"
      BY <1>0, <2>2 DEF Heartbeat, HoldsJob, Leased
    <3>2. \A t \in Scans : job'[t].status = job[t].status
      BY <1>0, <2>2, <3>1, SetJobFields DEF Heartbeat
    <3> QED
      BY <1>k, <1>s, <3>1, <3>2 DEF Mine
  <2>3. CASE Publish(r)
    <3>1. /\ Mine(r) \in Scans /\ job[Mine(r)].status = "RUNNING" /\ UNCHANGED job
          /\ \A t \in Scans : t # Mine(r) => scan'[t].status = scan[t].status
          /\ \A q \in Runs : Mine(q)' = Mine(q)
      <4>1. Mine(r) \in Scans /\ job[Mine(r)].status = "RUNNING" /\ UNCHANGED job
        BY <1>0, <2>3 DEF Publish, At, Leased
      <4>2. \A t \in Scans : t # Mine(r) => scan'[t].status = scan[t].status
        BY <1>0, <2>3, <4>1, SetScanStatus DEF Publish
      <4>3. \A q \in Runs : Mine(q)' = Mine(q)
        BY <1>0, <2>3 DEF Publish, Goto, RunTyped, Mine
      <4> QED
        BY <4>1, <4>2, <4>3
    <3>2. \A t \in Scans : Runnable(t)
      BY <1>e, <3>1 DEF Runnable
    <3>3. \A t \in Scans : Led(t)
      BY <1>e, <3>1 DEF Led
    <3> QED
      BY <1>s, <3>2, <3>3
  <2>4. CASE Release(r) \/ SettleRetry(r) \/ SettleTerminal(r)
    <3>1. Mine(r) \in Scans /\ Finish(r) /\ HoldsJob(r)
      BY <1>0, <2>4 DEF Release, SettleRetry, SettleTerminal, At, Leased, HoldsJob
    <3>2. \A q \in Runs : q # r => Mine(q)' = Mine(q)
      BY <1>0, <3>1 DEF Finish, RunTyped, Mine
    <3>3. \E status \in {"COMPLETED", "CANCELLED", "DEAD_LETTER", "QUEUED"} :
            /\ UnleaseJob(Mine(r), status)
            /\ status = "QUEUED" => SettleRetry(r)
      BY <2>4, <3>1 DEF Release, SettleRetry, SettleTerminal, SettleJob
    <3>4. \A t \in Scans : /\ t # Mine(r) => job'[t].status = job[t].status
                           /\ t = Mine(r) => job'[t].status # "RUNNING"
                           /\ t = Mine(r) /\ job'[t].status = "QUEUED" => SettleRetry(r)
      BY <1>0, <3>1, <3>3, SetJobFields DEF UnleaseJob
    <3>5. UNCHANGED scan \/ \E status, key, owner : SetScan(Mine(r), status, key, owner)
      BY <2>4 DEF Release, SettleRetry, SettleTerminal, EndScan
    <3>6. \A t \in Scans : t # Mine(r) => scan'[t].status = scan[t].status
      BY <1>0, <3>1, <3>5, SetScanStatus
    <3>7. SettleRetry(r) => scan'[Mine(r)].status = "QUEUED"
      <4>1. SettleRetry(r) => RunsScan(r)
        BY <1>0, <3>1 DEF SettleRetry, At, InHand, QuietInv, NothingCancelled
      <4> QED
        BY <1>0, <3>1, <4>1, SetScanStatus DEF SettleRetry
    <3>8. \A t \in Scans : Runnable(t)
      BY <1>e, <3>4, <3>6, <3>7 DEF Runnable
    <3>9. \A t \in Scans : Led(t)
      BY <1>e, <3>2, <3>4 DEF Led
    <3> QED
      BY <1>s, <3>8, <3>9
  <2>5. ASSUME ReadScan(r) \/ ReadCancellation(r) \/ HandleFailure(r) \/ ExecutionFails(r)
                 \/ ReleaseFails(r)
        PROVE  UNCHANGED <<scan, job>> /\ \A q \in Runs : Mine(q)' = Mine(q)
    <3>1. UNCHANGED <<scan, job>> /\ \E pc, local : Goto(r, pc, local)
      BY <2>5 DEF ReadScan, ReadCancellation, HandleFailure, ExecutionFails, ReleaseFails
    <3> QED
      BY <1>0, <3>1 DEF Goto, RunTyped, Mine
  <2>6. /\ ~ClaimBounces(r) /\ ~SettleCancelled(r) /\ ~StartQueued(r) /\ ~StartTooLate(r)
        /\ ~ReadWhoStarted(r) /\ ~SettleFails(r)
    <3>1. ~ClaimBounces(r)
      BY <1>0, <1>e, HeadTailType DEF ClaimBounces, QueueTyped
    <3> QED
      BY <1>0, <3>1
      DEF SettleCancelled, StartQueued, StartTooLate, ReadWhoStarted, SettleFails, At, Quiet, InHand,
          Executing
  <2> QED
    BY <1>5, <2>1, <2>2, <2>3, <2>4, <2>5, <2>6 DEF RunStep, Execute, Settle
<1> QED
  BY <1>u, <1>1, <1>2, <1>3, <1>4, <1>5, <1>6, <1>7
  DEF Next, ScanStep, vars, AskScan, RetryDue, VerifyReads, VerifySucceeds, VerifyFails, Crash

(* While, moreover, no worker dies, a queued job belongs to a queued scan: *)
(* no claim bounces, and no job blocks those behind it.                    *)
THEOREM QueueIsRunnableHolds ==
  ASSUME Quiet, "crash" \notin Environment
  PROVE  Spec => []QueueIsRunnable
<1>1. Init => WorkInv
  BY DEF Init, WorkInv, QueueIsRunnable
<1>2. TypeOK /\ ExecInv /\ QuietInv /\ WorkInv /\ [Next]_vars => WorkInv'
  BY WorkStep
<1>3. WorkInv => QueueIsRunnable
  BY DEF WorkInv
<1>4. LeasesKept
  BY DEF Quiet
<1> QED
  BY <1>1, <1>2, <1>3, <1>4, ExecInvHolds, QuietInvHolds, TypeCorrect, PTL DEF Spec
=============================================================================
