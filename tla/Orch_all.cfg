SPECIFICATION Spec
CONSTANTS
  s1 = s1  s2 = s2
  a1 = a1  a2 = a2
  w1 = w1  w2 = w2
  r1 = r1  r2 = r2
  Scans = {s1, s2}
  Accounts = {a1}
  AccountOf <- SameAccount
  Workers = {w1, w2}
  Runs = {r1, r2}
  WorkerOf <- TwoWorkers
  MaxRetries = 1
  Threshold = 1
  Environment = {"cancel", "replay", "failure", "crash", "stall", "dbError"}
  NoWorker = NoWorker
  NoScan = NoScan
CHECK_DEADLOCK FALSE
SYMMETRY Interchangeable
VIEW ExceptEvents
INVARIANT TypeOK
INVARIANT OneScanPerAccount
INVARIANT LeasesAgree
INVARIANT QueuedScanIsClaimable
INVARIANT DeadLettersAreExhausted
PROPERTY OnlyReplayReopens
PROPERTY CancelledWorkIsNotRetried
