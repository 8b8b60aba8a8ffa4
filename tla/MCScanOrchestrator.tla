------------------------- MODULE MCScanOrchestrator -------------------------
(* Instances of ScanOrchestrator: two scans of one account or of two, and  *)
(* two activations, one of each worker.                                    *)
EXTENDS ScanOrchestrator

CONSTANTS s1, s2, a1, a2, w1, w2, r1, r2

SameAccount == (s1 :> a1) @@ (s2 :> a1)
TwoAccounts == (s1 :> a1) @@ (s2 :> a2)
TwoWorkers == (r1 :> w1) @@ (r2 :> w2)

(* Scans of one account are interchangeable, and so are the workers with   *)
(* their runs.                                                             *)
SwapScans == (s1 :> s2) @@ (s2 :> s1)
SwapWorkers == (w1 :> w2) @@ (w2 :> w1) @@ (r1 :> r2) @@ (r2 :> r1)
Interchangeable == {SwapScans, SwapWorkers, SwapScans @@ SwapWorkers}

(* Announced outcomes decide nothing: a run whose properties do not speak  *)
(* of them need not tell states apart by them.                             *)
ExceptEvents == <<requests, scan, job, queue, conn, run, down>>
=============================================================================
