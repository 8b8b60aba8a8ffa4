---------------------------- MODULE MCScanSchedule ----------------------------
(* Two connections that claim AWS accounts, and a daily schedule.          *)
EXTENDS ScanSchedule, TLC

CONSTANTS n1, n2, a1, a2, s1, r1, r2, l1, l2, i1, i2

(* Five hours behind UTC, at three in the morning.                         *)
Early == s1 :> [account |-> a1, hour |-> 3, days |-> 1, offset |-> -5]

Interchangeable ==
  Permutations({n1, n2}) \union Permutations({r1, r2}) \union Permutations({l1, l2})
    \union Permutations({i1, i2})
=============================================================================
