--------------------------- MODULE MCEvidenceVault ---------------------------
(* Instances of the vault and the root MFA control: the content of one     *)
(* observation, stored by a scan attempt and by other requests.            *)
EXTENDS RootMfaControl, TLC

CONSTANTS c1, c2, k1, k2, e1, m1, i1, i2, h1, h2

Verdicts == (k1 :> "PASS") @@ (k2 :> "FAIL")
OneVerdict == k1 :> "PASS"

(* Rows are created in any order of their ids.                             *)
Interchangeable == {(i1 :> i2) @@ (i2 :> i1)}
=============================================================================
