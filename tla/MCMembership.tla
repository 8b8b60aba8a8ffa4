----------------------------- MODULE MCMembership -----------------------------
(* Two users of an organization, their sessions and its invitations.       *)
EXTENDS Membership, TLC

CONSTANTS u1, u2, v1, v2, s1, s2, r1, r2

Interchangeable ==
  Permutations({u1, u2}) \union Permutations({v1, v2})
    \union Permutations({s1, s2}) \union Permutations({r1, r2})
=============================================================================
