------------------------------ MODULE MCTeamBot -------------------------------
(* One founder and two accounts, one telegram id.                             *)
EXTENDS TeamBot, TLC

CONSTANTS adm, u1, u2, k1, k2, a1, a2, cli, g1

\* Tokens, and the API's threads, are alike; the run checks safety only.
MCSymmetry == Permutations({k1, k2}) \cup Permutations({a1, a2})
\* States after a mishap are checked, but not explored further.
MCNoMishap == ~overlapped /\ ~disturbed
=============================================================================
