----------------------------- MODULE MCRelayQuota -----------------------------
(* Small instances of RelayQuota. *)
EXTENDS RelayQuota, TLC

CONSTANTS s1, s2, s3

Symmetry == Permutations(Sessions)
===============================================================================
