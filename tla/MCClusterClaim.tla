--------------------------- MODULE MCClusterClaim ---------------------------
(* Model values for the run of ClusterClaim: two claimants of kinds that   *)
(* holderKinds lists.  ClusterClaimProofs covers the unknown kinds.        *)
EXTENDS ClusterClaim

CONSTANTS b1, b2
=============================================================================
