---------------------------- MODULE MCLeaseClaim ----------------------------
(* Model values for the runs of LeaseClaim.  d1 is the oldest.             *)
EXTENDS LeaseClaim

CONSTANTS d1, d2, d3, k1, k2

MCAge == [c \in Claimants |-> IF c = d1 THEN 1 ELSE IF c = d2 THEN 2 ELSE 3]

(* d3 was removed by hand and left the Lease of k1.                        *)
MCStale == [k \in Keys |-> IF k = k1 THEN d3 ELSE NoLease]
=============================================================================
