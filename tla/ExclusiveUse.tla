---------------------------- MODULE ExclusiveUse ----------------------------
(***************************************************************************)
(* What pkg/clusterclaim promises to its callers, in one variable: the set *)
(* of operations (backups and restores) that use one CamundaCluster.  An   *)
(* operation may begin only while nobody uses the cluster, and the cluster *)
(* never passes from one operation to the next without being free between. *)
(* The package comment states it: "An operation that takes the cluster for *)
(* itself holds the claim while it runs, and no second operation of any    *)
(* kind starts in the meantime."                                           *)
(***************************************************************************)
CONSTANT Claimants

VARIABLE users

Init == users = {}

Begin(c) == users = {} /\ users' = {c}

End(c) == users = {c} /\ users' = {}

Next == \E c \in Claimants : Begin(c) \/ End(c)

Spec == Init /\ [][Next]_users
=============================================================================
