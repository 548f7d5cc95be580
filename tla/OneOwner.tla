------------------------------ MODULE OneOwner ------------------------------
(***************************************************************************)
(* What pkg/leaseclaim promises for the things it hands out, in one        *)
(* variable: who works on each key.  "Of two claimants that reach one free *)
(* key together, exactly one holds it", and a key passes from one to the   *)
(* next only through a moment in which nobody works on it.                 *)
(***************************************************************************)
CONSTANTS Claimants, Keys

VARIABLE users

Init == users = [k \in Keys |-> {}]

Begin(c, k) == users[k] = {} /\ users' = [users EXCEPT ![k] = {c}]

End(c, k) == users[k] = {c} /\ users' = [users EXCEPT ![k] = {}]

Next == \E c \in Claimants, k \in Keys : Begin(c, k) \/ End(c, k)

Spec == Init /\ [][Next]_users
=============================================================================
