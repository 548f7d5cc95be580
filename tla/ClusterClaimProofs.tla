------------------------- MODULE ClusterClaimProofs -------------------------
(***************************************************************************)
(* Proofs about ClusterClaim, for every set of claimants, every subset of  *)
(* known kinds and every bound.                                            *)
(***************************************************************************)
EXTENDS ClusterClaim, TLAPS

(* The loop of create has a Create left when it sends one.                 *)
TriesLeft == \A c \in Claimants : pc[c] = "create" => tries[c] > 0

(* A takeover was judged against a resource that exists no more or is      *)
(* terminal: both are for ever.                                            *)
TakeoverTargetDone ==
  \A c \in Claimants :
    pc[c] \in {"inspect", "delete"} /\ target[c] # c
      => target[c] \in KnownKinds /\ phase[target[c]] \in {"terminal", "gone"}

(* Only a resource that existed is named by a Lease or judged.             *)
NamedHolderExists ==
  /\ \A h \in Claimants :
       lease \in {Own(h), Foreign(h)} => phase[h] # "absent"
  /\ \A c \in Claimants : pc[c] = "judge" =>
       target[c] # c /\ phase[target[c]] # "absent"

(* What a claimant that runs a call is.                                    *)
CallerPhase ==
  \A c \in Claimants :
    /\ pc[c] \in {"create", "read", "judge", "claimed"} => phase[c] \in {"pending", "running"}
    /\ pc[c] \in {"inspect", "delete"} =>
         IF target[c] = c THEN phase[c] \in {"pending", "terminal", "gone"}
         ELSE phase[c] \in {"pending", "running"}

(* A claim that Claim returned as won is the stored Lease.                 *)
ClaimedHolds == \A c \in Claimants : pc[c] = "claimed" => lease = Own(c)

(* A Delete whose preconditions match deletes the Lease of its target.     *)
FreshNamesTarget == \A c \in Claimants : pc[c] = "delete" /\ fresh[c] => lease = Own(target[c])

ClaimInv ==
  /\ TypeOK
  /\ TriesLeft
  /\ ClaimCoversUse
  /\ TakeoverTargetDone
  /\ NamedHolderExists
  /\ CallerPhase
  /\ ClaimedHolds
  /\ FreshNamesTarget

-----------------------------------------------------------------------------
(* The Leases are told apart by their holder and their provenance.         *)
LEMMA LeaseFacts ==
  ASSUME NEW g \in Claimants \cup {Unreadable}, NEW h \in Claimants \cup {Unreadable}
  PROVE  /\ Own(h) \in Leases /\ Own(h).ours /\ Own(h).holder = h
         /\ Foreign(h) \in Leases /\ ~Foreign(h).ours /\ Foreign(h).holder = h
         /\ Own(h) # NoLease /\ Foreign(h) # NoLease
         /\ Own(g) # Foreign(h)
         /\ Own(g) = Own(h) => g = h
<1>1. Own(h) \in Leases /\ Own(h).ours /\ Own(h).holder = h /\ Own(g).holder = g /\ Own(g).ours
  BY DEF Own, Leases
<1>2. Foreign(h) \in Leases /\ ~Foreign(h).ours /\ Foreign(h).holder = h
  BY DEF Foreign, Leases
<1>3. Own(h) # NoLease /\ Foreign(h) # NoLease
  BY <1>1, <1>2, NoLeaseIsNoLease
<1> QED
  BY <1>1, <1>2, <1>3

(* The initial states satisfy the invariant.                               *)
LEMMA InitClaimInv == Init => ClaimInv
BY LeaseFacts, ClaimConstants DEF Init, ClaimInv, TypeOK, ClaimCoversUse, Uses,
   TakeoverTargetDone, NamedHolderExists, CallerPhase, ClaimedHolds, FreshNamesTarget, Phases, Steps, TriesLeft

(* What the helpers do to the locals of a call.                            *)
CallTypeOK ==
  /\ pc \in [Claimants -> Steps]
  /\ tries \in [Claimants -> 0..2]
  /\ second \in [Claimants -> BOOLEAN]
  /\ target \in [Claimants -> Claimants]
  /\ TriesLeft

(* The variables of a call keep their types when one of its requests       *)
(* returns.                                                                *)
LEMMA CallTypes ==
  ASSUME CallTypeOK, NEW c \in Claimants, NEW h \in Claimants
  PROVE  /\ \A step \in Steps \ {"create"} :
               Goto(c, step) \/ GotoWith(c, step, h) => CallTypeOK'
         /\ \A b \in BOOLEAN : GotoCreate(c, b) => CallTypeOK'
         /\ Return(c) => CallTypeOK'
<1>1. ASSUME NEW step \in Steps \ {"create"}, Goto(c, step) \/ GotoWith(c, step, h)
      PROVE  CallTypeOK'
  BY <1>1 DEF CallTypeOK, Goto, GotoWith, TriesLeft
<1>2. ASSUME NEW b \in BOOLEAN, GotoCreate(c, b) PROVE CallTypeOK'
  BY <1>2 DEF CallTypeOK, GotoCreate, TriesLeft, Steps
<1>3. ASSUME Return(c) PROVE CallTypeOK'
  BY <1>3 DEF CallTypeOK, Return, TriesLeft, Steps
<1> QED
  BY <1>1, <1>2, <1>3

(* Type correctness is preserved by every step.                            *)
LEMMA TypeStep == TypeOK /\ TriesLeft /\ [Next]_vars => TypeOK' /\ TriesLeft'
<1> DEFINE StoreTypeOK == /\ lease \in Leases \cup {NoLease}
                          /\ phase \in [Claimants -> Phases]
                          /\ fresh \in [Claimants -> BOOLEAN]
                          /\ failures \in 0..MaxFailures
                          /\ foreign \in 0..MaxForeign
<1>0. TypeOK /\ TriesLeft <=> StoreTypeOK /\ CallTypeOK
  BY DEF TypeOK, CallTypeOK
<1>a. TypeOK' /\ TriesLeft' <=> StoreTypeOK' /\ CallTypeOK'
  BY DEF TypeOK, CallTypeOK
<1> HIDE DEF StoreTypeOK
<1> SUFFICES ASSUME StoreTypeOK, CallTypeOK, [Next]_vars PROVE StoreTypeOK' /\ CallTypeOK'
  BY <1>0, <1>a
<1>b. \A c \in Claimants : target[c] \in Claimants
  BY DEF CallTypeOK
<1>c. UNCHANGED call => CallTypeOK'
  BY DEF call, CallTypeOK, TriesLeft
<1>d. {"idle", "read", "judge", "inspect", "delete", "claimed"} \subseteq Steps \ {"create"}
  BY DEF Steps
<1>1. ASSUME NEW c \in Claimants, CallClaim(c) PROVE StoreTypeOK' /\ CallTypeOK'
  <2>1. StoreTypeOK'
    BY <1>1 DEF StoreTypeOK, CallClaim, Phases
  <2>2. CallTypeOK'
    BY <1>1, <1>b, <1>c, <1>d, CallTypes DEF CallClaim
  <2> QED
    BY <2>1, <2>2
<1>2. ASSUME NEW c \in Claimants, Create(c) PROVE StoreTypeOK' /\ CallTypeOK'
  <2>0. Own(c) \in Leases
    BY LeaseFacts
  <2>1. StoreTypeOK'
    BY <1>2, <2>0 DEF StoreTypeOK, Create, SetLease
  <2>2. CallTypeOK'
    BY <1>2 DEF Create, CallTypeOK, TriesLeft, Steps
  <2> QED
    BY <2>1, <2>2
<1>3. ASSUME NEW c \in Claimants, ReadHolder(c) PROVE StoreTypeOK' /\ CallTypeOK'
  <2>1. StoreTypeOK'
    BY <1>3 DEF StoreTypeOK, ReadHolder, Phases
  <2>2. lease \notin {NoLease, Own(c)} /\ lease.holder \notin {c, Unreadable} => lease.holder \in Claimants
    BY DEF StoreTypeOK, Leases
  <2>3. lease = NoLease /\ tries[c] > 0 /\ Goto(c, "create") => CallTypeOK'
    BY DEF CallTypeOK, Goto, TriesLeft, Steps
  <2>4. CallTypeOK'
    BY <1>3, <1>d, <2>2, <2>3, CallTypes DEF ReadHolder
  <2> QED
    BY <2>1, <2>4
<1>4. ASSUME NEW c \in Claimants, Judge(c) PROVE StoreTypeOK' /\ CallTypeOK'
  <2>1. StoreTypeOK'
    BY <1>4 DEF StoreTypeOK, Judge, Phases
  <2>2. Return(c) \/ Goto(c, "inspect")
    BY <1>4 DEF Judge
  <2>3. CallTypeOK'
    BY <2>2, <1>d, CallTypes
  <2> QED
    BY <2>1, <2>3
<1>5. ASSUME NEW c \in Claimants, Inspect(c) PROVE StoreTypeOK' /\ CallTypeOK'
  <2>1. StoreTypeOK'
    BY <1>5 DEF StoreTypeOK, Inspect, AfterDelete, Phases
  <2>2. CallTypeOK'
    BY <1>5, <1>b, <1>c, <1>d, CallTypes DEF Inspect, AfterDelete
  <2> QED
    BY <2>1, <2>2
<1>6. ASSUME NEW c \in Claimants, Delete(c) PROVE StoreTypeOK' /\ CallTypeOK'
  <2>1. StoreTypeOK'
    BY <1>6 DEF StoreTypeOK, Delete, SetLease, Phases
  <2>2. CallTypeOK'
    BY <1>6, <1>b, <1>c, <1>d, CallTypes DEF Delete, AfterDelete
  <2> QED
    BY <2>1, <2>2
<1>7. ASSUME NEW c \in Claimants, CallRelease(c) PROVE StoreTypeOK' /\ CallTypeOK'
  <2>1. StoreTypeOK'
    BY <1>7 DEF StoreTypeOK, CallRelease, Phases
  <2>2. CallTypeOK'
    BY <1>7, <1>b, <1>c, <1>d, CallTypes DEF CallRelease
  <2> QED
    BY <2>1, <2>2
<1>8. ASSUME NEW c \in Claimants, Submit(c) PROVE StoreTypeOK' /\ CallTypeOK'
  <2>1. StoreTypeOK'
    BY <1>8 DEF StoreTypeOK, Submit, Phases
  <2>2. CallTypeOK'
    BY <1>8, <1>c DEF Submit
  <2> QED
    BY <2>1, <2>2
<1>9. ASSUME NEW c \in Claimants, Start(c) PROVE StoreTypeOK' /\ CallTypeOK'
  <2>1. StoreTypeOK'
    BY <1>9 DEF StoreTypeOK, Start, Phases
  <2>2. CallTypeOK'
    BY <1>9, <1>b, <1>c, <1>d, CallTypes DEF Start
  <2> QED
    BY <2>1, <2>2
<1>10. ASSUME NEW c \in Claimants, Finish(c) PROVE StoreTypeOK' /\ CallTypeOK'
  <2>1. StoreTypeOK'
    BY <1>10 DEF StoreTypeOK, Finish, Phases
  <2>2. CallTypeOK'
    BY <1>10, <1>c DEF Finish
  <2> QED
    BY <2>1, <2>2
<1>11. ASSUME NEW c \in Claimants, Unhold(c) PROVE StoreTypeOK' /\ CallTypeOK'
  <2>1. StoreTypeOK'
    BY <1>11 DEF StoreTypeOK, Unhold, Phases
  <2>2. CallTypeOK'
    BY <1>11, <1>c DEF Unhold
  <2> QED
    BY <2>1, <2>2
<1>12. ASSUME NEW c \in Claimants, Remove(c) PROVE StoreTypeOK' /\ CallTypeOK'
  <2>1. StoreTypeOK'
    BY <1>12 DEF StoreTypeOK, Remove, Phases
  <2>2. CallTypeOK'
    BY <1>12, <1>b, <1>c, <1>d, CallTypes DEF Remove
  <2> QED
    BY <2>1, <2>2
<1>13. ASSUME NEW c \in Claimants, Fail(c) PROVE StoreTypeOK' /\ CallTypeOK'
  <2>1. StoreTypeOK'
    BY <1>13, ClaimConstants DEF StoreTypeOK, Fail, Phases
  <2>2. CallTypeOK'
    BY <1>13, <1>b, <1>c, <1>d, CallTypes DEF Fail
  <2> QED
    BY <2>1, <2>2
<1>14. CASE ForeignLease
  <2>1. StoreTypeOK'
    BY <1>14, LeaseFacts, ClaimConstants DEF StoreTypeOK, ForeignLease, SetLease
  <2> QED
    BY <2>1, <1>14, <1>c DEF ForeignLease
<1>15. CASE AdminDelete
  BY <1>15, <1>c DEF StoreTypeOK, AdminDelete, SetLease
<1>16. CASE UNCHANGED vars
  BY <1>16, <1>c DEF vars, StoreTypeOK
<1> QED
  BY <1>1, <1>2, <1>3, <1>4, <1>5, <1>6, <1>7, <1>8, <1>9, <1>10, <1>11, <1>12, <1>13,
     <1>14, <1>15, <1>16 DEF Next, ClaimStep

(* The rest of the invariant is preserved by every step.                   *)
LEMMA StepClaimInv == ClaimInv /\ [Next]_vars => ClaimInv'
<1> DEFINE Rest == /\ ClaimCoversUse /\ TakeoverTargetDone /\ NamedHolderExists
                   /\ CallerPhase /\ ClaimedHolds /\ FreshNamesTarget
<1> SUFFICES ASSUME ClaimInv, [Next]_vars PROVE ClaimInv'
  OBVIOUS
<1>0. TypeOK /\ TypeOK' /\ TriesLeft'
  BY TypeStep DEF ClaimInv
<1>f. \A g, h \in Claimants :
        /\ Own(h) # NoLease /\ Foreign(h) # NoLease /\ Own(g) # Foreign(h)
        /\ Own(h).holder = h /\ Own(h).ours /\ (Own(g) = Own(h) => g = h)
  BY LeaseFacts
<1>g. \A h \in Claimants : lease \in Leases /\ lease.holder = h => lease \in {Own(h), Foreign(h)}
  BY DEF Leases, Own, Foreign
<1> USE <1>0, <1>f DEF ClaimInv, TypeOK, ClaimCoversUse, Uses, TakeoverTargetDone,
      NamedHolderExists, CallerPhase, ClaimedHolds, FreshNamesTarget
<1>1. ASSUME NEW c \in Claimants, CallClaim(c) PROVE Rest'
  BY <1>1 DEF CallClaim, call, GotoCreate
<1>2. ASSUME NEW c \in Claimants, Create(c) PROVE Rest'
  <2>1. ClaimCoversUse'
    BY <1>2 DEF Create, call, SetLease
  <2>2. TakeoverTargetDone'
    BY <1>2 DEF Create, call, SetLease
  <2>3. NamedHolderExists'
    BY <1>2 DEF Create, call, SetLease
  <2>4. CallerPhase'
    BY <1>2 DEF Create, call, SetLease
  <2>5. ClaimedHolds'
    BY <1>2 DEF Create, call, SetLease
  <2>6. FreshNamesTarget'
    BY <1>2 DEF Create, call, SetLease
  <2> QED
    BY <2>1, <2>2, <2>3, <2>4, <2>5, <2>6
<1>3. ASSUME NEW c \in Claimants, ReadHolder(c) PROVE Rest'
  <2>1. ClaimCoversUse'
    BY <1>3, <1>g DEF ReadHolder, call, Goto, GotoWith, Return
  <2>2. TakeoverTargetDone'
    BY <1>3, <1>g DEF ReadHolder, call, Goto, GotoWith, Return
  <2>3. NamedHolderExists'
    <3>1. lease \notin {NoLease, Own(c)} /\ lease.holder \notin {c, Unreadable}
            => lease.holder \in Claimants /\ phase[lease.holder] # "absent"
      <4>1. lease \in Leases /\ lease.holder # Unreadable => lease.holder \in Claimants
        BY DEF Leases
      <4> QED
        BY <4>1, <1>g
    <3> QED
      BY <1>3, <3>1 DEF ReadHolder, Goto, GotoWith, Return
  <2>4. CallerPhase'
    BY <1>3, <1>g DEF ReadHolder, call, Goto, GotoWith, Return
  <2>5. ClaimedHolds'
    BY <1>3, <1>g DEF ReadHolder, call, Goto, GotoWith, Return
  <2>6. FreshNamesTarget'
    BY <1>3, <1>g DEF ReadHolder, call, Goto, GotoWith, Return
  <2> QED
    BY <2>1, <2>2, <2>3, <2>4, <2>5, <2>6
<1>4. ASSUME NEW c \in Claimants, Judge(c) PROVE Rest'
  <2>1. ClaimCoversUse'
    BY <1>4 DEF Judge, call, HolderActive, Goto, Return
  <2>2. TakeoverTargetDone'
    <3>1. ~HolderActive(target[c]) => phase[target[c]] \in {"terminal", "gone"}
      BY <1>4 DEF Judge, HolderActive, Phases
    <3> QED
      BY <1>4, <3>1 DEF Judge, HolderActive, Goto, Return
  <2>3. NamedHolderExists'
    BY <1>4 DEF Judge, call, HolderActive, Goto, Return
  <2>4. CallerPhase'
    BY <1>4 DEF Judge, call, HolderActive, Goto, Return
  <2>5. ClaimedHolds'
    BY <1>4 DEF Judge, call, HolderActive, Goto, Return
  <2>6. FreshNamesTarget'
    BY <1>4 DEF Judge, call, HolderActive, Goto, Return
  <2> QED
    BY <2>1, <2>2, <2>3, <2>4, <2>5, <2>6
<1>5. ASSUME NEW c \in Claimants, Inspect(c) PROVE Rest'
  BY <1>5 DEF Inspect, call, AfterDelete, Goto, GotoCreate, Return
<1>6. ASSUME NEW c \in Claimants, Delete(c) PROVE Rest'
  <2>0. ASSUME fresh[c], NEW d \in Claimants PROVE ~Uses(d) /\ pc[d] # "claimed"
    <3>1. pc[c] = "delete" /\ target[c] \in Claimants /\ lease = Own(target[c])
      BY <1>6, <2>0 DEF Delete
    <3>2. phase[target[c]] \in {"pending", "terminal", "gone"} /\ pc[target[c]] # "claimed"
      BY <3>1
    <3> QED
      BY <3>1, <3>2
  <2>1. ClaimCoversUse'
    BY <1>6, <2>0 DEF Delete, call, AfterDelete, SetLease, GotoCreate, Return
  <2>2. TakeoverTargetDone'
    BY <1>6, <2>0 DEF Delete, call, AfterDelete, SetLease, GotoCreate, Return
  <2>3. NamedHolderExists'
    BY <1>6, <2>0 DEF Delete, call, AfterDelete, SetLease, GotoCreate, Return
  <2>4. CallerPhase'
    BY <1>6, <2>0 DEF Delete, call, AfterDelete, SetLease, GotoCreate, Return
  <2>5. ClaimedHolds'
    BY <1>6, <2>0 DEF Delete, call, AfterDelete, SetLease, GotoCreate, Return
  <2>6. FreshNamesTarget'
    BY <1>6, <2>0 DEF Delete, call, AfterDelete, SetLease, GotoCreate, Return
  <2> QED
    BY <2>1, <2>2, <2>3, <2>4, <2>5, <2>6
<1>7. ASSUME NEW c \in Claimants, CallRelease(c) PROVE Rest'
  BY <1>7 DEF CallRelease, call, GotoWith
<1>8. ASSUME NEW c \in Claimants, Submit(c) PROVE Rest'
  BY <1>8 DEF Submit, call
<1>9. ASSUME NEW c \in Claimants, Start(c) PROVE Rest'
  BY <1>9 DEF Start, call, Return
<1>10. ASSUME NEW c \in Claimants, Finish(c) PROVE Rest'
  BY <1>10 DEF Finish, call
<1>11. ASSUME NEW c \in Claimants, Unhold(c) PROVE Rest'
  BY <1>11 DEF Unhold, call
<1>12. ASSUME NEW c \in Claimants, Remove(c) PROVE Rest'
  BY <1>12 DEF Remove, call, GotoWith
<1>13. ASSUME NEW c \in Claimants, Fail(c) PROVE Rest'
  BY <1>13 DEF Fail, call, Return
<1>14. CASE ForeignLease
  <2>1. PICK h \in {d \in Claimants : phase[d] # "absent"} \cup {Unreadable} : lease' = Foreign(h)
    BY <1>14 DEF ForeignLease, SetLease
  <2>2. \A d \in Claimants : lease' # Own(d) /\ (lease' = Foreign(d) => d = h)
    BY <2>1, LeaseFacts
  <2>3. ClaimCoversUse'
    BY <1>14, <2>2 DEF ForeignLease, SetLease, call
  <2>4. TakeoverTargetDone'
    BY <1>14, <2>2 DEF ForeignLease, SetLease, call
  <2>5. NamedHolderExists'
    <3>1. \A d \in Claimants : lease' \in {Own(d), Foreign(d)} => phase[d] # "absent"
      BY <2>1, <2>2, ClaimConstants
    <3> QED
      BY <1>14, <3>1 DEF ForeignLease, call
  <2>6. CallerPhase'
    BY <1>14, <2>2 DEF ForeignLease, SetLease, call
  <2>7. ClaimedHolds'
    BY <1>14, <2>2 DEF ForeignLease, SetLease, call
  <2>8. FreshNamesTarget'
    BY <1>14, <2>2 DEF ForeignLease, SetLease, call
  <2> QED
    BY <2>3, <2>4, <2>5, <2>6, <2>7, <2>8
<1>15. CASE AdminDelete
  <2>1. \A d \in Claimants : lease = Own(d) => phase[d] \in {"terminal", "gone"}
    BY <1>15 DEF AdminDelete
  <2>2. \A d \in Claimants : ~Uses(d) /\ pc[d] # "claimed"
    BY <1>15, <2>1
  <2>3. ClaimCoversUse'
    BY <1>15, <2>2 DEF AdminDelete, SetLease, call
  <2>4. TakeoverTargetDone'
    BY <1>15, <2>2 DEF AdminDelete, SetLease, call
  <2>5. NamedHolderExists'
    BY <1>15, <2>2 DEF AdminDelete, SetLease, call
  <2>6. CallerPhase'
    BY <1>15, <2>2 DEF AdminDelete, SetLease, call
  <2>7. ClaimedHolds'
    BY <1>15, <2>2 DEF AdminDelete, SetLease, call
  <2>8. FreshNamesTarget'
    BY <1>15, <2>2 DEF AdminDelete, SetLease, call
  <2> QED
    BY <2>3, <2>4, <2>5, <2>6, <2>7, <2>8
<1>16. CASE UNCHANGED vars
  BY <1>16 DEF vars, call
<1> QED
  BY <1>1, <1>2, <1>3, <1>4, <1>5, <1>6, <1>7, <1>8, <1>9, <1>10, <1>11, <1>12, <1>13,
     <1>14, <1>15, <1>16 DEF Next, ClaimStep

-----------------------------------------------------------------------------
(* ClaimInv holds in every reachable state.                                *)
THEOREM ClaimInvariant == Spec => []ClaimInv
<1>1. Init => ClaimInv
  BY InitClaimInv
<1>2. ClaimInv /\ [Next]_vars => ClaimInv'
  BY StepClaimInv
<1> QED
  BY <1>1, <1>2, PTL DEF Spec

(* Every variable keeps its type.                                          *)
THEOREM TypeCorrect == Spec => []TypeOK
<1>1. ClaimInv => TypeOK
  BY DEF ClaimInv
<1> QED
  BY <1>1, ClaimInvariant, PTL

(* An operation has the Lease as long as it uses the cluster, whatever     *)
(* claims, releases, takeovers, failures and foreign writes interleave.    *)
THEOREM UseIsCovered == Spec => []ClaimCoversUse
<1>1. ClaimInv => ClaimCoversUse
  BY DEF ClaimInv
<1> QED
  BY <1>1, ClaimInvariant, PTL

(* Two operations never use the cluster at once.                           *)
THEOREM Exclusion == Spec => []MutualExclusion
<1>1. ClaimInv => MutualExclusion
  BY DEF ClaimInv, ClaimCoversUse, MutualExclusion, Own
<1> QED
  BY <1>1, ClaimInvariant, PTL

(* The judgement that a takeover rests on does not age.                    *)
THEOREM JudgementStays == Spec => []TakeoverJudgementStays
<1>1. ClaimInv => TakeoverJudgementStays
  BY DEF ClaimInv, TypeOK, TakeoverTargetDone, TakeoverJudgementStays, HolderActive
<1> QED
  BY <1>1, ClaimInvariant, PTL

(* Nobody steals a claim that was won and is not yet recorded as a start.  *)
THEOREM PendingClaimIsKept == Spec => PendingClaimKept
<1> DEFINE Kept == \A c \in Claimants :
       lease = Own(c) /\ lease' # lease /\ phase[c] = "pending"
         => pc[c] = "delete" /\ target[c] = c
<1>1. ClaimInv /\ [Next]_vars => [Kept]_vars
  <2> SUFFICES ASSUME ClaimInv, Next,
                      NEW c \in Claimants, lease = Own(c), lease' # lease, phase[c] = "pending"
               PROVE  pc[c] = "delete" /\ target[c] = c
    OBVIOUS
  <2>1. lease.ours /\ lease.holder = c /\ lease # NoLease
    BY LeaseFacts
  <2>2. ~AdminDelete /\ ~ForeignLease
    BY <2>1 DEF AdminDelete, ForeignLease
  <2>3. PICK d \in Claimants : Delete(d) /\ fresh[d]
    BY <2>1, <2>2 DEF Next, ClaimStep, CallClaim, Create, ReadHolder, Judge, Inspect, Delete,
       CallRelease, Submit, Start, Finish, Unhold, Remove, Fail
  <2>4. pc[d] = "delete" /\ lease = Own(target[d]) /\ target[d] \in Claimants
    BY <2>3 DEF Delete, ClaimInv, TypeOK, FreshNamesTarget
  <2>5. target[d] = c
    BY <2>4 DEF Own
  <2>6. d = c
    BY <2>4, <2>5 DEF ClaimInv, TakeoverTargetDone
  <2> QED
    BY <2>4, <2>5, <2>6
<1> QED
  BY <1>1, ClaimInvariant, PTL DEF Spec, PendingClaimKept

(* No claimant removes a Lease that carries no holder annotations.         *)
THEOREM ForeignLeaseIsKept == Spec => ForeignLeaseKept
<1> DEFINE Kept == lease # NoLease /\ lease' # lease /\ ~lease.ours => pc' = pc
<1>1. ClaimInv /\ [Next]_vars => [Kept]_vars
  <2> SUFFICES ASSUME ClaimInv, Next, lease # NoLease, lease' # lease, ~lease.ours
               PROVE  pc' = pc
    OBVIOUS
  <2>1. CASE AdminDelete \/ ForeignLease
    BY <2>1 DEF AdminDelete, ForeignLease, call
  <2>2. CASE \E d \in Claimants : Delete(d) /\ fresh[d]
    BY <2>2 DEF Delete, ClaimInv, TypeOK, FreshNamesTarget, Own
  <2> QED
    BY <2>1, <2>2 DEF Next, ClaimStep, CallClaim, Create, ReadHolder, Judge, Inspect, Delete,
       CallRelease, Submit, Start, Finish, Unhold, Remove, Fail
<1> QED
  BY <1>1, ClaimInvariant, PTL DEF Spec, ForeignLeaseKept

(* The protocol implements ExclusiveUse: an operation begins only while    *)
(* nobody uses the cluster, and there is a free moment between two.        *)
THEOREM ClaimImplementsExclusiveUse == Spec => ImplementsExclusiveUse
<1> DEFINE users == {c \in Claimants : Uses(c)}
<1>1. Init => Use!Init
  BY DEF Init, Use!Init, Uses
<1>2. ClaimInv /\ ClaimInv' /\ [Next]_vars => [Use!Next]_users
  <2> SUFFICES ASSUME ClaimInv, ClaimInv', [Next]_vars, users' # users
               PROVE  \E c \in Claimants : Use!Begin(c) \/ Use!End(c)
    BY DEF Use!Next
  <2>1. \A c \in users : users = {c}
    BY DEF ClaimInv, ClaimCoversUse, Own
  <2>2. \A c \in users' : users' = {c}
    BY DEF ClaimInv, ClaimCoversUse, Own
  <2>3. PICK c \in Claimants : \A d \in Claimants \ {c} : phase'[d] = phase[d]
    BY DEF Next, ClaimStep, CallClaim, Create, ReadHolder, Judge, Inspect, Delete, CallRelease,
       Submit, Start, Finish, Unhold, Remove, Fail, ForeignLease, AdminDelete, vars,
       ClaimInv, TypeOK
  <2>4. \A d \in Claimants \ {c} : Uses(d)' <=> Uses(d)
    BY <2>3 DEF Uses
  <2>5. CASE Uses(c)
    BY <2>1, <2>2, <2>4, <2>5 DEF Use!End
  <2>6. CASE ~Uses(c)
    BY <2>1, <2>2, <2>4, <2>6 DEF Use!Begin
  <2> QED
    BY <2>5, <2>6
<1> QED
  BY <1>1, <1>2, ClaimInvariant, PTL DEF Spec, ImplementsExclusiveUse, Use!Spec
=============================================================================
