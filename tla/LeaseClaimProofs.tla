-------------------------- MODULE LeaseClaimProofs --------------------------
(***************************************************************************)
(* Proofs about LeaseClaim, for every set of Databases and keys, every     *)
(* order among them, every set of Leases left behind and every bound.      *)
(***************************************************************************)
EXTENDS LeaseClaim, TLAPS

(* Only a Database that has its finalizer runs a pass.                     *)
RunnerExists == \A c \in Claimants : pc[c] # "idle" => life[c] \in {"alive", "deleting"}

(* A Lease names, and a pass judges, only what exists or existed.          *)
NamedExisted ==
  /\ \A k \in Keys : lease[k] \in Claimants => life[lease[k]] # "absent"
  /\ \A c \in Claimants : pc[c] \in {"judge", "delete"} => life[seen[c]] # "absent"

(* The holder that a takeover removes is gone for ever.                    *)
TakeoverTargetGone == \A c \in Claimants : pc[c] = "delete" => ~Exists(seen[c])

(* A delete whose preconditions match hits the Lease that was judged.      *)
FreshNamesSeen ==
  \A c \in Claimants : pc[c] \in {"judge", "delete"} /\ fresh[c] => lease[key[c]] = seen[c]

(* From the answer of Take to the end of the pass the Lease stays.         *)
TakenIsHeld ==
  \A c \in Claimants : pc[c] \in {"connect", "sweep", "sql", "publish"} => lease[key[c]] = c

LeaseInv ==
  /\ TypeOK
  /\ RunnerExists
  /\ NamedExisted
  /\ TakeoverTargetGone
  /\ FreshNamesSeen
  /\ TakenIsHeld

-----------------------------------------------------------------------------
(* The initial states satisfy the invariant.                               *)
LEMMA InitLeaseInv == Init => LeaseInv
BY LeaseClaimConstants DEF Init, LeaseInv, TypeOK, RunnerExists, NamedExisted, TakeoverTargetGone,
   FreshNamesSeen, TakenIsHeld, Departed, Exists, Lives, Points

(* A write of one Lease types the Leases and what passes know of them.     *)
LEMMA SetLeaseTypes ==
  ASSUME TypeOK, NEW k \in Keys, NEW h \in Claimants \cup {NoLease, Foreign}, SetLease(k, h)
  PROVE  /\ lease' \in [Keys -> Claimants \cup {NoLease, Foreign}]
         /\ fresh' \in [Claimants -> BOOLEAN]
         /\ lease'[k] = h /\ \A j \in Keys \ {k} : lease'[j] = lease[j]
         /\ \A c \in Claimants : fresh'[c] <=> fresh[c] /\ key[c] # k
BY DEF TypeOK, SetLease, Outdated

(* What the end of a pass writes has its type.                             *)
LEMMA EndTypes ==
  ASSUME TypeOK, NEW c \in Claimants, End(c)
  PROVE  /\ pc' \in [Claimants -> Points] /\ key' \in [Claimants -> Keys]
         /\ seen' \in [Claimants -> Claimants]
         /\ Flush(c) => recorded' \in [Claimants -> Keys \cup {NoKey}]
BY DEF TypeOK, End, Flush, Points

(* What the judgement of a Lease writes has its type.                      *)
LEMMA JudgedTypes ==
  ASSUME TypeOK, NEW c \in Claimants, NEW h \in Claimants \cup {Foreign}, Judged(c, h)
  PROVE  /\ pc' \in [Claimants -> Points] /\ key' = key
         /\ seen' \in [Claimants -> Claimants] /\ fresh' \in [Claimants -> BOOLEAN]
<1>1. "connect" \in Points /\ "lost" \in Points /\ "judge" \in Points
  BY DEF Points
<1>2. CASE h = c /\ Goto(c, "connect") /\ UNCHANGED fresh
  BY <1>1, <1>2 DEF TypeOK, Goto
<1>3. CASE h = Foreign /\ Goto(c, "lost") /\ UNCHANGED fresh
  BY <1>1, <1>3 DEF TypeOK, Goto
<1>4. CASE /\ h \in Claimants \ {c} /\ pc' = [pc EXCEPT ![c] = "judge"]
           /\ seen' = [seen EXCEPT ![c] = h] /\ fresh' = [fresh EXCEPT ![c] = TRUE]
           /\ UNCHANGED key
  BY <1>1, <1>4 DEF TypeOK
<1> QED
  BY <1>2, <1>3, <1>4 DEF Judged

(* Every variable keeps its type.                                          *)
LEMMA TypeStep == TypeOK /\ [Next]_vars => TypeOK'
<1> SUFFICES ASSUME TypeOK, [Next]_vars PROVE TypeOK'
  OBVIOUS
<1> USE DEF Lives, Points, counters, pass
<1>1. ASSUME NEW c \in Claimants, AddFinalizer(c) PROVE TypeOK'
  BY <1>1 DEF TypeOK, AddFinalizer, Goto
<1>2. ASSUME NEW c \in Claimants, Begin(c) PROVE TypeOK'
  BY <1>2 DEF TypeOK, Begin, Goto
<1>3. ASSUME NEW c \in Claimants, Read(c) PROVE TypeOK'
  BY <1>3, JudgedTypes DEF TypeOK, Read, Goto
<1>4. ASSUME NEW c \in Claimants, Order(c) PROVE TypeOK'
  BY <1>4, EndTypes DEF TypeOK, Order, Goto
<1>5. ASSUME NEW c \in Claimants, Create(c) PROVE TypeOK'
  BY <1>5, JudgedTypes, SetLeaseTypes DEF TypeOK, Create, Goto
<1>6. ASSUME NEW c \in Claimants, Judge(c) PROVE TypeOK'
  BY <1>6 DEF TypeOK, Judge, Goto
<1>7. ASSUME NEW c \in Claimants, TakeOver(c) PROVE TypeOK'
  BY <1>7, SetLeaseTypes, EndTypes DEF TypeOK, TakeOver, Goto
<1>8. ASSUME NEW c \in Claimants, CreateAgain(c) PROVE TypeOK'
  BY <1>8, SetLeaseTypes DEF TypeOK, CreateAgain, Goto
<1>9. ASSUME NEW c \in Claimants, Lost(c) PROVE TypeOK'
  BY <1>9 DEF TypeOK, Lost, Goto
<1>10. ASSUME NEW c \in Claimants, Drop(c) PROVE TypeOK'
  BY <1>10, SetLeaseTypes, EndTypes DEF TypeOK, Drop, Goto, Release
<1>11. ASSUME NEW c \in Claimants, Sweep(c) PROVE TypeOK'
  BY <1>11, SetLeaseTypes DEF TypeOK, Sweep, Goto, Release
<1>12. ASSUME NEW c \in Claimants, BootstrapSQL(c) PROVE TypeOK'
  BY <1>12 DEF TypeOK, BootstrapSQL, Goto
<1>13. ASSUME NEW c \in Claimants, Publish(c) PROVE TypeOK'
  BY <1>13, EndTypes DEF TypeOK, Publish
<1>14. ASSUME NEW c \in Claimants, Finalize(c) PROVE TypeOK'
  BY <1>14, SetLeaseTypes DEF TypeOK, Finalize, Release
<1>15. ASSUME NEW c \in Claimants, Connect(c) PROVE TypeOK'
  BY <1>15, EndTypes DEF TypeOK, Connect, Goto
<1>16. ASSUME NEW c \in Claimants, Fail(c) PROVE TypeOK'
  BY <1>16, EndTypes, LeaseClaimConstants DEF TypeOK, Fail
<1>17. ASSUME NEW c \in Claimants, CreateDatabase(c) PROVE TypeOK'
  BY <1>17 DEF TypeOK, CreateDatabase
<1>18. ASSUME NEW c \in Claimants, Delete(c) PROVE TypeOK'
  BY <1>18 DEF TypeOK, Delete
<1>19. ASSUME NEW c \in Claimants, RemoveByHand(c) PROVE TypeOK'
  BY <1>19, LeaseClaimConstants DEF TypeOK, RemoveByHand
<1>20. ASSUME NEW c \in Claimants, \E k \in Keys : Move(c, k) PROVE TypeOK'
  BY <1>20, LeaseClaimConstants DEF TypeOK, Move
<1>21. ASSUME NEW k \in Keys, ForeignWrite(k) PROVE TypeOK'
  BY <1>21, SetLeaseTypes, LeaseClaimConstants DEF TypeOK, ForeignWrite
<1>22. ASSUME NEW k \in Keys, AdminDelete(k) PROVE TypeOK'
  BY <1>22, SetLeaseTypes DEF TypeOK, AdminDelete
<1>23. CASE UNCHANGED vars
  BY <1>23 DEF TypeOK, vars
<1> QED
  BY <1>1, <1>2, <1>3, <1>4, <1>5, <1>6, <1>7, <1>8, <1>9, <1>10, <1>11, <1>12, <1>13, <1>14, <1>15, <1>16, <1>17, <1>18, <1>19, <1>20, <1>21, <1>22, <1>23 DEF Next, Pass

(* The invariant is preserved by every step.                               *)
LEMMA LeaseStep == LeaseInv /\ [Next]_vars => LeaseInv'
<1> SUFFICES ASSUME LeaseInv, [Next]_vars PROVE (RunnerExists /\ NamedExisted /\ TakeoverTargetGone
                                               /\ FreshNamesSeen /\ TakenIsHeld)'
  BY TypeStep DEF LeaseInv
<1>0. TypeOK /\ TypeOK'
  BY TypeStep DEF LeaseInv
<1>a. RunnerExists /\ NamedExisted /\ TakeoverTargetGone /\ FreshNamesSeen /\ TakenIsHeld
  BY DEF LeaseInv
<1> DEFINE Good == RunnerExists /\ NamedExisted /\ TakeoverTargetGone /\ FreshNamesSeen /\ TakenIsHeld
<1> USE DEF RunnerExists, NamedExisted, TakeoverTargetGone, FreshNamesSeen, TakenIsHeld, Exists
<1>b. ASSUME NEW c \in Claimants, pc[c] # "idle", lease[key[c]] # NoLease,
             Judged(c, lease[key[c]]), UNCHANGED <<lease, life>>
      PROVE  Good'
  <2>1. CASE lease[key[c]] = c /\ Goto(c, "connect") /\ UNCHANGED fresh
    BY <1>b, <2>1, <1>0, <1>a DEF TypeOK, Goto
  <2>2. CASE Goto(c, "lost") /\ UNCHANGED fresh
    BY <1>b, <2>2, <1>0, <1>a DEF TypeOK, Goto
  <2>3. CASE /\ lease[key[c]] \in Claimants \ {c} /\ pc' = [pc EXCEPT ![c] = "judge"]
             /\ seen' = [seen EXCEPT ![c] = lease[key[c]]] /\ fresh' = [fresh EXCEPT ![c] = TRUE]
             /\ UNCHANGED key
    BY <1>b, <2>3, <1>0, <1>a DEF TypeOK
  <2> QED
    BY <1>b, <2>1, <2>2, <2>3 DEF Judged
<1>c. ASSUME NEW c \in Claimants, End(c), UNCHANGED <<lease, life, fresh>>
      PROVE  Good'
  BY <1>c, <1>0, <1>a DEF TypeOK, End
<1>d. ASSUME NEW c \in Claimants, NEW k \in Keys, NEW h \in {c, NoLease}, SetLease(k, h),
             UNCHANGED <<life, key, seen>>, life[c] \in {"alive", "deleting"},
             lease[k] \in {c, NoLease} \/ (lease[k] \in Claimants /\ ~Exists(lease[k])),
             \/ pc' = pc
             \/ pc' = [pc EXCEPT ![c] = "again"]
             \/ h = c /\ key[c] = k /\ pc' = [pc EXCEPT ![c] = "connect"],
             pc'[c] \in {"connect", "sweep", "sql", "publish"} /\ key[c] = k => h = c,
             pc'[c] \in {"connect", "sweep", "sql", "publish"} /\ key[c] # k => pc' = pc
      PROVE  Good'
  <2>1. /\ lease'[k] = h /\ \A j \in Keys \ {k} : lease'[j] = lease[j]
        /\ \A d \in Claimants : fresh'[d] <=> fresh[d] /\ key[d] # k
    BY <1>d, <1>0, SetLeaseTypes
  <2>2. \A d \in Claimants \ {c} : pc'[d] = pc[d]
    BY <1>d, <1>0 DEF TypeOK
  <2>3. RunnerExists' /\ TakeoverTargetGone'
    BY <1>d, <1>0, <1>a, <2>2 DEF TypeOK
  <2>4. NamedExisted'
    BY SMTT(60), <1>d, <1>0, <1>a, <2>1, <2>2, LeaseClaimConstants DEF TypeOK
  <2>5. FreshNamesSeen'
    BY <1>d, <1>0, <1>a, <2>1, <2>2 DEF TypeOK
  <2>6. ASSUME NEW d \in Claimants, pc'[d] \in {"connect", "sweep", "sql", "publish"}
        PROVE  lease'[key'[d]] = d
    <3>1. CASE d = c
      BY <1>d, <1>0, <1>a, <2>1, <2>6, <3>1 DEF TypeOK
    <3>2. CASE d # c
      <4>1. lease[key[d]] = d /\ Exists(d) /\ key[d] \in Keys
        BY <1>0, <1>a, <2>2, <2>6, <3>2 DEF TypeOK
      <4>2. key[d] # k
        BY <1>d, <4>1, <3>2, LeaseClaimConstants
      <4> QED
        BY <1>d, <2>1, <4>1, <4>2
    <3> QED
      BY <3>1, <3>2
  <2> QED
    BY <2>3, <2>4, <2>5, <2>6
<1>1. ASSUME NEW c \in Claimants, AddFinalizer(c) PROVE Good'
  BY <1>1, <1>0, <1>a, LeaseClaimConstants DEF TypeOK, AddFinalizer, pass, pass
<1>2. ASSUME NEW c \in Claimants, Begin(c) PROVE Good'
  BY <1>2, <1>0, <1>a, LeaseClaimConstants DEF TypeOK, Begin, pass
<1>3. ASSUME NEW c \in Claimants, Read(c) PROVE Good'
  <2>1. pc[c] = "read" /\ UNCHANGED <<lease, life>>
    BY <1>3 DEF Read
  <2>2. CASE Goto(c, "order") /\ UNCHANGED fresh
    BY <2>1, <2>2, <1>0, <1>a DEF TypeOK, Goto
  <2>3. CASE lease[key[c]] # NoLease /\ Judged(c, lease[key[c]])
    BY <2>1, <2>3, <1>0, <1>a, <1>b
  <2> QED
    BY <1>3, <2>2, <2>3 DEF Read
<1>4. ASSUME NEW c \in Claimants, Order(c) PROVE Good'
  <2>1. pc[c] = "order" /\ UNCHANGED <<lease, life, fresh>>
    BY <1>4 DEF Order
  <2>2. CASE Goto(c, "create")
    BY <2>1, <2>2, <1>0, <1>a DEF TypeOK, Goto
  <2>3. CASE End(c)
    BY <2>1, <2>3, <1>0, <1>a, <1>c
  <2> QED
    BY <1>4, <2>2, <2>3 DEF Order
<1>5. ASSUME NEW c \in Claimants, Create(c) PROVE Good'
  <2>1. pc[c] = "create" /\ UNCHANGED life
    BY <1>5 DEF Create
  <2>2. CASE lease[key[c]] = NoLease /\ SetLease(key[c], c) /\ Goto(c, "connect")
    BY <2>1, <2>2, <1>0, <1>a, <1>d DEF TypeOK, Goto
  <2>3. CASE lease[key[c]] # NoLease /\ Judged(c, lease[key[c]]) /\ UNCHANGED lease
    BY <2>1, <2>3, <1>0, <1>a, <1>b
  <2> QED
    BY <1>5, <2>2, <2>3 DEF Create
<1>6. ASSUME NEW c \in Claimants, Judge(c) PROVE Good'
  BY <1>6, <1>0, <1>a, LeaseClaimConstants DEF TypeOK, Judge, Goto, pass
<1>7. ASSUME NEW c \in Claimants, TakeOver(c) PROVE Good'
  <2>1. pc[c] = "delete" /\ UNCHANGED life
    BY <1>7 DEF TakeOver
  <2>2. CASE fresh[c] /\ SetLease(key[c], NoLease) /\ Goto(c, "again")
    <3>1. lease[key[c]] = seen[c] /\ seen[c] \in Claimants /\ ~Exists(seen[c])
      BY <2>1, <2>2, <1>0, <1>a DEF TypeOK
    <3>2. life[c] \in {"alive", "deleting"} /\ key[c] \in Keys
      BY <2>1, <1>0, <1>a DEF TypeOK
    <3>3. pc' = [pc EXCEPT ![c] = "again"] /\ UNCHANGED <<key, seen>> /\ pc'[c] = "again"
      BY <2>2, <1>0 DEF TypeOK, Goto
    <3> QED
      BY <2>1, <2>2, <3>1, <3>2, <3>3, <1>d
  <2>3. CASE Goto(c, "again") /\ UNCHANGED <<lease, fresh>>
    BY <2>1, <2>3, <1>0, <1>a DEF TypeOK, Goto
  <2>4. CASE End(c) /\ UNCHANGED <<lease, fresh>>
    BY <2>1, <2>4, <1>0, <1>a, <1>c
  <2> QED
    BY <1>7, <2>2, <2>3, <2>4 DEF TakeOver
<1>8. ASSUME NEW c \in Claimants, CreateAgain(c) PROVE Good'
  <2>1. pc[c] = "again" /\ UNCHANGED life
    BY <1>8 DEF CreateAgain
  <2>2. CASE lease[key[c]] = NoLease /\ SetLease(key[c], c) /\ Goto(c, "connect")
    BY <2>1, <2>2, <1>0, <1>a, <1>d DEF TypeOK, Goto
  <2>3. CASE Goto(c, "lost") /\ UNCHANGED <<lease, fresh>>
    BY <2>1, <2>3, <1>0, <1>a DEF TypeOK, Goto
  <2>4. CASE lease[key[c]] = c /\ Goto(c, "connect") /\ UNCHANGED <<lease, fresh>>
    BY <2>1, <2>4, <1>0, <1>a DEF TypeOK, Goto
  <2> QED
    BY <1>8, <2>2, <2>3, <2>4 DEF CreateAgain
<1>9. ASSUME NEW c \in Claimants, Lost(c) PROVE Good'
  BY <1>9, <1>0, <1>a, LeaseClaimConstants DEF TypeOK, Lost, Goto, pass
<1>10. ASSUME NEW c \in Claimants, Drop(c) PROVE Good'
  <2>1. pc[c] = "drop" /\ UNCHANGED life
    BY <1>10 DEF Drop
  <2>2. CASE Release(c, {}) /\ UNCHANGED pass
    BY <2>1, <2>2, <1>0, <1>a, <1>d DEF TypeOK, Release, pass
  <2>3. CASE End(c) /\ UNCHANGED <<lease, fresh>>
    BY <2>1, <2>3, <1>0, <1>a, <1>c
  <2> QED
    BY <1>10, <2>2, <2>3 DEF Drop
<1>11. ASSUME NEW c \in Claimants, Sweep(c) PROVE Good'
  BY <1>11, <1>0, <1>a, SetLeaseTypes, LeaseClaimConstants DEF TypeOK, Sweep, Goto, Release, pass
<1>12. ASSUME NEW c \in Claimants, BootstrapSQL(c) PROVE Good'
  BY <1>12, <1>0, <1>a, LeaseClaimConstants DEF TypeOK, BootstrapSQL, Goto, pass
<1>13. ASSUME NEW c \in Claimants, Publish(c) PROVE Good'
  BY <1>13, <1>0, <1>a, LeaseClaimConstants DEF TypeOK, Publish, End, pass
<1>14. ASSUME NEW c \in Claimants, Finalize(c) PROVE Good'
  <2>1. pc[c] = "idle" /\ life[c] = "deleting" /\ UNCHANGED pass
    BY <1>14 DEF Finalize
  <2>2. CASE Release(c, {}) /\ UNCHANGED life
    BY <2>1, <2>2, <1>0, <1>a, <1>d DEF TypeOK, Release, pass
  <2>3. CASE life' = [life EXCEPT ![c] = "gone"] /\ UNCHANGED <<lease, fresh>>
    BY <2>1, <2>3, <1>0, <1>a DEF TypeOK, pass
  <2> QED
    BY <1>14, <2>2, <2>3 DEF Finalize
<1>15. ASSUME NEW c \in Claimants, Connect(c) PROVE Good'
  <2>1. pc[c] = "connect" /\ UNCHANGED <<lease, life, fresh>>
    BY <1>15 DEF Connect
  <2>2. CASE Goto(c, "sweep")
    BY <2>1, <2>2, <1>0, <1>a DEF TypeOK, Goto
  <2>3. CASE End(c)
    BY <2>1, <2>3, <1>0, <1>a, <1>c
  <2> QED
    BY <1>15, <2>2, <2>3 DEF Connect
<1>16. ASSUME NEW c \in Claimants, Fail(c) PROVE Good'
  BY <1>16, <1>0, <1>a, LeaseClaimConstants DEF TypeOK, Fail, End, pass
<1>17. ASSUME NEW c \in Claimants, CreateDatabase(c) PROVE Good'
  BY <1>17, <1>0, <1>a, LeaseClaimConstants DEF TypeOK, CreateDatabase, pass
<1>18. ASSUME NEW c \in Claimants, Delete(c) PROVE Good'
  BY <1>18, <1>0, <1>a, LeaseClaimConstants DEF TypeOK, Delete, pass
<1>19. ASSUME NEW c \in Claimants, RemoveByHand(c) PROVE Good'
  BY <1>19, <1>0, <1>a, LeaseClaimConstants DEF TypeOK, RemoveByHand, pass
<1>20. ASSUME NEW c \in Claimants, \E k \in Keys : Move(c, k) PROVE Good'
  BY <1>20, <1>0, <1>a, LeaseClaimConstants DEF TypeOK, Move, pass
<1>21. ASSUME NEW k \in Keys, ForeignWrite(k) PROVE Good'
  BY <1>21, <1>0, <1>a, SetLeaseTypes, LeaseClaimConstants DEF TypeOK, ForeignWrite, pass
<1>22. ASSUME NEW k \in Keys, AdminDelete(k) PROVE Good'
  BY <1>22, <1>0, <1>a, SetLeaseTypes, LeaseClaimConstants DEF TypeOK, AdminDelete, pass
<1>23. CASE UNCHANGED vars
  BY <1>23, <1>a DEF vars, pass
<1> QED
  BY <1>1, <1>2, <1>3, <1>4, <1>5, <1>6, <1>7, <1>8, <1>9, <1>10, <1>11, <1>12, <1>13, <1>14, <1>15, <1>16, <1>17, <1>18, <1>19, <1>20, <1>21, <1>22, <1>23 DEF Next, Pass

-----------------------------------------------------------------------------
(* LeaseInv holds in every reachable state.                                *)
THEOREM LeaseInvariant == Spec => []LeaseInv
<1> QED
  BY InitLeaseInv, LeaseStep, PTL DEF Spec

(* Every variable keeps its type.                                          *)
THEOREM LeaseTypeCorrect == Spec => []TypeOK
<1>1. LeaseInv => TypeOK
  BY DEF LeaseInv
<1> QED
  BY <1>1, LeaseInvariant, PTL

(* Every statement that a Database runs against a key runs under its       *)
(* Lease, whatever moves, deletions, takeovers and crashes interleave.     *)
THEOREM SqlIsCovered == Spec => []ClaimCoversSql
<1>1. LeaseInv => ClaimCoversSql
  BY DEF LeaseInv, TakenIsHeld, ClaimCoversSql, UsesKey
<1> QED
  BY <1>1, LeaseInvariant, PTL

(* No takeover removes the Lease of a Database that exists, and nothing    *)
(* but an administrator removes one that is not the operator's.            *)
THEOREM HolderKeepsTheLease == Spec => HolderKeeps
<1> DEFINE Kept(k) ==
      /\ lease[k] \in Claimants /\ Exists(lease[k]) /\ lease'[k] # lease[k]
           => pc[lease[k]] \in {"drop", "sweep"} \/ life[lease[k]] = "deleting"
      /\ lease[k] = Foreign /\ lease'[k] # Foreign => AdminDelete(k)
<1>1. LeaseInv /\ [Next]_vars => [\A k \in Keys : Kept(k)]_vars
  <2> SUFFICES ASSUME LeaseInv, Next, NEW k \in Keys, lease'[k] # lease[k] PROVE Kept(k)
    OBVIOUS
  <2>0. TypeOK /\ TakeoverTargetGone /\ FreshNamesSeen
    BY DEF LeaseInv
  <2>1. ASSUME NEW c \in Claimants, Create(c) \/ CreateAgain(c) PROVE Kept(k)
    <3>1. lease[key[c]] = NoLease /\ SetLease(key[c], c) /\ key[c] \in Keys
      BY <2>0, <2>1 DEF Create, CreateAgain, TypeOK
    <3> QED
      BY <3>1, <2>0, SetLeaseTypes, LeaseClaimConstants
  <2>2. ASSUME NEW c \in Claimants, TakeOver(c) PROVE Kept(k)
    <3>1. pc[c] = "delete" /\ fresh[c] /\ SetLease(key[c], NoLease) /\ key[c] \in Keys
      BY <2>0, <2>2 DEF TakeOver, TypeOK
    <3>2. k = key[c] /\ lease[k] = seen[c] /\ seen[c] \in Claimants /\ ~Exists(seen[c])
      BY <3>1, <2>0, SetLeaseTypes DEF FreshNamesSeen, TakeoverTargetGone, TypeOK
    <3> QED
      BY <3>2, LeaseClaimConstants
  <2>3. ASSUME NEW c \in Claimants, Drop(c) \/ Sweep(c) \/ Finalize(c) PROVE Kept(k)
    <3>1. /\ pc[c] \in {"drop", "sweep"} \/ life[c] = "deleting"
          /\ \E j \in Keys : lease[j] = c /\ SetLease(j, NoLease)
      BY <2>3 DEF Drop, Sweep, Finalize, Release
    <3>2. lease[k] = c
      BY <3>1, <2>0, SetLeaseTypes
    <3> QED
      BY <3>1, <3>2, LeaseClaimConstants
  <2>4. ASSUME NEW j \in Keys, ForeignWrite(j) \/ AdminDelete(j) PROVE Kept(k)
    <3>1. ForeignWrite(j) => SetLease(j, IF lease[j] = NoLease THEN Foreign ELSE lease[j])
      BY DEF ForeignWrite
    <3>2. AdminDelete(j) => lease[j] = Foreign /\ SetLease(j, NoLease)
      BY DEF AdminDelete
    <3>3. lease[j] \in Claimants \cup {NoLease, Foreign}
      BY <2>0 DEF TypeOK
    <3>4. k = j
      BY <2>4, <3>1, <3>2, <3>3, <2>0, SetLeaseTypes
    <3>5. CASE ForeignWrite(j)
      BY <3>1, <3>3, <3>4, <3>5, <2>0, SetLeaseTypes, LeaseClaimConstants
    <3>6. CASE AdminDelete(j)
      BY <3>2, <3>4, <3>6, LeaseClaimConstants
    <3> QED
      BY <2>4, <3>5, <3>6
  <2> QED
    BY <2>1, <2>2, <2>3, <2>4 DEF Next, Pass, AddFinalizer, Begin, Read, Order, Judge, Lost,
       BootstrapSQL, Publish, Connect, Fail, CreateDatabase, Delete, RemoveByHand, Move
<1> QED
  BY <1>1, LeaseInvariant, PTL DEF Spec, HolderKeeps

(* The protocol implements OneOwner: work on a key begins only while       *)
(* nobody works on it, and the key is free between two owners.             *)
THEOREM LeaseImplementsOneOwner == Spec => ImplementsOneOwner
<1> DEFINE users == [k \in Keys |-> {c \in Claimants : UsesKey(c, k)}]
<1>1. Init => Owners!Init
  BY DEF Init, Owners!Init, UsesKey
<1>2. LeaseInv /\ LeaseInv' /\ [Next]_vars => [Owners!Next]_users
  <2> SUFFICES ASSUME LeaseInv, LeaseInv', [Next]_vars, users' # users
               PROVE  \E c \in Claimants, k \in Keys : Owners!Begin(c, k) \/ Owners!End(c, k)
    BY DEF Owners!Next
  <2>0. TypeOK /\ TypeOK'
    BY DEF LeaseInv
  <2>f. users = [k \in Keys |-> users[k]] /\ users' = [k \in Keys |-> users'[k]]
    OBVIOUS
  <2>1. \A k \in Keys, c \in Claimants : UsesKey(c, k) => users[k] = {c}
    BY DEF LeaseInv, TakenIsHeld, UsesKey
  <2>2. \A k \in Keys, c \in Claimants : UsesKey(c, k)' => users'[k] = {c}
    BY DEF LeaseInv, TakenIsHeld, UsesKey
  <2>3. \A c \in Claimants : key[c] \in Keys
    BY <2>0 DEF TypeOK
  <2>4. ASSUME NEW c \in Claimants, Goto(c, "sql")
        PROVE  \E k \in Keys : Owners!Begin(c, k) \/ Owners!End(c, k)
    <3>1. \A d \in Claimants \ {c} : pc'[d] = pc[d] /\ key'[d] = key[d]
      BY <2>0, <2>4 DEF Goto, TypeOK
    <3>2. pc'[c] = "sql" /\ key'[c] = key[c]
      BY <2>0, <2>4 DEF Goto, TypeOK
    <3>3. \A k \in Keys \ {key[c]} : users'[k] = users[k]
      BY <3>1, <3>2 DEF UsesKey
    <3>4. users'[key[c]] = {c}
      BY <2>2, <2>3, <3>2 DEF UsesKey
    <3>5. users[key[c]] \subseteq {c}
      BY ZenonT(60), <2>3, <3>1, <3>4 DEF UsesKey
    <3>6. users[key[c]] # {c}
      BY <3>3, <3>4
    <3> QED
      <4>1. users[key[c]] = {}
        BY <3>5, <3>6
      <4>2. users' = [users EXCEPT ![key[c]] = {c}]
        <5> HIDE DEF users
        <5> QED
          BY <2>f, <2>3, <3>3, <3>4
      <4> QED
        BY <2>3, <4>1, <4>2 DEF Owners!Begin
  <2>5. ASSUME NEW c \in Claimants, End(c)
        PROVE  \E k \in Keys : Owners!Begin(c, k) \/ Owners!End(c, k)
    <3>1. \A d \in Claimants \ {c} : pc'[d] = pc[d] /\ key'[d] = key[d]
      BY <2>0, <2>5 DEF End, TypeOK
    <3>2. pc'[c] = "idle"
      BY <2>0, <2>5 DEF End, TypeOK
    <3>3. \A k \in Keys : users'[k] = users[k] \ {c}
      BY <3>1, <3>2 DEF UsesKey
    <3>4. \A k \in Keys \ {key[c]} : users'[k] = users[k]
      BY <3>3 DEF UsesKey
    <3>5. c \in users[key[c]]
      BY <2>3, <3>3, <3>4
    <3>6. users[key[c]] = {c} /\ users'[key[c]] = {}
      BY <2>1, <2>3, <3>3, <3>5
    <3> QED
      <4>1. users' = [users EXCEPT ![key[c]] = {}]
        <5> HIDE DEF users
        <5> QED
          BY <2>f, <2>3, <3>4, <3>6
      <4> QED
        BY <2>3, <3>6, <4>1 DEF Owners!End
  <2>6. ASSUME \A c \in Claimants, k \in Keys : UsesKey(c, k)' <=> UsesKey(c, k) PROVE FALSE
    BY <2>6
  <2>7. ASSUME NEW c \in Claimants,
               \A d \in Claimants \ {c} : pc'[d] = pc[d] /\ key'[d] = key[d],
               \/ pc[c] \notin {"sql", "publish"} /\ pc'[c] \notin {"sql", "publish"}
               \/ pc[c] = "sql" /\ pc'[c] = "publish" /\ key'[c] = key[c]
        PROVE  FALSE
    BY <2>6, <2>7 DEF UsesKey
  <2>8. CASE UNCHANGED <<pc, key>>
    BY <2>6, <2>8 DEF UsesKey
  <2>9. ASSUME NEW c \in Claimants, Begin(c) \/ Order(c) \/ Judge(c) \/ TakeOver(c) \/ CreateAgain(c)
                 \/ Lost(c) \/ BootstrapSQL(c)
        PROVE  End(c)
    BY <2>0, <2>7, <2>9 DEF Begin, Order, Judge, TakeOver, CreateAgain, Lost, BootstrapSQL, Goto, TypeOK
  <2>a. ASSUME NEW c \in Claimants, Read(c) \/ Create(c) PROVE FALSE
    <3>1. pc[c] \notin {"sql", "publish"} /\ \E p \in Points \ {"sql", "publish"} :
            pc' = [pc EXCEPT ![c] = p] /\ key' = key
      BY <2>a DEF Read, Create, Judged, Goto, Points
    <3> QED
      BY <2>0, <2>7, <3>1 DEF TypeOK
  <2>b. ASSUME NEW c \in Claimants, NEW k \in Keys, Move(c, k) PROVE FALSE
    <3>1. CASE pc[c] = "idle"
      BY <2>0, <2>7, <2>b, <3>1 DEF Move, TypeOK
    <3>2. CASE pc[c] # "idle"
      BY <2>0, <2>7, <2>b, <3>2 DEF Move, TypeOK, UsesKey
    <3> QED
      BY <3>1, <3>2
  <2>c. ASSUME NEW c \in Claimants, Drop(c) \/ Sweep(c) \/ Publish(c) \/ Connect(c) \/ Fail(c)
        PROVE  End(c) \/ Goto(c, "sql")
    BY <2>0, <2>7, <2>8, <2>c DEF Drop, Sweep, Publish, Connect, Fail, Goto, TypeOK, pass
  <2> QED
    BY <2>4, <2>5, <2>8, <2>9, <2>c, <2>a, <2>b DEF Next, Pass, AddFinalizer, Finalize, CreateDatabase, Delete,
       RemoveByHand, ForeignWrite, AdminDelete, pass, vars
<1> QED
  BY <1>1, <1>2, LeaseInvariant, PTL DEF Spec, ImplementsOneOwner, Owners!Spec
=============================================================================
