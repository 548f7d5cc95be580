---------------------------- MODULE ClusterClaim ----------------------------
(***************************************************************************)
(* The mutual exclusion of one CamundaCluster (pkg/clusterclaim): backups  *)
(* and restores of every kind meet on one Lease that the API server        *)
(* creates atomically.  The calls Claim and Release are cut at every       *)
(* request they send, so the requests of different claimants interleave.   *)
(*                                                                         *)
(* A claimant is one resource, told apart by its UID: a resource that is   *)
(* deleted and created again under the same name is another claimant, and  *)
(* "gone" stands for "absent or replaced".  One controller worker runs     *)
(* the reconciles of one resource, one at a time (controller-runtime), so  *)
(* a claimant has one program counter.                                     *)
(***************************************************************************)
EXTENDS Naturals

CONSTANTS
  Claimants,    \* the UIDs of the backups and restores of the cluster
  KnownKinds,   \* those whose kind holderKinds lists
  NoLease,      \* no claim Lease exists
  Unreadable,   \* the holder of a Lease that records no identity
  MaxFailures,  \* bound: crashes and failed requests
  MaxForeign    \* bound: Leases that something else writes under the name

(* A Lease names a holder, and carries the holder annotations or not.      *)
Leases == [holder : Claimants \cup {Unreadable}, ours : BOOLEAN]

ASSUME NoLeaseIsNoLease == NoLease \notin Leases

ASSUME ClaimConstants ==
  /\ KnownKinds \subseteq Claimants
  /\ Unreadable \notin Claimants
  /\ MaxFailures \in Nat /\ MaxForeign \in Nat

VARIABLES
  lease,     \* the Lease: NoLease, or who it names and whether annotations say so
  phase,     \* what the API server records of each claimant
  pc,        \* where the reconcile of each claimant stands
  tries,     \* the Creates left in the loop of create
  second,    \* TRUE in the create that follows a takeover
  target,    \* the holder that the claimant judges or whose Lease it deletes
  fresh,     \* the Lease deleteHeldBy read is still the stored object
  failures,
  foreign

call == <<pc, tries, second, target>>
vars == <<lease, phase, call, fresh, failures, foreign>>

-----------------------------------------------------------------------------
(* Types *)

Phases == {"absent", "pending", "running", "held", "terminal", "gone"}

Steps == {"idle", "create", "read", "judge", "inspect", "delete", "claimed"}

(* The Lease that newLease builds for c: annotations carry the provenance. *)
Own(c) == [holder |-> c, ours |-> TRUE]

(* A Lease of something else, whose holderIdentity spells h.               *)
Foreign(h) == [holder |-> h, ours |-> FALSE]

TypeOK ==
  /\ lease \in Leases \cup {NoLease}
  /\ phase \in [Claimants -> Phases]
  /\ pc \in [Claimants -> Steps]
  /\ tries \in [Claimants -> 0..2]
  /\ second \in [Claimants -> BOOLEAN]
  /\ target \in [Claimants -> Claimants]
  /\ fresh \in [Claimants -> BOOLEAN]
  /\ failures \in 0..MaxFailures
  /\ foreign \in 0..MaxForeign

(* The operation acts on the cluster, or left something on it that only    *)
(* its own cleanup undoes (paused exporting, a held recovery).             *)
Uses(c) == phase[c] \in {"running", "held"}

(* A fault of HolderActive: a holder that does not exist anymore is        *)
(* believed active.                                                        *)
HolderActiveWhenGone(c) == c \notin KnownKinds \/ phase[c] # "terminal"

(* HolderActive: a kind that the claim cannot interpret keeps the claim;   *)
(* absent, replaced or terminal means inactive; a terminal holder that     *)
(* keepsClusterPaused or recoveryHeld ("held") stays active.               *)
HolderActive(c) == c \notin KnownKinds \/ phase[c] \in {"pending", "running", "held"}

(* The locals of the call move only with its program counter, and are      *)
(* forgotten when it returns.                                              *)
Goto(c, step) ==
  /\ pc' = [pc EXCEPT ![c] = step]
  /\ UNCHANGED <<tries, second, target>>

GotoCreate(c, inSecond) ==
  /\ pc' = [pc EXCEPT ![c] = "create"]
  /\ tries' = [tries EXCEPT ![c] = 2]
  /\ second' = [second EXCEPT ![c] = inSecond]
  /\ target' = [target EXCEPT ![c] = c]

GotoWith(c, step, holder) ==
  /\ pc' = [pc EXCEPT ![c] = step]
  /\ tries' = [tries EXCEPT ![c] = 0]
  /\ target' = [target EXCEPT ![c] = holder]
  /\ UNCHANGED second

Return(c) ==
  /\ pc' = [pc EXCEPT ![c] = "idle"]
  /\ tries' = [tries EXCEPT ![c] = 0]
  /\ second' = [second EXCEPT ![c] = FALSE]
  /\ target' = [target EXCEPT ![c] = c]

(* Every write of the Lease gives it another UID or resourceVersion, so    *)
(* the preconditions of every Delete that read it before no longer match.  *)
SetLease(l) == lease' = l /\ fresh' = [c \in Claimants |-> FALSE]

Init ==
  /\ lease = NoLease
  /\ phase = [c \in Claimants |-> "absent"]
  /\ pc = [c \in Claimants |-> "idle"]
  /\ tries = [c \in Claimants |-> 0]
  /\ second = [c \in Claimants |-> FALSE]
  /\ target = [c \in Claimants |-> c]
  /\ fresh = [c \in Claimants |-> FALSE]
  /\ failures = 0
  /\ foreign = 0

-----------------------------------------------------------------------------
(* Claim *)

(* A pending resource that passed its pre-checks claims the cluster.  A    *)
(* restore claims again before each phase that touches storage.            *)
CallClaim(c) ==
  /\ pc[c] = "idle" /\ phase[c] \in {"pending", "running"}
  /\ GotoCreate(c, FALSE)
  /\ UNCHANGED <<lease, phase, fresh, failures, foreign>>

(* The Create of the loop: the first one wins, a later one answers         *)
(* AlreadyExists and the holder is read.                                   *)
Create(c) ==
  /\ pc[c] = "create"
  /\ tries' = [tries EXCEPT ![c] = @ - 1]
  /\ \/ /\ lease = NoLease
        /\ SetLease(Own(c))
        /\ pc' = [pc EXCEPT ![c] = "claimed"]
     \/ /\ lease # NoLease
        /\ UNCHANGED <<lease, fresh>>
        /\ pc' = [pc EXCEPT ![c] = "read"]
  /\ UNCHANGED <<phase, second, target, failures, foreign>>

(* currentHolder after AlreadyExists.  A Lease that went away is tried     *)
(* again, twice at most; an annotated Lease of self is the claim; any      *)
(* other holder is judged in the first create, and ends the call in the    *)
(* second.  ParseClaimant refuses an identity that names no claimant.      *)
ReadHolder(c) ==
  /\ pc[c] = "read"
  /\ \/ lease = NoLease /\ tries[c] > 0 /\ Goto(c, "create")
     \/ lease = NoLease /\ tries[c] = 0 /\ Return(c)
     \/ lease = Own(c) /\ Goto(c, "claimed")
     \/ /\ lease \notin {NoLease, Own(c)}
        /\ second[c] \/ lease.holder \in {c, Unreadable}
        /\ Return(c)
     \/ /\ lease \notin {NoLease, Own(c)}
        /\ ~second[c] /\ lease.holder \notin {c, Unreadable}
        /\ GotoWith(c, "judge", lease.holder)
  /\ UNCHANGED <<lease, phase, fresh, failures, foreign>>

(* A fault of Judge: every holder that is not the caller is taken over.    *)
JudgeNever(c) ==
  /\ pc[c] = "judge"
  /\ Goto(c, "inspect")
  /\ UNCHANGED <<lease, phase, fresh, failures, foreign>>

(* HolderActive reads the resource of the holder live.                     *)
Judge(c) ==
  /\ pc[c] = "judge"
  /\ \/ HolderActive(target[c]) /\ Return(c)
     \/ ~HolderActive(target[c]) /\ Goto(c, "inspect")
  /\ UNCHANGED <<lease, phase, fresh, failures, foreign>>

-----------------------------------------------------------------------------
(* deleteHeldBy: the common part of takeOver (target is another claimant)  *)
(* and of Release (target is the caller).  A takeover goes on with the     *)
(* second create, a release ends the reconcile.                            *)

AfterDelete(c) ==
  \/ target[c] = c /\ Return(c)
  \/ target[c] # c /\ GotoCreate(c, TRUE)

(* A fault of Inspect: the Lease of whoever is deleted.                    *)
InspectAnyHolder(c) ==
  /\ pc[c] = "inspect"
  /\ \/ lease # NoLease /\ fresh' = [fresh EXCEPT ![c] = TRUE] /\ Goto(c, "delete")
     \/ lease = NoLease /\ AfterDelete(c) /\ UNCHANGED fresh
  /\ UNCHANGED <<lease, phase, failures, foreign>>

(* The read: only an annotated Lease that still names target is deleted.   *)
Inspect(c) ==
  /\ pc[c] = "inspect"
  /\ \/ /\ lease = Own(target[c])
        /\ fresh' = [fresh EXCEPT ![c] = TRUE]
        /\ Goto(c, "delete")
     \/ /\ lease # Own(target[c])
        /\ AfterDelete(c)
        /\ UNCHANGED fresh
  /\ UNCHANGED <<lease, phase, failures, foreign>>

(* The Delete with the UID and the resourceVersion of that read as         *)
(* preconditions: NotFound and Conflict are no error.                      *)
Delete(c) ==
  /\ pc[c] = "delete"
  /\ \/ fresh[c] /\ SetLease(NoLease)
     \/ ~fresh[c] /\ UNCHANGED <<lease, fresh>>
  /\ AfterDelete(c)
  /\ UNCHANGED <<phase, failures, foreign>>

(* Release: a terminal resource gives the claim back on every reconcile,   *)
(* a pending one on every exit from admission without a start.             *)
CallRelease(c) ==
  /\ \/ pc[c] = "idle" /\ phase[c] \in {"pending", "terminal"}
     \/ pc[c] = "claimed" /\ phase[c] = "pending"
  /\ GotoWith(c, "inspect", c)
  /\ UNCHANGED <<lease, phase, fresh, failures, foreign>>

-----------------------------------------------------------------------------
(* The claimants: what the callers of the package do with the claim        *)

Submit(c) ==
  /\ phase[c] = "absent"
  /\ phase' = [phase EXCEPT ![c] = "pending"]
  /\ UNCHANGED <<lease, call, fresh, failures, foreign>>

(* The status write that records the start, in the reconcile that holds    *)
(* the claim; a running claimant goes on.                                  *)
Start(c) ==
  /\ pc[c] = "claimed"
  /\ phase' = [phase EXCEPT ![c] = "running"]
  /\ Return(c)
  /\ UNCHANGED <<lease, fresh, failures, foreign>>

(* A terminal phase is recorded together with what it leaves behind: "held" *)
(* is a ResumeFailed backup, or a restore whose recoveryHeld is true.      *)
Finish(c) ==
  /\ pc[c] = "idle" /\ phase[c] = "running"
  /\ \E p \in {"terminal", "held"} : phase' = [phase EXCEPT ![c] = p]
  /\ UNCHANGED <<lease, call, fresh, failures, foreign>>

(* An Elasticsearch restore withdraws recoveryHeld.                        *)
Unhold(c) ==
  /\ pc[c] = "idle" /\ phase[c] = "held"
  /\ phase' = [phase EXCEPT ![c] = "terminal"]
  /\ UNCHANGED <<lease, call, fresh, failures, foreign>>

(* The finalizer undid what the resource left on the cluster, and goes     *)
(* away.  Only then the claim is released, best effort: the backup kinds   *)
(* call Release, a deleted restore leaves the Lease to a takeover.         *)
Remove(c) ==
  /\ pc[c] = "idle" /\ phase[c] \notin {"absent", "gone"}
  /\ phase' = [phase EXCEPT ![c] = "gone"]
  /\ GotoWith(c, "inspect", c) \/ UNCHANGED call
  /\ UNCHANGED <<lease, fresh, failures, foreign>>

-----------------------------------------------------------------------------
(* The environment *)

(* A request fails or the operator crashes: the reconcile ends where it    *)
(* stands, and what it already wrote stays written.                        *)
Fail(c) ==
  /\ pc[c] # "idle" /\ failures < MaxFailures
  /\ failures' = failures + 1
  /\ Return(c)
  /\ fresh' = [fresh EXCEPT ![c] = FALSE]
  /\ UNCHANGED <<lease, phase, foreign>>

(* Something else writes a Lease of that name without the annotations.     *)
(* Its holderIdentity may spell the identity of a claimant that exists or  *)
(* existed; the UID of a later one is not known to anybody yet.            *)
ForeignLease ==
  /\ lease = NoLease /\ foreign < MaxForeign
  /\ foreign' = foreign + 1
  /\ \E h \in {c \in Claimants : phase[c] # "absent"} \cup {Unreadable} :
       SetLease(Foreign(h))
  /\ UNCHANGED <<phase, call, failures>>

(* WaitMessage asks the administrator to delete a Lease that no claimant   *)
(* takes over: a foreign one, or that of a kind this release does not know *)
(* and whose resource is done.                                             *)
AdminDelete ==
  /\ lease # NoLease
  /\ \/ ~lease.ours
     \/ /\ lease.holder \in Claimants \ KnownKinds
        /\ phase[lease.holder] \in {"terminal", "gone"}
  /\ SetLease(NoLease)
  /\ UNCHANGED <<phase, call, failures, foreign>>

-----------------------------------------------------------------------------
ClaimStep(c) == Create(c) \/ ReadHolder(c) \/ Judge(c) \/ Inspect(c) \/ Delete(c)

Next ==
  \/ \E c \in Claimants :
       \/ CallClaim(c) \/ ClaimStep(c) \/ CallRelease(c)
       \/ Submit(c) \/ Start(c) \/ Finish(c) \/ Unhold(c) \/ Remove(c) \/ Fail(c)
  \/ ForeignLease
  \/ AdminDelete

Spec == Init /\ [][Next]_vars

(* The work queue retries every resource that is not done, and a request   *)
(* is answered (WF).  A pending resource that is claimed again and again   *)
(* starts at last, and one that is reconciled again and again claims: its  *)
(* pre-checks and its status writes do not fail forever (SF).              *)
Fairness ==
  \A c \in Claimants :
    /\ WF_vars(ClaimStep(c))
    /\ SF_vars(CallClaim(c)) /\ SF_vars(Start(c)) /\ SF_vars(Finish(c))

FairSpec == Spec /\ Fairness

-----------------------------------------------------------------------------
(* Properties *)

(* Two operations never use the cluster at once: no backup or restore      *)
(* starts while another runs or left the cluster paused or held.           *)
MutualExclusion == \A c, d \in Claimants : Uses(c) /\ Uses(d) => c = d

(* An operation that uses the cluster has the Lease, until the end of its  *)
(* use: no takeover, late release or foreign write removes it meanwhile.   *)
ClaimCoversUse == \A c \in Claimants : Uses(c) => lease = Own(c)

(* A claimant that is about to delete the Lease of another (takeOver) acts *)
(* on a judgement that cannot be out of date: the holder is still inactive *)
(* however long ago HolderActive read it.                                  *)
TakeoverJudgementStays ==
  \A c \in Claimants :
    pc[c] \in {"inspect", "delete"} /\ target[c] # c => ~HolderActive(target[c])

(* The Lease of a pending claimant goes away only by its own release: a    *)
(* claim that was won but not yet recorded as a start is never stolen.     *)
PendingClaimKept ==
  [][\A c \in Claimants :
       lease = Own(c) /\ lease' # lease /\ phase[c] = "pending"
         => pc[c] = "delete" /\ target[c] = c]_vars

(* No step of a claimant removes a Lease without the holder annotations,   *)
(* even when its holderIdentity spells the name of a finished claimant.    *)
ForeignLeaseKept ==
  [][lease # NoLease /\ lease' # lease /\ ~lease.ours => pc' = pc]_vars

Use == INSTANCE ExclusiveUse WITH users <- {c \in Claimants : Uses(c)}

(* The protocol implements ExclusiveUse.                                   *)
ImplementsExclusiveUse == Use!Spec

(* Nobody takes the Lease over while this holds.                           *)
NeedsHuman ==
  lease # NoLease /\ (~lease.ours \/ lease.holder \notin KnownKinds
                      \/ phase[lease.holder] = "held")

(* A crash between the claim and the release never blocks the cluster      *)
(* forever: a pending claimant starts or is deleted, unless it meets a     *)
(* Lease that waits for a human.                                           *)
PendingGetsCluster ==
  \A c \in Claimants : phase[c] = "pending" ~> (phase[c] # "pending" \/ NeedsHuman)
=============================================================================
