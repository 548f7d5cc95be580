----------------------------- MODULE LeaseClaim -----------------------------
(***************************************************************************)
(* The claim on a thing outside Kubernetes (pkg/leaseclaim), taken by the  *)
(* resource that uses it most: a Database claims one logical database of a *)
(* PostgreSQL server before it runs any SQL there.  One Lease per key, in  *)
(* the namespace of the operator.  A Database can move to another key, so  *)
(* it can hold several Leases for a while and gives back those it left.    *)
(*                                                                         *)
(* A claimant is a Database of one UID; one created again under the name   *)
(* is another claimant.  A pass is cut at every request.                   *)
(***************************************************************************)
EXTENDS Naturals

CONSTANTS
  Claimants,
  Keys,
  Age,          \* the order of creation and names: the smaller goes first
  NoLease,      \* no Lease exists under a key
  Foreign,      \* the Lease carries no holder annotations
  NoKey,
  MaxMoves,     \* bound: changes of the key that a spec names
  Stale,        \* who each Lease names at the start: a Database whose finalizer
                \* was removed by hand, or NoLease
  MaxFaults     \* bound: crashes, failed requests, finalizers removed by hand
                \* and writes of a Lease by something else

ASSUME LeaseClaimConstants ==
  /\ NoLease \notin Claimants /\ Foreign \notin Claimants /\ NoLease # Foreign
  /\ NoKey \notin Keys
  /\ Age \in [Claimants -> Nat]
  /\ \A c, d \in Claimants : Age[c] = Age[d] => c = d
  /\ Stale \in [Keys -> Claimants \cup {NoLease}]
  /\ MaxMoves \in Nat /\ MaxFaults \in Nat

VARIABLES
  lease,     \* who each Lease names
  life,      \* what the API server has of each claimant: "new" has no finalizer,
             \* a "removed" one lost it by hand
  names,     \* the key that the spec and the server contract of each name now
  recorded,  \* status.collisionKey, which the index of the cache serves
  bound,     \* the key that the published bindings of each name
  pc,        \* where the pass of each claimant stands
  key,       \* the key of that pass
  seen,      \* the holder that the pass read and judges
  fresh,     \* the Lease that the pass read is still the stored object
  moves, faults

pass == <<pc, key, seen>>
counters == <<moves, faults>>
vars == <<lease, life, names, recorded, bound, pass, fresh, counters>>

-----------------------------------------------------------------------------
(* Types *)

Lives == {"absent", "new", "alive", "deleting", "gone", "removed"}

Points == {"idle", "read", "order", "create", "judge", "delete", "again", "lost",
           "drop", "connect", "sweep", "sql", "publish"}

TypeOK ==
  /\ lease \in [Keys -> Claimants \cup {NoLease, Foreign}]
  /\ life \in [Claimants -> Lives]
  /\ names \in [Claimants -> Keys]
  /\ recorded \in [Claimants -> Keys \cup {NoKey}]
  /\ bound \in [Claimants -> Keys \cup {NoKey}]
  /\ pc \in [Claimants -> Points]
  /\ key \in [Claimants -> Keys]
  /\ seen \in [Claimants -> Claimants]
  /\ fresh \in [Claimants -> BOOLEAN]
  /\ moves \in 0..MaxMoves /\ faults \in 0..MaxFaults

(* Those that are gone from the start.                                     *)
Departed == {c \in Claimants : \E k \in Keys : Stale[k] = c}

Exists(c) == life[c] \in {"new", "alive", "deleting"}

Init ==
  /\ lease = Stale
  /\ life = [c \in Claimants |-> IF c \in Departed THEN "removed" ELSE "absent"]
  /\ names \in [Claimants -> Keys]
  /\ \A k \in Keys : Stale[k] # NoLease => names[Stale[k]] = k
  /\ recorded = [c \in Claimants |-> NoKey]
  /\ bound = [c \in Claimants |-> NoKey]
  /\ pc = [c \in Claimants |-> "idle"]
  /\ key = names
  /\ seen = [c \in Claimants |-> c]
  /\ fresh = [c \in Claimants |-> FALSE]
  /\ moves = 0 /\ faults = 0

(* Every write of the Lease of k changes its UID or resourceVersion: the   *)
(* preconditions of a pass that read it before no longer match.            *)
Outdated(k) == fresh' = [c \in Claimants |-> fresh[c] /\ key[c] # k]

SetLease(k, h) == lease' = [lease EXCEPT ![k] = h] /\ Outdated(k)

Goto(c, p) == pc' = [pc EXCEPT ![c] = p] /\ UNCHANGED <<key, seen>>

(* The pass ends: the locals are gone.                                     *)
End(c) ==
  /\ pc' = [pc EXCEPT ![c] = "idle"]
  /\ seen' = [seen EXCEPT ![c] = c]
  /\ key' = [key EXCEPT ![c] = names[c]]

(* ownerstatus.Flush at the end of a pass writes the key it staged; it     *)
(* fails on an object that is gone.                                        *)
Flush(c) == recorded' = IF Exists(c) THEN [recorded EXCEPT ![c] = key[c]] ELSE recorded

(* blockerFor, and what take and claim do with its answer, for the holder  *)
(* h that a live read of the Lease just returned.                          *)
Judged(c, h) ==
  \/ /\ h = c
     /\ Goto(c, "connect")
     /\ UNCHANGED fresh
  \/ /\ h = Foreign
     /\ Goto(c, "lost")
     /\ UNCHANGED fresh
  \/ /\ h \in Claimants \ {c}
     /\ pc' = [pc EXCEPT ![c] = "judge"]
     /\ seen' = [seen EXCEPT ![c] = h]
     /\ fresh' = [fresh EXCEPT ![c] = TRUE]
     /\ UNCHANGED key

-----------------------------------------------------------------------------
(* The pass: pre-check, claim, sweep, SQL, bindings *)

(* The finalizer is added before the first claim.                          *)
AddFinalizer(c) ==
  /\ pc[c] = "idle" /\ life[c] = "new"
  /\ life' = [life EXCEPT ![c] = "alive"]
  /\ UNCHANGED <<lease, names, recorded, bound, pass, fresh, counters>>

(* The server is resolved and probed, its credentials are there: the pass  *)
(* keys on what the spec names now.                                        *)
Begin(c) ==
  /\ pc[c] = "idle" /\ life[c] = "alive"
  /\ pc' = [pc EXCEPT ![c] = "read"]
  /\ key' = [key EXCEPT ![c] = names[c]]
  /\ fresh' = [fresh EXCEPT ![c] = FALSE]
  /\ UNCHANGED <<lease, life, names, recorded, bound, seen, counters>>

(* take reads before it writes.                                            *)
Read(c) ==
  /\ pc[c] = "read"
  /\ IF lease[key[c]] = NoLease THEN Goto(c, "order") /\ UNCHANGED fresh
     ELSE Judged(c, lease[key[c]])
  /\ UNCHANGED <<lease, life, names, recorded, bound, counters>>

(* PreferredClaimant over the index and the claimant itself.               *)
GoesFirst(c) ==
  \A d \in Claimants \ {c} : Exists(d) /\ recorded[d] = key[c] => Age[c] < Age[d]

(* checkCollision: an order among the claimants of a free key, never a     *)
(* loss.  The one that waits keeps its bindings and all it holds.          *)
Order(c) ==
  /\ pc[c] = "order"
  /\ \/ GoesFirst(c) /\ Goto(c, "create") /\ UNCHANGED recorded
     \/ ~GoesFirst(c) /\ End(c) /\ Flush(c)
  /\ UNCHANGED <<lease, life, names, bound, fresh, counters>>

(* The Create: the first one wins, a later one answers AlreadyExists and   *)
(* reads.  A Lease that goes away in between is created on the second try; *)
(* when that one fails too, the pass fails: Fail.                          *)
Create(c) ==
  /\ pc[c] = "create"
  /\ \/ /\ lease[key[c]] = NoLease
        /\ SetLease(key[c], c)
        /\ Goto(c, "connect")
     \/ lease[key[c]] # NoLease /\ Judged(c, lease[key[c]]) /\ UNCHANGED lease
  /\ UNCHANGED <<life, names, recorded, bound, counters>>

(* A fault of Judge: only a holder that still names the key keeps it.      *)
JudgeByIndex(c) ==
  /\ pc[c] = "judge"
  /\ Goto(c, IF Exists(seen[c]) /\ recorded[seen[c]] = key[c] THEN "lost" ELSE "delete")
  /\ UNCHANGED <<lease, life, names, recorded, bound, fresh, counters>>

(* OwnerExists: the holder keeps the key while it exists under its UID.    *)
Judge(c) ==
  /\ pc[c] = "judge"
  /\ Goto(c, IF Exists(seen[c]) THEN "lost" ELSE "delete")
  /\ UNCHANGED <<lease, life, names, recorded, bound, fresh, counters>>

(* A fault of TakeOver: the delete carries no preconditions.               *)
TakeOverByName(c) ==
  /\ pc[c] = "delete"
  /\ SetLease(key[c], NoLease)
  /\ Goto(c, "again")
  /\ UNCHANGED <<life, names, recorded, bound, counters>>

(* takeOver: the delete goes under the UID and resourceVersion of the      *)
(* read.  A conflict is read again: only another holder, or none, lets the *)
(* pass go on; otherwise the pass fails and the next one takes over.       *)
TakeOver(c) ==
  /\ pc[c] = "delete"
  /\ \/ fresh[c] /\ SetLease(key[c], NoLease) /\ Goto(c, "again") /\ UNCHANGED recorded
     \/ /\ ~fresh[c] /\ lease[key[c]] # seen[c]
        /\ Goto(c, "again")
        /\ UNCHANGED <<lease, fresh, recorded>>
     \/ /\ ~fresh[c] /\ lease[key[c]] = seen[c]
        /\ End(c) /\ Flush(c)
        /\ UNCHANGED <<lease, fresh>>
  /\ UNCHANGED <<life, names, bound, counters>>

(* The create after a takeover: whoever won in between blocks this pass.   *)
CreateAgain(c) ==
  /\ pc[c] = "again"
  /\ \/ lease[key[c]] = NoLease /\ SetLease(key[c], c) /\ Goto(c, "connect")
     \/ lease[key[c]] \notin {c, NoLease} /\ Goto(c, "lost") /\ UNCHANGED <<lease, fresh>>
     \/ lease[key[c]] = c /\ Goto(c, "connect") /\ UNCHANGED <<lease, fresh>>
  /\ UNCHANGED <<life, names, recorded, bound, counters>>

(* A fault of Lost: the claims are kept.                                   *)
LostKeepsClaims(c) ==
  /\ pc[c] = "lost"
  /\ bound' = [bound EXCEPT ![c] = NoKey]
  /\ End(c) /\ Flush(c)
  /\ UNCHANGED <<lease, life, names, fresh, counters>>

(* errClaimLost: the bindings are withdrawn, then every claim is released. *)
Lost(c) ==
  /\ pc[c] = "lost"
  /\ bound' = [bound EXCEPT ![c] = NoKey]
  /\ Goto(c, "drop")
  /\ UNCHANGED <<lease, life, names, recorded, fresh, counters>>

(* releaseHeldClaims, one Release per request: all but the Lease of keep.  *)
(* Nobody but its holder writes the Lease of one that exists, so a list    *)
(* that is read once is as good as the Leases themselves.                  *)
Release(c, keep) ==
  \E k \in Keys \ keep : lease[k] = c /\ SetLease(k, NoLease)

HoldsNothingBut(c, keep) == \A k \in Keys \ keep : lease[k] # c

Drop(c) ==
  /\ pc[c] = "drop"
  /\ \/ Release(c, {}) /\ UNCHANGED <<pass, recorded>>
     \/ HoldsNothingBut(c, {}) /\ End(c) /\ Flush(c) /\ UNCHANGED <<lease, fresh>>
  /\ UNCHANGED <<life, names, bound, counters>>

(* The server answers, or not: then everything is kept.                    *)
Connect(c) ==
  /\ pc[c] = "connect"
  /\ \/ Goto(c, "sweep") /\ UNCHANGED recorded
     \/ End(c) /\ Flush(c)
  /\ UNCHANGED <<lease, life, names, bound, fresh, counters>>

Sweep(c) ==
  /\ pc[c] = "sweep"
  /\ \/ Release(c, {key[c]}) /\ UNCHANGED pass
     \/ HoldsNothingBut(c, {key[c]}) /\ Goto(c, "sql") /\ UNCHANGED <<lease, fresh>>
  /\ UNCHANGED <<life, names, recorded, bound, counters>>

(* bootstrapSQL: the roles get the passwords of this Database.             *)
BootstrapSQL(c) ==
  /\ pc[c] = "sql"
  /\ Goto(c, "publish")
  /\ UNCHANGED <<lease, life, names, recorded, bound, fresh, counters>>

Publish(c) ==
  /\ pc[c] = "publish"
  /\ bound' = [bound EXCEPT ![c] = IF Exists(c) THEN key[c] ELSE NoKey]
  /\ End(c) /\ Flush(c)
  /\ UNCHANGED <<lease, life, names, fresh, counters>>

(* The operator crashes, or a request fails and the pass ends: the status  *)
(* is flushed, or not.                                                     *)
Fail(c) ==
  /\ pc[c] # "idle" /\ faults < MaxFaults
  /\ faults' = faults + 1
  /\ End(c)
  /\ Flush(c) \/ UNCHANGED recorded
  /\ UNCHANGED <<lease, life, names, bound, fresh, moves>>

-----------------------------------------------------------------------------
(* The finalizer *)

(* finalize: every claim first, then the finalizer.  The bindings go with  *)
(* the owner.                                                              *)
Finalize(c) ==
  /\ pc[c] = "idle" /\ life[c] = "deleting"
  /\ \/ Release(c, {}) /\ UNCHANGED <<life, bound>>
     \/ /\ HoldsNothingBut(c, {})
        /\ life' = [life EXCEPT ![c] = "gone"]
        /\ bound' = [bound EXCEPT ![c] = NoKey]
        /\ UNCHANGED <<lease, fresh>>
  /\ UNCHANGED <<names, recorded, pass, counters>>

-----------------------------------------------------------------------------
(* The users, and other writers of the Leases *)

CreateDatabase(c) ==
  /\ life[c] = "absent"
  /\ life' = [life EXCEPT ![c] = "new"]
  /\ UNCHANGED <<lease, names, recorded, bound, pass, fresh, counters>>

(* The spec names another database, or the contract another server.        *)
Move(c, k) ==
  /\ Exists(c) /\ k # names[c] /\ moves < MaxMoves
  /\ moves' = moves + 1
  /\ names' = [names EXCEPT ![c] = k]
  /\ key' = [key EXCEPT ![c] = IF pc[c] = "idle" THEN k ELSE @]
  /\ UNCHANGED <<lease, life, recorded, bound, pc, seen, fresh, faults>>

(* A deletion can come in the middle of a pass.                            *)
Delete(c) ==
  /\ life[c] \in {"new", "alive"}
  /\ life' = [life EXCEPT ![c] = IF @ = "new" THEN "gone" ELSE "deleting"]
  /\ UNCHANGED <<lease, names, recorded, bound, pass, fresh, counters>>

(* Somebody removes the finalizer by hand, between two passes.             *)
RemoveByHand(c) ==
  /\ pc[c] = "idle" /\ life[c] = "deleting" /\ faults < MaxFaults
  /\ faults' = faults + 1
  /\ life' = [life EXCEPT ![c] = "removed"]
  /\ bound' = [bound EXCEPT ![c] = NoKey]
  /\ UNCHANGED <<lease, names, recorded, pass, fresh, moves>>

(* Something else creates a Lease under the name, or writes one without    *)
(* another holder.                                                         *)
ForeignWrite(k) ==
  /\ faults < MaxFaults
  /\ faults' = faults + 1
  /\ SetLease(k, IF lease[k] = NoLease THEN Foreign ELSE lease[k])
  /\ UNCHANGED <<life, names, recorded, bound, pass, moves>>

(* The message names a foreign Lease, and somebody deletes it.             *)
AdminDelete(k) ==
  /\ lease[k] = Foreign
  /\ SetLease(k, NoLease)
  /\ UNCHANGED <<life, names, recorded, bound, pass, counters>>

Pass(c) ==
  \/ AddFinalizer(c) \/ Begin(c) \/ Read(c) \/ Order(c) \/ Create(c) \/ Judge(c)
  \/ TakeOver(c) \/ CreateAgain(c) \/ Lost(c) \/ Drop(c) \/ Sweep(c)
  \/ BootstrapSQL(c) \/ Publish(c) \/ Finalize(c)

Next ==
  \/ \E c \in Claimants :
       \/ Pass(c) \/ Connect(c) \/ Fail(c)
       \/ CreateDatabase(c) \/ Delete(c) \/ RemoveByHand(c)
       \/ \E k \in Keys : Move(c, k)
  \/ \E k \in Keys : ForeignWrite(k) \/ AdminDelete(k)

Spec == Init /\ [][Next]_vars

(* Every Database that waits or failed is looked at again: the retry       *)
(* interval, or the backoff.  A server answers at last.                    *)
Fairness ==
  \A c \in Claimants \ Departed :
    /\ WF_vars(Pass(c))
    /\ WF_vars(Connect(c))
    /\ SF_vars(pc[c] = "connect" /\ Connect(c) /\ pc'[c] = "sweep")

FairSpec == Spec /\ Fairness

-----------------------------------------------------------------------------
(* Properties *)

UsesKey(c, k) == pc[c] \in {"sql", "publish"} /\ key[c] = k

(* SQL runs against a logical database only while its Lease names the one  *)
(* that runs it, however old the answer of Take is by then.                *)
ClaimCoversSql ==
  \A c \in Claimants, k \in Keys : UsesKey(c, k) => lease[k] = c

(* The first Database to claim a name keeps it: nobody else's step removes *)
(* the Lease of one that exists, nor a Lease that is not the operator's.   *)
HolderKeeps ==
  [][\A k \in Keys :
       /\ lease[k] \in Claimants /\ Exists(lease[k]) /\ lease'[k] # lease[k]
            => pc[lease[k]] \in {"drop", "sweep"} \/ life[lease[k]] = "deleting"
       /\ lease[k] = Foreign /\ lease'[k] # Foreign => AdminDelete(k)]_vars

Owners == INSTANCE OneOwner WITH
  users <- [k \in Keys |-> {c \in Claimants : UsesKey(c, k)}]

(* The SQL passes on the keys implement OneOwner.                          *)
ImplementsOneOwner == Owners!Spec

(* What keeps a Database from the key that it names: a foreign Lease, or a *)
(* Database that names the same key.                                       *)
Blocked(c) ==
  \/ lease[names[c]] = Foreign
  \/ \E d \in Claimants \ {c} : Exists(d) /\ names[d] = names[c]

(* Every Database gets bound to the key it names, or somebody else uses    *)
(* that key: also when two of them swap their keys, or the old holder is   *)
(* gone without a release.                                                 *)
NamedKeyIsServed ==
  \A c \in Claimants \ Departed :
    life[c] = "alive" ~> (life[c] # "alive" \/ bound[c] = names[c] \/ Blocked(c))
=============================================================================
