--------------------------- MODULE StorageWriter ----------------------------
(***************************************************************************)
(* Who writes a secondary storage: internal/controller/camundacluster/     *)
(* secondarystorage.go with pkg/storagewriter.  A CamundaCluster claims    *)
(* the backend it points at with a Lease, waits at zero for whoever still  *)
(* writes it, renders its workload, and gives back the backends it left.   *)
(* A restore writes the backend of a suspended cluster under a             *)
(* registration, itself or with a Job that can outlive the restore.  Lists *)
(* and writes of a pass are separate steps: the controller runs passes of  *)
(* several clusters at once, beside the restores, the StatefulSet and the  *)
(* Job controller.  LeaseClaim has the requests of one Lease, EsRestore    *)
(* those of one restore.                                                   *)
(***************************************************************************)
EXTENDS Naturals, FiniteSets

CONSTANTS
  Clusters, Backends, Restores,
  None,         \* no cluster, no backend
  MaxChanges    \* bound: moves, suspensions and deletions by users, together

ASSUME StorageWriterConstants ==
  /\ None \notin Clusters \cup Backends /\ MaxChanges \in Nat

VARIABLES
  life,         \* what the API server has of each cluster
  points,       \* the backend that spec names
  suspend,      \* spec.suspend
  lease,        \* the holder of the Lease of each backend
  tmpl, asked,  \* the StatefulSet: the claim in its template, replicas > 0
  old,          \* the claim in the revision that a recreated pod can carry
  pods,         \* <<cluster, backend>> of the pods that write
  pass,         \* the pass that runs for each cluster
  doing,        \* the state of each restore
  target, goal, \* the cluster and the backend that a restore pinned
  jobs, dumps,  \* restores whose pg_restore Job can start a pod, and that have one
  changes

workload == <<tmpl, asked, old>>
world == <<life, points, suspend, changes>>
restores == <<doing, target, goal, jobs, dumps>>
vars == <<world, lease, workload, pods, pass, restores>>

-----------------------------------------------------------------------------
(* Types *)

Idle == [at |-> "idle", key |-> None, stop |-> FALSE, held |-> FALSE,
         wait |-> FALSE, keep |-> None, free |-> {}]

Passes == [at: {"idle", "unclaimed", "create", "gate", "render", "look", "rollouts", "free"},
           key: Backends \cup {None}, stop: BOOLEAN, held: BOOLEAN,
           wait: BOOLEAN, keep: Backends \cup {None}, free: SUBSET Backends]

TypeOK ==
  /\ life \in [Clusters -> {"alive", "deleting", "gone"}]
  /\ points \in [Clusters -> Backends]
  /\ suspend \in [Clusters -> BOOLEAN]
  /\ lease \in [Backends -> Clusters \cup {None}]
  /\ tmpl \in [Clusters -> Backends \cup {None}]
  /\ asked \in [Clusters -> BOOLEAN]
  /\ old \in [Clusters -> Backends \cup {None}]
  /\ pods \subseteq Clusters \X Backends
  /\ pass \in [Clusters -> Passes]
  /\ doing \in [Restores -> {"idle", "prepare", "looked", "registered", "writing",
                            "dumping", "terminal", "deleting", "released", "over"}]
  /\ target \in [Restores -> Clusters \cup {None}]
  /\ goal \in [Restores -> Backends \cup {None}]
  /\ jobs \subseteq Restores /\ dumps \subseteq Restores
  /\ changes \in 0..MaxChanges

Init ==
  /\ life = [c \in Clusters |-> "alive"]
  /\ points \in [Clusters -> Backends]
  /\ suspend = [c \in Clusters |-> FALSE]
  /\ lease = [b \in Backends |-> None]
  /\ tmpl = [c \in Clusters |-> None]
  /\ asked = [c \in Clusters |-> FALSE]
  /\ old = [c \in Clusters |-> None]
  /\ pods = {}
  /\ pass = [c \in Clusters |-> Idle]
  /\ doing = [r \in Restores |-> "idle"]
  /\ target = [r \in Restores |-> None]
  /\ goal = [r \in Restores |-> None]
  /\ jobs = {} /\ dumps = {}
  /\ changes = 0

(* The restore has a suspension hold on its target, also when it failed.   *)
Holds(r, c) == target[r] = c /\ doing[r] \notin {"idle", "over"}

SuspendRequested(c) == suspend[c] \/ \E r \in Restores : Holds(r, c)

PodsOf(c) == {b \in Backends : <<c, b>> \in pods}

(* A fault of JobOnClaim: a Job counts while it has a pod.                 *)
JobOnClaimByPods(r, b) == goal[r] = b /\ r \in dumps

(* What OtherPodsOnClaim lists: pods, the workloads that can still start   *)
(* one from their template, and the Jobs that can start the next one.      *)
ClusterOnClaim(c, b) == <<c, b>> \in pods \/ (asked[c] /\ tmpl[c] = b)

JobOnClaim(r, b) == goal[r] = b /\ r \in jobs \cup dumps

OthersOnClaim(c, b) ==
  \/ \E d \in Clusters \ {c} : ClusterOnClaim(d, b)
  \/ \E r \in Restores : JobOnClaim(r, b)

(* Registrations on a backend: from the look that takes it to the release. *)
Registered(r) == doing[r] \in {"registered", "writing", "dumping", "terminal", "deleting"}

(* storagewriter.Live: the writers for other clusters.                     *)
Live(c, b) == \E r \in Restores : Registered(r) /\ goal[r] = b /\ target[r] # c

Writers(c, b) == OthersOnClaim(c, b) \/ Live(c, b)

-----------------------------------------------------------------------------
(* The pass of a cluster: the claim *)

Goto(c, p) == pass' = [pass EXCEPT ![c] = p]

At(c, at) == pass[c].at = at

SetLease(b, c) == lease' = [lease EXCEPT ![b] = c]

(* Reads the cluster and the Lease of its backend: its own, a free one, the*)
(* one of a live cluster (this cluster parks), or the one of a cluster     *)
(* that is gone (taken over).                                              *)
Begin(c) ==
  LET b == points[c]
      begun == [Idle EXCEPT !.key = b, !.stop = SuspendRequested(c), !.keep = b]
      To(at, p) == Goto(c, [p EXCEPT !.at = at])
  IN /\ life[c] = "alive" /\ At(c, "idle")
     /\ \/ lease[b] = c /\ To("gate", [begun EXCEPT !.held = TRUE]) /\ UNCHANGED lease
        \/ lease[b] = None /\ To("unclaimed", begun) /\ UNCHANGED lease
        \/ \E d \in Clusters \ {c} :
             /\ lease[b] = d
             /\ IF life[d] = "gone"
                THEN SetLease(b, c) /\ To("gate", begun)
                ELSE To("render", [begun EXCEPT !.wait = TRUE]) /\ UNCHANGED lease
     /\ UNCHANGED <<world, workload, pods, restores>>

(* The rule of TakeUnclaimed: no Lease on a backend that others write.     *)
Unclaimed(c) ==
  /\ At(c, "unclaimed")
  /\ IF Writers(c, pass[c].key)
     THEN Goto(c, [pass[c] EXCEPT !.at = "render", !.wait = TRUE])
     ELSE Goto(c, [pass[c] EXCEPT !.at = "create"])
  /\ UNCHANGED <<world, lease, workload, pods, restores>>

(* The create decides: the Lease of somebody faster parks the cluster.     *)
Create(c) ==
  LET b == pass[c].key
  IN /\ At(c, "create")
     /\ IF lease[b] = None
        THEN SetLease(b, c) /\ Goto(c, [pass[c] EXCEPT !.at = "gate"])
        ELSE Goto(c, [pass[c] EXCEPT !.at = "render", !.wait = TRUE]) /\ UNCHANGED lease
     /\ UNCHANGED <<world, workload, pods, restores>>

(* A fault of Gate: whoever held the Lease before has nothing to wait for. *)
GateOnceTaken(c) ==
  LET b == pass[c].key
      possible == ~pass[c].stop /\ ~pass[c].held
  IN /\ At(c, "gate")
     /\ Goto(c, [pass[c] EXCEPT !.at = "render", !.wait = possible /\ Writers(c, b)])
     /\ UNCHANGED <<world, lease, workload, pods, restores>>

(* handoverPossible and the list behind it, after the Lease is written.    *)
Gate(c) ==
  LET b == pass[c].key
      possible == ~pass[c].stop /\ (~pass[c].held \/ b \notin PodsOf(c))
  IN /\ At(c, "gate")
     /\ Goto(c, [pass[c] EXCEPT !.at = "render", !.wait = possible /\ Writers(c, b)])
     /\ UNCHANGED <<world, lease, workload, pods, restores>>

-----------------------------------------------------------------------------
(* The pass of a cluster: the render and the release *)

(* The apply of the StatefulSet, at zero when the cluster is suspended or  *)
(* does not write the backend alone.                                       *)
Render(c) ==
  /\ At(c, "render")
  /\ tmpl' = [tmpl EXCEPT ![c] = pass[c].key]
  /\ asked' = [asked EXCEPT ![c] = ~pass[c].stop /\ ~pass[c].wait]
  /\ old' = IF asked[c] THEN old ELSE [old EXCEPT ![c] = pass[c].key]
  /\ Goto(c, [pass[c] EXCEPT !.at = "look"])
  /\ UNCHANGED <<world, lease, pods, restores>>

(* A version change that is refused, unless the cluster stops: nothing is  *)
(* applied, and the backend that its pods carry is the one to keep.        *)
Refuse(c) ==
  /\ At(c, "render") /\ ~pass[c].stop /\ ~pass[c].wait /\ tmpl[c] # None
  /\ \E b \in (IF PodsOf(c) = {} THEN {pass[c].key} ELSE PodsOf(c)) :
       /\ Goto(c, [pass[c] EXCEPT !.at = "look", !.keep = b])
  /\ UNCHANGED <<world, lease, workload, pods, restores>>

(* reportFailedPreCheck before the claim step: a cluster that is suspended *)
(* stops, and the pods name the backend to keep; no pod, and it keeps all. *)
FailPreCheck(c) ==
  /\ life[c] = "alive" /\ At(c, "idle")
  /\ asked' = [asked EXCEPT ![c] = @ /\ ~SuspendRequested(c)]
  /\ \/ PodsOf(c) = {} /\ UNCHANGED pass
     \/ \E b \in PodsOf(c) : Goto(c, [Idle EXCEPT !.at = "look", !.keep = b])
  /\ UNCHANGED <<world, lease, tmpl, old, pods, restores>>

(* releaseLeftBackends: the Leases it holds, the claims on its own pods,   *)
(* then what its StatefulSet can still start; one that updates holds all.  *)
Look(c) ==
  /\ At(c, "look")
  /\ Goto(c, [pass[c] EXCEPT !.at = "rollouts",
              !.free = {b \in Backends \ (PodsOf(c) \cup {pass[c].keep}) : lease[b] = c}])
  /\ UNCHANGED <<world, lease, workload, pods, restores>>

Updating(c) == asked[c] /\ old[c] # tmpl[c]

LookAtRollouts(c) ==
  /\ At(c, "rollouts")
  /\ Goto(c, [pass[c] EXCEPT !.at = "free",
              !.free = IF Updating(c) THEN {} ELSE @ \ {b \in Backends : asked[c] /\ tmpl[c] = b}])
  /\ UNCHANGED <<world, lease, workload, pods, restores>>

Free(c) ==
  /\ At(c, "free")
  /\ lease' = [b \in Backends |-> IF b \in pass[c].free /\ lease[b] = c THEN None ELSE lease[b]]
  /\ Goto(c, Idle)
  /\ UNCHANGED <<world, workload, pods, restores>>

(* The operator stops in the middle of a pass, or a request fails: the     *)
(* list, the create or the apply.                                          *)
Abort(c) ==
  /\ ~At(c, "idle") /\ Goto(c, Idle)
  /\ UNCHANGED <<world, lease, workload, pods, restores>>

(* finalizeStorageClaims: every Lease goes, then the finalizer.            *)
Finalize(c) ==
  /\ life[c] = "deleting" /\ At(c, "idle")
  /\ IF \E b \in Backends : lease[b] = c
     THEN /\ lease' = [b \in Backends |-> IF lease[b] = c THEN None ELSE lease[b]]
          /\ UNCHANGED life
     ELSE life' = [life EXCEPT ![c] = "gone"] /\ UNCHANGED lease
  /\ UNCHANGED <<points, suspend, changes, workload, pods, pass, restores>>

-----------------------------------------------------------------------------
(* Restores *)

(* The cluster claim, which a terminal restore loses and its hold outlives.*)
Claims(r, c) ==
  target[r] = c /\ doing[r] \in {"prepare", "looked", "registered", "writing", "dumping", "deleting"}

(* admit: the restore holds the target suspended.                          *)
Prepare(r, c) ==
  /\ doing[r] = "idle" /\ life[c] = "alive"
  /\ \A s \in Restores : ~Claims(s, c)
  /\ doing' = [doing EXCEPT ![r] = "prepare"]
  /\ target' = [target EXCEPT ![r] = c]
  /\ UNCHANGED <<world, lease, workload, pods, pass, goal, jobs, dumps>>

(* CheckBackend: the target resolves to the backend and holds its claim,   *)
(* and no pod writes it, nor anything that starts one, but for its own Job.*)
CheckBackend(r, b) ==
  /\ life[target[r]] # "gone" /\ points[target[r]] = b
  /\ lease[b] = target[r]
  /\ \A c \in Clusters : ~ClusterOnClaim(c, b)
  /\ \A s \in Restores \ {r} : ~JobOnClaim(s, b)

(* The first look of admit: the StatefulSet of the target is at zero.      *)
LookFirst(r) ==
  /\ doing[r] = "prepare"
  /\ tmpl[target[r]] # None /\ ~asked[target[r]] /\ PodsOf(target[r]) = {}
  /\ \E b \in Backends :
       /\ CheckBackend(r, b)
       /\ goal' = [goal EXCEPT ![r] = b]
  /\ doing' = [doing EXCEPT ![r] = "looked"]
  /\ UNCHANGED <<world, lease, workload, pods, pass, target, jobs, dumps>>

Advance(r, from, to) ==
  /\ doing[r] \in from /\ doing' = [doing EXCEPT ![r] = to]
  /\ UNCHANGED <<world, lease, workload, pods, pass, target, goal, jobs, dumps>>

(* The registration; the write waits for a later look.                     *)
Register(r) == Advance(r, {"looked"}, "registered")

(* The look that finds the backend still its own.  From here on the restore*)
(* writes it: Elasticsearch recovers an index, or the Job is created.      *)
Write(r) ==
  doing[r] = "registered" /\ CheckBackend(r, goal[r]) /\ Advance(r, {"registered"}, "writing")

(* claimDatabaseJob: the create decides, and nothing looks in between.     *)
CreateJob(r) ==
  /\ doing[r] = "writing" /\ doing' = [doing EXCEPT ![r] = "dumping"]
  /\ jobs' = jobs \cup {r}
  /\ UNCHANGED <<world, lease, workload, pods, pass, target, goal, dumps>>

(* The restore completes or fails.  Its Job goes on: the mid-run grace can *)
(* end the restore while the Job runs, or waits to start its next pod.     *)
End(r) == Advance(r, {"registered", "writing", "dumping"}, "terminal")

(* Its owner deletes the restore before it is over.                        *)
Withdraw(r) == 
  Advance(r, {"prepare", "looked", "registered", "writing", "dumping"}, "deleting")

(* removeJobs, or CollectJobs of a restore that is over: no pod starts.    *)
RemoveJob(r) ==
  /\ doing[r] \in {"deleting", "released"} /\ r \in jobs /\ jobs' = jobs \ {r}
  /\ UNCHANGED <<world, lease, workload, pods, pass, doing, target, goal, dumps>>

JobGone(r) == r \notin jobs \cup dumps

(* ReleaseWriters: first thing of a terminal look, last but one of the     *)
(* finalizer, which waits for the pods of the Job.                         *)
Release(r) ==
  (doing[r] = "deleting" => JobGone(r)) /\ Advance(r, {"terminal", "deleting"}, "released")

(* Resume of a completed restore, or releaseHold of one that is deleted.   *)
Unhold(r) == JobGone(r) /\ Advance(r, {"released"}, "over")

(* The Job controller: the next pod after one that failed, then the end.   *)
JobStarts(r) ==
  /\ r \in jobs \ dumps /\ dumps' = dumps \cup {r}
  /\ UNCHANGED <<world, lease, workload, pods, pass, doing, target, goal, jobs>>

JobPodEnds(r) ==
  /\ r \in dumps /\ dumps' = dumps \ {r}
  /\ UNCHANGED <<world, lease, workload, pods, pass, doing, target, goal, jobs>>

JobEnds(r) ==
  /\ r \in jobs \ dumps /\ jobs' = jobs \ {r}
  /\ UNCHANGED <<world, lease, workload, pods, pass, doing, target, goal, dumps>>

Restore(r) ==
  \/ LookFirst(r) \/ Register(r) \/ Write(r) \/ CreateJob(r) \/ End(r)
  \/ Withdraw(r) \/ RemoveJob(r) \/ Release(r) \/ Unhold(r)
  \/ \E c \in Clusters : Prepare(r, c)

JobController(r) == JobStarts(r) \/ JobPodEnds(r) \/ JobEnds(r)

-----------------------------------------------------------------------------
(* Kubernetes and the users *)

(* The StatefulSet controller: one pod at a time, from the template or,    *)
(* while it updates, from the revision that the pod had.  It goes on for a *)
(* cluster that is gone until the garbage collector is there.              *)
PodStarts(c) ==
  /\ asked[c] /\ PodsOf(c) = {}
  /\ \E b \in {tmpl[c], old[c]} :
       pods' = pods \cup {<<c, b>>}
  /\ UNCHANGED <<world, lease, workload, pass, restores>>

(* A pod ends: it is scaled down, replaced, evicted, or its node is lost.  *)
PodEnds(c) ==
  /\ PodsOf(c) # {} /\ pods' = {p \in pods : p[1] # c}
  /\ UNCHANGED <<world, lease, workload, pass, restores>>

RolledOut(c) ==
  /\ old[c] # tmpl[c] /\ (asked[c] => <<c, tmpl[c]>> \in pods)
  /\ old' = [old EXCEPT ![c] = tmpl[c]]
  /\ UNCHANGED <<world, lease, tmpl, asked, pods, pass, restores>>

(* The garbage collector removes the StatefulSet of a cluster that is gone.*)
Collect(c) ==
  /\ life[c] = "gone" /\ asked[c]
  /\ asked' = [asked EXCEPT ![c] = FALSE]
  /\ UNCHANGED <<world, lease, tmpl, old, pods, pass, restores>>

Change(c) == life[c] = "alive" /\ changes < MaxChanges /\ changes' = changes + 1

Move(c, b) ==
  /\ Change(c) /\ b # points[c] /\ points' = [points EXCEPT ![c] = b]
  /\ UNCHANGED <<life, suspend, lease, workload, pods, pass, restores>>

Toggle(c) ==
  /\ Change(c) /\ suspend' = [suspend EXCEPT ![c] = ~@]
  /\ UNCHANGED <<life, points, lease, workload, pods, pass, restores>>

Delete(c) ==
  /\ Change(c) /\ life' = [life EXCEPT ![c] = "deleting"]
  /\ UNCHANGED <<points, suspend, lease, workload, pods, pass, restores>>

Pass(c) ==
  \/ Begin(c) \/ Unclaimed(c) \/ Create(c) \/ Gate(c) \/ Render(c)
  \/ Look(c) \/ LookAtRollouts(c) \/ Free(c)

Fault(c) == Refuse(c) \/ FailPreCheck(c) \/ Abort(c)

Kubelet(c) == PodStarts(c) \/ RolledOut(c) \/ Collect(c)

Next ==
  \/ \E c \in Clusters :
       \/ Pass(c) \/ Fault(c) \/ Finalize(c) \/ Kubelet(c) \/ PodEnds(c)
       \/ Toggle(c) \/ Delete(c) \/ \E b \in Backends : Move(c, b)
  \/ \E r \in Restores : Restore(r) \/ JobController(r)

Spec == Init /\ [][Next]_vars

-----------------------------------------------------------------------------
(* Properties *)

(* A pod that a deleted cluster, in the middle of an update, starts with   *)
(* its old revision: finalizeStorageClaims does not ask for it, unlike     *)
(* releaseLeftBackends, so the next claimant can look before it starts.    *)
Leftover(c, b) == life[c] # "alive" /\ tmpl[c] # b

(* Pods of two clusters never write one backend, whatever moves, stops or  *)
(* crashes while a backend changes hands: but for such a leftover.         *)
OneWriter ==
  \A b \in Backends, c, d \in Clusters :
    <<c, b>> \in pods /\ <<d, b>> \in pods => c = d \/ Leftover(c, b) \/ Leftover(d, b)

(* No pod of another cluster writes what a restore or its Job writes: the  *)
(* registration and the claim are each written before the other is read,   *)
(* and the Job of a restore that failed counts for as long as it can start *)
(* a pod, after the registration and the cluster claim were given back.    *)
RestoreAlone ==
  \A r \in Restores, c \in Clusters :
    (doing[r] = "writing" \/ r \in dumps) /\ <<c, goal[r]>> \in pods =>
      c = target[r] \/ Leftover(c, goal[r])

=============================================================================
