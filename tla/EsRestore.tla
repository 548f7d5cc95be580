----------------------------- MODULE EsRestore ------------------------------
(***************************************************************************)
(* Restores of one CamundaCluster from Elasticsearch backups: the shared   *)
(* procedure of pkg/restore as internal/controller/                        *)
(* logicalrestoreelasticsearch drives it.  A restore claims the cluster,   *)
(* holds it suspended, replaces the indices, empties the broker volumes,   *)
(* runs one Job per broker and gives the cluster back.                     *)
(*                                                                         *)
(* The controller runs one pass at a time, so a pass is one action; what   *)
(* runs beside it (cluster controller, Elasticsearch, Jobs, users) moves   *)
(* between passes.  A pass ends with the flush of its status: the flush    *)
(* can be lost to a conflict or a crash when everything else took place.   *)
(* The claim is one step here; ClusterClaim has its requests.              *)
(***************************************************************************)
EXTENDS Naturals, FiniteSets

CONSTANTS
  Restores,
  None,         \* no restore
  Last,         \* the ordinal of the last broker: brokers are 0..Last
  MaxFaults     \* bound: flushes that are lost, changes of spec.suspend, Jobs
                \* removed by hand, recoveries unreadable for the whole grace

ASSUME EsRestoreConstants ==
  /\ None \notin Restores /\ Last \in Nat /\ MaxFaults \in Nat

VARIABLES
  life,         \* what the API server has of each restore
  phase, kept,  \* its stored status
  claim,        \* whom the Lease of the cluster names
  holds,        \* restores with a suspension hold on the cluster
  suspendedBy,  \* field managers that declare spec.suspend
  running,      \* the brokers run
  writers,      \* restores registered as writers of the Elasticsearch
  index,        \* the Camunda indices
  vol, leaving, \* the broker volumes; those with a deletion timestamp
  job, pods,    \* the Job of each restore and broker; the pods that remain
  faults,
  gaveUp        \* restores whose recovery stayed unreadable

cluster == <<holds, suspendedBy, running>>
work == <<job, pods>>
bounds == <<faults, gaveUp>>
vars == <<life, phase, kept, claim, cluster, writers, index, vol, leaving, work, bounds>>

-----------------------------------------------------------------------------
(* Types *)

Brokers == 0..Last

Running == {"Validating", "Secondary", "Primary"}
Phases == {"Pending", "Completed", "Failed"} \cup Running

Status == [suspended: BOOLEAN,   \* status.clusterSuspended
           repository: BOOLEAN,  \* status.repository is set
           snapshots: BOOLEAN,   \* status.restoredSnapshots is set
           recreated: SUBSET Brokers,
           names: BOOLEAN,       \* status.primaryJobNames is set
           held: {"unset", "yes", "no"}]

NoStatus == [suspended |-> FALSE, repository |-> FALSE, snapshots |-> FALSE,
             recreated |-> {}, names |-> FALSE, held |-> "unset"]

(* What a storage holds, and which restore wrote or emptied it.            *)
Storage == [data: {"live", "none", "empty", "part", "full", "stranded"},
            by: Restores \cup {None}]

Holding(d, r) == [data |-> d, by |-> r]

TypeOK ==
  /\ life \in [Restores -> {"absent", "alive", "deleting", "gone"}]
  /\ phase \in [Restores -> Phases]
  /\ kept \in [Restores -> Status]
  /\ claim \in Restores \cup {None}
  /\ holds \subseteq Restores
  /\ suspendedBy \subseteq {"user", "restore"}
  /\ running \in BOOLEAN
  /\ writers \subseteq Restores
  /\ index \in Storage
  /\ vol \in [Brokers -> Storage]
  /\ leaving \subseteq Brokers
  /\ job \in [Restores -> [Brokers -> {"none", "new", "active", "done", "failed"}]]
  /\ pods \subseteq Restores \X Brokers
  /\ faults \in 0..MaxFaults /\ gaveUp \subseteq Restores

Init ==
  /\ life = [r \in Restores |-> "absent"]
  /\ phase = [r \in Restores |-> "Pending"]
  /\ kept = [r \in Restores |-> NoStatus]
  /\ claim = None
  /\ holds = {} /\ suspendedBy \in {{}, {"user"}} /\ running = (suspendedBy = {})
  /\ writers = {}
  /\ index = Holding("live", None)
  /\ vol = [b \in Brokers |-> Holding("live", None)]
  /\ leaving = {}
  /\ job = [r \in Restores |-> [b \in Brokers |-> "none"]]
  /\ pods = {}
  /\ faults = 0 /\ gaveUp = {}

Exists(r) == life[r] \in {"alive", "deleting"}

Terminal(r) == phase[r] \in {"Completed", "Failed"}

(* A fault of HolderActive: a terminal restore never holds.                *)
HolderActiveUntilTerminal(r) == Exists(r) /\ ~Terminal(r)

(* clusterclaim.HolderActive, for a restore.                               *)
HolderActive(r) == Exists(r) /\ (~Terminal(r) \/ kept[r].held = "yes")

SuspendRequested == suspendedBy # {} \/ holds # {}

WithinBound == faults + Cardinality(gaveUp) < MaxFaults

Fault == WithinBound /\ faults' = faults + 1

(* The flush at the end of a pass.                                         *)
Flush(r, p, k) ==
  \/ /\ phase' = [phase EXCEPT ![r] = p]
     /\ kept' = [kept EXCEPT ![r] = k]
     /\ UNCHANGED faults
  \/ Fault /\ UNCHANGED <<phase, kept>>

NoFlush == UNCHANGED <<phase, kept, faults>>

-----------------------------------------------------------------------------
(* Admission: Pending *)

(* Take finds the Lease free, its own, or held by an inactive restore.     *)
Claimable(r) == \A s \in Restores \ {r} : claim = s => ~HolderActive(s)

(* Take and holdTarget, which open every pass over a claimable cluster.  A *)
(* pass that ends in Pending releases a registration that a lost flush     *)
(* left behind.                                                            *)
Enters(r) ==
  /\ life[r] = "alive" /\ phase[r] = "Pending" /\ Claimable(r)
  /\ claim' = r
  /\ holds' = holds \cup {r}

StaysPending(r) ==
  /\ writers' = writers \ {r}
  /\ UNCHANGED <<life, running, index, vol, leaving, work, gaveUp>>

(* suspendTarget: the record is stored by one pass, the next one writes.   *)
SuspendTarget(r) ==
  /\ Enters(r) /\ StaysPending(r)
  /\ suspendedBy = {}
  /\ \/ /\ ~kept[r].suspended /\ UNCHANGED suspendedBy
        /\ Flush(r, "Pending", [kept[r] EXCEPT !.suspended = TRUE])
     \/ /\ kept[r].suspended /\ suspendedBy' = {"restore"}
        /\ NoFlush

(* A fault of Adopts: the suspension is left to who applied it.            *)
AdoptsNothing(r) == FALSE

(* Prepare takes over the suspension that an earlier restore left.         *)
Adopts(r) == ~kept[r].suspended /\ "restore" \in suspendedBy

AdoptSuspension(r) ==
  /\ Enters(r) /\ StaysPending(r)
  /\ Adopts(r)
  /\ Flush(r, "Pending", [kept[r] EXCEPT !.suspended = TRUE])
  /\ UNCHANGED suspendedBy

AwaitBrokers(r) ==
  /\ Enters(r) /\ StaysPending(r)
  /\ suspendedBy # {} /\ ~Adopts(r) /\ running
  /\ UNCHANGED suspendedBy /\ NoFlush

(* The claim is taken by somebody else: the restore waits, and touches     *)
(* nothing.                                                                *)
AwaitClaim(r) ==
  /\ life[r] = "alive" /\ phase[r] = "Pending" /\ ~Claimable(r)
  /\ StaysPending(r)
  /\ UNCHANGED <<claim, holds, suspendedBy>> /\ NoFlush

(* The backend is the target's own and nobody else writes it: the restore  *)
(* registers and starts.                                                   *)
Start(r) ==
  /\ Enters(r)
  /\ suspendedBy # {} /\ ~Adopts(r) /\ ~running
  /\ writers' = writers \cup {r}
  /\ Flush(r, "Validating", kept[r])
  /\ UNCHANGED <<life, suspendedBy, running, index, vol, leaving, work, gaveUp>>

-----------------------------------------------------------------------------
(* The running phases *)

(* RegisterWriter opens every pass of a restore with a backend; resolve    *)
(* demands the suspension in every phase.                                  *)
Runs(r, p) ==
  /\ life[r] = "alive" /\ phase[r] = p
  /\ writers' = writers \cup {r}
  /\ UNCHANGED <<life, claim, cluster, gaveUp>>

Resolved(r, p) == SuspendRequested /\ Runs(r, p)

(* fail, with holdForRecovery.                                             *)
Failed(r) ==
  [kept[r] EXCEPT !.held = IF kept[r].repository /\ @ = "unset" THEN "yes" ELSE @]

Fail(r) == Flush(r, "Failed", Failed(r))

Validate(r) ==
  /\ Resolved(r, "Validating")
  /\ (Flush(r, "Secondary", kept[r]) \/ Fail(r))
  /\ UNCHANGED <<index, vol, leaving, work>>

(* HoldRunning: a dependency, or the suspension, stayed away for the grace.*)
GraceOver(r) ==
  /\ \E p \in Running : Runs(r, p)
  /\ Fail(r)
  /\ UNCHANGED <<index, vol, leaving, work>>

RecordRepository(r) ==
  /\ Resolved(r, "Secondary") /\ ~kept[r].repository
  /\ Flush(r, "Secondary", [kept[r] EXCEPT !.repository = TRUE])
  /\ UNCHANGED <<index, vol, leaving, work>>

(* startRestore: the indices go, the snapshots are asked for one by one,   *)
(* and Record stores their names at once.  Any request can fail: the next  *)
(* pass deletes and asks again.                                            *)
RestoreIndices(r) ==
  /\ Resolved(r, "Secondary") /\ kept[r].repository /\ ~kept[r].snapshots
  /\ \/ index' \in {Holding("none", r), Holding("part", r)} /\ NoFlush
     \/ /\ index' = Holding("part", r)
        /\ Flush(r, "Secondary", [kept[r] EXCEPT !.snapshots = TRUE])
  /\ UNCHANGED <<vol, leaving, work>>

(* A fault of TrackRestore: a stranded shard is awaited.                   *)
TrackRestoreToTheEnd(r) ==
  /\ Resolved(r, "Secondary") /\ kept[r].snapshots
  /\ index.data = "full" /\ Flush(r, "Primary", kept[r])
  /\ UNCHANGED <<index, vol, leaving, work>>

TrackRestore(r) ==
  /\ Resolved(r, "Secondary") /\ kept[r].snapshots
  /\ \/ index.data = "full" /\ Flush(r, "Primary", kept[r])
     \/ index.data = "stranded" /\ Fail(r)
  /\ UNCHANGED <<index, vol, leaving, work>>

Missing == {b \in Brokers : vol[b].data = "none"}

(* A fault of RecreateClaims: the Jobs start in the pass that finds the    *)
(* volumes empty, before their record is stored.                           *)
RecreateClaimsAndRun(r) ==
  LET unrecorded == Brokers \ (kept[r].recreated \cup Missing)
      ready == unrecorded = {} /\ leaving \subseteq Missing
  IN /\ Resolved(r, "Primary") /\ ~kept[r].names
     /\ vol' = [b \in Brokers |-> IF b \in Missing THEN Holding("empty", r) ELSE vol[b]]
     /\ leaving' = leaving \cup unrecorded
     /\ job' = IF ready THEN [job EXCEPT ![r] = [b \in Brokers |-> "new"]] ELSE job
     /\ pods' = IF ready THEN pods \cup ({r} \X Brokers) ELSE pods
     /\ Flush(r, "Primary", [kept[r] EXCEPT
                !.recreated = Brokers, !.names = ready])
     /\ UNCHANGED index

(* RecreateClaims and its caller: a claim that is not recorded is deleted, *)
(* an absent one is created, and the Jobs are named only by a pass that    *)
(* finds every claim recorded and none of them leaving.                    *)
RecreateClaims(r) ==
  LET unrecorded == Brokers \ (kept[r].recreated \cup Missing)
      recreated == kept[r].recreated \cup Missing \cup unrecorded
      done == unrecorded = {} /\ leaving \cap kept[r].recreated \subseteq Missing
  IN /\ Resolved(r, "Primary") /\ ~kept[r].names
     /\ vol' = [b \in Brokers |-> IF b \in Missing THEN Holding("empty", r) ELSE vol[b]]
     /\ leaving' = leaving \cup unrecorded
     /\ Flush(r, "Primary", [kept[r] EXCEPT
                !.recreated = recreated,
                !.names = done /\ recreated = kept[r].recreated])
     /\ UNCHANGED <<index, work>>

NoJob(r) == {b \in Brokers : job[r][b] = "none"}

(* A Job that is gone before a later one was removed after it wrote.       *)
Gap(r) == \E b \in NoJob(r), c \in Brokers \ NoJob(r) : b < c

(* A fault of CreateJob: the pod mounts the volume of the next broker.     *)
CreateJobOfNext(r, b) ==
  /\ Resolved(r, "Primary") /\ kept[r].names /\ ~Gap(r)
  /\ b \in NoJob(r) /\ \A c \in NoJob(r) : b <= c
  /\ job' = [job EXCEPT ![r][b] = "new"]
  /\ pods' = pods \cup {<<r, b + 1>>}
  /\ NoFlush
  /\ UNCHANGED <<index, vol, leaving>>

CreateJob(r, b) ==
  /\ Resolved(r, "Primary") /\ kept[r].names /\ ~Gap(r)
  /\ b \in NoJob(r) /\ \A c \in NoJob(r) : b <= c
  /\ job' = [job EXCEPT ![r][b] = "new"]
  /\ pods' = pods \cup {<<r, b>>}
  /\ NoFlush
  /\ UNCHANGED <<index, vol, leaving>>

TrackJobs(r) ==
  /\ Resolved(r, "Primary") /\ kept[r].names
  /\ \/ (Gap(r) \/ \E b \in Brokers : job[r][b] = "failed") /\ Fail(r)
     \/ (\A b \in Brokers : job[r][b] = "done") /\ Flush(r, "Completed", kept[r])
  /\ UNCHANGED <<index, vol, leaving, work>>

-----------------------------------------------------------------------------
(* The terminal branch *)

(* A fault of Over: the recovery is not awaited.                           *)
OverAtOnce(r, p) ==
  /\ life[r] = "alive" /\ phase[r] = p
  /\ writers' = writers \ {r}
  /\ NoFlush
  /\ UNCHANGED <<life, running, index, vol, leaving, gaveUp>>

(* Every look of a restore that is over and not held releases the writers. *)
Over(r, p) ==
  /\ life[r] = "alive" /\ phase[r] = p /\ kept[r].held # "yes"
  /\ writers' = writers \ {r}
  /\ NoFlush
  /\ UNCHANGED <<life, running, index, vol, leaving, gaveUp>>

HasPods(r) == \E b \in Brokers : <<r, b>> \in pods

(* CollectJobs: the Jobs go before their pods.                             *)
Collect(r) ==
  /\ Over(r, "Completed")
  /\ NoJob(r) # Brokers
  /\ job' = [job EXCEPT ![r] = [b \in Brokers |-> "none"]]
  /\ UNCHANGED <<claim, holds, suspendedBy, pods>>

(* A fault of Resume: a later restore has no hold of its own to respect,   *)
(* so all holds go.                                                        *)
ResumeAllHolds(r) ==
  /\ Over(r, "Completed")
  /\ NoJob(r) = Brokers /\ ~HasPods(r)
  /\ holds' = {}
  /\ suspendedBy' = IF kept[r].suspended THEN suspendedBy \ {"restore"} ELSE suspendedBy
  /\ UNCHANGED <<claim, work>>

(* Resume: the hold goes, and the suspension that the restore recorded.    *)
Resume(r) ==
  /\ Over(r, "Completed")
  /\ NoJob(r) = Brokers /\ ~HasPods(r)
  /\ holds' = holds \ {r}
  /\ suspendedBy' = IF kept[r].suspended THEN suspendedBy \ {"restore"} ELSE suspendedBy
  /\ UNCHANGED <<claim, work>>

(* The claim goes last.                                                    *)
Give(r) ==
  /\ \/ Over(r, "Failed")
     \/ /\ Over(r, "Completed") /\ NoJob(r) = Brokers /\ ~HasPods(r)
        /\ r \notin holds /\ (kept[r].suspended => "restore" \notin suspendedBy)
  /\ claim = r /\ claim' = None
  /\ UNCHANGED <<holds, suspendedBy, work>>

(* holdRecovery of a failed restore while Elasticsearch recovers.          *)
KeepWriter(r) ==
  /\ Exists(r) /\ kept[r].held = "yes" /\ index.data = "part"
  /\ writers' = writers \cup {r}
  /\ NoFlush
  /\ UNCHANGED <<life, claim, cluster, index, vol, leaving, work, gaveUp>>

(* The recovery ended, or it could not be read for the whole grace: the    *)
(* pass releases the writers and the claim before its flush.               *)
RecoveryOver(r) ==
  \/ /\ index.data # "part"
     /\ UNCHANGED gaveUp
  \/ /\ index.data = "part" /\ (r \in gaveUp \/ WithinBound)
     /\ gaveUp' = gaveUp \cup {r}

EndRecovery(r) ==
  /\ life[r] = "alive" /\ Terminal(r) /\ kept[r].held = "yes"
  /\ RecoveryOver(r)
  /\ writers' = writers \ {r}
  /\ claim' = IF claim = r THEN None ELSE claim
  /\ Flush(r, phase[r], [kept[r] EXCEPT !.held = "no"])
  /\ UNCHANGED <<life, cluster, index, vol, leaving, work>>

-----------------------------------------------------------------------------
(* The finalizer *)

(* A deleted restore that is held, or that its deletion makes held.        *)
FinalHeld(r) ==
  /\ life[r] = "deleting"
  /\ \/ kept[r].held = "yes"
     \/ ~Terminal(r) /\ kept[r].repository /\ kept[r].held = "unset"

HoldDeletion(r) ==
  /\ FinalHeld(r) /\ index.data = "part"
  /\ writers' = writers \cup {r}
  /\ Flush(r, phase[r], [kept[r] EXCEPT !.held = "yes"])
  /\ UNCHANGED <<life, claim, cluster, index, vol, leaving, work, gaveUp>>

EndHeldDeletion(r) ==
  /\ FinalHeld(r) /\ RecoveryOver(r)
  /\ writers' = writers \ {r}
  /\ Flush(r, phase[r], [kept[r] EXCEPT !.held = "no"])
  /\ UNCHANGED <<life, claim, cluster, index, vol, leaving, work>>

Finalizes(r) ==
  /\ life[r] = "deleting" /\ ~FinalHeld(r)
  /\ writers' = writers \ {r}
  /\ UNCHANGED <<phase, kept, claim, suspendedBy, running, index, vol, leaving, bounds>>

(* FinalizeHold: the Jobs, their pods, the hold, the finalizer.            *)
RemoveJobs(r) ==
  /\ Finalizes(r) /\ NoJob(r) # Brokers
  /\ job' = [job EXCEPT ![r] = [b \in Brokers |-> "none"]]
  /\ UNCHANGED <<life, holds, pods>>

(* A fault of ReleaseHold: the pods of the Jobs are not awaited.           *)
ReleaseHoldBeforePods(r) ==
  /\ Finalizes(r) /\ NoJob(r) = Brokers
  /\ r \in holds /\ holds' = holds \ {r}
  /\ UNCHANGED <<life, work>>

ReleaseHold(r) ==
  /\ Finalizes(r) /\ NoJob(r) = Brokers /\ ~HasPods(r)
  /\ r \in holds /\ holds' = holds \ {r}
  /\ UNCHANGED <<life, work>>

RemoveFinalizer(r) ==
  /\ Finalizes(r) /\ NoJob(r) = Brokers /\ ~HasPods(r)
  /\ r \notin holds
  /\ life' = [life EXCEPT ![r] = "gone"]
  /\ UNCHANGED <<holds, work>>

-----------------------------------------------------------------------------
(* What runs beside the controller *)

Status_ == <<life, phase, kept, claim, holds, writers, bounds>>

AllLive == index.data = "live" /\ \A b \in Brokers : vol[b].data = "live"

Whole(r) == index = Holding("full", r) /\ \A b \in Brokers : vol[b] = Holding("full", r)

(* The cluster controller scales the brokers; they turn a whole restore    *)
(* into their own data.                                                    *)
ScaleDown ==
  /\ SuspendRequested /\ running /\ running' = FALSE
  /\ UNCHANGED <<Status_, suspendedBy, index, vol, leaving, work>>

ScaleUp ==
  /\ ~SuspendRequested /\ ~running /\ running' = TRUE
  /\ IF \E r \in Restores : Whole(r)
     THEN /\ index' = Holding("live", None)
          /\ vol' = [b \in Brokers |-> Holding("live", None)]
     ELSE /\ vol' = [b \in Brokers |->
                       IF b \in Missing THEN Holding("empty", None) ELSE vol[b]]
          /\ UNCHANGED index
  /\ UNCHANGED <<Status_, suspendedBy, leaving, work>>

(* Elasticsearch ends the recovery of the snapshots.                       *)
Recover ==
  /\ index.data = "part"
  /\ \E d \in {"full", "stranded"} : index' = Holding(d, index.by)
  /\ UNCHANGED <<Status_, suspendedBy, running, vol, leaving, work>>

(* A deleted claim goes when no pod mounts it any more.                    *)
ClaimGone(b) ==
  /\ b \in leaving /\ ~running /\ \A r \in Restores : <<r, b>> \notin pods
  /\ vol' = [vol EXCEPT ![b] = Holding("none", @.by)]
  /\ leaving' = leaving \ {b}
  /\ UNCHANGED <<Status_, suspendedBy, running, index, work>>

(* The restore application refuses a data directory that is not empty.     *)
JobStarts(r, b) ==
  /\ job[r][b] = "new" /\ b \notin leaving /\ vol[b].data # "none"
  /\ IF vol[b].data = "empty"
     THEN /\ job' = [job EXCEPT ![r][b] = "active"]
          /\ vol' = [vol EXCEPT ![b] = Holding("part", r)]
     ELSE job' = [job EXCEPT ![r][b] = "failed"] /\ UNCHANGED vol
  /\ UNCHANGED <<Status_, suspendedBy, running, index, leaving, pods>>

JobEnds(r, b) ==
  /\ job[r][b] = "active"
  /\ \/ /\ job' = [job EXCEPT ![r][b] = "done"]
        /\ vol' = [vol EXCEPT ![b] = Holding("full", r)]
     \/ job' = [job EXCEPT ![r][b] = "failed"] /\ UNCHANGED vol
  /\ UNCHANGED <<Status_, suspendedBy, running, index, leaving, pods>>

PodGone(r, b) ==
  /\ <<r, b>> \in pods /\ job[r][b] = "none"
  /\ pods' = pods \ {<<r, b>>}
  /\ UNCHANGED <<Status_, suspendedBy, running, index, vol, leaving, job>>

Submit(r) ==
  /\ life[r] = "absent" /\ life' = [life EXCEPT ![r] = "alive"]
  /\ UNCHANGED <<phase, kept, claim, cluster, writers, index, vol, leaving, work, bounds>>

Delete(r) ==
  /\ life[r] = "alive" /\ life' = [life EXCEPT ![r] = "deleting"]
  /\ UNCHANGED <<phase, kept, claim, cluster, writers, index, vol, leaving, work, bounds>>

(* The owner of the cluster sets or clears spec.suspend: another manager   *)
(* keeps the field when it declares it too.                                *)
UserSuspends ==
  /\ Fault
  /\ suspendedBy' \in {suspendedBy \cup {"user"}, suspendedBy \ {"user"}}
  /\ suspendedBy' # suspendedBy
  /\ UNCHANGED <<life, phase, kept, claim, holds, running, writers, index, vol, leaving, work,
                 gaveUp>>

(* Somebody deletes a Job of a restore: its pod outlives it for a while.   *)
RemoveJob(r, b) ==
  /\ Fault
  /\ job[r][b] # "none" /\ job' = [job EXCEPT ![r][b] = "none"]
  /\ UNCHANGED <<life, phase, kept, claim, cluster, writers, index, vol, leaving, pods,
                 gaveUp>>

Admission(r) ==
  SuspendTarget(r) \/ AdoptSuspension(r) \/ AwaitBrokers(r) \/ AwaitClaim(r) \/ Start(r)

Run(r) ==
  \/ Validate(r) \/ RecordRepository(r) \/ RestoreIndices(r) \/ TrackRestore(r)
  \/ RecreateClaims(r) \/ (\E b \in Brokers : CreateJob(r, b)) \/ TrackJobs(r)

Finish(r) == Collect(r) \/ Resume(r) \/ Give(r) \/ KeepWriter(r) \/ EndRecovery(r)

Finalize(r) ==
  \/ HoldDeletion(r) \/ EndHeldDeletion(r)
  \/ RemoveJobs(r) \/ ReleaseHold(r) \/ RemoveFinalizer(r)

Workload ==
  \/ ScaleDown \/ ScaleUp \/ Recover
  \/ \E b \in Brokers : ClaimGone(b)
  \/ \E r \in Restores, b \in Brokers : JobStarts(r, b) \/ JobEnds(r, b) \/ PodGone(r, b)

Next ==
  \/ \E r \in Restores :
       \/ Admission(r) \/ Run(r) \/ GraceOver(r) \/ Finish(r) \/ Finalize(r)
       \/ Submit(r) \/ Delete(r)
       \/ \E b \in Brokers : RemoveJob(r, b)
  \/ Workload \/ UserSuspends

Spec == Init /\ [][Next]_vars

(* Every restore is looked at again, by its watches or its poll; Jobs,     *)
(* pods, Elasticsearch and the cluster controller go on.  Requests to      *)
(* Elasticsearch succeed at last.  Nothing forces a grace to run out.      *)
Fairness ==
  /\ \A r \in Restores :
       /\ WF_vars(Admission(r)) /\ WF_vars(Run(r)) /\ WF_vars(Finalize(r))
       /\ WF_vars(Collect(r)) /\ WF_vars(Resume(r)) /\ WF_vars(Give(r)) /\ WF_vars(EndRecovery(r))
       /\ SF_vars(RestoreIndices(r) /\ kept' # kept)
  /\ WF_vars(ScaleDown) /\ WF_vars(ScaleUp) /\ WF_vars(Recover)
  /\ \A b \in Brokers :
       /\ WF_vars(ClaimGone(b))
       /\ \A r \in Restores :
            WF_vars(JobStarts(r, b)) /\ WF_vars(JobEnds(r, b)) /\ WF_vars(PodGone(r, b))

FairSpec == Spec /\ Fairness

-----------------------------------------------------------------------------
(* Properties *)

(* Brokers never run over a storage that is half restored, while several   *)
(* restores suspend, adopt and resume one cluster: only somebody who       *)
(* deletes a restore that did not complete can bring that about.           *)
NeverOverHalfRestored ==
  running /\ ~AllLive =>
    \E r \in Restores : life[r] \in {"deleting", "gone"} /\ phase[r] # "Completed"

(* No broker runs while a pod of a restore can still mount its volume,     *)
(* whoever deletes restores and Jobs, and in whatever order Jobs, pods and *)
(* holds go.                                                               *)
NoPodUnderBrokers == running => pods = {}

(* A restore uses the cluster from its start to its end, and on while      *)
(* Elasticsearch recovers what it asked for.                               *)
Using(r) ==
  /\ Exists(r) /\ r \notin gaveUp
  /\ \/ phase[r] \in Running
     \/ kept[r].held = "yes" /\ index = Holding("part", r)

(* The registration that keeps other clusters off the Elasticsearch stays  *)
(* as long as Elasticsearch writes the snapshots of the restore.           *)
WriterCoversRecovery ==
  index.data = "part" /\ index.by \notin gaveUp => index.by \in writers

(* No volume is deleted after a Job of a restore that goes on wrote to it, *)
(* whatever flush is lost.                                                 *)
WrittenVolumesKept ==
  [][\A b \in leaving' \ leaving :
       vol[b].data \in {"part", "full"} =>
         Terminal(vol[b].by) \/ life[vol[b].by] # "alive"]_vars

Use == INSTANCE ExclusiveUse WITH
  Claimants <- Restores, users <- {r \in Restores : Using(r)}

(* The restores of one cluster implement ExclusiveUse.                     *)
ImplementsExclusiveUse == Use!Spec

(* A started restore reaches its end, unless the pods of an earlier failed *)
(* one, which keeps its Jobs, hold the volumes.                            *)
RestoreEnds ==
  \A r \in Restores :
    phase[r] \in Running ~>
      \/ phase[r] \notin Running \/ life[r] # "alive"
      \/ \E s \in Restores \ {r} : phase[s] = "Failed" /\ HasPods(s)

(* The cluster of a restore that completes runs again, unless its owner    *)
(* keeps it suspended or another restore comes: also when this restore     *)
(* took over a suspension that a restore that is gone left behind.         *)
CompletedRunsAgain ==
  \A r \in Restores :
    phase[r] = "Primary" /\ (\A s \in Restores \ {r} : ~Exists(s)) ~>
      \/ phase[r] = "Completed" /\ running
      \/ phase[r] = "Failed" \/ life[r] # "alive" \/ "user" \in suspendedBy
      \/ \E s \in Restores \ {r} : Exists(s)
=============================================================================
