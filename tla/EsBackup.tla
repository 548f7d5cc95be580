------------------------------ MODULE EsBackup ------------------------------
(***************************************************************************)
(* LogicalBackupElasticsearch: the backups of one CamundaCluster, from the *)
(* submission to the removal of the finalizer.  A backup soft-pauses the   *)
(* exporting of the cluster, takes three parts under one backup ID (the    *)
(* history of the web applications, a snapshot of the exported records,    *)
(* the Zeebe partitions) and resumes exporting.                            *)
(*                                                                         *)
(* A reconcile is cut where something else can happen between its calls:   *)
(* a rollout between the answer of a part and the check of the workload,   *)
(* a deletion before the status write, a crash anywhere.  Its last status  *)
(* write lands whole or not at all (optimistic locking).  The claim on the *)
(* cluster is one variable here: ClusterClaim models the Lease behind it.  *)
(***************************************************************************)
EXTENDS Naturals

CONSTANTS
  Backups,
  Age,              \* the order of creation times and names: smaller goes first
  NoHolder,         \* nobody has the claim
  UnreachableBound, \* polls after which unreachableBound has surely passed
  ResumeBound,      \* failed attempts that fill resumeDeadline
  MaxClusters,      \* bound: clusters that ever have the name
  MaxConfig,        \* bound: configurations the workload ever runs
  MaxSuspensions,   \* bound: suspensions of the cluster
  Obstacles,        \* bound: what may come in the way of the calls
  MaxFailures       \* bound: faults, of every kind that calls Fault

ASSUME BackupConstants ==
  /\ NoHolder \notin Backups
  /\ Age \in [Backups -> Nat]
  /\ \A b, d \in Backups : Age[b] = Age[d] => b = d
  /\ UnreachableBound \in Nat \ {0} /\ ResumeBound \in Nat
  /\ MaxClusters \in Nat \ {0} /\ MaxConfig \in Nat \ {0}
  /\ Obstacles \subseteq {"client", "refused", "moved"}
  /\ MaxSuspensions \in Nat /\ MaxFailures \in Nat

VARIABLES
  status,       \* the stored status of each backup
  deleting,     \* the deletion timestamp is set
  pc,           \* where the reconcile of each backup stands
  answer,       \* what the last call of that reconcile answered
  holder,       \* who has the claim on the cluster
  cluster,      \* the CamundaCluster and its workload
  artifact,     \* what exists under the backup ID of each backup, per part
  cleanup,      \* how the finalizer of each backup ended
  suspensions,
  failures

vars == <<status, deleting, pc, answer, holder, cluster, artifact, cleanup,
          suspensions, failures>>

-----------------------------------------------------------------------------
(* Types *)

Parts == {"BackupHistory", "SnapshotRecords", "BackupRuntime"}

(* The parts whose backup the cluster owns: it can not tell whose they are *)
(* and registers them after it accepted the request.                       *)
Managed == {"BackupHistory", "BackupRuntime"}

Steps == Parts \cup {"None", "PauseExporting", "ResumeExporting"}

NextStep ==
  [PauseExporting |-> "BackupHistory", BackupHistory |-> "SnapshotRecords",
   SnapshotRecords |-> "BackupRuntime", BackupRuntime |-> "ResumeExporting"]

Phases == {"absent", "pending", "running", "Completed", "Failed", "ResumeFailed", "gone"}

(* step "None" is a backup without an ID; named: status.historySnapshots   *)
(* is complete; since and attempts count what passed on the unreachable    *)
(* clock and of the resume deadline; uid and config are pinned at start.   *)
Statuses ==
  [phase : Phases, step : Steps, failed : BOOLEAN,
   requested : SUBSET Managed, accepted : SUBSET Managed, named : BOOLEAN,
   since : 0..UnreachableBound, attempts : 0..ResumeBound,
   uid : 0..MaxClusters, config : 0..MaxConfig]

NoStatus ==
  [phase |-> "absent", step |-> "None", failed |-> FALSE, requested |-> {},
   accepted |-> {}, named |-> FALSE, since |-> 0, attempts |-> 0, uid |-> 0, config |-> 0]

(* What stands in the way of the calls until somebody repairs it: no       *)
(* management client can be built, or what resumes and cleans up is        *)
(* refused.  moved: the backups whose pinned bucket or storage endpoint is *)
(* not where the contracts point now.                                      *)
Clusters ==
  [uid : 1..MaxClusters, state : {"up", "unbound", "gone"}, config : 1..MaxConfig,
   paused : BOOLEAN, obstacle : {"none", "client", "refused"}, moved : SUBSET Backups]

(* "accepted" is not registered yet, "lost" never will be: both are        *)
(* reported as absent.  config is the configuration that completed it.     *)
Artifacts ==
  [by : {"nobody", "self", "foreign"},
   state : {"none", "accepted", "lost", "running", "completed", "failed"},
   config : 0..MaxConfig]

None == [by |-> "nobody", state |-> "none", config |-> 0]

Answers == {"none", "ok", "unreachable", "rejected", "absent", "running",
            "completed", "failed", "unowned"}

Points == {"idle", "start", "check", "request", "history", "records", "runtime",
           "remove", "release"}

TypeOK ==
  /\ status \in [Backups -> Statuses]
  /\ deleting \in [Backups -> BOOLEAN]
  /\ pc \in [Backups -> Points]
  /\ answer \in [Backups -> Answers]
  /\ holder \in Backups \cup {NoHolder}
  /\ cluster \in Clusters
  /\ artifact \in [Backups -> [Parts -> Artifacts]]
  /\ cleanup \in [Backups -> {"none", "clean", "abandoned"}]
  /\ suspensions \in 0..MaxSuspensions
  /\ failures \in 0..MaxFailures

Exists(b) == status[b].phase \notin {"absent", "gone"}

Terminal(b) == status[b].phase \in {"Completed", "Failed", "ResumeFailed"}

(* HolderActive, for this kind.                                            *)
HolderActive(b) == status[b].phase \in {"pending", "running", "ResumeFailed"}

(* The cluster that the backup pinned publishes its binding.               *)
Addressable(b) == cluster.state = "up" /\ cluster.uid = status[b].uid

(* The cluster that the backup pinned is gone, or replaced under its name. *)
ClusterIsLost(b) == cluster.state = "gone" \/ cluster.uid # status[b].uid

(* mayHoldExportingPaused *)
MayHoldExportingPaused(b) ==
  status[b].step # "None" /\ status[b].phase \in {"running", "ResumeFailed"}

Init ==
  /\ status = [b \in Backups |-> NoStatus]
  /\ deleting = [b \in Backups |-> FALSE]
  /\ pc = [b \in Backups |-> "idle"]
  /\ answer = [b \in Backups |-> "none"]
  /\ holder = NoHolder
  /\ cluster = [uid |-> 1, state |-> "up", config |-> 1, paused |-> FALSE,
                obstacle |-> "none", moved |-> {}]
  /\ artifact = [b \in Backups |-> [p \in Parts |-> None]]
  /\ cleanup = [b \in Backups |-> "none"]
  /\ suspensions = 0
  /\ failures = 0

-----------------------------------------------------------------------------
(* The writes of a reconcile *)

(* The reconcile of b goes to point p, and remembers no answer.            *)
Goto(b, p) ==
  /\ pc' = [pc EXCEPT ![b] = p]
  /\ answer' = [answer EXCEPT ![b] = "none"]

(* The pass of b ended its call with answer a, and checks the workload.    *)
Answered(b, a) ==
  /\ pc' = [pc EXCEPT ![b] = "check"]
  /\ answer' = [answer EXCEPT ![b] = a]

(* Flush at the end of a pass: a deletion that came after the read makes   *)
(* it conflict.  A write that a crash or another writer loses is an action *)
(* of its own: Crash, RequestWriteLost, ResumeWriteLost.                   *)
Flush(b, s) == status' = IF deleting[b] THEN status ELSE [status EXCEPT ![b] = s]

Fault == failures < MaxFailures /\ failures' = failures + 1

(* failStep: every failure goes through resume.                            *)
FailStep(s) == [s EXCEPT !.failed = TRUE, !.step = "ResumeExporting", !.attempts = 0]

(* stageUnreachable: the step is retried until the bound passed.  The time *)
(* between two polls has no upper bound.                                   *)
StageUnreachable(s) ==
  {t \in {[s EXCEPT !.since = s.since + 1]} : s.since < UnreachableBound}
    \cup {t \in {FailStep(s)} : s.since > 0}

(* answered: every call of the pass answered.                              *)
ClearClock(s) == [s EXCEPT !.since = 0]

-----------------------------------------------------------------------------
(* Admission *)

Submit(b) ==
  /\ status[b].phase = "absent"
  /\ status' = [status EXCEPT ![b].phase = "pending"]
  /\ UNCHANGED <<deleting, pc, answer, holder, cluster, artifact, cleanup, suspensions, failures>>

(* A fault of inProgress: the order alone decides, also against a holder.  *)
GoesFirstByAge(b) ==
  \A d \in Backups \ {b} :
    HolderActive(d) /\ status[d].phase # "ResumeFailed"
      => status[d].step = "None" /\ Age[b] < Age[d]

(* inProgress with blocks: a sibling that holds an ID or is older goes     *)
(* first, unless b has the claim already.                                  *)
GoesFirst(b) ==
  \/ holder = b
  \/ \A d \in Backups \ {b} :
       HolderActive(d) /\ status[d].phase # "ResumeFailed"
         => status[d].step = "None" /\ Age[b] < Age[d]

(* admit up to the claim: the pre-checks, then claimCluster, which takes   *)
(* the Lease over from an inactive holder.                                 *)
ClaimCluster(b) ==
  /\ pc[b] = "idle" /\ ~deleting[b] /\ status[b].phase = "pending"
  /\ cluster.state = "up" /\ cluster.obstacle # "client"
  /\ GoesFirst(b)
  /\ \A d \in Backups \ {b} : holder = d => ~HolderActive(d)
  /\ holder' = b
  /\ Goto(b, "start")
  /\ UNCHANGED <<status, deleting, cluster, artifact, cleanup, suspensions, failures>>

(* start: one write records the identity of the procedure and its pins.    *)
Start(b) ==
  /\ pc[b] = "start"
  /\ cluster.state # "gone"
  /\ Flush(b, [status[b] EXCEPT !.phase = "running", !.step = "PauseExporting",
                                !.uid = cluster.uid, !.config = cluster.config])
  /\ Goto(b, "idle")
  /\ UNCHANGED <<deleting, holder, cluster, artifact, cleanup, suspensions, failures>>

(* Every exit from admission without a start gives the claim back.         *)
LeaveAdmission(b) ==
  /\ status[b].phase = "pending"
  /\ \/ pc[b] = "idle" /\ ~deleting[b]
     \/ pc[b] = "start"
  /\ holder = b
  /\ holder' = NoHolder
  /\ Goto(b, "idle")
  /\ UNCHANGED <<status, deleting, cluster, artifact, cleanup, suspensions, failures>>

-----------------------------------------------------------------------------
(* run and runStep: at most one step per pass.  A cluster without a        *)
(* binding parks the procedure: no action is enabled.                      *)

PassBegins(b) == pc[b] = "idle" /\ ~deleting[b] /\ status[b].phase = "running"

(* failClusterLost: terminal, and no management call.                      *)
FailClusterLost(b) ==
  /\ PassBegins(b) /\ ClusterIsLost(b)
  /\ Flush(b, [status[b] EXCEPT !.phase = "Failed", !.failed = TRUE])
  /\ UNCHANGED <<deleting, pc, answer, holder, cluster, artifact, cleanup, suspensions, failures>>

(* management or destination: the records snapshot needs no management     *)
(* client, and the pause no destination.                                   *)
Broken(b) ==
  \/ cluster.obstacle = "client" /\ status[b].step # "SnapshotRecords"
  \/ b \in cluster.moved /\ status[b].step # "PauseExporting"

(* management, elasticsearch or destination fail the step, also for a      *)
(* Secret or a contract that is gone for a moment.                         *)
BrokenDependency(b) ==
  /\ PassBegins(b) /\ Addressable(b)
  /\ status[b].step \in Parts \cup {"PauseExporting"}
  /\ Flush(b, FailStep(status[b]))
  /\ IF Broken(b) THEN UNCHANGED failures ELSE Fault
  /\ UNCHANGED <<deleting, pc, answer, holder, cluster, artifact, cleanup, suspensions>>

(* The call of pauseExporting.  A lost answer or a rejection can be a      *)
(* partial pause.                                                          *)
PauseExporting(b) ==
  /\ PassBegins(b) /\ Addressable(b) /\ status[b].step = "PauseExporting" /\ ~Broken(b)
  /\ \E paused \in {TRUE, cluster.paused} : cluster' = [cluster EXCEPT !.paused = paused]
  /\ \/ cluster'.paused /\ Answered(b, "ok") /\ UNCHANGED failures
     \/ Answered(b, "unreachable") /\ UNCHANGED failures
     \/ Answered(b, "rejected") /\ Fault
  /\ UNCHANGED <<status, deleting, holder, artifact, cleanup, suspensions>>

(* What a status query reports of an artifact.  Only a records snapshot    *)
(* tells its owner, by the UID in its metadata.                            *)
Reported(p, x) ==
  IF x.state \in {"none", "accepted", "lost"} THEN "absent"
  ELSE IF p = "SnapshotRecords" /\ x.by # "self" THEN "unowned" ELSE x.state

(* The status query of backupHistory, snapshotRecords and backupRuntime.   *)
QueryPart(b) ==
  LET p == status[b].step
  IN /\ PassBegins(b) /\ Addressable(b) /\ p \in Parts /\ ~Broken(b)
     /\ \/ /\ \E a \in {Reported(p, artifact[b][p]), "unreachable"} : Answered(b, a)
           /\ UNCHANGED failures
        \/ Answered(b, "rejected") /\ Fault
     /\ UNCHANGED <<status, deleting, holder, cluster, artifact, cleanup, suspensions>>

(* The names that the answer carries reach the status before any failure.  *)
WithNames(b) ==
  IF /\ status[b].step = "BackupHistory" /\ "BackupHistory" \in status[b].accepted
     /\ answer[b] \in {"running", "completed", "failed"}
  THEN [status[b] EXCEPT !.named = TRUE] ELSE status[b]

(* A fault of workloadUnchanged: any configuration will do.                *)
WorkloadExists(b) == cluster.state # "gone"

(* workloadUnchanged: the live workload carries the pinned configuration.  *)
WorkloadUnchanged(b) == cluster.state # "gone" /\ cluster.config = status[b].config

(* The pass judges the answer, and ends with the write of s.               *)
Conclude(b, s) ==
  /\ pc[b] = "check"
  /\ Flush(b, s)
  /\ Goto(b, "idle")
  /\ UNCHANGED <<deleting, holder, cluster, artifact, cleanup, suspensions, failures>>

WorkloadChanged(b) ==
  /\ ~WorkloadUnchanged(b)
  /\ Conclude(b, FailStep(WithNames(b)))

EndpointUnreachable(b) ==
  /\ WorkloadUnchanged(b)
  /\ answer[b] = "unreachable"
  /\ \E s \in StageUnreachable(status[b]) : Conclude(b, s)

PauseAnswered(b) ==
  /\ WorkloadUnchanged(b)
  /\ answer[b] = "ok"
  /\ Conclude(b, [ClearClock(status[b]) EXCEPT !.step = "BackupHistory"])

(* A rejection, a failed part, a snapshot of someone else, or a managed    *)
(* backup that exists without an accepted request of this resource.        *)
PartFailed(b) ==
  /\ WorkloadUnchanged(b)
  /\ \/ answer[b] \in {"rejected", "unowned", "failed"}
     \/ /\ answer[b] \in {"running", "completed"}
        /\ status[b].step \in Managed \ status[b].accepted
  /\ Conclude(b, FailStep(WithNames(b)))

PartInProgress(b) ==
  /\ WorkloadUnchanged(b)
  /\ answer[b] = "running"
  /\ status[b].step \notin Managed \ status[b].accepted
  /\ Conclude(b, ClearClock(WithNames(b)))

PartCompleted(b) ==
  /\ WorkloadUnchanged(b)
  /\ answer[b] = "completed"
  /\ status[b].step \notin Managed \ status[b].accepted
  /\ Conclude(b, [ClearClock(WithNames(b)) EXCEPT !.step = NextStep[status[b].step]])

(* The intent is written one pass before the request.                      *)
RecordIntent(b) ==
  /\ WorkloadUnchanged(b)
  /\ answer[b] = "absent" /\ status[b].step \in Managed \ status[b].requested
  /\ Conclude(b, [ClearClock(status[b]) EXCEPT !.requested = @ \cup {status[b].step}])

(* Accepted and absent: registering, until the grace passed.  What the     *)
(* cluster has not registered by then it never will.                       *)
AwaitRegistration(b) ==
  /\ WorkloadUnchanged(b)
  /\ answer[b] = "absent" /\ status[b].step \in status[b].requested \cap status[b].accepted
  /\ Conclude(b, ClearClock(status[b]))

RegistrationFailed(b) ==
  /\ WorkloadUnchanged(b)
  /\ answer[b] = "absent" /\ status[b].step \in status[b].requested \cap status[b].accepted
  /\ artifact[b][status[b].step].state = "lost"
  /\ Conclude(b, FailStep(ClearClock(status[b])))

GoOnToRequest(b) ==
  /\ pc[b] = "check" /\ WorkloadUnchanged(b)
  /\ answer[b] = "absent"
  /\ \/ status[b].step = "SnapshotRecords"
     \/ status[b].step \in status[b].requested \ status[b].accepted
  /\ Goto(b, "request")
  /\ UNCHANGED <<status, deleting, holder, cluster, artifact, cleanup, suspensions, failures>>

-----------------------------------------------------------------------------
(* The start requests                                                      *)

Requesting(b) == pc[b] = "request" /\ Goto(b, "idle")

(* The endpoint of the step: the management API, or Elasticsearch, which   *)
(* outlives the CamundaCluster.                                            *)
Answering(b) == status[b].step = "SnapshotRecords" \/ cluster.state = "up"

Create(b) ==
  artifact' = [artifact EXCEPT ![b][status[b].step] =
    [by |-> "self", config |-> 0,
     state |-> IF status[b].step \in Managed THEN "accepted" ELSE "running"]]

(* A managed request is accepted.  Record patches the acceptance into the  *)
(* live object at once, also when it is being deleted.                     *)
RequestAccepted(b) ==
  /\ Requesting(b)
  /\ status[b].step \in Managed /\ Answering(b)
  /\ artifact[b][status[b].step] = None
  /\ Create(b)
  /\ \E complete \in BOOLEAN :
       status' = [status EXCEPT
         ![b].accepted = @ \cup {status[b].step}, ![b].since = 0,
         ![b].named = @ \/ (complete /\ status[b].step = "BackupHistory")]
  /\ UNCHANGED <<deleting, holder, cluster, cleanup, suspensions, failures>>

SnapshotCreated(b) ==
  /\ Requesting(b)
  /\ status[b].step = "SnapshotRecords"
  /\ artifact[b]["SnapshotRecords"] = None
  /\ Create(b)
  /\ Flush(b, ClearClock(status[b]))
  /\ UNCHANGED <<deleting, holder, cluster, cleanup, suspensions, failures>>

(* A crash after the request had its effect, before Record or the write:   *)
(* an artifact without evidence.                                           *)
RequestWriteLost(b) ==
  /\ Requesting(b)
  /\ Answering(b)
  /\ artifact[b][status[b].step] = None
  /\ Create(b)
  /\ Fault
  /\ UNCHANGED <<status, deleting, holder, cluster, cleanup, suspensions>>

(* The answer never came: the request had its effect, or not.              *)
RequestUnreachable(b) ==
  /\ Requesting(b)
  /\ \/ Answering(b) /\ artifact[b][status[b].step] = None /\ Create(b)
     \/ UNCHANGED artifact
  /\ \E s \in StageUnreachable(status[b]) : Flush(b, s)
  /\ UNCHANGED <<deleting, holder, cluster, cleanup, suspensions, failures>>

(* A conflict, which is never an acceptance, or another rejection.         *)
RequestRejected(b) ==
  /\ Requesting(b)
  /\ Answering(b)
  /\ \/ artifact[b][status[b].step] # None /\ UNCHANGED failures
     \/ artifact[b][status[b].step] = None /\ Fault
  /\ Flush(b, FailStep(status[b]))
  /\ UNCHANGED <<deleting, holder, cluster, artifact, cleanup, suspensions>>

-----------------------------------------------------------------------------
(* resumeExporting, and the terminal phase                                 *)

(* finish *)
ResumeExporting(b) ==
  /\ PassBegins(b) /\ Addressable(b) /\ status[b].step = "ResumeExporting"
  /\ cluster.obstacle = "none"
  /\ cluster' = [cluster EXCEPT !.paused = FALSE]
  /\ Flush(b, [status[b] EXCEPT !.phase = IF status[b].failed THEN "Failed" ELSE "Completed"])
  /\ UNCHANGED <<deleting, pc, answer, holder, artifact, cleanup, suspensions, failures>>

ResumeWriteLost(b) ==
  /\ PassBegins(b) /\ Addressable(b) /\ status[b].step = "ResumeExporting"
  /\ cluster.obstacle = "none"
  /\ cluster' = [cluster EXCEPT !.paused = FALSE]
  /\ Fault
  /\ UNCHANGED <<status, deleting, pc, answer, holder, artifact, cleanup, suspensions>>

(* A fault of giveUpOnResume: it ends like any failure.                    *)
ResumeAttemptFailedPlainly(b) ==
  /\ PassBegins(b) /\ Addressable(b) /\ status[b].step = "ResumeExporting"
  /\ \E paused \in {FALSE, cluster.paused} : cluster' = [cluster EXCEPT !.paused = paused]
  /\ Flush(b, IF status[b].attempts < ResumeBound
              THEN [status[b] EXCEPT !.attempts = @ + 1]
              ELSE [status[b] EXCEPT !.phase = "Failed", !.failed = TRUE])
  /\ UNCHANGED <<deleting, pc, answer, holder, artifact, cleanup, suspensions, failures>>

(* The attempt failed, or its answer was lost.  Only the time of attempts  *)
(* counts against the deadline; past it, giveUpOnResume.                   *)
ResumeAttemptFailed(b) ==
  /\ PassBegins(b) /\ Addressable(b) /\ status[b].step = "ResumeExporting"
  /\ \E paused \in {FALSE, cluster.paused} :
       /\ cluster.obstacle = "client" => paused = cluster.paused
       /\ cluster' = [cluster EXCEPT !.paused = paused]
  /\ Flush(b, IF status[b].attempts < ResumeBound
              THEN [status[b] EXCEPT !.attempts = @ + 1]
              ELSE [status[b] EXCEPT !.phase = "ResumeFailed", !.failed = TRUE])
  /\ UNCHANGED <<deleting, pc, answer, holder, artifact, cleanup, suspensions, failures>>

(* A terminal backup gives the claim back, unless it left the cluster      *)
(* paused.                                                                 *)
ReleaseClaim(b) ==
  /\ pc[b] = "idle" /\ ~deleting[b] /\ status[b].phase \in {"Completed", "Failed"}
  /\ holder = b
  /\ holder' = NoHolder
  /\ UNCHANGED <<status, deleting, pc, answer, cluster, artifact, cleanup, suspensions, failures>>

-----------------------------------------------------------------------------
(* finalize and deleteArtifacts.  A pass that holds the deletion before    *)
(* its first effect changes nothing, so no action is enabled until the     *)
(* reason went away; one that holds it later is FinalizeHolds.  No hold    *)
(* has a bound.                                                            *)

Delete(b) ==
  /\ Exists(b) /\ ~deleting[b]
  /\ deleting' = [deleting EXCEPT ![b] = TRUE]
  /\ UNCHANGED <<status, pc, answer, holder, cluster, artifact, cleanup, suspensions, failures>>

FinalizerBegins(b) == pc[b] = "idle" /\ deleting[b] /\ Exists(b)

EndCleanup(b, how) ==
  /\ Goto(b, "remove")
  /\ cleanup' = [cleanup EXCEPT ![b] = how]

(* A backup that never allocated an ID wrote nothing anywhere.             *)
FinalizeUnstarted(b) ==
  /\ FinalizerBegins(b) /\ status[b].step = "None"
  /\ EndCleanup(b, "clean")
  /\ UNCHANGED <<status, deleting, holder, cluster, artifact, suspensions, failures>>

(* sweepPinnedSnapshots, best effort: it may stop after any delete, and    *)
(* finds the history snapshots only by the recorded names, and nothing if  *)
(* the storage moved.                                                      *)
FinalizeClusterLost(b) ==
  LET swept == (IF "BackupHistory" \in status[b].accepted /\ status[b].named
                THEN {"BackupHistory"} ELSE {})
                 \cup (IF artifact[b]["SnapshotRecords"].by = "self"
                       THEN {"SnapshotRecords"} ELSE {})
  IN /\ FinalizerBegins(b) /\ status[b].step # "None" /\ ClusterIsLost(b)
     /\ \E done \in SUBSET swept :
          /\ b \in cluster.moved => done = {}
          /\ artifact' = [artifact EXCEPT ![b] =
                            [p \in Parts |-> IF p \in done THEN None ELSE @[p]]]
     /\ EndCleanup(b, "abandoned")
     /\ UNCHANGED <<status, deleting, holder, cluster, suspensions, failures>>

(* No management client can be built.  A backup that may have left a pause *)
(* behind holds; any other gives its artifacts up.                         *)
FinalizeUnreachable(b) ==
  /\ FinalizerBegins(b) /\ status[b].step # "None" /\ Addressable(b)
  /\ cluster.obstacle = "client" /\ ~MayHoldExportingPaused(b)
  /\ EndCleanup(b, "abandoned")
  /\ UNCHANGED <<status, deleting, holder, cluster, artifact, suspensions, failures>>

(* A fault of FinalizeResume: the pinned bucket is looked at before.       *)
FinalizeResumeAfterBucket(b) ==
  /\ FinalizerBegins(b) /\ status[b].step # "None" /\ Addressable(b)
  /\ cluster.obstacle # "client" /\ b \notin cluster.moved
  /\ MayHoldExportingPaused(b) => cluster.obstacle # "refused"
  /\ cluster' = IF MayHoldExportingPaused(b) THEN [cluster EXCEPT !.paused = FALSE] ELSE cluster
  /\ Goto(b, "history")
  /\ UNCHANGED <<status, deleting, holder, artifact, cleanup, suspensions, failures>>

(* The resume comes before every delete, and before any look at what the   *)
(* deletes need.  While it is refused the deletion holds, with exporting   *)
(* paused; its answer can be lost.                                         *)
FinalizeResume(b) ==
  /\ FinalizerBegins(b) /\ status[b].step # "None" /\ Addressable(b)
  /\ cluster.obstacle # "client"
  /\ \/ /\ MayHoldExportingPaused(b) /\ cluster.obstacle # "refused"
        /\ cluster' = [cluster EXCEPT !.paused = FALSE]
        /\ Goto(b, "history") \/ UNCHANGED <<pc, answer>>
     \/ /\ ~MayHoldExportingPaused(b)
        /\ Goto(b, "history")
        /\ UNCHANGED cluster
  /\ UNCHANGED <<status, deleting, holder, artifact, cleanup, suspensions, failures>>

(* The bucket contract, the storage contract or its Secret is gone.        *)
FinalizeContractGone(b) ==
  /\ pc[b] = "history"
  /\ EndCleanup(b, "abandoned")
  /\ Fault
  /\ UNCHANGED <<status, deleting, holder, cluster, artifact, suspensions>>

(* Faults of registering: an absent backup never registers; one that never *)
(* registered is waited for without a bound.                               *)
RegisteringNever(b, p) == FALSE
RegisteringForever(b, p) == artifact[b][p].state \in {"accepted", "lost"}

(* An accepted artifact that the cluster may still register.               *)
Registering(b, p) == artifact[b][p].state = "accepted"

(* deleteHistorySnapshots, past the look at bucket and storage endpoint:   *)
(* the names that the cluster reports are written before any delete; an    *)
(* unregistered or running backup holds.                                   *)
FinalizeHistory(b) ==
  LET x == artifact[b]["BackupHistory"]
      reported == Reported("BackupHistory", x)
  IN /\ pc[b] = "history" /\ b \notin cluster.moved
     /\ \/ /\ "BackupHistory" \notin status[b].accepted
           /\ Goto(b, "records")
           /\ UNCHANGED <<status, artifact>>
        \/ /\ "BackupHistory" \in status[b].accepted
           /\ cluster.state = "up" /\ cluster.obstacle # "refused"
           /\ reported # "absent" /\ ~status[b].named
           /\ status' = [status EXCEPT ![b].named = TRUE]
           /\ Goto(b, "idle")
           /\ UNCHANGED artifact
        \/ /\ "BackupHistory" \in status[b].accepted
           /\ cluster.state = "up" /\ cluster.obstacle # "refused"
           /\ IF reported = "absent" THEN ~Registering(b, "BackupHistory")
              ELSE status[b].named /\ reported # "running"
           /\ artifact' = [artifact EXCEPT ![b]["BackupHistory"] =
                             IF reported = "absent" THEN x ELSE None]
           /\ Goto(b, "records")
           /\ UNCHANGED status
     /\ UNCHANGED <<deleting, holder, cluster, cleanup, suspensions, failures>>

(* The records snapshot is deleted only with the UID of this backup.       *)
FinalizeRecords(b) ==
  /\ pc[b] = "records" /\ cluster.obstacle # "refused"
  /\ artifact' = [artifact EXCEPT ![b]["SnapshotRecords"] = IF @.by = "self" THEN None ELSE @]
  /\ IF "BackupRuntime" \in status[b].accepted
     THEN Goto(b, "runtime") /\ UNCHANGED cleanup
     ELSE EndCleanup(b, "clean")
  /\ UNCHANGED <<status, deleting, holder, cluster, suspensions, failures>>

(* deleteRuntimeBackup: the cluster rejects the delete of a running one.   *)
FinalizeRuntime(b) ==
  LET x == artifact[b]["BackupRuntime"]
  IN /\ pc[b] = "runtime" /\ cluster.state = "up" /\ cluster.obstacle # "refused"
     /\ ~Registering(b, "BackupRuntime") /\ x.state # "running"
     /\ artifact' = [artifact EXCEPT ![b]["BackupRuntime"] =
                       IF Reported("BackupRuntime", x) = "absent" THEN x ELSE None]
     /\ EndCleanup(b, "clean")
     /\ UNCHANGED <<status, deleting, holder, cluster, suspensions, failures>>

(* The pass ends with a reason to hold, or with an error: bucket or        *)
(* endpoint moved, a call is refused, the cluster went away meanwhile, the *)
(* backup is not registered or not over.                                   *)
FinalizeHolds(b) ==
  /\ \/ pc[b] = "history" /\ b \in cluster.moved
     \/ pc[b] = "records" /\ cluster.obstacle = "refused"
     \/ \E p \in status[b].accepted :
          /\ pc[b] = IF p = "BackupHistory" THEN "history" ELSE "runtime"
          /\ \/ cluster.state # "up" \/ cluster.obstacle = "refused"
             \/ Registering(b, p) \/ artifact[b][p].state = "running"
  /\ Goto(b, "idle")
  /\ UNCHANGED <<status, deleting, holder, cluster, artifact, cleanup, suspensions, failures>>

(* A fault of finalize: the claim goes first, the finalizer after.         *)
RemoveFinalizerLast(b) ==
  /\ pc[b] = "remove"
  /\ \/ /\ holder = b
        /\ holder' = NoHolder
        /\ UNCHANGED <<status, pc, answer>>
     \/ /\ holder # b
        /\ status' = [status EXCEPT ![b].phase = "gone"]
        /\ Goto(b, "release")
        /\ UNCHANGED holder
  /\ UNCHANGED <<deleting, cluster, artifact, cleanup, suspensions, failures>>

(* The finalizer goes first, the claim after.  The status goes with the    *)
(* object; what it saw accepted is remembered for a property.              *)
RemoveFinalizer(b) ==
  /\ pc[b] = "remove"
  /\ status' = [status EXCEPT ![b] = [NoStatus EXCEPT !.phase = "gone", !.accepted = status[b].accepted]]
  /\ Goto(b, "release")
  /\ UNCHANGED <<deleting, holder, cluster, artifact, cleanup, suspensions, failures>>

ReleaseAfterRemoval(b) ==
  /\ pc[b] = "release"
  /\ holder' = IF holder = b THEN NoHolder ELSE holder
  /\ Goto(b, "idle")
  /\ UNCHANGED <<status, deleting, cluster, artifact, cleanup, suspensions, failures>>

-----------------------------------------------------------------------------
(* The environment *)

(* The operator crashes, or a request that nothing else names fails.       *)
Crash(b) ==
  /\ pc[b] # "idle"
  /\ Fault
  /\ Goto(b, "idle")
  /\ UNCHANGED <<status, deleting, holder, cluster, artifact, cleanup, suspensions>>

Rollout ==
  /\ cluster.state # "gone" /\ cluster.config < MaxConfig
  /\ cluster' = [cluster EXCEPT !.config = @ + 1]
  /\ UNCHANGED <<status, deleting, pc, answer, holder, artifact, cleanup, suspensions, failures>>

(* The credentials Secret or the binding breaks, or the cluster starts to  *)
(* refuse; somebody repairs it, or never does.                             *)
Obstruct ==
  /\ cluster.obstacle = "none"
  /\ Fault
  /\ \E o \in Obstacles \ {"moved"} : cluster' = [cluster EXCEPT !.obstacle = o]
  /\ UNCHANGED <<status, deleting, pc, answer, holder, artifact, cleanup, suspensions>>

Repair ==
  /\ cluster.obstacle # "none"
  /\ cluster' = [cluster EXCEPT !.obstacle = "none"]
  /\ UNCHANGED <<status, deleting, pc, answer, holder, artifact, cleanup, suspensions, failures>>

(* A contract points away from what a started backup pinned, or back.      *)
MoveAway(b) ==
  /\ "moved" \in Obstacles /\ b \notin cluster.moved
  /\ Exists(b) /\ status[b].step # "None"
  /\ Fault
  /\ cluster' = [cluster EXCEPT !.moved = @ \cup {b}]
  /\ UNCHANGED <<status, deleting, pc, answer, holder, artifact, cleanup, suspensions>>

MoveBack(b) ==
  /\ b \in cluster.moved
  /\ cluster' = [cluster EXCEPT !.moved = @ \ {b}]
  /\ UNCHANGED <<status, deleting, pc, answer, holder, artifact, cleanup, suspensions, failures>>

(* A suspended cluster publishes no binding; its exporting stays paused.   *)
Suspend ==
  /\ cluster.state = "up" /\ suspensions < MaxSuspensions
  /\ suspensions' = suspensions + 1
  /\ cluster' = [cluster EXCEPT !.state = "unbound"]
  /\ UNCHANGED <<status, deleting, pc, answer, holder, artifact, cleanup, failures>>

Unsuspend ==
  /\ cluster.state = "unbound"
  /\ cluster' = [cluster EXCEPT !.state = "up"]
  /\ UNCHANGED <<status, deleting, pc, answer, holder, artifact, cleanup, suspensions, failures>>

ClusterDeleted ==
  /\ cluster.state # "gone" /\ cluster.uid < MaxClusters
  /\ cluster' = [cluster EXCEPT !.state = "gone", !.paused = FALSE]
  /\ UNCHANGED <<status, deleting, pc, answer, holder, artifact, cleanup, suspensions, failures>>

(* A pass ends long before a new cluster of the name serves its API: the   *)
(* workload of the old one is torn down first.                             *)
ClusterRecreated ==
  /\ cluster.state = "gone" /\ cluster.uid < MaxClusters
  /\ \A b \in Backups : pc[b] \in {"idle", "remove", "release"}
  /\ cluster' = [cluster EXCEPT !.uid = @ + 1, !.state = "up"]
  /\ UNCHANGED <<status, deleting, pc, answer, holder, artifact, cleanup, suspensions, failures>>

(* The cluster registers what it accepted, or never will, within the       *)
(* grace; what runs may end.                                               *)
Progress(b, p) ==
  LET x == artifact[b][p]
  IN /\ \/ p = "SnapshotRecords" \/ Addressable(b)
     /\ \/ /\ x.state = "accepted"
           /\ \E to \in {"running", "lost"} : artifact' = [artifact EXCEPT ![b][p].state = to]
           /\ IF artifact'[b][p].state = "lost" THEN Fault ELSE UNCHANGED failures
        \/ /\ x.state = "running"
           /\ artifact' = [artifact EXCEPT ![b][p].state = "failed"]
           /\ Fault
        \/ /\ x.state = "running"
           /\ artifact' = [artifact EXCEPT ![b][p] =
                             [x EXCEPT !.state = "completed", !.config = cluster.config]]
           /\ UNCHANGED failures
     /\ UNCHANGED <<status, deleting, pc, answer, holder, cluster, cleanup, suspensions>>

(* Another actor takes the ID first.  Nobody takes an ID after it was      *)
(* accepted here.                                                          *)
ForeignArtifact(b, p) ==
  /\ Fault
  /\ Exists(b) /\ status[b].step # "None"
  /\ p \notin status[b].accepted /\ artifact[b][p] = None
  /\ artifact' = [artifact EXCEPT ![b][p] = [by |-> "foreign", state |-> "running", config |-> 0]]
  /\ UNCHANGED <<status, deleting, pc, answer, holder, cluster, cleanup, suspensions>>

-----------------------------------------------------------------------------
Admission(b) == ClaimCluster(b) \/ Start(b) \/ LeaveAdmission(b)

Judgement(b) ==
  \/ WorkloadChanged(b) \/ EndpointUnreachable(b) \/ PauseAnswered(b) \/ PartFailed(b)
  \/ PartInProgress(b) \/ PartCompleted(b) \/ RecordIntent(b) \/ AwaitRegistration(b)
  \/ RegistrationFailed(b) \/ GoOnToRequest(b)

Request(b) ==
  \/ RequestAccepted(b) \/ SnapshotCreated(b) \/ RequestWriteLost(b)
  \/ RequestUnreachable(b) \/ RequestRejected(b)

Run(b) ==
  \/ FailClusterLost(b) \/ BrokenDependency(b) \/ PauseExporting(b) \/ QueryPart(b)
  \/ Judgement(b) \/ Request(b)
  \/ ResumeExporting(b) \/ ResumeWriteLost(b) \/ ResumeAttemptFailed(b)

Finalize(b) ==
  \/ FinalizeUnstarted(b) \/ FinalizeClusterLost(b) \/ FinalizeUnreachable(b)
  \/ FinalizeResume(b) \/ FinalizeContractGone(b) \/ FinalizeHistory(b)
  \/ FinalizeRecords(b) \/ FinalizeRuntime(b) \/ FinalizeHolds(b)
  \/ RemoveFinalizer(b) \/ ReleaseAfterRemoval(b)

Hindrance ==
  Obstruct \/ Repair \/ \E b \in Backups : MoveAway(b) \/ MoveBack(b)

Environment ==
  \/ Rollout \/ Suspend \/ Unsuspend \/ ClusterDeleted \/ ClusterRecreated
  \/ Hindrance
  \/ \E b \in Backups, p \in Parts : Progress(b, p) \/ ForeignArtifact(b, p)

Next ==
  \/ \E b \in Backups :
       Submit(b) \/ Admission(b) \/ Run(b) \/ ReleaseClaim(b)
         \/ Delete(b) \/ Finalize(b) \/ Crash(b)
  \/ Environment

Spec == Init /\ [][Next]_vars

(* The work queue comes back to every resource that is not done (WF).  A   *)
(* registration grace that passed is noticed (SF), and an accepted part is *)
(* registered or lost within it (WF).  Nothing makes anybody end a         *)
(* suspension or repair an obstacle or a moved contract, nor the cluster   *)
(* end what it runs.  Calls of a running procedure may stay unreachable    *)
(* forever; calls of a finalizer are answered at last unless there is an   *)
(* obstacle.                                                               *)
Fairness ==
  \A b \in Backups :
    /\ WF_vars(Run(b)) /\ WF_vars(ReleaseClaim(b)) /\ WF_vars(Finalize(b))
    /\ WF_vars(pc[b] = "start" /\ Admission(b))
    /\ SF_vars(RegistrationFailed(b))
    /\ \A p \in Parts : WF_vars(artifact[b][p].state = "accepted" /\ Progress(b, p))

FairSpec == Spec /\ Fairness

-----------------------------------------------------------------------------
(* Properties *)

(* While a backup takes its parts, the exporting of the cluster it pinned  *)
(* is paused: no sibling, and no finalizer that is retried after a crash,  *)
(* resumes it in between.                                                  *)
PausedWhileTaken ==
  \A b \in Backups :
    status[b].phase = "running" /\ status[b].step \in Parts /\ ~deleting[b]
      /\ status[b].uid = cluster.uid /\ cluster.state # "gone"
      => cluster.paused

(* Exporting is never left paused with nothing to resume it: some resource *)
(* that still exists, and has the claim, resumes it, or its deletion does. *)
PauseHasOwner ==
  cluster.paused => \E b \in Backups :
    MayHoldExportingPaused(b) /\ status[b].uid = cluster.uid /\ holder = b

(* A backup that works on the cluster, or left it paused, has the claim.   *)
ClaimCoversUse ==
  \A b \in Backups : status[b].phase \in {"running", "ResumeFailed"} => holder = b

(* While no backup uses the cluster, some pending one passes both gates,   *)
(* the order among siblings and the claim: they never block each other.    *)
SomePendingGoesFirst ==
  LET Pending == {b \in Backups : status[b].phase = "pending"}
  IN Pending # {} /\ (\A b \in Backups : status[b].phase \notin {"running", "ResumeFailed"})
       => \E b \in Pending :
            GoesFirst(b) /\ \A d \in Backups \ {b} : holder = d => ~HolderActive(d)

(* A Completed backup is a restorable set: its three parts are its own,    *)
(* complete, and every one was taken by the configuration pinned at start, *)
(* although the workload may roll out and others may use the ID.           *)
CompletedIsConsistent ==
  \A b \in Backups : status[b].phase = "Completed" /\ ~deleting[b] =>
    \A p \in Parts :
      artifact[b][p] = [by |-> "self", state |-> "completed", config |-> status[b].config]

(* A deletion that does not give up leaves nothing behind that this backup *)
(* saw accepted, also not what the cluster registers later.                *)
CleanDeletionIsComplete ==
  \A b \in Backups : status[b].phase = "gone" /\ cleanup[b] = "clean" =>
    \A p \in status[b].accepted \cup {"SnapshotRecords"} :
      artifact[b][p].by = "self" => artifact[b][p].state = "lost"

Use == INSTANCE ExclusiveUse WITH
  Claimants <- Backups,
  users <- {b \in Backups : status[b].phase \in {"running", "ResumeFailed"}}

(* The backups of one cluster implement ExclusiveUse.                      *)
ImplementsExclusiveUse == Use!Spec

(* What keeps a deletion until somebody acts: no binding, no client while  *)
(* a pause may be left, calls that are refused, a moved bucket or endpoint,*)
(* a part that is still in progress.                                       *)
DeletionHeld(b) ==
  /\ deleting[b] /\ Exists(b) /\ status[b].step # "None" /\ ~ClusterIsLost(b)
  /\ \/ cluster.state = "unbound"
     \/ cluster.obstacle = "client" /\ MayHoldExportingPaused(b)
     \/ cluster.obstacle = "refused"
     \/ b \in cluster.moved
     \/ \E p \in status[b].accepted : artifact[b][p].state = "running"

(* A pause that waits for somebody: nobody publishes the binding, a backup *)
(* ended ResumeFailed, a running one waits for a part in progress, or the  *)
(* deletion of one is held before its resume.  A moved contract, and a     *)
(* part in progress under a deletion, are no excuse: the resume comes      *)
(* before them.                                                            *)
PauseHeld ==
  \/ cluster.state # "up"
  \/ \E b \in Backups :
       \/ status[b].phase = "ResumeFailed"
       \/ /\ status[b].phase = "running" /\ ~deleting[b]
          /\ \E p \in Parts : status[b].step = p /\ artifact[b][p].state = "running"
       \/ deleting[b] /\ MayHoldExportingPaused(b) /\ cluster.obstacle # "none"

(* A paused cluster runs again at last, although the calls of the run stay *)
(* unreachable, writes get lost, contracts move and the backup is deleted, *)
(* for as long as nothing holds the pause.                                 *)
PausedIsResumed == cluster.paused ~> (~cluster.paused \/ PauseHeld)

(* A deleted backup goes away at last, through crashes, replaced clusters  *)
(* and parts that are not registered, unless a reason that the cluster or  *)
(* somebody must remove holds the deletion.                                *)
DeletionEnds == \A b \in Backups : deleting[b] ~> (~Exists(b) \/ DeletionHeld(b))
=============================================================================
