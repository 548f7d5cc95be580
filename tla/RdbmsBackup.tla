---------------------------- MODULE RdbmsBackup -----------------------------
(***************************************************************************)
(* Backups of one CamundaCluster with a relational secondary storage:      *)
(* internal/controller/logicalbackuprdbms.  A backup pins what the cluster *)
(* runs, dumps the database with a Job, and then asks the cluster for one  *)
(* Zeebe backup, whose ID the cluster generates.  Both are one restore     *)
(* point only when they come from one cluster, one configuration and one   *)
(* bucket, although users change all of these while the backup runs.       *)
(*                                                                         *)
(* A pass is cut where it reads before it acts: before the Create of the   *)
(* Job, before the request to the cluster, and between the answer of the   *)
(* cluster and the look at the workload.  Its status write can be lost.    *)
(***************************************************************************)
EXTENDS Naturals

CONSTANTS
  Backups,
  Age,          \* the order of creation and names: the smaller goes first
  NoHolder,     \* nobody has the claim
  Grace,        \* failed looks in a row that a running backup survives
  Identities,   \* whether the bucket uses workload identity: a set of BOOLEAN
  MaxActs,      \* bound: changes by users, foreign and removed Jobs
  MaxLost       \* bound: crashes, and status writes that are lost

ASSUME RdbmsBackupConstants ==
  /\ NoHolder \notin Backups
  /\ Age \in [Backups -> Nat] /\ \A b, c \in Backups : Age[b] = Age[c] => b = c
  /\ Grace \in Nat /\ Identities \subseteq BOOLEAN
  /\ MaxActs \in Nat /\ MaxLost \in Nat

VARIABLES
  life,         \* what the API server has of each backup
  status,       \* its stored status
  claim,        \* whom the Lease of the cluster names
  pass,         \* where the pass of each backup stands, and what it read
  uid, present, \* the incarnation of the cluster, and whether it exists
  want, runs,   \* the configuration that the references name, and Zeebe's
  rolled,       \* every broker runs the configuration of the workload
  job, pod,     \* the dump Job under the name of each backup, and its pod
  object,       \* the dump in the bucket: the database it holds, or 0
  zeebe,        \* the Zeebe backup that each backup recorded
  cleaner, swab,\* the cleanup Job of each backup, and its pod
  left,         \* backups whose finalizer left the object on purpose
  identity,     \* the bucket uses workload identity
  acts, lost

cluster == <<uid, present, want, runs, rolled>>
dumping == <<job, pod, object>>
cleaning == <<cleaner, swab, left>>
vars == <<life, status, claim, pass, cluster, dumping, zeebe, cleaning, identity, acts, lost>>

-----------------------------------------------------------------------------
(* Types *)

Numbers == 1..(MaxActs + 1)

(* The database, and the rest: the bucket, the version, the workload.      *)
Config == [db: Numbers, rest: Numbers]

Pins == [config: Config, uid: Numbers]

NoPin == [config |-> [db |-> 1, rest |-> 1], uid |-> 0]

Status == [phase: {"Pending", "Dumping", "ZeebeBackup", "Completed", "Failed"},
           job: BOOLEAN,     \* status.jobName is set
           asked: BOOLEAN,   \* status.zeebeBackupID is set
           pin: Pins \cup {NoPin},
           clock: 0..Grace]

Zeebe == {"none", "registering", "late", "running", "completed", "failed"}

Idle == [at |-> "idle", db |-> 1, seen |-> "none"]

Passes == [at: {"idle", "start", "create", "request", "judge", "free"}, db: Numbers,
           seen: Zeebe \cup {"error"}]

Pods == [at: {"none", "running", "ended"}, db: Numbers]

NoPod == [at |-> "none", db |-> 1]

TypeOK ==
  /\ life \in [Backups -> {"absent", "alive", "deleting", "gone"}]
  /\ status \in [Backups -> Status]
  /\ claim \in Backups \cup {NoHolder}
  /\ pass \in [Backups -> Passes]
  /\ uid \in Numbers /\ present \in BOOLEAN
  /\ want \in Config /\ runs \in Config /\ rolled \in BOOLEAN
  /\ job \in [Backups -> {"none", "active", "done", "failed", "foreign"}]
  /\ pod \in [Backups -> Pods]
  /\ object \in [Backups -> Numbers \cup {0}]
  /\ zeebe \in [Backups -> [state: Zeebe, whole: BOOLEAN, uid: Numbers]]
  /\ cleaner \in [Backups -> {"none", "active", "done", "failed"}]
  /\ swab \in [Backups -> {"none", "running", "ended"}]
  /\ left \subseteq Backups /\ identity \in BOOLEAN
  /\ acts \in 0..MaxActs /\ lost \in 0..MaxLost

Init ==
  /\ life = [b \in Backups |-> "absent"]
  /\ status = [b \in Backups |-> [phase |-> "Pending", job |-> FALSE, asked |-> FALSE,
                                  pin |-> NoPin, clock |-> 0]]
  /\ claim = NoHolder
  /\ pass = [b \in Backups |-> Idle]
  /\ uid = 1 /\ present = TRUE /\ rolled = TRUE
  /\ want = NoPin.config /\ runs = want
  /\ job = [b \in Backups |-> "none"] /\ pod = [b \in Backups |-> NoPod]
  /\ object = [b \in Backups |-> 0]
  /\ zeebe = [b \in Backups |-> [state |-> "none", whole |-> TRUE, uid |-> 1]]
  /\ cleaner = [b \in Backups |-> "none"] /\ swab = [b \in Backups |-> "none"]
  /\ left = {} /\ identity \in Identities
  /\ acts = 0 /\ lost = 0

Exists(b) == life[b] \in {"alive", "deleting"}

Started(s) == s.phase \in {"Dumping", "ZeebeBackup"}

Terminal(b) == status[b].phase \in {"Completed", "Failed"}

(* clusterclaim.HolderActive, for a backup of this kind.                   *)
HolderActive(b) == Exists(b) /\ ~Terminal(b)

At(b, p) == pass[b].at = p

Goto(b, p) == pass' = [pass EXCEPT ![b] = [@ EXCEPT !.at = p]]

End(b) == pass' = [pass EXCEPT ![b] = Idle]

Lose == lost < MaxLost /\ lost' = lost + 1

(* ownerstatus.Flush: a backup that is deleted since the read conflicts.   *)
Flush(b, s) ==
  \/ life[b] = "alive" /\ status' = [status EXCEPT ![b] = s] /\ UNCHANGED lost
  \/ life[b] # "alive" /\ UNCHANGED <<status, lost>>
  \/ Lose /\ UNCHANGED status

Fail(b, s) == Flush(b, [s EXCEPT !.phase = "Failed"])

(* A fault of HoldRunning: no clock runs.                                  *)
HoldRunningUnclocked(b, s) == Flush(b, s)

(* holdRunning: the clock runs from the first failed look.                 *)
HoldRunning(b, s) ==
  IF s.clock = Grace THEN Fail(b, s) ELSE Flush(b, [s EXCEPT !.clock = @ + 1])

Recovered(s) == [s EXCEPT !.clock = 0]

Give(b) == claim' = IF claim = b THEN NoHolder ELSE claim

-----------------------------------------------------------------------------
(* Admission *)

Admits(b, p) ==
  /\ Exists(b) /\ status[b].phase = "Pending" /\ At(b, p) /\ (p = "idle" => life[b] = "alive")
  /\ UNCHANGED <<life, cluster, dumping, zeebe, cleaning, identity, acts>>

(* inProgress: the one with the claim, a started one, the oldest one.      *)
GoesFirst(b) ==
  \/ claim = b
  \/ \A c \in Backups \ {b} :
       Exists(c) /\ ~Terminal(c) => ~Started(status[c]) /\ Age[b] < Age[c]

Claimable(b) == \A c \in Backups \ {b} : claim = c => ~HolderActive(c)

(* The pre-checks and the claim.                                           *)
Admit(b) ==
  /\ Admits(b, "idle")
  /\ present /\ want = runs /\ GoesFirst(b) /\ Claimable(b)
  /\ claim' = b
  /\ Goto(b, "start")
  /\ UNCHANGED <<status, lost>>

(* A failed pre-check, or a taken cluster: whatever it holds goes back.    *)
(* Pre-checks read Secrets and plugins too, so one can fail at any time.   *)
Park(b) ==
  /\ Admits(b, "idle")
  /\ Give(b) /\ claim' # claim
  /\ UNCHANGED <<status, pass, lost>>

(* rolledOutConfigHash, after the claim, and start.                        *)
Start(b) ==
  /\ Admits(b, "start")
  /\ End(b)
  /\ IF present /\ rolled
     THEN /\ Flush(b, [status[b] EXCEPT !.phase = "Dumping",
                                        !.pin = [config |-> runs, uid |-> uid]])
          /\ UNCHANGED claim
     ELSE Give(b) /\ UNCHANGED <<status, lost>>

-----------------------------------------------------------------------------
(* The step Dumping *)

Dumps(b, p) ==
  /\ Exists(b) /\ status[b].phase = "Dumping" /\ At(b, p) /\ (p = "idle" => life[b] = "alive")
  /\ UNCHANGED <<life, claim, cluster, pod, object, zeebe, cleaning, identity, acts>>

Replaced(s) == present /\ uid # s.pin.uid

(* JobBelongsTo: the label carries the UID of the backup.                  *)
Belongs(b) == job[b] \notin {"none", "foreign"}

(* adopt and trackJob, for the Job that has the name.  A pod that cannot   *)
(* start is a hold.                                                        *)
Adopt(b) ==
  LET s == [status[b] EXCEPT !.job = TRUE]
  IN IF ~Belongs(b) THEN Fail(b, status[b])
     ELSE \/ job[b] = "active" /\ (Flush(b, Recovered(s)) \/ HoldRunning(b, s))
          \/ job[b] = "done" /\ Flush(b, [s EXCEPT !.phase = "ZeebeBackup"])
          \/ job[b] = "failed" /\ Fail(b, s)

(* A Job that is there is adopted; a recorded one that is gone was removed *)
(* by hand.                                                                *)
TrackJob(b) ==
  /\ Dumps(b, "idle")
  /\ status[b].job \/ job[b] # "none"
  /\ IF job[b] = "none" THEN Fail(b, status[b]) ELSE Adopt(b)
  /\ UNCHANGED <<pass, job>>

(* resolveRunning: converged, the workload as pinned, the bucket as pinned,*)
(* and the references name the database that Zeebe runs.                   *)
Resolves(s) == present /\ runs = s.pin.config /\ want = runs

Resolve(b) ==
  /\ Dumps(b, "idle")
  /\ ~status[b].job /\ job[b] = "none"
  /\ LET s == status[b] IN
       \/ Replaced(s) /\ Fail(b, s) /\ UNCHANGED pass
       \/ ~Replaced(s) /\ ~Resolves(s) /\ HoldRunning(b, s) /\ UNCHANGED pass
       \/ /\ ~Replaced(s) /\ Resolves(s)
          /\ pass' = [pass EXCEPT ![b] = [Idle EXCEPT !.at = "create", !.db = want.db]]
          /\ UNCHANGED <<status, lost>>
  /\ UNCHANGED job

(* claimJobName: the Create decides, and its loser adopts the winner.      *)
CreateJob(b) ==
  /\ Exists(b) /\ status[b].phase = "Dumping" /\ At(b, "create")
  /\ End(b)
  /\ IF job[b] = "none"
     THEN /\ job' = [job EXCEPT ![b] = "active"]
          /\ pod' = [pod EXCEPT ![b] = [at |-> "running", db |-> pass[b].db]]
          /\ Flush(b, Recovered([status[b] EXCEPT !.job = TRUE]))
     ELSE Adopt(b) /\ UNCHANGED <<job, pod>>
  /\ UNCHANGED <<life, claim, cluster, object, zeebe, cleaning, identity, acts>>

-----------------------------------------------------------------------------
(* The step ZeebeBackup *)

Asks(b, p) ==
  /\ Exists(b) /\ status[b].phase = "ZeebeBackup" /\ At(b, p) /\ (p = "idle" => life[b] = "alive")
  /\ UNCHANGED <<life, claim, cluster, pod, object, cleaning, identity, acts>>

(* releaseJob: the recorded Job goes, when it is the backup's own.         *)
ReleaseJob(b) ==
  job' = IF status[b].job /\ Belongs(b) THEN [job EXCEPT ![b] = "none"] ELSE job

(* runningCluster.                                                         *)
LoseCluster(b) ==
  LET s == status[b]
  IN /\ Asks(b, "idle")
     /\ \/ Replaced(s) /\ Fail(b, s)
        \/ ~present /\ HoldRunning(b, s)
     /\ UNCHANGED <<pass, job, zeebe>>

(* pinnedBucket, ClusterConverged and workloadUnchanged: a database that   *)
(* the references name, and that Zeebe does not run yet, does no harm.     *)
Pairs(s) == want.rest = runs.rest /\ runs = s.pin.config

(* The checks before the request; a client that cannot be built is a hold. *)
Prepare(b) ==
  LET s == [status[b] EXCEPT !.job = FALSE]
  IN /\ Asks(b, "idle") /\ present /\ uid = s.pin.uid /\ ~s.asked
     /\ ReleaseJob(b)
     /\ \/ HoldRunning(b, s) /\ UNCHANGED pass
        \/ Pairs(s) /\ Goto(b, "request") /\ UNCHANGED <<status, lost>>
     /\ UNCHANGED zeebe

(* startZeebeBackup.  Record lands at once, but for the name of the Job;   *)
(* a crash before it leaves a backup that nobody knows.  A conflict is an  *)
(* answer, and is tried again.                                             *)
Request(b) ==
  LET s == [status[b] EXCEPT !.job = FALSE]
  IN /\ Asks(b, "request")
     /\ End(b)
     /\ \/ /\ present
           /\ zeebe' = [zeebe EXCEPT ![b] = [state |-> "registering", uid |-> uid,
                                             whole |-> runs = s.pin.config]]
           /\ status' = [status EXCEPT ![b] = Recovered([@ EXCEPT !.asked = TRUE])]
           /\ UNCHANGED lost
        \/ present /\ Flush(b, Recovered(s)) /\ UNCHANGED zeebe
        \/ HoldRunning(b, s) /\ UNCHANGED zeebe
     /\ UNCHANGED job

(* The poll asks the cluster first ...                                     *)
Ask(b) ==
  /\ Asks(b, "idle") /\ present /\ uid = status[b].pin.uid /\ status[b].asked
  /\ ReleaseJob(b)
  /\ \/ HoldRunning(b, [status[b] EXCEPT !.job = FALSE]) /\ UNCHANGED pass
     \/ /\ \E seen \in {"error", IF zeebe[b].uid = uid THEN zeebe[b].state ELSE "late"} :
             pass' = [pass EXCEPT ![b] = [Idle EXCEPT !.at = "judge", !.seen = seen]]
        /\ UNCHANGED <<status, lost>>
  /\ UNCHANGED zeebe

(* A fault of Judge: the answer of the cluster is enough.                  *)
JudgeAnswer(b) ==
  LET s == [status[b] EXCEPT !.job = FALSE]
      seen == pass[b].seen
  IN /\ Asks(b, "judge")
     /\ End(b)
     /\ \/ seen = "error" /\ HoldRunning(b, s)
        \/ seen \in {"registering", "running"} /\ Flush(b, Recovered(s))
        \/ seen \in {"late", "failed"} /\ Fail(b, s)
        \/ seen = "completed" /\ Flush(b, [s EXCEPT !.phase = "Completed"])
     /\ UNCHANGED <<job, zeebe>>

(* ... and looks at the workload after the answer.                         *)
Judge(b) ==
  LET s == [status[b] EXCEPT !.job = FALSE]
      seen == pass[b].seen
      moved == present /\ runs # s.pin.config
  IN /\ Asks(b, "judge")
     /\ End(b)
     /\ IF moved THEN Fail(b, s)
        ELSE \/ (seen = "error" \/ ~present) /\ HoldRunning(b, s)
             \/ /\ present
                /\ \/ seen \in {"registering", "running"} /\ Flush(b, Recovered(s))
                   \/ seen \in {"late", "failed"} /\ Fail(b, s)
                   \/ seen = "completed" /\ Flush(b, [Recovered(s) EXCEPT !.phase = "Completed"])
     /\ UNCHANGED <<job, zeebe>>

(* The terminal branch: the claim goes after the terminal status.          *)
ReleaseClaim(b) ==
  /\ life[b] = "alive" /\ At(b, "idle") /\ Terminal(b) /\ claim = b
  /\ Give(b)
  /\ UNCHANGED <<life, status, pass, cluster, dumping, zeebe, cleaning, identity, acts, lost>>

-----------------------------------------------------------------------------
(* The finalizer *)

Finalizes(b, p) ==
  /\ life[b] = "deleting" /\ At(b, p)
  /\ UNCHANGED <<status, cluster, pod, zeebe, identity, acts, lost>>

DeleteJob(b) ==
  /\ Finalizes(b, "idle") /\ Belongs(b)
  /\ job' = [job EXCEPT ![b] = "none"]
  /\ UNCHANGED <<life, claim, pass, object, cleaning>>

(* A fault of PodsGone: the Job is gone, and that is enough.               *)
PodsGoneWithJob(b) == job[b] \in {"none", "foreign"}

(* podsOf selects by the label of the backup, which the pod of the cleanup *)
(* Job carries too.                                                        *)
PodsGone(b) == pod[b].at = "none" /\ swab[b] = "none"

Pinned(b) == status[b].pin # NoPin

(* deleteObject: the cluster is gone, or the contract points elsewhere.    *)
Unreachable(b) == ~present \/ want.rest # status[b].pin.config.rest

LeaveObject(b) ==
  /\ Finalizes(b, "idle") /\ ~Belongs(b) /\ PodsGone(b)
  /\ Pinned(b) => Unreachable(b)
  /\ left' = IF Pinned(b) THEN left \cup {b} ELSE left
  /\ Goto(b, "free")
  /\ UNCHANGED <<life, claim, job, object, cleaner, swab>>

(* The manager deletes with the credentials that the upload used.          *)
DeleteObject(b) ==
  /\ Finalizes(b, "idle") /\ ~Belongs(b) /\ PodsGone(b)
  /\ Pinned(b) /\ ~Unreachable(b) /\ ~identity
  /\ object' = [object EXCEPT ![b] = 0]
  /\ Goto(b, "free")
  /\ UNCHANGED <<life, claim, job, cleaning>>

(* cleanupWithJob: a Job under the account of the cluster deletes.         *)
CreateCleaner(b) ==
  /\ Finalizes(b, "idle") /\ ~Belongs(b) /\ PodsGone(b)
  /\ Pinned(b) /\ ~Unreachable(b) /\ identity
  /\ cleaner[b] = "none"
  /\ cleaner' = [cleaner EXCEPT ![b] = "active"]
  /\ swab' = [swab EXCEPT ![b] = "running"]
  /\ UNCHANGED <<life, claim, pass, job, object, left>>

(* watchCleanupJob: a completed Job is removed; a failed one holds.        *)
RemoveCleaner(b) ==
  /\ Finalizes(b, "idle") /\ ~Belongs(b) /\ PodsGone(b)
  /\ Pinned(b) /\ ~Unreachable(b) /\ identity
  /\ cleaner[b] = "done"
  /\ cleaner' = [cleaner EXCEPT ![b] = "none"]
  /\ Goto(b, "free")
  /\ UNCHANGED <<life, claim, job, object, swab, left>>

(* The claim, then the finalizer.                                          *)
RemoveFinalizer(b) ==
  /\ Finalizes(b, "free")
  /\ Give(b)
  /\ life' = [life EXCEPT ![b] = "gone"]
  /\ End(b)
  /\ UNCHANGED <<job, object, cleaning>>

(* The operator crashes, or a request fails, in the middle of a pass.      *)
Crash(b) ==
  /\ ~At(b, "idle") /\ Lose /\ End(b)
  /\ UNCHANGED <<life, status, claim, cluster, dumping, zeebe, cleaning, identity, acts>>

-----------------------------------------------------------------------------
(* Jobs, pods and the cluster *)

own == <<life, status, claim, pass, left, identity, lost>>

(* The pod uploads as long as it runs, also when its Job is deleted.       *)
Upload(b) ==
  /\ pod[b].at = "running" /\ object[b] # pod[b].db
  /\ object' = [object EXCEPT ![b] = pod[b].db]
  /\ UNCHANGED <<own, cluster, job, pod, zeebe, cleaner, swab, acts>>

(* A pod that succeeded uploaded.  A Job that fails, also at its deadline, *)
(* ends its pod.                                                           *)
EndJob(b) ==
  /\ pod[b].at = "running" /\ job[b] = "active"
  /\ pod' = [pod EXCEPT ![b].at = "ended"]
  /\ \/ object[b] = pod[b].db /\ job' = [job EXCEPT ![b] = "done"]
     \/ job' = [job EXCEPT ![b] = "failed"]
  /\ UNCHANGED <<own, cluster, object, zeebe, cleaner, swab, acts>>

(* The garbage collector removes the pod of a Job that is gone.            *)
CollectPod(b) ==
  /\ pod[b].at # "none" /\ job[b] \in {"none", "foreign"}
  /\ pod' = [pod EXCEPT ![b] = NoPod]
  /\ UNCHANGED <<own, cluster, job, object, zeebe, cleaner, swab, acts>>

EndCleaner(b) ==
  /\ swab[b] = "running" /\ cleaner[b] = "active"
  /\ swab' = [swab EXCEPT ![b] = "ended"]
  /\ \/ object' = [object EXCEPT ![b] = 0] /\ cleaner' = [cleaner EXCEPT ![b] = "done"]
     \/ cleaner' = [cleaner EXCEPT ![b] = "failed"] /\ UNCHANGED object
  /\ UNCHANGED <<own, cluster, job, pod, zeebe, acts>>

CollectSwab(b) ==
  /\ swab[b] # "none" /\ cleaner[b] = "none"
  /\ swab' = [swab EXCEPT ![b] = "none"]
  /\ UNCHANGED <<own, cluster, dumping, zeebe, cleaner, acts>>

(* Somebody, or the collector of terminated pods, removes an ended pod.    *)
RemovePod(b) ==
  /\ swab[b] = "ended" /\ swab' = [swab EXCEPT ![b] = "none"]
  /\ UNCHANGED <<own, cluster, dumping, zeebe, cleaner, acts>>

(* The user corrects what made the cleanup fail, and deletes the Job.      *)
RetryCleaner(b) ==
  /\ cleaner[b] = "failed" /\ cleaner' = [cleaner EXCEPT ![b] = "none"]
  /\ UNCHANGED <<own, cluster, dumping, zeebe, swab, acts>>

(* The partitions register, take their parts, or the registration grace    *)
(* ends first.                                                             *)
Progress(b) ==
  /\ present /\ uid = zeebe[b].uid
  /\ \/ zeebe[b].state = "registering"
        /\ \E s \in {"late", "running", "failed"} : zeebe' = [zeebe EXCEPT ![b].state = s]
     \/ zeebe[b].state = "running"
        /\ \E s \in {"completed", "failed"} : zeebe' = [zeebe EXCEPT ![b].state = s]
  /\ UNCHANGED <<own, cluster, dumping, cleaner, swab, acts>>

Act == acts < MaxActs /\ acts' = acts + 1

(* A user changes what the references name: the database, or the rest.     *)
ChangeWant ==
  /\ Act /\ present
  /\ \/ want' = [want EXCEPT !.db = acts + 2]
     \/ want' = [want EXCEPT !.rest = acts + 2]
  /\ UNCHANGED <<own, uid, present, runs, rolled, dumping, zeebe, cleaner, swab>>

(* The template changes first: a part that is taken from now on can come   *)
(* from the new configuration.                                             *)
Rollout ==
  /\ present /\ runs # want /\ runs' = want /\ rolled' = FALSE
  /\ zeebe' = [b \in Backups |->
                 IF zeebe[b].state \in {"registering", "running"}
                 THEN [zeebe[b] EXCEPT !.whole = FALSE] ELSE zeebe[b]]
  /\ UNCHANGED <<own, uid, present, want, dumping, cleaner, swab, acts>>

RolledOut ==
  /\ present /\ ~rolled /\ rolled' = TRUE
  /\ UNCHANGED <<own, uid, present, want, runs, dumping, zeebe, cleaner, swab, acts>>

DeleteCluster ==
  /\ Act /\ present /\ present' = FALSE
  /\ UNCHANGED <<own, uid, want, runs, rolled, dumping, zeebe, cleaner, swab>>

RecreateCluster ==
  /\ ~present /\ present' = TRUE /\ uid' = uid + 1
  /\ runs' = want /\ rolled' = TRUE
  /\ UNCHANGED <<own, want, dumping, zeebe, cleaner, swab, acts>>

(* Something else creates a Job under the name; somebody deletes one.      *)
ForeignJob(b) ==
  /\ Act /\ job[b] = "none" /\ job' = [job EXCEPT ![b] = "foreign"]
  /\ UNCHANGED <<own, cluster, pod, object, zeebe, cleaner, swab>>

RemoveJob(b) ==
  /\ Act /\ job[b] # "none" /\ job' = [job EXCEPT ![b] = "none"]
  /\ UNCHANGED <<own, cluster, pod, object, zeebe, cleaner, swab>>

Submit(b) ==
  /\ life[b] = "absent" /\ life' = [life EXCEPT ![b] = "alive"]
  /\ UNCHANGED <<status, claim, pass, cluster, dumping, zeebe, cleaning, identity, acts, lost>>

Delete(b) ==
  /\ life[b] = "alive" /\ life' = [life EXCEPT ![b] = "deleting"]
  /\ UNCHANGED <<status, claim, pass, cluster, dumping, zeebe, cleaning, identity, acts, lost>>

Reconcile(b) ==
  \/ Admit(b) \/ Park(b) \/ Start(b)
  \/ TrackJob(b) \/ Resolve(b) \/ CreateJob(b)
  \/ LoseCluster(b) \/ Prepare(b) \/ Request(b) \/ Ask(b) \/ Judge(b)
  \/ ReleaseClaim(b)

Finalize(b) ==
  \/ DeleteJob(b) \/ LeaveObject(b) \/ DeleteObject(b)
  \/ CreateCleaner(b) \/ RemoveCleaner(b) \/ RemoveFinalizer(b)

Jobs(b) == Upload(b) \/ EndJob(b) \/ CollectPod(b) \/ EndCleaner(b) \/ CollectSwab(b)

Next ==
  \/ \E b \in Backups :
       \/ Reconcile(b) \/ Finalize(b) \/ Crash(b)
       \/ Jobs(b) \/ Progress(b) \/ RemovePod(b) \/ RetryCleaner(b)
       \/ ForeignJob(b) \/ RemoveJob(b) \/ Submit(b) \/ Delete(b)
  \/ ChangeWant \/ Rollout \/ RolledOut \/ DeleteCluster \/ RecreateCluster

Spec == Init /\ [][Next]_vars

(* A backup is looked at again by its watches and its poll, the cluster    *)
(* accepts a request at last, and Jobs, pods and Zeebe backups end.  A     *)
(* user corrects a failed cleanup, as the event says.                      *)
Fairness ==
  \A b \in Backups :
    /\ WF_vars(Reconcile(b)) /\ WF_vars(Finalize(b))
    /\ SF_vars(Request(b) /\ zeebe' # zeebe)
    /\ WF_vars(Upload(b)) /\ WF_vars(EndJob(b)) /\ WF_vars(CollectPod(b))
    /\ WF_vars(EndCleaner(b)) /\ WF_vars(CollectSwab(b)) /\ WF_vars(RetryCleaner(b))
    /\ WF_vars(Progress(b))

FairSpec == Spec /\ Fairness

-----------------------------------------------------------------------------
(* Properties *)

(* A completed backup is one restore point: its dump holds the database    *)
(* that the cluster ran when the backup started, and its Zeebe backup is   *)
(* of that cluster and took every part under that configuration.  Users    *)
(* change references, roll, replace the cluster and create Jobs under the  *)
(* name in between, and status writes are lost.                            *)
CompletedIsOnePair ==
  \A b \in Backups :
    status[b].phase = "Completed" /\ life[b] = "alive" =>
      LET pin == status[b].pin IN
      /\ object[b] = pin.config.db
      /\ zeebe[b] = [state |-> "completed", whole |-> TRUE, uid |-> pin.uid]

(* A backup that is gone has no object, now or later, unless its finalizer *)
(* could not reach it: no uploader that still terminates brings it back.   *)
DeletedLeavesNothing ==
  \A b \in Backups : life[b] = "gone" => object[b] = 0 \/ b \in left

(* The statement of dump: a running backup finishes or terminalizes, and   *)
(* never parks, whatever stops to answer.                                  *)
BackupEnds ==
  \A b \in Backups : Started(status[b]) ~> (~Started(status[b]) \/ life[b] # "alive")

(* The statement of docs/crds/logicalbackuprdbms.md: a deletion removes    *)
(* the dump, if need be through a cleanup Job, and ends.                   *)
DeletionEnds ==
  \A b \in Backups : life[b] = "deleting" ~> life[b] = "gone"
=============================================================================
